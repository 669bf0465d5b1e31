-------------------------------- MODULE Pool --------------------------------
(***************************************************************************)
(* The stratum mining pool (pool.rs) and its clients (mining.rs            *)
(* run_stratum_client): a polling loop builds block templates that pay     *)
(* miners by score, connections credit shares, a background task submits a *)
(* found block and deducts what it paid once the node has accepted it.     *)
(*                                                                         *)
(* Hashes are the records they are hashes of.  Only shares that meet the   *)
(* share target are submitted.                                             *)
(***************************************************************************)
EXTENDS Naturals, Sequences, SequencesExt, FiniteSets

CONSTANTS
    Miners, Operator,   \* payout addresses and the pool's own
    Nonces,             \* nonces miners find
    PoolRewards,        \* block values the node may ask for
    MaxClock,           \* seconds the polling loop is followed
    PoolScenes          \* how many shares are found, how often each fault happens

VARIABLES
    node,      \* the backend node: its tip, whether it is syncing
    loop,      \* the polling loop: stage, last_network_tip, job_counter
    force,     \* force_new_job
    rows,      \* SHARES_TABLE
    tree,      \* current_tree
    job,       \* current_job
    seen,      \* valid_shares
    conn,      \* what each miner's client is working on
    checking,  \* shares whose hash is being recomputed
    blocks,    \* found blocks on their way to the node
    clock, issued, credited, done, faults

vars == <<node, loop, force, rows, tree, job, seen, conn, checking, blocks,
          clock, issued, credited, done, faults>>

-----------------------------------------------------------------------------
(* Paying by score *)

NoJob == [id |-> 0]
NoRows == [a \in {} |-> 0]
RowOr0(table, a) == IF a \in DOMAIN table THEN table[a] ELSE 0

\* decompose_value, largest coin first.
DescendingCoins(v) == SelectSeq(<<16, 8, 4, 2, 1>>, LAMBDA p : (v \div p) % 2 = 1)

\* Rows with a score; zero rows never reach the allocator.
PositiveRows(table) == [a \in {a \in DOMAIN table : table[a] > 0} |-> table[a]]

\* ShareMerkleTree: leaves sorted by address, an odd layer pairs its last
\* node with itself, and no rows have no root.
Leaf(a, score) == [address |-> a, score |-> score]
Concat(x, y) == [left |-> x, right |-> y]
Leaves(table) ==
    LET sorted == SelectSeq(SetToSeq(Miners), LAMBDA a : a \in DOMAIN table)
    IN [i \in DOMAIN sorted |-> Leaf(sorted[i], table[sorted[i]])]
Sibling(layer, i) == IF i % 2 = 0 THEN i - 1 ELSE IF i < Len(layer) THEN i + 1 ELSE i
Parents(layer) ==
    [k \in 1..((Len(layer) + 1) \div 2) |->
        Concat(layer[2 * k - 1], layer[Sibling(layer, 2 * k - 1)])]
Layers(table) ==
    LET Grow(ls, x) == IF Len(Last(ls)) > 1 THEN Append(ls, Parents(Last(ls))) ELSE ls
    IN FoldLeft(Grow, <<Leaves(table)>>, SetToSeq(Miners))
Root(table) == IF DOMAIN table = {} THEN <<>> ELSE Last(Layers(table))[1]

\* generate_proof: the siblings from the leaf up, and how a client climbs them.
Indexes(table, a) ==
    LET leaf == CHOOSE i \in DOMAIN Leaves(table) : Leaves(table)[i].address = a
        Up(is, x) == Append(is, (Last(is) + 1) \div 2)
    IN FoldLeft(Up, <<leaf>>, Layers(table))
Proof(table, a) ==
    [k \in 1..(Len(Layers(table)) - 1) |->
        LET layer == Layers(table)[k] IN layer[Sibling(layer, Indexes(table, a)[k])]]
Climb(leaf, indexes, proof) ==
    FoldLeft(LAMBDA h, k : IF indexes[k] % 2 = 0 THEN Concat(proof[k], h) ELSE Concat(h, proof[k]),
             leaf, [k \in DOMAIN proof |-> k])

\* The allocator: the largest coin goes to the highest remaining score, whose
\* score drops in proportion.  Equal scores are told apart by the iteration
\* order of a hash map, here the sequence order.  Scores may turn negative, so
\* they are kept shifted by the coins' total drop.
Richest(scores, order) ==
    CHOOSE i \in DOMAIN order :
        /\ \A j \in DOMAIN order : scores[order[j]] <= scores[order[i]]
        /\ \A j \in 1..(i - 1) : scores[order[j]] < scores[order[i]]

Drop(coin, total, value) == LET d == (coin * total) \div value IN IF d = 0 THEN 1 ELSE d

Shift == 100
Allocate(table, value, order) ==
    LET total == SumFunction(table)
        Give(acc, coin) ==
            LET a == order[Richest(acc.scores, order)] IN
            [scores |-> [acc.scores EXCEPT ![a] = @ - Drop(coin, total, value)],
             outs |-> Append(acc.outs, [to |-> a, value |-> coin])]
    IN FoldLeft(Give, [scores |-> [a \in DOMAIN table |-> table[a] + Shift], outs |-> <<>>],
                DescendingCoins(value)).outs

\* The fee coins come first and carry the tree's root; without scores the
\* whole reward is the operator's.
Fee == 1
OperatorOuts(v) == [i \in DOMAIN DescendingCoins(v) |-> [to |-> Operator, value |-> DescendingCoins(v)[i]]]
Coinbase(table, reward, order) ==
    OperatorOuts(Fee) \o
    (IF DOMAIN table = {} THEN OperatorOuts(reward - Fee) ELSE Allocate(table, reward - Fee, order))

Orders(table) == SetToSeqs(DOMAIN table)

-----------------------------------------------------------------------------
(* Initial state; a restart keeps the table and the miners' connections drop *)

\* Mutant: the counter starts at zero.
Boot_zero(now) == [stage |-> "idle", lastTip |-> 0, counter |-> 0]
\* Seconds since the epoch seed the job counter.
Boot(now) == [stage |-> "idle", lastTip |-> 0, counter |-> now]
Offline == [on |-> FALSE, job |-> NoJob]

Init ==
    /\ node = [tip |-> 1, syncing |-> FALSE]
    /\ clock = 1
    /\ loop = Boot(1)
    /\ force = FALSE
    /\ rows = NoRows /\ tree = NoRows
    /\ job = NoJob
    /\ seen = {}
    /\ conn = [m \in Miners |-> Offline]
    /\ checking = {} /\ blocks = {}
    /\ issued = {} /\ credited = {}
    /\ done = [accepted |-> {}, deducted |-> {}]
    /\ faults \in PoolScenes

Fault(f) == faults[f] > 0 /\ faults' = [faults EXCEPT ![f] = @ - 1]

Restart ==
    /\ Fault("restart")
    /\ loop' = Boot(clock)
    /\ rows' = PositiveRows(rows)
    /\ force' = FALSE /\ tree' = NoRows /\ job' = NoJob /\ seen' = {}
    /\ conn' = [m \in Miners |-> Offline]
    /\ checking' = {} /\ blocks' = {}
    /\ UNCHANGED <<node, clock, issued, credited, done>>

-----------------------------------------------------------------------------
(* The polling loop *)

\* While the node is syncing there is no job.
PollSyncing ==
    /\ loop.stage = "idle" /\ node.syncing
    /\ job' = NoJob
    /\ loop' = [loop EXCEPT !.lastTip = 0]
    /\ UNCHANGED <<node, force, rows, tree, seen, conn, checking, blocks, clock, issued, credited, done, faults>>

\* A new tip, or a request for a new job: the replay cache is cleared and the
\* tree replaced before the template is asked for.
NeedsJob == node.tip # loop.lastTip \/ force
PollNew ==
    /\ loop.stage = "idle" /\ clock < MaxClock
    /\ ~node.syncing /\ NeedsJob
    /\ force' = FALSE
    /\ seen' = {}
    /\ tree' = PositiveRows(rows)
    /\ loop' = [stage |-> "template", lastTip |-> node.tip, counter |-> loop.counter + 1]
    /\ UNCHANGED <<node, rows, job, conn, checking, blocks, clock, issued, credited, done, faults>>

\* The node answers with a template on its tip of now.
BuildJob ==
    /\ loop.stage = "template"
    /\ \E reward \in PoolRewards, order \in Orders(tree) :
          job' = [id |-> loop.counter, tip |-> node.tip, scores |-> tree, root |-> Root(tree),
                  outs |-> Coinbase(tree, reward, order)]
    /\ issued' = issued \cup {job'}
    /\ loop' = [loop EXCEPT !.stage = "idle"]
    /\ clock' = clock + 1
    /\ UNCHANGED <<node, force, rows, tree, seen, conn, checking, blocks, credited, done, faults>>

\* No template: the tip is forgotten, so the next poll tries again.
AfterNoTemplate == [loop EXCEPT !.stage = "idle", !.lastTip = 0]
BuildFails ==
    /\ loop.stage = "template"
    /\ Fault("refusal")
    /\ loop' = AfterNoTemplate
    /\ clock' = clock + 1
    /\ UNCHANGED <<node, force, rows, tree, job, seen, conn, checking, blocks, issued, credited, done>>

-----------------------------------------------------------------------------
(* Connections and clients *)

\* mining.authorize answers with the current job.
Authorize(m) ==
    /\ ~conn[m].on
    /\ conn' = [conn EXCEPT ![m] = [on |-> TRUE, job |-> NoJob]]
    /\ UNCHANGED <<node, loop, force, rows, tree, job, seen, checking, blocks, clock, issued,
                   credited, done, faults>>

\* The client's audit of a job it is notified of: /api/proof is served from
\* the current tree.  A miner unknown to the tree is not audited; one with a
\* score must climb to the root in the fee coin's salt and be paid.
Audit(m, j) ==
    \/ m \notin DOMAIN tree
    \/ /\ Climb(Leaf(m, tree[m]), Indexes(tree, m), Proof(tree, m)) = j.root
       /\ \E i \in DOMAIN j.outs : j.outs[i].to = m

\* mining.notify: the audited job replaces the one being ground, or the
\* client disconnects.
Notify(m) ==
    /\ conn[m].on /\ job # NoJob /\ conn[m].job # job
    /\ conn' = [conn EXCEPT ![m] = IF Audit(m, job) THEN [on |-> TRUE, job |-> job] ELSE Offline]
    /\ UNCHANGED <<node, loop, force, rows, tree, job, seen, checking, blocks, clock, issued,
                   credited, done, faults>>

\* mining.submit: only for the current job, and each nonce once per cache.
Accepts(m, n) == job # NoJob /\ conn[m].job.id = job.id /\ n \notin seen
Submit(m, n) ==
    /\ conn[m].on
    /\ Accepts(m, n)
    /\ ~\E c \in checking : c.by = m
    /\ Fault("share")
    /\ seen' = seen \cup {n}
    /\ checking' = checking \cup {[by |-> m, job |-> job, nonce |-> n]}
    /\ UNCHANGED <<node, loop, force, rows, tree, job, conn, blocks, clock, issued, credited, done>>

\* The hash is recomputed off the reactor: a share is credited to its row,
\* and one that meets the network's target becomes a block on its way.
Credit(table, m) == [a \in DOMAIN table \cup {m} |-> RowOr0(table, a) + (IF a = m THEN 1 ELSE 0)]
Verify(c) ==
    /\ checking' = checking \ {c}
    /\ rows' = Credit(rows, c.by)
    /\ credited' = credited \cup {<<c.job.id, c.nonce>>}
    /\ \/ UNCHANGED blocks
       \/ blocks' = blocks \cup {[job |-> c.job, nonce |-> c.nonce, stage |-> "sent"]}
    /\ UNCHANGED <<node, loop, force, tree, job, seen, conn, clock, issued, done, faults>>

-----------------------------------------------------------------------------
(* Submitting a block *)

\* submit_batch says yes when the block is the tip now.
NodeAccepts(b) ==
    /\ b.stage = "sent" /\ b.job.tip = node.tip
    /\ node' = [node EXCEPT !.tip = @ + 1]
    /\ blocks' = (blocks \ {b}) \cup {[b EXCEPT !.stage = "accepted"]}
    /\ done' = [done EXCEPT !.accepted = @ \cup {b.job.id}]
    /\ UNCHANGED <<loop, force, rows, tree, job, seen, conn, checking, clock, issued, credited, faults>>

\* A block the node refuses, or one that never reaches it: scores stay and a
\* new job is requested.
NodeRejects(b) ==
    /\ b.stage = "sent"
    /\ b.job.tip # node.tip
    /\ blocks' = blocks \ {b}
    /\ force' = TRUE
    /\ UNCHANGED <<node, loop, rows, tree, job, seen, conn, checking, clock, issued, credited, done, faults>>

SubmitFails(b) ==
    /\ b.stage = "sent" /\ Fault("lost")
    /\ blocks' = blocks \ {b}
    /\ force' = TRUE
    /\ UNCHANGED <<node, loop, rows, tree, job, seen, conn, checking, clock, issued, credited, done>>

\* The deduction: each output takes its part of the table's total of now, and
\* a row that reaches zero is removed.
PaidTo(outs, a) == SelectSeq(outs, LAMBDA o : o.to = a)
ValueOf(outs) == FoldLeft(LAMBDA x, o : x + o.value, 0, outs)
Deduction(table, outs, a) ==
    FoldLeft(LAMBDA x, o : x + (o.value * SumFunction(table)) \div ValueOf(outs), 0, PaidTo(outs, a))
Remaining(table, outs, a) ==
    LET d == Deduction(table, outs, a) IN IF table[a] > d THEN table[a] - d ELSE 0
Deducted(table, outs) ==
    [a \in {a \in DOMAIN table : Remaining(table, outs, a) > 0} |-> Remaining(table, outs, a)]

Deduct(b) ==
    /\ b.stage = "accepted"
    /\ rows' = Deducted(rows, b.job.outs)
    /\ blocks' = blocks \ {b}
    /\ done' = [done EXCEPT !.deducted = @ \cup {b.job.id}]
    /\ UNCHANGED <<node, loop, force, tree, job, seen, conn, checking, clock, issued, credited, faults>>

-----------------------------------------------------------------------------
(* The network *)

NetworkBlock ==
    /\ Fault("grow")
    /\ node' = [node EXCEPT !.tip = @ + 1]
    /\ UNCHANGED <<loop, force, rows, tree, job, seen, conn, checking, blocks, clock, issued, credited, done>>

SyncStarts ==
    /\ ~node.syncing /\ Fault("sync")
    /\ node' = [node EXCEPT !.syncing = TRUE]
    /\ UNCHANGED <<loop, force, rows, tree, job, seen, conn, checking, blocks, clock, issued, credited, done>>

SyncEnds ==
    /\ node.syncing
    /\ node' = [node EXCEPT !.syncing = FALSE]
    /\ UNCHANGED <<loop, force, rows, tree, job, seen, conn, checking, blocks, clock, issued, credited, done, faults>>

-----------------------------------------------------------------------------

Poll == PollSyncing \/ PollNew \/ BuildJob
Next ==
    \/ Poll \/ BuildFails \/ Restart
    \/ \E m \in Miners : Authorize(m) \/ Notify(m) \/ \E n \in Nonces : Submit(m, n)
    \/ \E c \in checking : Verify(c)
    \/ \E b \in blocks : NodeAccepts(b) \/ NodeRejects(b) \/ SubmitFails(b) \/ Deduct(b)
    \/ NetworkBlock \/ SyncStarts \/ SyncEnds

Spec == Init /\ [][Next]_vars

\* The polling loop runs and syncs end.
Fairness == WF_vars(Poll) /\ WF_vars(SyncEnds)
FairSpec == Spec /\ Fairness

-----------------------------------------------------------------------------
(* Properties *)

\* Rows count shares, jobs pay whole block values, and a client works on a job
\* that was issued.
TypeOK ==
    /\ DOMAIN rows \subseteq Miners /\ \A a \in DOMAIN rows : rows[a] \in Nat
    /\ \A j \in issued : ValueOf(j.outs) \in PoolRewards
    /\ \A m \in Miners : conn[m].job \in issued \cup {NoJob}

\* Only work is paid: no row is left at zero, so every output that is not the
\* operator's goes to an address whose committed score is positive.
OnlyWorkIsPaid ==
    /\ \A a \in DOMAIN rows : rows[a] > 0
    /\ \A j \in issued : \A i \in DOMAIN j.outs :
          j.outs[i].to # Operator => j.outs[i].to \in DOMAIN j.scores

\* A job id means one template, across restarts: a share for a job of the
\* previous process is never taken for one of this (pool.rs: "can never
\* collide with IDs issued after it").
IdsNeverReused == \A j, k \in issued : j.id = k.id => j = k

\* Scores are deducted only for blocks the node took (pool.rs "Orphan Theft
\* Defense").
DeductedWereAccepted == done.deducted \subseteq done.accepted

\* Once the tip and the node settle, the job miners are served is one on that
\* tip and no request for a new job is left unanswered, through template
\* refusals, syncs and rejected blocks.
CaughtUp == job # NoJob /\ job.tip = node.tip /\ ~force
JobsCatchUp == <>[]CaughtUp

\* pool.rs: "Identical nonces for the same block are rejected instantly".
NonceTakenOnce ==
    [][\A c \in checking' \ checking : <<c.job.id, c.nonce>> \notin credited]_vars

\* pool.rs: a client that disconnects has caught a lying pool.  This one
\* does not lie.
HonestPoolPasses == \A m \in Miners : (conn[m].on /\ job # NoJob) => Audit(m, job)
=============================================================================
