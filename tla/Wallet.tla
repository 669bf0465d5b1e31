------------------------------- MODULE Wallet -------------------------------
(***************************************************************************)
(* The wallet file and the programs that spend from it: the wallet daemon  *)
(* (walletd/service.rs), which keeps the wallet in memory and runs every   *)
(* send as a state machine of its own, and the command line (main.rs),     *)
(* which opens the file, works on a copy of it and writes it back.         *)
(*                                                                         *)
(* Coins lie at one-time (WOTS) addresses, whose key may sign one          *)
(* commitment ever, or at the address of a tree of such keys (MSS), whose  *)
(* leaves are handed out in order.  A spend is prepared (its commitment is *)
(* saved as pending), committed, signed and revealed, and completed when   *)
(* its inputs are gone from the chain.  A commitment is named by its place *)
(* in `spends'; what it commits to never changes.                          *)
(***************************************************************************)
EXTENDS Naturals, FiniteSets, Sequences, FiniteSetsExt

CONSTANTS
    Scenes,     \* the situations a run starts from
    MaxSpends,  \* bound: commitments prepared in a behaviour
    MaxKeys,    \* bound: one-time keys derived
    MaxInputs,  \* MAX_TX_INPUTS
    Held,       \* value of the contract coins a script spend brings in
    Leaves,     \* leaves of a tree (2^height)
    Margin      \* MSS_SAFETY_MARGIN

ASSUME WalletAssumption ==
    /\ MaxSpends \in Nat \ {0} /\ MaxKeys \in Nat \ {0}
    /\ MaxInputs \in Nat \ {0} /\ Leaves \in Nat \ {0} /\ Margin \in Nat
    /\ Held \in Nat

VARIABLES
    scene,      \* the programs and faults of this behaviour, and how often each
    spends,     \* every commitment prepared: inputs, own outputs, change
    live,       \* the wallet's coins in the node's coin set
    made,       \* every coin a block ever created at the wallet's addresses
    fresh,      \* coins in blocks the daemon has not scanned yet
    commits,    \* commitments in the mempool
    committed,  \* commitments in chain state
    reveals,    \* signed transactions in the mempool
    disk,       \* the wallet file
    daemon,     \* the daemon: open wallet, stages, monitors, step in progress
    cli,        \* a running command: its copy of the wallet and its progress
    web,        \* the web wallet: leaf noted with each coin, locks, spend under way
    sigs,       \* history: every signature that left a program
    dropped,    \* history: pending commitments a program forgot
    used        \* how often each bounded event happened

vars == <<scene, spends, live, made, fresh, commits, committed, reveals, disk,
          daemon, cli, web, sigs, dropped, used>>
chain == <<live, made, fresh, commits, committed, reveals>>

Wots(i) == <<"wots", i>>
Mss(i) == <<"mss", i>>
OneTime(a) == a[1] = "wots"
Ids == 1..MaxSpends
NoWallet == [open |-> FALSE]

At(C, a) == {c \in C : c.a = a}
Addresses(C) == {c.a : c \in C}
Value(C) == FoldSet(LAMBDA c, n : n + c.v, 0, C)

(***************************************************************************)
(* Wallet operations (wallet/mod.rs).                                      *)
(***************************************************************************)
Bundles(w, C) ==
    {At(C, a) : a \in {x \in Addresses(C) : OneTime(x)}}
        \cup {{c} : c \in {x \in C : ~OneTime(x.a)}}

\* select_coins: whole bundles worth at least `need' and small enough for one
\* transaction; more than needed may be taken (the snowball), so every union of
\* bundles is possible.
Selections(w, C, need) ==
    {UNION B : B \in {X \in SUBSET Bundles(w, C) :
                          /\ Value(UNION X) >= need
                          /\ Cardinality(UNION X) <= MaxInputs}}

\* prepare_commit: the wallet knows every input, and no coin it knows at an
\* input's one-time address stays behind, except one it knows to be spent.
CoSpendOk(w, ins, dead) ==
    /\ ins \subseteq w.coins
    /\ \A c \in ins : OneTime(c.a) => At(w.coins, c.a) \subseteq ins \cup dead

Prepared(w, p, nextKey) == [w EXCEPT !.pending = @ \cup {p}, !.next = nextKey]

\* sign_reveal, sign_consolidate: every input is known and no tree is used up.
Trees(ins) == {a[2] : a \in {x \in Addresses(ins) : ~OneTime(x)}}
Signable(w, p) ==
    /\ spends[p].ins \subseteq w.coins
    /\ \A t \in Trees(spends[p].ins) : w.leaf[t] < Leaves

Signed(w, p) ==
    LET ins == spends[p].ins IN
    [w EXCEPT !.signed = @ \cup {c \in w.coins : OneTime(c.a)
                                                 /\ c.a \in Addresses(ins)},
              !.leaf = [t \in DOMAIN @ |->
                           IF t \in Trees(ins) THEN @[t] + 1 ELSE @[t]]]
Signatures(w, p) ==
    {[a |-> a, leaf |-> IF OneTime(a) THEN 0 ELSE w.leaf[a[2]], p |-> p]
        : a \in Addresses(spends[p].ins)}

\* Mutant: change seeds are dropped with the pending commitment.
Completed_nochange(w, p) ==
    [w EXCEPT !.coins = @ \ spends[p].ins, !.signed = @ \ spends[p].ins,
              !.pending = @ \ {p}]

\* complete_reveal: inputs go, change coins come with the seeds kept for them.
Completed(w, p) ==
    [w EXCEPT !.coins = (@ \ spends[p].ins) \cup spends[p].change,
              !.signed = @ \ spends[p].ins,
              !.pending = @ \ {p}]

Forgotten(w, p) == [w EXCEPT !.pending = @ \ {p}]

\* import_scanned, for the coins found in a range of blocks: a key waiting for
\* its first coin, a tree, or an address with coins whose key has not signed.
Watched(w) == {Wots(i) : i \in w.keys} \cup {Mss(t) : t \in 1..w.trees}
                  \cup Addresses(w.coins)
Importable(w, C) ==
    {c \in C \ w.coins : /\ c.a \in Watched(w)
                         /\ \/ c.a \notin Addresses(w.signed)
                            \/ c.a \in {Wots(i) : i \in w.keys}}
Imported(w, C) ==
    LET new == Importable(w, C) IN
    [w EXCEPT !.coins = @ \cup new,
              !.keys = @ \ {i \in @ : Wots(i) \in Addresses(new)}]

\* generate_key, generate_mss and allocate_next_wots_seed: indices only grow.
NewKey(w) == [w EXCEPT !.next = @ + 1, !.keys = @ \cup {w.next + 1}]
NewTree(w) == [w EXCEPT !.trees = @ + 1]

\* The node's answer about a tree: one more than the highest leaf in a
\* transaction of the chain or of the mempool.
Seen(t) ==
    Max({0} \cup {s.leaf + 1 : s \in {x \in sigs : x.a = Mss(t)}})
VerifyLeaves(w) ==
    [w EXCEPT !.leaf = [t \in DOMAIN @ |->
        IF t <= w.trees /\ Seen(t) > @[t] THEN Seen(t) + Margin ELSE @[t]]]

-----------------------------------------------------------------------------
Happens(e) == /\ used[e] < scene[e]
              /\ used' = [used EXCEPT ![e] = @ + 1]
Quiet == used' = used

NewId == Len(spends) + 1
Coin(a, v) == [a |-> a, n |-> NewId, v |-> v]

\* Appends the spend of `ins': a payment of `pay' to someone else with the
\* change at the next one-time key, or a sweep of everything into a new tree.
\* `held' is value a contract's coins bring in.
PayWith(w, ins, held, pay) ==
    LET rest == Value(ins) + held - pay
        change == IF rest > 0 THEN {Coin(Wots(w.next + 1), rest)} ELSE {}
    IN [ins |-> ins, out |-> change, change |-> change]
Pay(w, ins, pay) == PayWith(w, ins, 0, pay)
Sweep(w, ins) ==
    [ins |-> ins, out |-> {Coin(Mss(w.trees + 1), Value(ins))}, change |-> {}]

Init ==
    /\ scene \in Scenes
    /\ spends = <<>>
    /\ live = scene.wallet.coins /\ made = live /\ fresh = {}
    /\ commits = {} /\ committed = {} /\ reveals = {}
    /\ disk = scene.wallet
    /\ daemon = NoWallet
    /\ cli = NoWallet
    /\ web = [noted |-> [c \in live |-> 0], locked |-> {}, step |-> <<"idle">>]
    /\ sigs = {} /\ dropped = {}
    /\ used = [e \in {"gifts", "crashes", "lost", "sends", "sweeps",
                      "defrags", "retries", "abandons", "forgets", "addresses", "restores", "commands",
                      "visits"} |-> 0]

(***************************************************************************)
(* The chain, as the wallet sees it through the node.                      *)
(***************************************************************************)
\* Somebody pays to an address the wallet once gave out.
Gift(a) ==
    /\ Happens("gifts")
    /\ LET c == [a |-> a, n |-> 100 + used["gifts"], v |-> 1] IN
       /\ live' = live \cup {c}
       /\ made' = made \cup {c}
       /\ fresh' = fresh \cup {c}
    /\ UNCHANGED <<scene, spends, commits, committed, reveals, disk, daemon,
                   cli, sigs, dropped, web>>

MineCommit(p) ==
    /\ p \in commits
    /\ commits' = commits \ {p}
    /\ committed' = committed \cup {p}
    /\ Quiet
    /\ UNCHANGED <<scene, spends, live, made, fresh, reveals, disk, daemon, cli,
                   sigs, dropped, web>>

\* A commit is evicted from the mempool, or outlives its place in chain state.
LoseCommit(p) ==
    /\ p \in commits \cup committed
    /\ Happens("lost")
    /\ commits' = commits \ {p}
    /\ committed' = committed \ {p}
    /\ UNCHANGED <<scene, spends, live, made, fresh, reveals, disk, daemon, cli,
                   sigs, dropped, web>>

MineReveal(p) ==
    /\ p \in reveals /\ p \in committed
    /\ spends[p].ins \subseteq live
    /\ live' = (live \ spends[p].ins) \cup spends[p].out
    /\ made' = made \cup spends[p].out
    /\ fresh' = fresh \cup spends[p].out
    /\ committed' = committed \ {p}
    /\ reveals' = reveals \ {p}
    /\ Quiet
    /\ UNCHANGED <<scene, spends, commits, disk, daemon, cli, sigs, dropped, web>>

(***************************************************************************)
(* The daemon.  Commands and messages are handled one at a time; `step' is *)
(* the handler in progress, which a crash can cut short.                   *)
(***************************************************************************)
Idle == daemon.open /\ daemon.step = <<"idle">>
Stage(p, s) == [daemon.stage EXCEPT ![p] = s]

\* unlock, resume_pendings: a pending spend whose commitment is in the chain is
\* revealed, every other one is Stalled.
Unlock ==
    /\ scene.daemon /\ ~daemon.open
    /\ LET ready == disk.pending \cap committed IN
       daemon' = [open |-> TRUE, w |-> disk,
                  stage |-> [p \in Ids |->
                      IF p \in ready THEN "CommitPending"
                      ELSE IF p \in disk.pending THEN "Stalled" ELSE "none"],
                  monitors |-> {}, inbox |-> {<<"TryReveal", p>> : p \in ready},
                  step |-> <<"idle">>]
    /\ Quiet
    /\ UNCHANGED <<scene, spends, chain, disk, cli, sigs, dropped, web>>

Crash ==
    /\ daemon.open
    /\ Happens("crashes")
    /\ daemon' = NoWallet
    /\ UNCHANGED <<scene, spends, chain, disk, cli, sigs, dropped, web>>

\* save() writes the daemon's copy over the file.
SaveDaemon(w, stage, step) ==
    /\ disk' = w
    /\ daemon' = [daemon EXCEPT !.w = w, !.stage = stage, !.step = step]

InFlight(w) == UNION {spends[p].ins : p \in w.pending}

\* Mutant: only the signed flag is left out of the filter.
Spendable_signed(w) == {c \in w.coins \cap live : c \notin InFlight(w)}

\* start_send: coins in the chain, unsigned and not promised to a pending
\* commitment.
Spendable(w) == {c \in w.coins \cap live : c \notin w.signed
                                           /\ c \notin InFlight(w)}
StartSend(ins) ==
    /\ Idle
    /\ Len(spends) < MaxSpends /\ daemon.w.next < MaxKeys
    /\ Happens("sends")
    /\ LET w == VerifyLeaves(daemon.w)
           s == Pay(w, ins, 1)
       IN /\ ins \in Selections(w, Spendable(w), 1)
          /\ CoSpendOk(w, ins, {})
          /\ spends' = Append(spends, s)
          /\ SaveDaemon(Prepared(w, NewId, w.next + Cardinality(s.change)),
                        Stage(NewId, "Committing"), <<"commit", NewId>>)
    /\ UNCHANGED <<scene, chain, cli, sigs, dropped, web>>

\* consolidate: every live coin of one address, after a scan of that address.
ConsolidateInputs(w, a) == At(w.coins \cap live, a)
Consolidate(a) ==
    /\ Idle
    /\ Len(spends) < MaxSpends
    /\ Happens("sweeps")
    /\ LET w == Imported(VerifyLeaves(daemon.w), At(made, a))
           ins == ConsolidateInputs(w, a)
       IN /\ Cardinality(ins) >= 2
          /\ CoSpendOk(w, ins, {})
          /\ spends' = Append(spends, Sweep(w, ins))
          /\ SaveDaemon(Prepared(NewTree(w), NewId, w.next),
                        Stage(NewId, "Committing"), <<"commit", NewId>>)
    /\ UNCHANGED <<scene, chain, cli, sigs, dropped, web>>

\* spendable_bundles, plan_defrag_batch: at least two one-time addresses.
SpendableBundles(w) == {c \in Spendable(w) : OneTime(c.a)}
DefragPlan(w, ins) ==
    /\ ins \in Selections(w, SpendableBundles(w), 2)
    /\ Cardinality(Addresses(ins)) >= 2

\* defrag: the planner's bundles are live, unsigned and not pending.
Defrag(ins) ==
    /\ Idle
    /\ Len(spends) < MaxSpends
    /\ Happens("defrags")
    /\ LET w == Imported(VerifyLeaves(daemon.w),
                         {c \in made : c.a \in Addresses(daemon.w.coins)})
       IN /\ DefragPlan(w, ins)
          /\ CoSpendOk(w, ins, {})
          /\ spends' = Append(spends, Sweep(w, ins))
          /\ SaveDaemon(Prepared(NewTree(w), NewId, w.next),
                        Stage(NewId, "Committing"), <<"commit", NewId>>)
    /\ UNCHANGED <<scene, chain, cli, sigs, dropped, web>>

\* broadcast_commit: the second half of a send, a sweep or a retry.
BroadcastCommit ==
    /\ daemon.open /\ daemon.step[1] = "commit"
    /\ LET p == daemon.step[2] IN
       /\ commits' = commits \cup ({p} \ committed)
       /\ daemon' = [daemon EXCEPT !.stage[p] = "CommitPending",
                                   !.monitors = @ \cup {<<"commit", p>>},
                                   !.step = <<"idle">>]
    /\ Quiet
    /\ UNCHANGED <<scene, spends, live, made, fresh, committed, reveals, disk, cli,
                   sigs, dropped, web>>

\* spawn_commit_monitor and spawn_reveal_monitor: what a watcher task reports.
Report(m, msg) ==
    /\ daemon.open /\ m \in daemon.monitors
    /\ daemon' = [daemon EXCEPT !.monitors = @ \ {m},
                                !.inbox = @ \cup {<<msg, m[2]>>}]
    /\ Quiet
    /\ UNCHANGED <<scene, spends, chain, disk, cli, sigs, dropped, web>>
CommitSeen(p) == p \in committed /\ Report(<<"commit", p>>, "TryReveal")
CommitPatience(p) == p \notin committed /\ Report(<<"commit", p>>, "CommitStalled")
RevealSeen(p) ==
    /\ \E c \in spends[p].ins \ live : TRUE
    /\ Report(<<"reveal", p>>, "RevealConfirmed")

Take(msg, p) == Idle /\ <<msg, p>> \in daemon.inbox

HandleStalled(p) ==
    /\ Take("CommitStalled", p)
    /\ daemon' = [daemon EXCEPT !.inbox = @ \ {<<"CommitStalled", p>>},
                                !.stage[p] = "Stalled"]
    /\ Quiet
    /\ UNCHANGED <<scene, spends, chain, disk, cli, sigs, dropped, web>>

\* try_reveal up to its save: signed, or dropped because an input is gone from
\* the wallet.
SignSpend(p, d) ==
    /\ IF Signable(d.w, p)
       THEN /\ disk' = Signed(d.w, p)
            /\ daemon' = [d EXCEPT !.w = disk', !.stage[p] = "WaitingReveal",
                                   !.step = <<"reveal", p, Signatures(d.w, p)>>]
            /\ UNCHANGED dropped
       ELSE /\ disk' = Forgotten(d.w, p)
            /\ daemon' = [d EXCEPT !.w = disk', !.stage[p] = "Failed"]
            /\ dropped' = dropped \cup {p}
    /\ UNCHANGED <<chain, sigs>>
TryReveal(p) ==
    /\ Take("TryReveal", p)
    /\ LET d == [daemon EXCEPT !.inbox = @ \ {<<"TryReveal", p>>}] IN
       IF p \in d.w.pending
       THEN SignSpend(p, d)
       ELSE daemon' = d /\ UNCHANGED <<chain, disk, sigs, dropped>>
    /\ Quiet
    /\ UNCHANGED <<scene, spends, cli, web>>

\* try_reveal after its save: the signature leaves the daemon.
Publish(p, S) ==
    /\ sigs' = sigs \cup S
    /\ reveals' = reveals \cup {p}
\* Mutant: nobody watches for the reveal.
BroadcastReveal_unwatched ==
    /\ daemon.open /\ daemon.step[1] = "reveal"
    /\ LET p == daemon.step[2] IN
       /\ Publish(p, daemon.step[3])
       /\ daemon' = [daemon EXCEPT !.stage[p] = "RevealPending", !.step = <<"idle">>]
    /\ Quiet
    /\ UNCHANGED <<scene, spends, live, made, fresh, commits, committed, disk, cli,
                   dropped, web>>

BroadcastReveal ==
    /\ daemon.open /\ daemon.step[1] = "reveal"
    /\ LET p == daemon.step[2] IN
       /\ Publish(p, daemon.step[3])
       /\ daemon' = [daemon EXCEPT !.stage[p] = "RevealPending",
                                   !.monitors = @ \cup {<<"reveal", p>>},
                                   !.step = <<"idle">>]
    /\ Quiet
    /\ UNCHANGED <<scene, spends, live, made, fresh, commits, committed, disk, cli,
                   dropped, web>>

HandleConfirmed(p) ==
    /\ Take("RevealConfirmed", p)
    /\ LET d == [daemon EXCEPT !.inbox = @ \ {<<"RevealConfirmed", p>>}] IN
       IF p \in d.w.pending
       THEN /\ disk' = Completed(d.w, p)
            /\ daemon' = [d EXCEPT !.w = disk', !.stage[p] = "Confirmed"]
       ELSE /\ disk' = disk
            /\ daemon' = [d EXCEPT !.stage[p] = "Failed"]
    /\ Quiet
    /\ UNCHANGED <<scene, spends, chain, cli, sigs, dropped, web>>

\* retry_send has no look at the stage: reveal if committed, else commit again.
RetrySend(p) ==
    /\ Idle /\ p \in daemon.w.pending
    /\ Happens("retries")
    /\ IF p \in committed
       THEN SignSpend(p, daemon)
       ELSE /\ daemon' = [daemon EXCEPT !.stage[p] = "Committing",
                                        !.step = <<"commit", p>>]
            /\ UNCHANGED <<chain, disk, sigs, dropped>>
    /\ UNCHANGED <<scene, spends, cli, web>>

AbandonSend(p) ==
    /\ Idle
    /\ daemon.stage[p] = "Stalled"
    /\ Happens("abandons")
    /\ SaveDaemon(Forgotten(daemon.w, p), Stage(p, "Failed"), daemon.step)
    /\ dropped' = dropped \cup {p}
    /\ UNCHANGED <<scene, spends, chain, cli, sigs, web>>

AbandonAddress(a) ==
    /\ Idle /\ At(daemon.w.coins, a) # {}
    /\ Happens("forgets")
    /\ SaveDaemon([daemon.w EXCEPT !.coins = @ \ At(@, a),
                                   !.signed = @ \ At(@, a)],
                  daemon.stage, daemon.step)
    /\ UNCHANGED <<scene, spends, chain, cli, sigs, dropped, web>>

NewAddress ==
    /\ Idle /\ daemon.w.next < MaxKeys
    /\ Happens("addresses")
    /\ SaveDaemon(NewKey(daemon.w), daemon.stage, daemon.step)
    /\ UNCHANGED <<scene, spends, chain, cli, sigs, dropped, web>>

\* tick: the blocks not scanned yet are searched for watched addresses.
Scan ==
    /\ Idle /\ fresh # {}
    /\ fresh' = {}
    /\ SaveDaemon(Imported(daemon.w, fresh), daemon.stage, daemon.step)
    /\ Quiet
    /\ UNCHANGED <<scene, spends, live, made, commits, committed, reveals, cli, sigs,
                   dropped, web>>

\* restore: the file is rebuilt from the phrase: keys from the first index, no
\* pending commitments and no memory of what has signed; the scan starts over.
Restore ==
    /\ ~daemon.open /\ ~cli.open
    /\ Happens("restores")
    /\ disk' = [coins |-> {}, signed |-> {}, keys |-> 1..MaxKeys,
                next |-> MaxKeys, trees |-> 0, scan |-> {},
                leaf |-> [t \in DOMAIN disk.leaf |-> 0], pending |-> {}]
    /\ fresh' = made
    /\ dropped' = dropped \cup disk.pending
    /\ UNCHANGED <<scene, spends, live, made, commits, committed, reveals, daemon,
                   cli, sigs, web>>

-----------------------------------------------------------------------------
ChainNext ==
    \/ \E i \in 1..MaxKeys : i \in scene.payto /\ Gift(Wots(i))
    \/ \E p \in Ids : MineCommit(p)
    \/ \E p \in Ids : LoseCommit(p)
    \/ \E p \in DOMAIN spends : MineReveal(p)

DaemonSteps ==
    \/ BroadcastCommit
    \/ BroadcastReveal
    \/ \E p \in DOMAIN spends :
          CommitSeen(p) \/ CommitPatience(p) \/ RevealSeen(p)
          \/ HandleStalled(p) \/ TryReveal(p) \/ HandleConfirmed(p)

DaemonCommands ==
    \/ Unlock
    \/ \E ins \in SUBSET live : StartSend(ins)
    \/ \E a \in Addresses(live) : Consolidate(a)
    \/ \E ins \in SUBSET live : Defrag(ins)
    \/ \E p \in Ids : RetrySend(p)
    \/ \E p \in Ids : AbandonSend(p)
    \/ \E i \in 1..MaxKeys : AbandonAddress(Wots(i))
    \/ NewAddress
    \/ Scan
    \/ Restore
    \/ Crash

-----------------------------------------------------------------------------
\* Memory and file agree on what exists: coins come from blocks or from own
\* spends, signed flags belong to known one-time coins, pendings to commitments.
TypeOK ==
    /\ live \subseteq made
    /\ fresh \subseteq made
    /\ commits \cup committed \cup reveals \subseteq DOMAIN spends
    /\ disk.pending \cup dropped \subseteq DOMAIN spends
    /\ disk.signed \subseteq {c \in disk.coins : OneTime(c.a)}
    /\ disk.keys \subseteq 1..disk.next
    /\ daemon.open /\ scene.commands = 0 => daemon.w = disk

\* A one-time key signs one commitment ever ("A WOTS key must never sign two
\* different commitments", select_coins), whatever the daemon is asked to do and
\* wherever it crashes.  The scenes with the command line, with consolidate or
\* with a restore from the phrase are left out: there it does not hold.
KeySignsOnce ==
    scene.strict =>
        \A s, t \in sigs : s.a = t.a /\ OneTime(s.a) => s.p = t.p

\* A leaf of a tree signs one commitment ever, also after a restore from the
\* phrase, as long as one program at a time works on the file.
LeafSignsOnce ==
    ~(scene.daemon /\ scene.commands > 0) =>
        \A s, t \in sigs : s.a = t.a /\ s.leaf = t.leaf /\ ~OneTime(s.a) => s.p = t.p

\* The file describes what exists, and no one-time key or leaf signs twice
\* (wallet/mod.rs, mss.rs).
KeysSignOnce == TypeOK /\ KeySignsOnce /\ LeafSignsOnce

\* Change is never lost: once a reveal is mined, the wallet file holds its change
\* coin, or the pending commitment with the seed for it, until a later reveal
\* spends it (after a restore: the key the coming scan will find it by); an
\* abandoned commitment is excepted.
ChangeKept ==
    scene.forgets = 0 =>
        \A p \in DOMAIN spends \ dropped :
            spends[p].change \cap live \subseteq
                disk.coins \cup (IF p \in disk.pending THEN spends[p].change ELSE {})
                           \cup UNION {spends[s.p].ins : s \in sigs}
                           \cup {c \in fresh : c.a \in Watched(disk)}

\* Every send comes to rest: confirmed, failed or stalled, unless the daemon
\* stops, or the commitment runs out after the reveal was sent: the reveal
\* monitor has no deadline, and such a send waits for a retry.
Moving == {"Committing", "CommitPending", "WaitingReveal", "RevealPending"}
SendSettles ==
    \A p \in Ids : (daemon.open /\ daemon.stage[p] \in Moving) ~>
                   \/ ~daemon.open \/ daemon.stage[p] \notin Moving
                   \/ p \in reveals \ committed

\* "Only allowed before anything is signed ... so the coins are untouched and the
\* one-time keys unsigned" (abandon_send).
AbandonedUnsigned ==
    scene.forgets + scene.restores = 0 => \A p \in dropped : \A s \in sigs : s.p # p
=============================================================================
