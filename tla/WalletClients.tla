--------------------------- MODULE WalletClients ---------------------------
(***************************************************************************)
(* The other programs that spend from a wallet, next to the daemon of      *)
(* Wallet: the command line (main.rs) and the browser wallets, which keep  *)
(* their coins in a store of their own (here `disk' too: a behaviour has   *)
(* one kind of program, or the daemon and the command line on one file).   *)
(*                                                                         *)
(* The browser side is the Rust code of wasm-wallet, which selects, builds *)
(* and signs, run by one of two hosts: the SDK (sdk/src/wallet.js) and the *)
(* worker of the web wallet (worker.js).                                   *)
(***************************************************************************)
EXTENDS Wallet

(***************************************************************************)
(* The command line.                                                       *)
(***************************************************************************)
SaveCli(w, step) == disk' = w /\ cli' = [open |-> TRUE, w |-> w, step |-> step]

\* wallet_send: any bundles of coins the node calls live.
CliInputs(w) == w.coins \cap live
\* The node is asked for every tree before a coin is chosen.
CliVerified == VerifyLeaves(disk)
CliPlan(w, ins) == Pay(w, ins, 1)
CliSend(ins) ==
    /\ ~cli.open
    /\ Len(spends) < MaxSpends /\ disk.next < MaxKeys
    /\ Happens("commands")
    /\ LET w == CliVerified
           s == CliPlan(w, ins)
       IN /\ ins \in Selections(w, CliInputs(w), 1)
          /\ CoSpendOk(w, ins, {})
          /\ spends' = Append(spends, s)
          /\ SaveCli(Prepared(w, NewId, w.next + Cardinality(s.change)),
                     <<"wait", NewId>>)
          /\ commits' = commits \cup {NewId}
    /\ UNCHANGED <<scene, live, made, fresh, committed, reveals, daemon, sigs, dropped, web>>

\* wallet_consolidate: all live coins of an address; dead records are set aside.
CliConsolidate(a) ==
    /\ ~cli.open
    /\ Len(spends) < MaxSpends
    /\ Happens("commands")
    /\ LET w == Imported(disk, At(made, a))
           ins == ConsolidateInputs(w, a)
       IN /\ Cardinality(ins) >= 2
          /\ CoSpendOk(w, ins, At(w.coins, a) \ live)
          /\ spends' = Append(spends, Sweep(w, ins))
          /\ SaveCli(Prepared(NewTree(w), NewId, w.next), <<"wait", NewId>>)
          /\ commits' = commits \cup {NewId}
    /\ UNCHANGED <<scene, live, made, fresh, committed, reveals, daemon, sigs, dropped, web>>

\* wait_for_commit_mined, then do_reveal: signed, saved and submitted.
CliReveal ==
    /\ cli.open /\ cli.step[1] = "wait"
    /\ cli.step[2] \in committed
    /\ LET p == cli.step[2] IN
       IF Signable(cli.w, p)
       THEN /\ SaveCli(Signed(cli.w, p), <<"revealed", p>>)
            /\ Publish(p, Signatures(cli.w, p))
            /\ UNCHANGED dropped
       ELSE /\ disk' = Forgotten(cli.w, p) /\ cli' = NoWallet
            /\ dropped' = dropped \cup {p}
            /\ UNCHANGED <<sigs, reveals>>
    /\ Quiet
    /\ UNCHANGED <<scene, spends, live, made, fresh, commits, committed, daemon, web>>

\* do_reveal once the first input is gone from the chain.
CliComplete ==
    /\ cli.open /\ cli.step[1] = "revealed"
    /\ spends[cli.step[2]].ins \cap live = {}
    /\ disk' = Completed(cli.w, cli.step[2])
    /\ cli' = NoWallet
    /\ Quiet
    /\ UNCHANGED <<scene, spends, chain, daemon, sigs, dropped, web>>

\* A command that waited long enough ends; its pending commitment stays saved.
CliGiveUp ==
    /\ cli.open
    /\ cli' = NoWallet
    /\ Quiet
    /\ UNCHANGED <<scene, spends, chain, disk, daemon, sigs, dropped, web>>

\* wallet_reveal: sign, submit, and complete at once when the node accepts.
CliRevealPending(p) ==
    /\ ~cli.open /\ p \in disk.pending
    /\ Happens("commands")
    /\ LET accepted == p \in committed
           w == Signed(disk, p)
       IN IF ~Signable(disk, p)
          THEN /\ disk' = Forgotten(disk, p)
               /\ dropped' = dropped \cup {p}
               /\ UNCHANGED <<sigs, reveals>>
          ELSE /\ sigs' = sigs \cup Signatures(disk, p)
               /\ reveals' = IF accepted THEN reveals \cup {p} ELSE reveals
               /\ disk' = IF accepted \/ spends[p].out \cap live # {}
                          THEN Completed(w, p) ELSE w
               /\ UNCHANGED dropped
    /\ UNCHANGED <<scene, spends, live, made, fresh, commits, committed, daemon, cli, web>>


\* wallet_defrag: records of spent coins are set aside, the planner's bundles of
\* unsigned coins that no pending commitment holds are swept into a new tree.
CliDefrag(ins) ==
    /\ ~cli.open
    /\ Len(spends) < MaxSpends
    /\ Happens("commands")
    /\ LET w == Imported(disk, {c \in made : c.a \in Addresses(disk.coins)})
       IN /\ DefragPlan(w, ins)
          /\ CoSpendOk(w, ins, w.coins \ live)
          /\ spends' = Append(spends, Sweep(w, ins))
          /\ SaveCli(Prepared(NewTree(w), NewId, w.next), <<"wait", NewId>>)
          /\ commits' = commits \cup {NewId}
    /\ UNCHANGED <<scene, live, made, fresh, committed, reveals, daemon, sigs,
                   dropped, web>>

\* wallet_scan: what is new since its own last scan, then the leaf counters.
CliScan ==
    /\ ~cli.open /\ disk.scan # made
    /\ Happens("commands")
    /\ disk' = VerifyLeaves([Imported(disk, made \ disk.scan) EXCEPT !.scan = made])
    /\ UNCHANGED <<scene, spends, chain, daemon, cli, sigs, dropped, web>>

\* wallet_import_rewards: every live coin of the mining log that is not in the
\* file, as an unsigned coin.
CliImportRewards ==
    /\ ~cli.open
    /\ Happens("commands")
    /\ disk' = [disk EXCEPT !.coins = @ \cup (scene.rewards \cap live)]
    /\ UNCHANGED <<scene, spends, chain, daemon, cli, sigs, dropped, web>>

\* wallet_abandon.
CliForget(a) ==
    /\ ~cli.open /\ At(disk.coins, a) # {}
    /\ scene.forgets > 0 /\ Happens("commands")
    /\ disk' = [disk EXCEPT !.coins = @ \ At(@, a), !.signed = @ \ At(@, a)]
    /\ UNCHANGED <<scene, spends, chain, daemon, cli, sigs, dropped, web>>

\* wallet_restore: keys and trees are derived before one scan of the chain.
CliRestore ==
    /\ ~daemon.open /\ ~cli.open /\ ~scene.daemon
    /\ Happens("restores")
    /\ disk' = LET w == [disk EXCEPT !.coins = {}, !.signed = {}, !.pending = {},
                                     !.keys = 1..MaxKeys, !.next = MaxKeys,
                                     !.trees = Cardinality(DOMAIN disk.leaf),
                                     !.leaf = [t \in DOMAIN @ |-> 0],
                                     !.scan = made]
               IN Imported(w, made)
    /\ dropped' = dropped \cup disk.pending
    /\ UNCHANGED <<scene, spends, chain, daemon, cli, sigs, web>>

\* wallet_spend_script: coins named by the user, next to a contract's coin; the
\* one-time siblings must be among them.  Nothing is saved as pending.
CliSpendScript(ins) ==
    /\ ~cli.open
    /\ Len(spends) < MaxSpends /\ disk.next < MaxKeys
    /\ Happens("commands")
    /\ ins # {} /\ CoSpendOk(disk, ins, {})
    /\ LET s == PayWith(disk, ins, Held, 1) IN
       /\ spends' = Append(spends, s)
       /\ SaveCli([disk EXCEPT !.next = @ + Cardinality(s.change)],
                  <<"script", NewId>>)
    /\ commits' = commits \cup {NewId}
    /\ UNCHANGED <<scene, live, made, fresh, committed, reveals, daemon, sigs,
                   dropped, web>>

\* auto_sign, for every input in turn: a one-time key whose coin is flagged
\* refuses, so the second of two siblings ends the command after the first
\* was flagged and saved; a tree gives a leaf for each input.
AutoSigned(w, ins) ==
    [w EXCEPT !.signed = @ \cup {c \in ins : OneTime(c.a)},
              !.leaf = [t \in DOMAIN @ |-> @[t] + Cardinality(At(ins, Mss(t)))]]
AutoSignable(w, ins) ==
    /\ ins \subseteq w.coins \ w.signed
    /\ \A c, d \in ins : c.a = d.a /\ OneTime(c.a) => c = d
    /\ \A t \in Trees(ins) : w.leaf[t] + Cardinality(At(ins, Mss(t))) <= Leaves
CliScriptReveal ==
    /\ cli.open /\ cli.step[1] = "script"
    /\ cli.step[2] \in committed
    /\ LET p == cli.step[2]
           ins == spends[p].ins
           w == AutoSigned(cli.w, ins)
       IN IF AutoSignable(cli.w, ins)
          THEN /\ disk' = [w EXCEPT !.coins = (@ \ ins) \cup spends[p].change,
                                    !.signed = @ \ ins]
               /\ Publish(p, Signatures(cli.w, p))
          ELSE /\ \E c \in ins : disk' = AutoSigned(cli.w, {c} \ cli.w.signed)
               /\ UNCHANGED <<sigs, reveals>>
    /\ cli' = NoWallet
    /\ Quiet
    /\ UNCHANGED <<scene, spends, live, made, fresh, commits, committed, daemon,
                   dropped, web>>

-----------------------------------------------------------------------------
(***************************************************************************)
(* The browser wallets.                                                    *)
(***************************************************************************)
WebIdle == ~scene.daemon /\ web.step = <<"idle">>
Own(C) == {c \in C : IF OneTime(c.a) THEN c.a[2] <= disk.next ELSE c.a[2] <= disk.trees}

\* sync, addUtxo: outputs at any address ever derived, with the leaf counter of
\* the moment; spent coins go.
WebSync ==
    /\ WebIdle /\ scene.visits > 0 /\ fresh # {}
    /\ LET coins == (disk.coins \cup Own(fresh)) \cap live IN
       /\ disk' = [disk EXCEPT !.coins = coins]
       /\ web' = [web EXCEPT !.noted = [c \in coins |->
                     IF c \in DOMAIN @ THEN @[c]
                     ELSE IF OneTime(c.a) THEN 0 ELSE disk.leaf[c.a[2]]]]
    /\ fresh' = {}
    /\ Quiet
    /\ UNCHANGED <<scene, spends, live, made, commits, committed, reveals, daemon,
                   cli, sigs, dropped>>

\* build_reveal, build_script_reveal: each key signs once; a tree signs with the
\* leaf that came with the most valuable of its coins.
NotedLeaf(a, ins) ==
    LET best == CHOOSE c \in At(ins, a) : \A d \in At(ins, a) : d.v <= c.v
    IN IF best \in DOMAIN web.noted THEN web.noted[best] ELSE 0
WebSignatures(ins, leaf) ==
    {[a |-> a, leaf |-> IF OneTime(a) THEN 0 ELSE leaf[a[2]], p |-> NewId]
        : a \in Addresses(ins)}

WithChangeKey(s) ==
    LET n == disk.next + Cardinality(s.change)
    IN [disk EXCEPT !.next = n, !.keys = @ \cup disk.next + 1..n]

\* _broadcastTwoPhaseTx up to the commit: change keys are derived and watched,
\* the leaf counter moves for every input at a tree, all is saved; the spend
\* itself lives in memory.
SdkBroadcast(s) ==
    /\ Len(spends) < MaxSpends /\ disk.next < MaxKeys
    /\ Happens("visits")
    /\ spends' = Append(spends, s)
    /\ disk' = [WithChangeKey(s) EXCEPT
                  !.leaf = [t \in DOMAIN @ |-> @[t] + Cardinality(At(s.ins, Mss(t)))]]
    /\ commits' = commits \cup {NewId}
    /\ web' = [web EXCEPT !.step =
                  <<"sdk", NewId, WebSignatures(s.ins,
                      [t \in Trees(s.ins) |-> NotedLeaf(Mss(t), s.ins)])>>]
    /\ UNCHANGED <<scene, live, made, fresh, committed, reveals, daemon, cli, sigs,
                   dropped>>

\* reserveAndLock of the worker, which verifies and refreshes the leaves first:
\* one leaf for each tree, and the inputs are locked.
WorkerBroadcast(s, trees) ==
    /\ Len(spends) < MaxSpends /\ disk.next < MaxKeys
    /\ Happens("visits")
    /\ spends' = Append(spends, s)
    /\ LET at == [t \in DOMAIN disk.leaf |-> Max({disk.leaf[t], Seen(t)})] IN
       /\ disk' = [WithChangeKey(s) EXCEPT !.trees = trees,
                     !.leaf = [t \in DOMAIN @ |->
                                 at[t] + IF t \in Trees(s.ins) THEN 1 ELSE 0]]
       /\ web' = [web EXCEPT !.locked = @ \cup s.ins,
                     !.step = <<"worker", NewId, WebSignatures(s.ins, at)>>]
    /\ commits' = commits \cup {NewId}
    /\ UNCHANGED <<scene, live, made, fresh, committed, reveals, daemon, cli, sigs,
                   dropped>>

\* select_wasm_utxos: whole bundles of the coins the host offers.
WebSelections(C, need) == Selections(disk, C, need)

\* prepare_spend and prepare_fund_tx under the SDK.
WebPay(ins) ==
    /\ WebIdle /\ ~scene.worker
    /\ ins \in WebSelections(disk.coins, 1)
    /\ SdkBroadcast(Pay(disk, ins, 1))
WebFund(ins) ==
    /\ WebIdle /\ ~scene.worker
    /\ ins \in WebSelections(disk.coins, Held)
    /\ SdkBroadcast(Pay(disk, ins, Held))
\* prepare_script_spend: the contract's coins first, wallet coins for the rest.
ScriptInputs(pay) ==
    IF pay <= Held THEN {{}} ELSE WebSelections(disk.coins, pay - Held)
ScriptSpend(ins, pay) == PayWith(disk, ins, Held, pay)
WebScript(ins, pay) ==
    /\ WebIdle /\ ~scene.worker
    /\ ins \in ScriptInputs(pay)
    /\ SdkBroadcast(ScriptSpend(ins, pay))

\* prepare_fund_many, prepare_defrag and prepare_consolidate under the worker.
Unlocked == disk.coins \ web.locked
WebFundMany(ins) ==
    /\ WebIdle /\ scene.worker
    /\ ins \in WebSelections(Unlocked, 1)
    /\ WorkerBroadcast(Pay(disk, ins, 1), disk.trees)
WebSweep(ins) ==
    [ins |-> ins, out |-> {Coin(Mss(1), Value(ins))}, change |-> {}]
WebDefrag(ins) ==
    /\ WebIdle /\ scene.worker
    /\ ins \in WebSelections(Unlocked, 1) /\ Cardinality(ins) >= 2
    /\ WorkerBroadcast(WebSweep(ins), Max({1, disk.trees}))
WebConsolidate(a) ==
    /\ WebIdle /\ scene.worker
    /\ LET ins == At(Unlocked, a) IN
       /\ Cardinality(ins) >= 2
       /\ WorkerBroadcast(WebSweep(ins), Max({1, disk.trees}))

\* The commitment is in the chain: sign, send, and forget the inputs.
WebReveal ==
    /\ web.step[1] \in {"sdk", "worker"} /\ web.step[2] \in committed
    /\ Publish(web.step[2], web.step[3])
    /\ disk' = [disk EXCEPT !.coins = @ \ spends[web.step[2]].ins]
    /\ web' = [web EXCEPT !.step = <<"idle">>]
    /\ Quiet
    /\ UNCHANGED <<scene, spends, live, made, fresh, commits, committed, daemon,
                   cli, dropped>>

\* The answer to the reveal does not come: the inputs stay in the list.
WebRevealFails ==
    /\ web.step[1] \in {"sdk", "worker"} /\ web.step[2] \in committed
    /\ Happens("crashes")
    /\ Publish(web.step[2], web.step[3])
    /\ web' = [web EXCEPT !.step = <<"idle">>]
    /\ UNCHANGED <<scene, spends, live, made, fresh, commits, committed, disk,
                   daemon, cli, dropped>>

\* The wait for the commitment ends, or the page is closed.
WebTimeout ==
    /\ web.step[1] \in {"sdk", "worker"}
    /\ web' = [web EXCEPT !.step = <<"idle">>]
    /\ Quiet
    /\ UNCHANGED <<scene, spends, chain, disk, daemon, cli, sigs, dropped>>

-----------------------------------------------------------------------------
CliNext ==
    \/ \E ins \in SUBSET live : CliSend(ins)
    \/ \E a \in Addresses(live) : CliConsolidate(a)
    \/ CliReveal
    \/ CliComplete
    \/ CliGiveUp
    \/ \E p \in Ids : CliRevealPending(p)
    \/ \E ins \in SUBSET live : CliDefrag(ins)
    \/ CliScan
    \/ CliImportRewards
    \/ \E i \in 1..MaxKeys : CliForget(Wots(i))
    \/ CliRestore
    \/ \E ins \in SUBSET live : CliSpendScript(ins)
    \/ CliScriptReveal

WebNext ==
    \/ WebSync
    \/ \E ins \in SUBSET disk.coins : WebPay(ins)
    \/ \E ins \in SUBSET disk.coins : WebFund(ins)
    \/ \E ins \in SUBSET disk.coins, pay \in Held..Held + 1 : WebScript(ins, pay)
    \/ \E ins \in SUBSET disk.coins : WebFundMany(ins)
    \/ \E ins \in SUBSET disk.coins : WebDefrag(ins)
    \/ \E a \in Addresses(disk.coins) : WebConsolidate(a)
    \/ WebReveal
    \/ WebRevealFails
    \/ WebTimeout

Next == ChainNext \/ DaemonSteps \/ DaemonCommands \/ CliNext \/ WebNext

Spec == Init /\ [][Next]_vars

(***************************************************************************)
(* Fairness: the node mines what it holds and the daemon's tasks and       *)
(* handlers run; nothing obliges a user to give a command.                 *)
(***************************************************************************)
Fairness ==
    /\ WF_vars(\E p \in Ids : MineCommit(p))
    /\ WF_vars(\E p \in DOMAIN spends : MineReveal(p))
    /\ WF_vars(DaemonSteps)
FairSpec == Spec /\ Fairness
=============================================================================
