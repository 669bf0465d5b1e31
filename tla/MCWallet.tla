------------------------------ MODULE MCWallet ------------------------------
(***************************************************************************)
(* Small wallets for Wallet: two one-time addresses, the first with two    *)
(* coins, and one tree.                                                    *)
(***************************************************************************)
EXTENDS WalletClients

C(a, n, v) == [a |-> a, n |-> n, v |-> v]
TwoKeys ==
    [coins |-> {C(Wots(1), 51, 1), C(Wots(2), 52, 2)}, signed |-> {},
     keys |-> {}, next |-> 2, trees |-> 0, leaf |-> [t \in 1..2 |-> 0], pending |-> {},
     scan |-> {}]
Siblings ==
    [TwoKeys EXCEPT !.coins = {C(Wots(1), 51, 1), C(Wots(1), 52, 1)}, !.next = 1]
TreeCoins ==
    [TwoKeys EXCEPT !.coins = {C(Mss(1), 51, 1), C(Mss(1), 52, 1)}, !.next = 0,
                    !.trees = 1]

Scene(w) ==
    [wallet |-> w, daemon |-> TRUE, strict |-> TRUE, payto |-> {}, gifts |-> 0,
     crashes |-> 0, lost |-> 0, sends |-> 0, sweeps |-> 0, defrags |-> 0,
     retries |-> 0, abandons |-> 0, forgets |-> 0, addresses |-> 0,
     restores |-> 0, commands |-> 0, visits |-> 0, worker |-> FALSE, rewards |-> {}]

\* Sends against crashes, lost commits, retries and abandoned sends.
Sending == [Scene(TwoKeys) EXCEPT !.sends = 2, !.crashes = 1, !.lost = 1,
                                  !.retries = 1, !.abandons = 1]
\* Coins that arrive at used addresses while sends and defrag are under way.
Arriving == [Scene(Siblings) EXCEPT !.sends = 2, !.gifts = 1, !.payto = {1, 2},
                                    !.addresses = 1, !.defrags = 1, !.crashes = 1]
\* Two sends from one tree, a crash, and a restore from the phrase.
Leafing == [Scene(TreeCoins) EXCEPT !.sends = 2, !.crashes = 1, !.lost = 1,
                                    !.retries = 1, !.abandons = 1]
Restoring == [Scene(TwoKeys) EXCEPT !.sends = 1, !.crashes = 1, !.restores = 1,
                                    !.strict = FALSE]
\* Consolidation and forgetting an address.
Sweeping == [Scene(Siblings) EXCEPT !.sweeps = 1, !.sends = 1, !.forgets = 1,
                                    !.gifts = 1, !.payto = {1}, !.strict = FALSE]
\* The command line alone.
Alone == [Scene(Siblings) EXCEPT !.daemon = FALSE, !.strict = FALSE]
Commands == [Alone EXCEPT !.commands = 3, !.lost = 1]
Chores == [Alone EXCEPT !.wallet = TwoKeys, !.commands = 2, !.gifts = 1,
                        !.payto = {1}, !.restores = 1, !.forgets = 1,
                        !.rewards = {C(Wots(1), 51, 1)}]
\* The SDK with one-time coins, and when an answer is lost.
Sdk == [Alone EXCEPT !.wallet = TwoKeys, !.visits = 3, !.strict = TRUE, !.lost = 1]
SdkFlaky == [Sdk EXCEPT !.strict = FALSE, !.visits = 2, !.crashes = 1]
\* The worker of the web wallet on one-time coins and a tree.
Mixed == [TwoKeys EXCEPT !.coins = {C(Wots(1), 51, 1), C(Wots(1), 53, 1), C(Mss(1), 52, 1)},
                         !.next = 1, !.trees = 1]
Worker == [Sdk EXCEPT !.wallet = Mixed, !.worker = TRUE, !.crashes = 1]

MCScenes == {Sending, Arriving, Leafing, Restoring, Sweeping, Commands, Chores,
             Sdk, SdkFlaky, Worker}
MCConsolidate == {[Sweeping EXCEPT !.strict = TRUE, !.forgets = 0]}
MCSdk == {[Sdk EXCEPT !.wallet = TreeCoins]}
=============================================================================
