------------------------------ MODULE MCLedger ------------------------------
(***************************************************************************)
(* A small chain for Ledger: one starting coin, a coinbase coin per block, *)
(* a transaction that burns, one that spends its output, a consolidation,  *)
(* and one whose output already exists.                                    *)
(***************************************************************************)
EXTENDS Ledger, TLC

CONSTANTS t1, t2, t3, t4, k1, k2, A, B

G(i)     == <<"g", i>>          \* coins of the starting state
X(i)     == <<"x", i>>          \* coins transactions create
CB(h)    == <<"cb", h>>         \* the reward coin of block h
FeeCoin(h, v) == <<"fee" , 10 * h + v>>

MCCoin ==
    {G(1), G(2), G(3), X(1), X(2)}
        \cup {CB(h) : h \in 0..MaxHeight}
        \cup {FeeCoin(h, v) : h \in 0..MaxHeight, v \in {1, 2}}

MCValue ==
    [c \in MCCoin |->
        CASE c = G(1) -> 4
          [] c \in {G(2), G(3)} -> 1
          [] c = X(1) -> 2
          [] c = X(2) -> 4
          [] c \in {CB(h) : h \in 0..MaxHeight} -> block_reward(c[2])
          [] OTHER -> c[2] % 10]

MCOwner == [c \in MCCoin |-> IF c[1] = "g" THEN A ELSE B]

\* t1 spends G(1), burns 1, pays 1; t2 spends what t1 made; t3 consolidates
\* the two starting coins; t4 would create a coin that already exists.
OfTx(f) == [t \in Tx |-> f[t]]
MCTxKind ==
    OfTx(t1 :> "Reveal" @@ t2 :> "Reveal" @@ t3 :> "Consolidate" @@ t4 :> "Reveal")
MCTxIn  == OfTx(t1 :> <<G(1)>> @@ t2 :> <<X(1)>> @@ t3 :> <<G(1), G(2)>> @@ t4 :> <<G(1)>>)
MCTxOut == OfTx(t1 :> <<X(1)>> @@ t2 :> <<G(3)>> @@ t3 :> <<X(2)>> @@ t4 :> <<X(1), G(2)>>)
MCTxBurn == OfTx(t1 :> <<1>> @@ t2 :> <<>> @@ t3 :> <<>> @@ t4 :> <<>>)
MCTxKeys == OfTx(t1 :> {k1} @@ t2 :> {k2} @@ t3 :> {k1} @@ t4 :> {k1})
MCTxUnlock == OfTx(t1 :> 0 @@ t2 :> 1 @@ t3 :> 0 @@ t4 :> 0)

MCStartCoins == {G(1), G(2)}

MCCoinbases(h) ==
    {{CB(h)}, {CB(h), FeeCoin(h, 1)}, {CB(h), FeeCoin(h, 2)}}
=============================================================================
