----------------------------- MODULE MCMempool -----------------------------
(***************************************************************************)
(* A small pool: a and b are bids for the same coin (scripts without       *)
(* signatures, so one may replace the other), c spends the first two       *)
(* coins, d spends the second one with the same one-time key as c, e the   *)
(* third.                                                                  *)
(***************************************************************************)
EXTENDS Mempool, TLC

CONSTANTS a, b, c, d, e, k1, A

G(i) == <<"g", i>>
X(i) == <<"x", i>>

MCCoin == {G(1), G(2), G(3), X(1), X(2), X(3), X(4), X(5)}

MCValue == [x \in MCCoin |-> IF x = G(1) THEN 8 ELSE IF x = X(1) THEN 4
                             ELSE IF x \in {G(2), G(3)} THEN 4 ELSE IF x \in {X(4), X(5)} THEN 1 ELSE 2]
MCOwner == [x \in MCCoin |-> A]

OfTx(f) == [t \in Tx |-> f[t]]
MCTxKind == [t \in Tx |-> "Reveal"]
MCTxIn  == OfTx(a :> <<G(1)>> @@ b :> <<G(1)>> @@ c :> <<G(1), G(2)>> @@ d :> <<G(2)>> @@ e :> <<G(3)>>)
MCTxOut == OfTx(a :> <<X(1)>> @@ b :> <<X(2)>> @@ c :> <<X(3)>> @@ d :> <<X(4)>> @@ e :> <<X(5)>>)
MCTxBurn == [t \in Tx |-> <<>>]
MCTxKeys == OfTx(a :> {} @@ b :> {} @@ c :> {k1} @@ d :> {k1} @@ e :> {})
MCTxUnlock == [t \in Tx |-> 0]
MCTxRank == OfTx(a :> 1 @@ b :> 2 @@ c :> 3 @@ d :> 4 @@ e :> 5)

\* b may be sent with a leaner witness.
MCTxSizes(t) == IF t = c THEN {4} ELSE IF t = b THEN {1, 2} ELSE {2}

MCRequiredPow(n) == IF n >= 2 THEN 2 ELSE 1

MCStartCoins == {G(1), G(2), G(3)}

\* Reveals whose commitments are on chain at the start; and a and d alone,
\* whose commits have to be submitted and mined first.
MCScenes ==
    {[ages |-> [t \in Tx |-> StartHeight - 1], txs |-> Tx, bits |-> {}, blockTxs |-> 2],
     [ages |-> [t \in Tx |-> None], txs |-> {a, d}, bits |-> {1, 2}, blockTxs |-> 1]}
=============================================================================
