------------------------------ MODULE MCMining ------------------------------
(***************************************************************************)
(* mergeA and mergeB consolidate coins of one address with the same key;   *)
(* forged is the burn made from their two signatures.                      *)
(***************************************************************************)
EXTENDS Mining

CONSTANTS mergeA, mergeB, forged, k1, A

G(i) == <<"g", i>>
X(i) == <<"x", i>>

MCCoin == {G(i) : i \in 1..4} \cup {X(i) : i \in 1..2}
MCValue == [c \in MCCoin |-> 2]
MCOwner == [c \in MCCoin |-> A]

OfTx(f) == [t \in Tx |-> f[t]]
MCTxKind == OfTx(mergeA :> "Consolidate" @@ mergeB :> "Consolidate" @@ forged :> "Reveal")
MCTxIn  == OfTx(mergeA :> <<G(1), G(2)>> @@ mergeB :> <<G(3), G(4)>> @@ forged :> <<G(3)>>)
MCTxOut == OfTx(mergeA :> <<X(1)>> @@ mergeB :> <<X(2)>> @@ forged :> <<>>)
MCTxBurn == OfTx(mergeA :> <<>> @@ mergeB :> <<>> @@ forged :> <<0>>)
MCTxKeys == [t \in Tx |-> {k1}]
MCTxUnlock == [t \in Tx |-> 0]
MCTxOrder == <<mergeA, mergeB, forged>>
MCBurnOf == [t \in Tx |-> forged]
MCStartCoins == {G(i) : i \in 1..4}
MCPeerTxs == {<<>>, <<reveal(mergeA)>>, <<commit(forged)>>}
=============================================================================
