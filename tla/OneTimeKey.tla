----------------------------- MODULE OneTimeKey -----------------------------
(***************************************************************************)
(* One-time signatures of core/wots.rs, and the partial key that two       *)
(* signatures of one key leave.  A hash chain's value is its depth: how    *)
(* often the secret start of the chain was hashed.  Messages have          *)
(* MsgChains digits of base MaxDigit + 1 (16 and 65536 in the code).       *)
(***************************************************************************)
EXTENDS Integers, Sequences, SequencesExt, FiniteSets, FiniteSetsExt

CONSTANTS MaxDigit, MsgChains,   \* MAX_DIGIT, MSG_CHAINS
          MaxSigned              \* bound: messages a careless owner signs

VARIABLES
    signed,     \* messages the owner signed with this key, each met by the node
    psk,        \* PartialSecretKey.chains; <<>> before the first signature
    burns       \* [msg, sig] forged from it

vars == <<signed, psk, burns>>

-----------------------------------------------------------------------------

Digits == 0..MaxDigit
Messages == [1..MsgChains -> Digits]
CHAINS == MsgChains + 2

Missing(msg) == FoldLeft(LAMBDA sum, d : sum + MaxDigit - d, 0, msg)
\* Mutant: the checksum adds the digits instead of what they lack.
checksum_digits_plain(msg) ==
    LET sum == FoldLeft(LAMBDA n, d : n + d, 0, msg)
    IN <<(sum \div (MaxDigit + 1)) % (MaxDigit + 1), sum % (MaxDigit + 1)>>
checksum_digits(msg) ==
    <<(Missing(msg) \div (MaxDigit + 1)) % (MaxDigit + 1), Missing(msg) % (MaxDigit + 1)>>
all_digits(msg) == msg \o checksum_digits(msg)

\* Hashing a chain's value n times.
Hashed(depth, n) == depth + n
\* The public key is every chain at its end.
keygen == [i \in 1..CHAINS |-> Hashed(0, MaxDigit)]
sign(msg) == [i \in 1..CHAINS |-> Hashed(0, all_digits(msg)[i])]
verify(sig, msg) == [i \in 1..CHAINS |-> Hashed(sig[i], MaxDigit - all_digits(msg)[i])] = keygen

\* PartialSecretKey.  A chain is known from the depth stored on.
from_signature(sig, msg) == [i \in 1..CHAINS |-> <<all_digits(msg)[i], sig[i]>>]
merge_signature(known, sig, msg) ==
    [i \in 1..CHAINS |-> IF all_digits(msg)[i] < known[i][1] THEN <<all_digits(msg)[i], sig[i]>> ELSE known[i]]
can_sign(known, msg) == \A i \in 1..CHAINS : all_digits(msg)[i] >= known[i][1]
partial_sign(known, msg) == [i \in 1..CHAINS |-> Hashed(known[i][2], all_digits(msg)[i] - known[i][1])]

-----------------------------------------------------------------------------

Init == signed = {} /\ psk = <<>> /\ burns = {}

\* The owner signs, and the node meets the signature: the first in the chain,
\* the second in a transaction that reuses the key.
Sign(msg) ==
    /\ Cardinality(signed) < MaxSigned
    /\ signed' = signed \cup {msg}
    /\ psk' = IF psk = <<>> THEN from_signature(sign(msg), msg) ELSE merge_signature(psk, sign(msg), msg)
    /\ UNCHANGED burns

\* A salt is searched whose commitment the partial key reaches.
forge_burn_transaction ==
    /\ Cardinality(signed) > 1 /\ burns = {}
    /\ \E msg \in Messages \ signed :
          /\ can_sign(psk, msg)
          /\ burns' = {[msg |-> msg, sig |-> partial_sign(psk, msg)]}
    /\ UNCHANGED <<signed, psk>>

Next == (\E msg \in Messages \ signed : Sign(msg)) \/ forge_burn_transaction
Spec == Init /\ [][Next]_vars

-----------------------------------------------------------------------------
(* Properties *)

\* The partial key has every chain once a signature was met.
TypeOK ==
    /\ signed \subseteq Messages /\ Cardinality(signed) <= MaxSigned
    /\ Len(psk) = IF signed = {} THEN 0 ELSE CHAINS

\* A key that signed once binds its owner to that one message: the checksum
\* leaves no other message whose digits all lie further along the chains.
OneSignatureOneMessage ==
    Cardinality(signed) = 1 => {m \in Messages : can_sign(psk, m)} = signed

\* Once a key has signed twice, what it leaked still covers everything it
\* signed, and what is forged from it passes verification, for its own
\* message alone.
BurnVerifies ==
    /\ \A m \in signed : can_sign(psk, m) /\ verify(partial_sign(psk, m), m)
    /\ \A b \in burns : {m \in Messages : verify(b.sig, m)} = {b.msg}
=============================================================================
