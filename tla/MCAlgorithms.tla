---------------------------- MODULE MCAlgorithms ----------------------------
(***************************************************************************)
(* The sequential algorithms, each checked against a definition that does  *)
(* not mention it, in one run: the script machine, the mountain range of   *)
(* block hashes, the coin tree, compact filters, difficulty and            *)
(* timestamps, one-time signatures, the price gate of the RPC server.  A   *)
(* behaviour follows one of them, the part.                                *)
(***************************************************************************)
EXTENDS Integers, Sequences, FiniteSets, TLC

CONSTANTS
    Base, IntBytes, MaxScript, MaxDepth, MaxItem, MaxSigops,
    MaxLeaves,
    SmtHeight, CacheMin, CoinIds,
    P, FprInverse, ByteBits, RawHashes, Batches, Wallets,
    BlockTime, HalfLife, Window, LegacyFuture, Future, FixHeight, TargetBits,
    FixBits, GenesisTarget, MaxWork, MaxHeight, MaxClock,
    MaxDigit, MsgChains, MaxSigned,
    Clients, Addresses, AddressOf, FreeRequests, Tier2Requests, MinZeros,
    MaxZeros, WindowSecs, MaxTracked, ProofAge, MaxServed, MaxTime

VARIABLES
    part,
    case, pc, stack, exec, sigops, verdict,
    range, leafCount, v2,
    coins, cache, buckets,
    batch, raw, wanted, data, read, cumulative, qi, found,
    now, stamps, target, depth,
    signed, psk, burns,
    gate, proof, served, since, second

S == INSTANCE Scripts
M == INSTANCE MountainRange
C == INSTANCE CoinTree
F == INSTANCE Filters
T == INSTANCE Timeline
K == INSTANCE OneTimeKey
G == INSTANCE PriceGate

scriptVars == <<case, pc, stack, exec, sigops, verdict>>
rangeVars == <<range, leafCount>>
treeVars == <<coins, cache, buckets>>
filterVars == <<batch, raw, wanted, data, read, cumulative, qi, found>>
clockVars == <<now, stamps, target, depth>>
keyVars == <<signed, psk, burns>>
gateVars == <<gate, proof, served, since, second>>
vars == <<part, scriptVars, rangeVars, v2, treeVars, filterVars, clockVars, keyVars,
          gateVars>>

-----------------------------------------------------------------------------
(* Scripts: the wallet's scripts with every short witness, every program of  *)
(* five pushes and conditionals, every opcode on small and large operands    *)

Ctx(h, outs, v) == [height |-> h, outputs |-> outs, value |-> v, state |-> S!Raw(<<>>)]
Out(a, v) == [addr |-> S!Addr(a), value |-> v, state |-> S!Raw(<<>>)]
Items == {S!Sig("a"), S!Sig("b"), S!Sig("c"), S!Secret("s"), S!Secret("t"),
          S!Raw(<<1>>), S!Raw(<<0>>), S!Raw(<<>>)}
Witnesses == UNION {[1..n -> Items] : n \in 0..3}
Heights == {Ctx(h, <<>>, 8) : h \in {1, 2}}
Payouts == {<<>>, <<Out("buyer", 2)>>, <<Out("buyer", 2), Out("self", 4), Out("buyer", 2)>>,
            <<Out("buyer", 8), Out("buyer", 8)>>, <<Out("self", 8), Out("self", 4)>>}
Paid == {Ctx(h, outs, v) : h \in {1, 2}, outs \in Payouts, v \in {2, 8}}
Named(name, prog, ctxs) == [name |-> name, prog |-> prog, wits |-> Witnesses, ctxs |-> ctxs]
Plain(prog) ==
    [name |-> "any", prog |-> prog, wits |-> {<<>>},
     ctxs |-> {[Ctx(1, <<Out("buyer", 2)>>, 8) EXCEPT !.state = <<"state", 1>>]}]
H == S!Hash(S!Secret("s"))
Flow == {S!push(S!True), S!push(S!False), S!Op("IF"), S!Op("ELSE"), S!Op("ENDIF")}
Flows == {Plain(q) : q \in UNION {[1..n -> Flow] : n \in 0..5}}
Operands == {S!Raw(<<>>), S!Raw(<<2>>), S!Raw(<<3, 3>>), S!Raw(<<0, 1, 2, 3>>), S!Addr("buyer")}
Sums == {Plain(<<S!push(x), S!push(y), S!push(z), S!Op(op)>>) :
            x \in Operands, y \in Operands, z \in Operands,
            op \in (S!Opcodes \ {"PUSH"}) \cup {"BAD", "CUT"}}
MCCases ==
    {Named("p2pk", S!compile_p2pk("a"), {Ctx(1, <<>>, 8)}),
     Named("htlc", S!compile_htlc(H, "a", S!Timeout, "b"), Heights),
     Named("covenant", S!compile_covenant_htlc(H, S!Addr("buyer"), S!Payout, S!Timeout, "b"), Paid),
     Named("order", S!compile_limit_order_covenant(H, S!Payout, S!Timeout, "b"), Paid),
     Named("2of2", S!compile_multisig_2of2("a", "b"), {Ctx(1, <<>>, 8)}),
     Named("2of3", S!compile_multisig_2of3("a", "b", "c"), {Ctx(1, <<>>, 8)}),
     Named("channel", S!covenant_bytes("a", "b", S!Timeout), Heights)}
    \cup Flows \cup Sums

(* Filters: four items under hash functions with and without collisions *)

FilterItems == 1..4
NoCoin == 0 - 1
Entry(c, a) == [coin |-> c, address |-> a]
MCBatches ==
    {[commits |-> c, inputs |-> i, outputs |-> o, coinbase |-> b] :
        c \in {{}, {1}}, i \in {{}, {Entry(2, 3)}},
        o \in {{}, {Entry(NoCoin, 4)}, {Entry(1, 4), Entry(2, 4)}},
        b \in {{}, {Entry(4, 3)}}}
MCRaw == {[i \in FilterItems |-> (i * a + 3) % 32] : a \in {1, 5, 8, 13}}
MCWallets == SUBSET FilterItems

(* Price gate: a and b come from one address *)

MCAddressOf == ("a" :> "x") @@ ("b" :> "x") @@ ("c" :> "y")

-----------------------------------------------------------------------------
Parts == {"script", "range", "tree", "filter", "clock", "key", "gate"}
Follow(p, init, idle) == IF part = p THEN init ELSE idle

Init ==
    /\ part \in Parts
    /\ Follow("script", S!Init(MCCases), case = 0 /\ pc = 0 /\ stack = 0 /\ exec = 0 /\ sigops = 0 /\ verdict = 0)
    /\ range = <<>> /\ leafCount = 0
    /\ coins = {} /\ cache = <<>> /\ buckets = <<>>
    /\ IF part \in {"range", "tree"} THEN v2 \in BOOLEAN ELSE v2 = FALSE
    /\ Follow("filter", F!Init, batch = 0 /\ raw = 0 /\ wanted = 0 /\ data = 0 /\ read = 0
                                /\ cumulative = 0 /\ qi = 0 /\ found = 0)
    /\ Follow("clock", T!Init, now = 0 /\ stamps = <<>> /\ target = 0 /\ depth = 0)
    /\ K!Init
    /\ G!Init

Next ==
    \/ part = "script" /\ S!Next
       /\ UNCHANGED <<part, rangeVars, v2, treeVars, filterVars, clockVars, keyVars, gateVars>>
    \/ part = "range" /\ M!Next
       /\ UNCHANGED <<part, scriptVars, treeVars, filterVars, clockVars, keyVars, gateVars>>
    \/ part = "tree" /\ C!Next
       /\ UNCHANGED <<part, scriptVars, rangeVars, filterVars, clockVars, keyVars, gateVars>>
    \/ part = "filter" /\ F!Next
       /\ UNCHANGED <<part, scriptVars, rangeVars, v2, treeVars, clockVars, keyVars, gateVars>>
    \/ part = "clock" /\ T!Next
       /\ UNCHANGED <<part, scriptVars, rangeVars, v2, treeVars, filterVars, keyVars, gateVars>>
    \/ part = "key" /\ K!Next
       /\ UNCHANGED <<part, scriptVars, rangeVars, v2, treeVars, filterVars, clockVars, gateVars>>
    \/ part = "gate" /\ G!Next
       /\ UNCHANGED <<part, scriptVars, rangeVars, v2, treeVars, filterVars, clockVars, keyVars>>

Spec == Init /\ [][Next]_vars

-----------------------------------------------------------------------------
(* Properties: those of the parts *)

\* Scripts: the machine keeps its limits; a wallet's script is satisfied by
\* exactly the spends it was written for, whatever items the witness holds
\* (compile_*); a validated program meets no unmatched ELSE or ENDIF and ends
\* with every conditional closed (validate_structure); an instruction runs
\* exactly when every conditional around it took the branch it is in
\* (exec_stack, script.rs).
ScriptsSound ==
    part = "script" =>
        S!TypeOK /\ S!SpentAsMeant /\ S!ConditionalsClosed /\ S!RunsItsBranch

\* Merkle trees: the range is the post-order walk of the forest of perfect
\* trees over its leaves (append, peaks, pos_height); however coins came and
\* went, the cache is the tree of the coins in the mode in force
\* (UtxoAccumulator); a proof of either stands for its own leaf or coin alone
\* and verifies only in the mode its path was hashed in (mmr.rs).
MerkleSound ==
    /\ part = "range" => M!TypeOK /\ M!RangeIsForest /\ M!RangeProofs
    /\ part = "tree" => C!TypeOK /\ C!CacheIsTree /\ C!CoinProofs

\* Filters: a block that concerns the wallet is never passed over (filter.rs
\* build, match_any).
FilterFindsBlocks == part = "filter" => F!TypeOK /\ F!FilterFindsBlocks

\* Difficulty: later timestamps never harden the target, a half-life doubles
\* it, nothing overflows (calculate_target); the median of the last blocks
\* never goes back (validate_timestamp, state.rs).
ClockSound ==
    /\ [](part = "clock" => T!TypeOK /\ T!TargetFollowsDrift)
    /\ [][T!MedianStep]_vars

\* One-time keys: one signature binds to one message (checksum), and what is
\* forged from two signatures passes verification for its own message alone
\* (wots.rs PartialSecretKey).
KeySound == part = "key" => K!TypeOK /\ K!OneSignatureOneMessage /\ K!BurnVerifies

\* Price gate: who pays the price quoted is not turned away for it unless its
\* own address was served in the meantime, and an address pays more than the
\* floor only for requests served to it within one window (pow_governor.rs).
GateFair == part = "gate" => G!TypeOK /\ G!QuoteHolds /\ G!PriceIsEarned
=============================================================================
