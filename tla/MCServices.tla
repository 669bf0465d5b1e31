----------------------------- MODULE MCServices -----------------------------
(***************************************************************************)
(* What a node does for others, checked in one run: the mining pool, the   *)
(* peer table, the light-client server, the gossip relay and mixing        *)
(* sessions.  They share no state in the code, so a behaviour follows one  *)
(* of them, the part, and the others stand still.                          *)
(***************************************************************************)
EXTENDS Naturals, Sequences, FiniteSets

CONSTANTS
    Miners, Operator, Nonces, PoolRewards, MaxClock, PoolScenes,
    Addrs, Bootstrap, StaticBans, SubnetLimit, WebSubnetLimit, InboundLimit,
    LightLimit, TargetOutbound, RelayTarget, TableSize, ScoreCap, BanTime,
    MaxTime, PeerScenes,
    LightPeers, MaxStreams, RateWindow, BanThreshold, LightBanTime, StaleTime,
    RateFloor, RateBase, RateSpan, DearFloor, DearBase, DearSpan, ChatLimit,
    CommandCap, SubmitTime, ResponseTime, EndOfTime, LightScenes,
    Nodes, Links, ChatNonces, SeenCap, OldNonces, HistoryCap, FloodLimit,
    StemCap, CommandRoom, RelayScenes,
    n1, n2, n3, m1, m2, MixNodes, Mixes, MaxSessions, MinParticipants,
    MaxParticipants, FeeWorth, SignLimit, KeepFor, SessionLimit, MixScenes, NoOne

VARIABLES
    part,
    node, poolLoop, force, rows, tree, job, shares, conn, checking, blocks,
    poolClock, issued, credited, done, faults,
    open, closing, dialing, pend, connected, light, slots, members, table,
    bans, nat, asked, relays, time, scene,
    here, leaving, guard, st, ans, at, inbox, cmds, loop, till, acked, chats,
    clock, play,
    ask, mining, queue, seen, history, flood, pool, stem, net, cut,
    sess, banned, msgs, call, purse, marked, signed, pending, mixPool, mixChain,
    mixScene, count

P == INSTANCE Pool WITH loop <- poolLoop, clock <- poolClock, seen <- shares
D == INSTANCE Peers
L == INSTANCE LightServer
R == INSTANCE Relay
X == INSTANCE Mix WITH Nodes <- MixNodes, Scenes <- MixScenes, job <- call,
        pool <- mixPool, chain <- mixChain, scene <- mixScene

poolVars == <<node, poolLoop, force, rows, tree, job, shares, conn, checking,
              blocks, poolClock, issued, credited, done, faults>>
peerVars == <<open, closing, dialing, pend, connected, light, slots, members,
              table, bans, nat, asked, relays, time, scene>>
lightVars == <<here, leaving, guard, st, ans, at, inbox, cmds, loop, till,
               acked, chats, clock, play>>
relayVars == <<ask, mining, queue, seen, history, flood, pool, stem, net, cut>>
mixVars == <<sess, banned, msgs, call, purse, marked, signed, pending, mixPool,
             mixChain, mixScene, count>>
vars == <<part, poolVars, peerVars, lightVars, relayVars, mixVars>>

-----------------------------------------------------------------------------
(* Scenes *)

\* Pool: shares found, blocks of others, restarts, templates refused, syncs,
\* submissions lost.
Scene(s, g, r, f, y, l) ==
    [share |-> s, grow |-> g, restart |-> r, refusal |-> f, sync |-> y, lost |-> l]
MCPoolScenes ==
    {Scene(2, 1, 0, 0, 0, 0), Scene(1, 1, 1, 0, 0, 0),
     Scene(1, 0, 0, 1, 0, 1), Scene(0, 1, 0, 1, 1, 0)}

\* Peers: b is the bootstrap peer, d, w (a browser) and x share a subnet, x
\* is banned in the configuration.
Addr(p, s, w) == [peer |-> p, subnet |-> s, web |-> w]
MCAddrs == {Addr("b", "s", FALSE), Addr("c", "u", FALSE), Addr("d", "t", FALSE),
            Addr("w", "t", TRUE), Addr("x", "t", FALSE)}
MCBootstrap == {Addr("b", "s", FALSE)}
Contact(d, i, l, f, a, b, n) ==
    [dialsUs |-> d, inbound |-> i, lost |-> l, fail |-> f, addr |-> a, ban |-> b, nat |-> n]
MCPeerScenes ==
    {Contact({Addr("d", "t", FALSE), Addr("w", "t", TRUE)}, 2, 1, 1, 1, 0, 0),
     Contact({Addr("c", "u", FALSE)}, 1, 0, 0, 1, 1, 0),
     Contact({Addr("x", "t", FALSE)}, 1, 1, 0, 1, 0, 1)}

\* Light clients: what they ask for, in order, which request stalls and how,
\* whether the node's loop is slow, how often a client disconnects.
Asks(p, k) == [peer |-> p, kind |-> k, stalls |-> "no"]
Stalls(p, k, s) == [peer |-> p, kind |-> k, stalls |-> s]
Plan(plan, slow, drops) == [plan |-> plan, slow |-> slow, drops |-> drops]
MCLightScenes ==
    {Plan(<<Asks("a", "early"), Asks("b", "bad"), Asks("a", "tx")>>, FALSE, 0),
     Plan(<<Asks("b", "chat"), Asks("b", "template"),
            Stalls("b", "filters", "reading"), Asks("b", "chat")>>, FALSE, 0),
     Plan(<<Asks("a", "tx"), Asks("b", "chat")>>, TRUE, 0),
     Plan(<<Asks("b", "block"), Stalls("b", "query", "sending"),
            Stalls("b", "tx", "reading")>>, FALSE, 1)}

\* Relay: a triangle of nodes, the chats and transactions they submit, and
\* how many messages are lost.
MCNodes == {"a", "b", "c"}
MCLinks == {<<"a", "b">>, <<"b", "c">>, <<"a", "c">>}
MCOldNonces == <<9>>
Says(id, from, what, nonce) == [id |-> id, from |-> from, what |-> what, nonce |-> nonce]
Talk(c, t, l) == [chats |-> c, txs |-> t, lost |-> l]
Silence == Talk({}, {}, 0)
MCRelayScenes ==
    {Silence, Talk({Says(1, "a", "chat", 0)}, {}, 1),
     Talk({Says(1, "a", "premined", 2), Says(2, "b", "premined", 1)}, {}, 0),
     Talk({}, {Says(3, "a", "commit", 0)}, 1),
     Talk({}, {Says(4, "a", "reveal", 0), Says(3, "b", "commit", 0)}, 0)}

\* Mixing: messages are lost, a failed mix is retried, a wallet offers its
\* own fee coin, a connection drops, a node restarts, a third node's
\* registration is lost while its fee arrives.
Bound(b) == [e \in {"start", "refusal", "loss", "disconnect", "forgive", "restart"} |->
                IF e \in DOMAIN b THEN b[e] ELSE 0]
MixScene(nodes, mixes, donors, payers, auto, b) ==
    [nodes |-> nodes, mixes |-> mixes, creators |-> {n1}, donors |-> donors,
     payers |-> payers, auto |-> auto, clock |-> TRUE, bound |-> Bound(b)]

Pair == {n1, n2}
Losing == MixScene(Pair, {m1}, {n2}, {}, TRUE, [start |-> 2, loss |-> 1])
Retrying == MixScene(Pair, {m1, m2}, {n1}, {}, TRUE, [start |-> 4])
Offering == MixScene(Pair, {m1}, {n1}, {n2}, TRUE,
                  [start |-> 2, forgive |-> 1, refusal |-> 1, disconnect |-> 1])
Restarting == MixScene(Pair, {m1}, {n1}, {}, TRUE, [start |-> 2, restart |-> 1])
Three == [MixScene({n1, n2, n3}, {m1}, {n2}, {}, TRUE, [start |-> 3, loss |-> 1, disconnect |-> 1])
             EXCEPT !.clock = FALSE]
MCMixScenes == {Losing, Retrying, Offering, Restarting, Three}


-----------------------------------------------------------------------------
Parts == {"pool", "peers", "light", "relay", "mix"}

Init ==
    /\ part \in Parts
    /\ P!Init /\ (part # "pool" => faults = Scene(0, 1, 0, 1, 1, 0))
    /\ D!Init /\ (part # "peers" => scene.ban = 1)
    /\ L!Init /\ (part # "light" => play.slow)
    /\ R!Init /\ (part = "relay") = (ask # {})
    /\ X!Init /\ (part # "mix" => ~mixScene.clock)

\* A step A of one part.
Pools(A)  == part = "pool"  /\ A /\ UNCHANGED <<part, peerVars, lightVars, relayVars, mixVars>>
Dials(A)  == part = "peers" /\ A /\ UNCHANGED <<part, poolVars, lightVars, relayVars, mixVars>>
Serves(A) == part = "light" /\ A /\ UNCHANGED <<part, poolVars, peerVars, relayVars, mixVars>>
Relays(A) == part = "relay" /\ A /\ UNCHANGED <<part, poolVars, peerVars, lightVars, mixVars>>
Mixing(A) == part = "mix"   /\ A /\ UNCHANGED <<part, poolVars, peerVars, lightVars, relayVars>>

Next == Pools(P!Next) \/ Dials(D!Next) \/ Serves(L!Next) \/ Relays(R!Next) \/ Mixing(X!Next)
Spec == Init /\ [][Next]_vars

\* The fairness of each part, while it is the one followed.
Fairness ==
    /\ WF_vars(Pools(P!Poll)) /\ WF_vars(Pools(P!SyncEnds))
    /\ WF_vars(Dials(D!Maintain)) /\ WF_vars(Dials(D!Tick))
    /\ WF_vars(Dials(\E c \in D!Conns : c.dir = "out" /\ D!Establish(c)))
    /\ WF_vars(Dials(\E c \in closing : D!Closed(c)))
    /\ WF_vars(Serves(L!Tick)) /\ WF_vars(Serves(L!handle_light_request))
    /\ WF_vars(Serves(L!BlockAwaited)) /\ WF_vars(Serves(L!RunCommand))
    /\ WF_vars(Serves(\E i \in L!Requests :
          L!ReadFails(i) \/ L!ReadRequest(i) \/ L!Refused(i) \/ L!Answered(i) \/ L!WriteAnswer(i)))
    /\ \A n \in Nodes :
          /\ WF_vars(Relays(R!RunCommand(n)))
          /\ WF_vars(Relays(\E m \in net : m.to = n /\ R!Receive(m)))
          /\ WF_vars(Relays(\E t \in stem[n] : R!flush_stem_pool(n, t)))
    /\ WF_vars(Relays(\E c \in mining : R!mine_chat_pow_v2(c)))
    /\ WF_vars(Relays(\E c \in ask : R!send_chat(c) \/ R!submit_chat(c) \/ R!SubmitTx(c)))
    /\ WF_vars(Mixing(X!Tick))
    /\ \A n \in MixNodes : WF_vars(Mixing(X!Cleanup(n))) /\ WF_vars(Mixing(X!Command(n)))
FairSpec == Spec /\ Fairness

-----------------------------------------------------------------------------
(* Properties: those of the parts *)

\* Pool: types hold (the payouts add up to the block value); only work is
\* paid (PPLNS allocation and deduction); a job id means one template across
\* restarts (job_counter); scores are deducted only for blocks the node took
\* ("Orphan Theft Defense", pool.rs).
PoolSound ==
    part = "pool" =>
        P!TypeOK /\ P!OnlyWorkIsPaid /\ P!IdsNeverReused /\ P!DeductedWereAccepted

\* Peers: however connections overlap and end, no subnet holds more full peers
\* than it may and no more came in than may; a mark in pending_dials belongs
\* to a dial under way (one left behind would keep the node from ever dialing
\* that peer again); whoever holds a slot or counts as connected has a
\* connection; the relays counted on are connected (network/mod.rs).
\* Relay: a node records a chat once, however often gossip brings it back
\* (mark_chat_seen).
NetworkSound ==
    /\ part = "peers" =>
          /\ D!TypeOK /\ D!NoCrowding /\ D!MarkedIsDialed
          /\ D!SlotsInUse /\ D!ConnectedIsOpen /\ D!RelaysAlive
    /\ part = "relay" => R!TypeOK /\ R!RecordedOnce

\* Light clients: no stream is counted that is not open, on whichever path its
\* task ended (active_streams), and a client that asks little and nothing
\* invalid is neither banned nor turned away, however others flood the node
\* (light_protocol.rs, network/mod.rs).
LightSound ==
    part = "light" => L!TypeOK /\ L!StreamsCounted /\ L!BlamelessServed

\* Light clients: "5s is generous" (node.rs SubmitBatch): a miner told that
\* its block timed out does not see it accepted.
TimedOutIsLost == part = "light" => L!TimedOutIsLost

\* Mixing: a wallet signs a mix only if it spends the coin signed for and pays
\* the wallet's own output (local_outputs); a one-time key signs one
\* commitment, however often mixes fail and are tried again (main.rs drip
\* phase); what the coordinator publishes every owner of an input has signed
\* (try_build_transaction); a wallet that swapped its coin for the mixed one
\* did so for a reveal the network took (complete_mix).
MixSound ==
    part = "mix" =>
        X!TypeOK /\ X!SignedPays /\ X!KeySignsOnce /\ X!PublishedSigned /\ X!CompletedReal

\* Every service comes to rest: miners are served a job on the settled tip
\* (pool.rs polling loop); whatever connections are lost, refused or banned,
\* the node has an outbound peer again (node.rs maintenance, bootstrap
\* fallback); every stream task ends, clients that send or read nothing
\* included; what one node knows all come to know although a message is lost,
\* and the gossip ends; when the clock runs and no more mixes are started,
\* every session is dropped and every command line returns (mix.rs cleanup).
ServicesSettle ==
    /\ <>[](part = "pool" => P!CaughtUp)
    /\ <>[](part = "peers" => D!HasPeer)
    /\ <>[](part = "light" => L!AtRest)
    /\ <>[](part = "relay" => R!GossipOver)
    /\ <>[](part = "mix" /\ mixScene.clock => X!Quiet)
=============================================================================
