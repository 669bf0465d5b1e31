-------------------------------- MODULE Peers --------------------------------
(***************************************************************************)
(* Who a node is connected to: the connection lifecycle of network/mod.rs  *)
(* (dials, subnet and inbound limits, light peers, relay reservations) and *)
(* the peer tables of node.rs it feeds (known addresses with their scores, *)
(* banned subnets, connection maintenance).                                *)
(*                                                                         *)
(* An address is a peer at a subnet over a transport.  libp2p is external: *)
(* it holds the open connections and closes those it is told to close some *)
(* time later.  A network event and its handler in the node's loop are one *)
(* step, as the loop takes one event at a time.                            *)
(***************************************************************************)
EXTENDS Naturals, FiniteSets, FiniteSetsExt, Functions

CONSTANTS
    Addrs,            \* [peer, subnet, web] records
    Bootstrap,        \* bootstrap_peers
    StaticBans,       \* static_banned_peers
    SubnetLimit, WebSubnetLimit, InboundLimit, LightLimit,
    TargetOutbound, RelayTarget, TableSize,
    ScoreCap,         \* bound: points an address is followed up to
    BanTime, MaxTime, \* how long a subnet ban lasts, how long the node is followed
    PeerScenes        \* who dials in, how often each event happens

VARIABLES
    open, closing,    \* libp2p: established connections, those being closed
    dialing,          \* libp2p: addresses being dialed
    pend,             \* pending_dials
    connected,        \* connected: the endpoint a peer was admitted with
    light,            \* light_peers
    slots,            \* subnet_peers
    members,          \* node: connected_peers
    table,            \* node: known_pex_addrs, address -> (alpha, beta)
    bans,             \* banned_subnets, subnet -> when
    nat, asked, relays,
    time, scene

vars == <<open, closing, dialing, pend, connected, light, slots, members, table, bans,
          nat, asked, relays, time, scene>>
netVars == <<pend, connected, light, slots, relays>>
nodeVars == <<members, table, bans>>
libVars == <<open, closing, dialing>>

PeerIds == {a.peer : a \in Addrs}
Subnets == {a.subnet : a \in Addrs}
Conns == [addr : Addrs, dir : {"in", "out"}]
Of(p, conns) == {c \in conns : c.addr.peer = p}

Happens(f) == scene[f] > 0 /\ scene' = [scene EXCEPT ![f] = @ - 1]

Init ==
    /\ open = {} /\ closing = {} /\ dialing = {}
    /\ pend = {} /\ connected = <<>> /\ light = {}
    /\ slots = [s \in Subnets |-> {}]
    /\ members = {} /\ table = <<>> /\ bans = <<>>
    /\ nat = "unknown" /\ asked = {} /\ relays = {}
    /\ time = 0
    /\ scene \in PeerScenes

-----------------------------------------------------------------------------
(* Scores of known addresses *)

Prior == [alpha |-> 1, beta |-> 1]
ScoreOf(a) == IF a \in DOMAIN table THEN table[a] ELSE Prior
Without(f, S) == Restrict(f, DOMAIN f \ S)
With(f, x, v) == [y \in DOMAIN f \cup {x} |-> IF y = x THEN v ELSE f[y]]

\* alpha / (alpha + beta) < 0.1
Hopeless(s) == 10 * s.alpha < s.alpha + s.beta
Worse(s, t) == s.alpha * (t.alpha + t.beta) <= t.alpha * (s.alpha + s.beta)
Worst == {a \in DOMAIN table : \A b \in DOMAIN table : Worse(table[a], table[b])}

Rewarded(a) == With(table, a, [ScoreOf(a) EXCEPT !.alpha = Min({@ + 10, ScoreCap})])

\* An unreachable address loses one point and is purged when hopeless.
Unreachable(a) ==
    IF a \notin DOMAIN table THEN table
    ELSE LET s == [table[a] EXCEPT !.beta = @ + 1]
         IN IF Hopeless(s) THEN Without(table, {a}) ELSE With(table, a, s)

\* ban_peer: every address of the peer loses fifty; one that is hopeless by
\* then is purged.
Punished(p) ==
    LET hit == [a \in DOMAIN table |->
                   IF a.peer = p THEN [table[a] EXCEPT !.beta = @ + 50] ELSE table[a]]
        gone == {a \in DOMAIN hit : a.peer = p /\ Hopeless(hit[a])}
    IN IF gone = {} THEN {hit} ELSE {Without(hit, {a}) : a \in gone}

-----------------------------------------------------------------------------
(* Establishing a connection *)

Outbound == {p \in DOMAIN connected : connected[p].dir = "out"}
Inbound == {p \in DOMAIN connected : connected[p].dir = "in"}

LimitOf(a) == IF a.web THEN WebSubnetLimit ELSE SubnetLimit
SlotFree(a) == a.peer \in slots[a.subnet] \/ Cardinality(slots[a.subnet]) < LimitOf(a)
SlotTaken(a) == [slots EXCEPT ![a.subnet] = @ \cup {a.peer}]

\* disconnect_peer_id: every connection the peer has now is closed.
Hangup(p) == closing' = closing \cup Of(p, open')

\* The node's side of PeerConnected: the address is rewarded, a peer of a
\* banned subnet is sent away, an old ban is forgotten.
Banned(s) == s \in DOMAIN bans /\ time < bans[s] + BanTime
Greet(a) ==
    /\ table' = Rewarded(a)
    /\ IF Banned(a.subnet)
       THEN Hangup(a.peer) /\ UNCHANGED <<members, bans>>
       ELSE /\ members' = members \cup {a.peer}
            /\ bans' = Without(bans, {a.subnet})
            /\ UNCHANGED closing

Admit(c) ==
    /\ light' = IF c.addr.web THEN light \cup {c.addr.peer} ELSE light
    /\ connected' = With(connected, c.addr.peer, c)
    /\ Greet(c.addr)

\* Why a first connection is turned away before it takes a slot.
Refused(a) ==
    \/ a.peer \in StaticBans
    \/ a.web /\ Cardinality(light) >= LightLimit
    \/ ~SlotFree(a)
\* Mutant: the inbound limit counts every peer but the newest.
Crowded_one(c) == c.dir = "in" /\ Cardinality(Inbound) > InboundLimit
\* Too many inbound peers; the slot is already taken by then.
Crowded(c) == c.dir = "in" /\ Cardinality(Inbound) >= InboundLimit

Establish(c) ==
    /\ c \notin open
    /\ IF c.dir = "out" THEN c.addr \in dialing /\ UNCHANGED scene
       ELSE c.addr \in scene.dialsUs /\ Happens("inbound")
    /\ open' = open \cup {c}
    /\ dialing' = IF c.dir = "out" THEN dialing \ {c.addr} ELSE dialing
    /\ pend' = pend \ {c.addr.peer}
    /\ IF Of(c.addr.peer, open) # {} /\ c.addr.peer \notin StaticBans
       THEN UNCHANGED <<closing, connected, light, slots, nodeVars>>
       ELSE IF Refused(c.addr)
       THEN Hangup(c.addr.peer) /\ UNCHANGED <<connected, light, slots, nodeVars>>
       ELSE /\ slots' = SlotTaken(c.addr)
            /\ IF Crowded(c)
               THEN Hangup(c.addr.peer) /\ UNCHANGED <<connected, light, nodeVars>>
               ELSE Admit(c)
    /\ UNCHANGED <<nat, asked, relays, time>>

\* ConnectionClosed: the last connection takes the peer with it, and gives
\* back the slot of the subnet this connection came from.
FreedSlots(c) == [slots EXCEPT ![c.addr.subnet] = @ \ {c.addr.peer}]
KeptRelays(p) == relays \ {p}

Closed(c) ==
    /\ c \in open
    /\ IF c \in closing THEN UNCHANGED scene ELSE Happens("lost")
    /\ open' = open \ {c} /\ closing' = closing \ {c}
    /\ pend' = pend \ {c.addr.peer}
    /\ IF Of(c.addr.peer, open') # {} THEN UNCHANGED <<connected, light, slots, relays, members>>
       ELSE /\ connected' = Without(connected, {c.addr.peer})
            /\ relays' = KeptRelays(c.addr.peer)
            /\ light' = light \ {c.addr.peer}
            /\ slots' = FreedSlots(c)
            /\ members' = members \ {c.addr.peer}
    /\ asked' = IF Of(c.addr.peer, open') = {} THEN asked \ {c.addr.peer} ELSE asked
    /\ UNCHANGED <<dialing, table, bans, nat, time>>

Undialed(a) == pend \ {a.peer}
DialFails(a) ==
    /\ a \in dialing /\ Happens("fail")
    /\ dialing' = dialing \ {a}
    /\ pend' = Undialed(a)
    /\ table' = Unreachable(a)
    /\ UNCHANGED <<open, closing, connected, light, slots, relays, members, bans, nat, asked, time>>

-----------------------------------------------------------------------------
(* Connection maintenance *)

\* dial_addr
Dialable(a) ==
    /\ ~a.web /\ a.peer \notin StaticBans
    /\ a.peer \notin DOMAIN connected /\ a.peer \notin pend
    /\ a.peer \in slots[a.subnet] \/ Cardinality(slots[a.subnet]) < SubnetLimit

\* One dial at a time per peer, whichever of its addresses comes first.
Dials(as) ==
    LET able == {a \in as : Dialable(a)} IN
    {ds \in SUBSET able : /\ \A a, b \in ds : a.peer = b.peer => a = b
                          /\ {a.peer : a \in ds} = {a.peer : a \in able}}

Picks(n) == {S \in SUBSET DOMAIN table : Cardinality(S) = Min({n, Cardinality(DOMAIN table)})}
\* No outbound peer, or none picked: the bootstrap peers are dialed too.
Fallback(picked) == Outbound = {} \/ picked = {}

\* maintain_relays: behind a NAT, one more peer this node dialed is asked.
Candidates == {p \in Outbound : p \notin light /\ p \notin relays}
SeekRelay ==
    IF nat = "private" /\ Cardinality(relays) < RelayTarget /\ Candidates # {}
    THEN \E p \in Candidates : asked' = asked \cup {p}
    ELSE UNCHANGED asked

Maintain ==
    /\ Cardinality(Outbound) < TargetOutbound
    /\ SeekRelay
    /\ \E picked \in Picks(TargetOutbound - Cardinality(Outbound)) :
       \E ds \in Dials(picked \cup (IF Fallback(picked) THEN Bootstrap ELSE {})) :
          /\ dialing' = dialing \cup ds
          /\ pend' = pend \cup {a.peer : a \in ds}
    /\ UNCHANGED <<open, closing, connected, light, slots, relays, nodeVars, nat, time, scene>>

MaintainRelays ==
    /\ Cardinality(Outbound) >= TargetOutbound
    /\ SeekRelay
    /\ UNCHANGED <<libVars, netVars, nodeVars, nat, time, scene>>

ReservationAccepted(p) ==
    /\ p \in asked
    /\ asked' = asked \ {p}
    /\ relays' = relays \cup {p}
    /\ UNCHANGED <<libVars, pend, connected, light, slots, nodeVars, nat, time, scene>>

NatChanges ==
    /\ Happens("nat")
    /\ nat' \in {"public", "private"} \ {nat}
    /\ UNCHANGED <<libVars, netVars, nodeVars, asked, time>>

-----------------------------------------------------------------------------
(* Address exchange and bans *)

\* An Addr message: an unknown address enters at even odds, a full table
\* first loses one of its worst.
Learn(a) ==
    /\ members \ light # {} /\ Happens("addr")
    /\ a \notin DOMAIN table
    /\ \E out \in (IF Cardinality(DOMAIN table) >= TableSize THEN {{w} : w \in Worst} ELSE {{}}) :
          table' = With(Without(table, out), a, Prior)
    /\ UNCHANGED <<libVars, netVars, members, bans, nat, asked, time>>

\* ban_peer, for a peer whose blocks or headers proved invalid.
BanPeer(p) ==
    /\ p \in DOMAIN connected /\ time + BanTime <= MaxTime /\ Happens("ban")
    /\ open' = open /\ Hangup(p)
    /\ bans' = With(bans, connected[p].addr.subnet, time)
    /\ table' \in Punished(p)
    /\ UNCHANGED <<dialing, netVars, members, nat, asked, time>>

\* The periodic sweep of old bans.
SweepBans ==
    /\ \E s \in DOMAIN bans : ~Banned(s)
    /\ bans' = Without(bans, {s \in DOMAIN bans : ~Banned(s)})
    /\ UNCHANGED <<libVars, netVars, members, table, nat, asked, time, scene>>

Tick ==
    /\ time < MaxTime /\ bans # <<>>
    /\ time' = time + 1
    /\ UNCHANGED <<libVars, netVars, nodeVars, nat, asked, scene>>

-----------------------------------------------------------------------------

Next ==
    \/ \E c \in Conns : Establish(c) \/ Closed(c)
    \/ \E a \in Addrs : DialFails(a) \/ Learn(a)
    \/ \E p \in PeerIds : ReservationAccepted(p) \/ BanPeer(p)
    \/ Maintain \/ MaintainRelays \/ NatChanges \/ SweepBans \/ Tick

Spec == Init /\ [][Next]_vars

\* The maintenance timer fires, dials come to an end, connections that are
\* to be closed close, and time passes.
Fairness ==
    /\ WF_vars(Maintain) /\ WF_vars(Tick)
    /\ WF_vars(\E c \in Conns : c.dir = "out" /\ Establish(c))
    /\ WF_vars(\E c \in closing : Closed(c))
FairSpec == Spec /\ Fairness

-----------------------------------------------------------------------------
(* Properties *)

\* Tables hold what they are declared to hold; light peers and reservations
\* are of connected peers.
TypeOK ==
    /\ open \subseteq Conns /\ closing \subseteq open /\ dialing \subseteq Addrs
    /\ pend \subseteq PeerIds
    /\ light \subseteq DOMAIN connected /\ members \subseteq DOMAIN connected
    /\ \A p \in DOMAIN connected : connected[p].addr.peer = p
    /\ DOMAIN table \subseteq Addrs

\* Every peer the node counts as connected has a connection.
ConnectedIsOpen == \A p \in DOMAIN connected : Of(p, open) # {}

\* Eclipse defence: no subnet holds more full peers than it may, and no more
\* peers came in than may, however connections overlap and end.
NoCrowding ==
    /\ \A s \in Subnets :
          Cardinality({p \in DOMAIN connected \ light : connected[p].addr.subnet = s}) <= SubnetLimit
    /\ Cardinality(Inbound) <= InboundLimit

\* A peer marked as being dialed is being dialed; a mark left behind would
\* keep the node from ever dialing that peer again.
MarkedIsDialed == \A p \in pend : \E a \in dialing : a.peer = p

\* A slot belongs to a peer that is here (network/mod.rs: an entry left
\* behind "permanently consumes valid connection slots").
SlotsInUse == \A s \in Subnets : \A p \in slots[s] : Of(p, open) # {}

\* Relays the node counts on are peers it is connected to.
RelaysAlive == relays \subseteq DOMAIN connected

\* Whatever connections are lost, refused or banned, a node whose bootstrap
\* peer can be reached ends up with an outbound peer.
HasPeer == Outbound # {}
Reconnects == <>[]HasPeer

\* Violated when a refused connection overlaps one that is let in.
OpenIsKnown == \A c \in open \ closing : c.addr.peer \in DOMAIN connected
=============================================================================
