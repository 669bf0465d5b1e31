-------------------------------- MODULE Relay --------------------------------
(***************************************************************************)
(* How chats and transactions travel between nodes: the chat gossip of     *)
(* node.rs with its bounded cache of seen nonces, and the Dandelion++ stem *)
(* phase of a commit with its timeout.                                     *)
(*                                                                         *)
(* A chat is [id, from, what, nonce]: its proof of work is the nonce that  *)
(* the mining task found, and the nonce alone tells chats apart.  Chats of *)
(* old peers join the same path with a proof of the old form.              *)
(* Transactions are valid for every node; what a mempool refuses is only   *)
(* what it already has.                                                    *)
(***************************************************************************)
EXTENDS Naturals, Sequences, FiniteSets, SequencesExt

CONSTANTS
    Nodes, Links,     \* the nodes, the pairs that are connected
    ChatNonces,       \* what mining may find
    SeenCap,          \* CHAT_DEDUP_CAPACITY
    OldNonces,        \* what the cache of every node holds from earlier chats
    HistoryCap, FloodLimit, StemCap, CommandRoom,
    RelayScenes       \* [chats, txs, lost]

VARIABLES
    ask,              \* chats and transactions still to be submitted
    mining,           \* chats whose proof of work is being found
    queue,            \* node -> cmd_rx
    seen,             \* node -> seen_chats_queue
    history,          \* node -> chat_history
    flood,            \* node -> peer -> peer_chat_counts
    pool, stem,       \* node -> mempool, stem_pool
    net,              \* messages in flight
    cut               \* how many may still be lost

vars == <<ask, mining, queue, seen, history, flood, pool, stem, net, cut>>
chatVars == <<mining, queue, seen, history, flood>>
txVars == <<pool, stem>>

Peers(n) == {m \in Nodes : <<n, m>> \in Links \/ <<m, n>> \in Links}
Msg(n, m, kind, item) == [from |-> n, to |-> m, kind |-> kind, item |-> item]
Broadcast(n, skip, kind, item) == {Msg(n, m, kind, item) : m \in Peers(n) \ skip}

Init ==
    \E s \in RelayScenes :
    /\ ask = s.chats \cup s.txs /\ cut = s.lost
    /\ mining = {} /\ net = {}
    /\ queue = [n \in Nodes |-> <<>>] /\ seen = [n \in Nodes |-> OldNonces]
    /\ history = [n \in Nodes |-> <<>>]
    /\ flood = [n \in Nodes |-> [m \in Nodes |-> 0]]
    /\ pool = [n \in Nodes |-> {}] /\ stem = [n \in Nodes |-> {}]

-----------------------------------------------------------------------------
(* Chats *)

\* mark_chat_seen: the oldest nonce makes room.
Remember(s, nonce) ==
    IF Len(s) + 1 > SeenCap THEN Append(Tail(s), nonce) ELSE Append(s, nonce)
Seen(n, c) == Contains(seen[n], c.nonce)

Recorded(h, c) == IF Len(h) + 1 > HistoryCap THEN Append(Tail(h), c) ELSE Append(h, c)
HasRoom(n) == Len(queue[n]) < CommandRoom

\* A user, a wallet or a light client asks its node to send a chat: the
\* command is queued, or refused when the queue is full.
send_chat(c) ==
    /\ c \in ask /\ c.what = "chat" /\ HasRoom(c.from)
    /\ ask' = ask \ {c}
    /\ queue' = [queue EXCEPT ![c.from] = Append(@, [do |-> "mine", chat |-> c])]
    /\ UNCHANGED <<mining, seen, history, flood, txVars, net, cut>>

\* A chat that was mined by its sender (submit_chat), or comes from an old
\* peer, enters with its nonce.
submit_chat(c) ==
    /\ c \in ask /\ c.what = "premined" /\ HasRoom(c.from)
    /\ ask' = ask \ {c}
    /\ queue' = [queue EXCEPT ![c.from] = Append(@, [do |-> "broadcast", chat |-> c])]
    /\ UNCHANGED <<mining, seen, history, flood, txVars, net, cut>>

\* The mining task found a nonce and sends the chat back to its node, when
\* there is room.
mine_chat_pow_v2(c) ==
    /\ c \in mining /\ HasRoom(c.from)
    /\ mining' = mining \ {c}
    /\ \E n \in ChatNonces :
          queue' = [queue EXCEPT ![c.from] =
                       Append(@, [do |-> "broadcast", chat |-> [c EXCEPT !.nonce = n]])]
    /\ UNCHANGED <<ask, seen, history, flood, txVars, net, cut>>

\* The node takes its next command: SendChat, BroadcastP2PChat or
\* BroadcastLightPush (to light clients, who pass nothing on).
RunCommand(n) ==
    /\ queue[n] # <<>>
    /\ LET cmd == Head(queue[n])
           c == cmd.chat IN
       /\ queue' = [queue EXCEPT ![n] = Tail(@)]
       /\ mining' = IF cmd.do = "mine" THEN mining \cup {c} ELSE mining
       /\ IF cmd.do # "broadcast" THEN UNCHANGED <<history, seen, net>>
          ELSE /\ history' = [history EXCEPT ![n] = Recorded(@, c)]
               /\ seen' = IF Seen(n, c) THEN seen
                          ELSE [seen EXCEPT ![n] = Remember(@, c.nonce)]
               /\ net' = net \cup Broadcast(n, {}, "chat", c)
    /\ UNCHANGED <<ask, flood, txVars, cut>>

\* A novel chat of a peer that does not flood is recorded, passed on to the
\* other peers and queued for the light clients.
ingest_chat_inbound(n, from, c, rest) ==
    LET sends == flood[n][from] + 1 IN
    IF Seen(n, c)
    THEN net' = rest /\ UNCHANGED <<seen, flood, history, queue>>
    ELSE /\ seen' = [seen EXCEPT ![n] = Remember(@, c.nonce)]
         /\ flood' = [flood EXCEPT ![n][from] = sends]
         /\ IF sends > FloodLimit
            THEN net' = rest /\ UNCHANGED <<history, queue>>
            ELSE /\ history' = [history EXCEPT ![n] = Recorded(@, c)]
                 /\ net' = rest \cup Broadcast(n, {from}, "chat", c)
                 /\ queue' = IF HasRoom(n)
                             THEN [queue EXCEPT ![n] = Append(@, [do |-> "push", chat |-> c])]
                             ELSE queue

\* Chat and ChatV2, their proof of work verified.
ReceiveChat(n, m) ==
    /\ m.kind = "chat"
    /\ ingest_chat_inbound(n, m.from, m.item, net \ {m})
    /\ UNCHANGED <<ask, mining, txVars, cut>>

\* Ten seconds pass: the counts of this peer start again (followed only
\* where it makes a difference, at the limit).
FloodWindow(n, m) ==
    /\ flood[n][m] >= FloodLimit
    /\ flood' = [flood EXCEPT ![n][m] = 0]
    /\ UNCHANGED <<ask, mining, queue, seen, history, txVars, net, cut>>

-----------------------------------------------------------------------------
(* Transactions: handle_new_transaction and the stem phase *)

\* The node's own transaction: a commit goes to one peer, which passes it
\* on; anything else, and a commit of a node without peers, is broadcast.
SubmitTx(t) ==
    /\ t \in ask /\ t.what \in {"commit", "reveal"}
    /\ ask' = ask \ {t}
    /\ pool' = [pool EXCEPT ![t.from] = @ \cup {t}]
    /\ IF t.what = "commit" /\ Peers(t.from) # {}
       THEN /\ stem' = [stem EXCEPT ![t.from] = @ \cup {t}]
            /\ \E m \in Peers(t.from) : net' = net \cup {Msg(t.from, m, "stem", t)}
       ELSE net' = net \cup Broadcast(t.from, {}, "tx", t) /\ UNCHANGED stem
    /\ UNCHANGED <<chatVars, cut>>

\* A gossiped transaction: new ones are passed on, and leave the stem pool.
ReceiveTx(n, m) ==
    /\ m.kind = "tx"
    /\ IF m.item \in pool[n]
       THEN net' = net \ {m} /\ UNCHANGED txVars
       ELSE /\ pool' = [pool EXCEPT ![n] = @ \cup {m.item}]
            /\ stem' = [stem EXCEPT ![n] = @ \ {m.item}]
            /\ net' = (net \ {m}) \cup Broadcast(n, {m.from}, "tx", m.item)
    /\ UNCHANGED <<ask, chatVars, cut>>

\* Fluff: into the mempool, when it is new there, and to every peer.
Fluffed(n, t, rest) ==
    /\ pool' = [pool EXCEPT ![n] = @ \cup {t}]
    /\ net' = rest \cup Broadcast(n, {}, "tx", t)

\* handle_stem_transaction
ReceiveStem(n, m) ==
    /\ m.kind = "stem"
    /\ IF m.item \in stem[n] \/ Cardinality(stem[n]) >= StemCap
       THEN net' = net \ {m} /\ UNCHANGED txVars
       ELSE \E next \in (Peers(n) \ {m.from}) \cup {n} :
            IF next = n THEN Fluffed(n, m.item, net \ {m}) /\ UNCHANGED stem
            ELSE /\ stem' = [stem EXCEPT ![n] = @ \cup {m.item}]
                 /\ net' = (net \ {m}) \cup {Msg(n, next, "stem", m.item)}
                 /\ UNCHANGED pool
    /\ UNCHANGED <<ask, chatVars, cut>>

Flushed(n, t) == Fluffed(n, t, net)
\* flush_stem_pool: thirty seconds without seeing it broadcast, by when a
\* stem message has long arrived or is lost.
flush_stem_pool(n, t) ==
    /\ t \in stem[n] /\ ~\E m \in net : m.kind = "stem" /\ m.item = t
    /\ stem' = [stem EXCEPT ![n] = @ \ {t}]
    /\ Flushed(n, t)
    /\ UNCHANGED <<ask, chatVars, cut>>

-----------------------------------------------------------------------------

Receive(m) == ReceiveChat(m.to, m) \/ ReceiveTx(m.to, m) \/ ReceiveStem(m.to, m)

\* A connection breaks with the message on it.
Lose(m) ==
    /\ cut > 0 /\ cut' = cut - 1
    /\ net' = net \ {m}
    /\ UNCHANGED <<ask, chatVars, txVars>>

Next ==
    \/ \E c \in ask : send_chat(c) \/ submit_chat(c) \/ SubmitTx(c)
    \/ \E c \in mining : mine_chat_pow_v2(c)
    \/ \E n \in Nodes : RunCommand(n)
    \/ \E m \in net : Receive(m) \/ Lose(m)
    \/ \E n, m \in Nodes : FloodWindow(n, m)
    \/ \E n \in Nodes : \E t \in stem[n] : flush_stem_pool(n, t)

Spec == Init /\ [][Next]_vars

\* Each node's loop takes its commands, messages and timers, mining ends and
\* a message that is not lost arrives.
Fairness ==
    /\ \A n \in Nodes : WF_vars(RunCommand(n))
    /\ \A n \in Nodes : WF_vars(\E m \in net : m.to = n /\ Receive(m))
    /\ WF_vars(\E c \in mining : mine_chat_pow_v2(c))
    /\ WF_vars(\E c \in ask : send_chat(c) \/ submit_chat(c) \/ SubmitTx(c))
    /\ \A n \in Nodes : WF_vars(\E t \in stem[n] : flush_stem_pool(n, t))
FairSpec == Spec /\ Fairness

-----------------------------------------------------------------------------
(* Properties *)

\* Caches and queues keep within their bounds; only a node's own commit can
\* exceed the stem pool.
TypeOK ==
    \A n \in Nodes :
        /\ Len(seen[n]) <= SeenCap /\ Len(history[n]) <= HistoryCap
        /\ Len(queue[n]) <= CommandRoom
        /\ Cardinality(stem[n]) <= StemCap + 1

\* A node records a chat once, however often the gossip brings it back: the
\* cache of seen nonces forgets the oldest, never one still circulating ("a
\* .clear() would let still-circulating gossip re-enter the network").
RecordedOnce ==
    \A n \in Nodes : \A i, j \in DOMAIN history[n] : i # j => history[n][i] # history[n][j]

\* A chat or transaction reaches every node although one message is lost: a
\* chat over another path, a commit in its stem phase through the timeout of
\* a node that still holds it.  A chat may only be lost to another chat with
\* the same nonce.  Then the gossip is over.
Known(n, c) ==
    IF c.what \in {"commit", "reveal"} THEN c \in pool[n]
    ELSE \E i \in DOMAIN history[n] : history[n][i].nonce = c.nonce
AllKnown ==
    /\ ask = {} /\ mining = {}
    /\ \A n \in Nodes : \A k \in Nodes :
          /\ \A i \in DOMAIN history[k] : Known(n, history[k][i])
          /\ pool[k] \subseteq pool[n]
GossipOver == AllKnown /\ net = {}
SpreadsToAll == <>[]GossipOver
=============================================================================
