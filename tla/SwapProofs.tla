----------------------------- MODULE SwapProofs -----------------------------
(***************************************************************************)
(* Swaps' SecretsSound, proved for any daemons, orders, bids and margins,  *)
(* and any number of crashes, cut calls, refusals, failing queries and     *)
(* delays: a secret is released for its full price, once, and while the    *)
(* coin it opens still waits.                                              *)
(***************************************************************************)
EXTENDS Swaps, FiniteSetTheorems, SequenceTheorems, WellFoundedInduction, TLAPS

EthState == {"none", "pending", "reverted", "locked", "claimed", "refunded",
             "open", "reserved", "back"}
Call == {"claim", "refund", "cancel"}
Escrow == [st : EthState, due : Nat, full : BOOLEAN, tx : SUBSET Call]
Swap == [phase : Phase, by : Holder, deadline : Nat, since : Nat]
Book == [rec : [Item -> Swap], cursor : Nat]
Event == [kind : {"Locked", "Claimed"}, by : Holder, x : Item, at : Nat]
CoinState == Holder \cup {"none", "sent", "live", "back"}

Budget ==
    /\ used \in [Bounds -> Nat]
    /\ \A e \in Bounds : used[e] <= scene[e]

Typed ==
    /\ scene \in Scenes
    /\ now \in 0..scene.last /\ height \in 0..now
    /\ mds \in [Item -> CoinState]
    /\ due \in [Item -> Nat]
    /\ sweep \in [Daemon -> [Item -> {"none", "commit", "ready", "reveal"}]]
    /\ eth \in [Holder -> [Item -> Escrow]]
    /\ log \in Seq(Event)
    /\ orders \in [Daemon -> SUBSET Unit]
    /\ \A d \in Daemon : \A x \in orders[d] : Maker[x] = d
    /\ bids \in [Daemon -> [Bid -> {"none", "saved", "sent", "open", "cancelled"}]]
    /\ book \in [Daemon -> Book] /\ disk \in [Daemon -> Book]
    /\ \A d \in Daemon : book[d].cursor <= Len(log) /\ disk[d].cursor <= book[d].cursor
    /\ view \in [Daemon -> SUBSET Item]
    /\ Budget

\* What a book, in memory or saved, says of d's swap of unit x when the
\* escrows are E: the taker sweeps what it has paid for, the maker claims a
\* full escrow for its own unit, and no escrow of d goes unrecorded.
RecOK(E, d, x, r) ==
    /\ r.phase \in {"SweepingMds", "Committed", "ConfirmingMds"} => E[d][x].st = "claimed"
    /\ r.phase = "ClaimingEth" => /\ Maker[x] = d
                                  /\ E[r.by][x].full /\ E[r.by][x].st # "none"
    /\ E[d][x].st # "none" => r.phase # "none"

\* The maker books an escrow before it claims it, and never another one.
Booking(h, r) == r.phase \in {"ClaimingEth", "Done"} /\ r.by = h

\* The escrow of h for unit x: one that is being claimed is full, booked and
\* in time; and it ends Margin before the refund branch of the coin opens.
EscrowOK(h, x) ==
    LET e == eth[h][x] IN
    /\ "cancel" \notin e.tx
    /\ e.st = "claimed" => e.full
    /\ "claim" \in e.tx => e.full /\ e.st = "locked" /\ mds[x] = "live" /\ now <= e.due
    /\ e.st = "claimed" \/ "claim" \in e.tx =>
          /\ Booking(h, book[Maker[x]].rec[x])
          /\ Booking(h, disk[Maker[x]].rec[x])
    /\ e.st # "none" => mds[x] \notin {"none", "sent"}
    /\ h = Stranger /\ e.st # "none" => ~ e.full
    /\ h \in Daemon /\ e.st = "pending" => e.due + Margin + height <= due[x]
    /\ h \in Daemon /\ e.st = "locked" => e.due + Margin + height <= due[x] + now

DaemonOK(d, x) ==
    /\ RecOK(eth, d, x, book[d].rec[x]) /\ RecOK(eth, d, x, disk[d].rec[x])
    /\ book[d].rec[x].phase = "ClaimingEth" =>
          /\ disk[d].rec[x].phase = "ClaimingEth"
          /\ disk[d].rec[x].by = book[d].rec[x].by
    /\ sweep[d][x] = "reveal" => eth[d][x].st = "claimed"

CoinOK(x) ==
    /\ mds[x] \in Holder => eth[mds[x]][x].st = "claimed"
    /\ mds[x] = "back" => height >= due[x]

EventOK(E, ev) ==
    ev.x \in Unit => /\ E[ev.by][ev.x].st # "none"
                     /\ ev.kind = "Claimed" => E[ev.by][ev.x].st = "claimed"

Priced ==
    /\ \A h \in Holder, x \in Unit : EscrowOK(h, x)
    /\ \A d \in Daemon, x \in Unit : DaemonOK(d, x)
    /\ \A x \in Unit : CoinOK(x)
    /\ \A i \in DOMAIN log : EventOK(eth, log[i])

SwapInv == Typed /\ Priced
-----------------------------------------------------------------------------
LEMMA Facts ==
    ASSUME SwapInv
    PROVE  /\ scene \in Scenes
           /\ now \in 0..scene.last /\ now \in Nat /\ height \in 0..now /\ height \in Nat
           /\ mds \in [Item -> CoinState]
           /\ due \in [Item -> Nat]
           /\ sweep \in [Daemon -> [Item -> {"none", "commit", "ready", "reveal"}]]
           /\ eth \in [Holder -> [Item -> Escrow]]
           /\ log \in Seq(Event)
           /\ orders \in [Daemon -> SUBSET Unit]
           /\ \A d \in Daemon : \A x \in orders[d] : Maker[x] = d
           /\ bids \in [Daemon -> [Bid -> {"none", "saved", "sent", "open", "cancelled"}]]
           /\ book \in [Daemon -> Book] /\ disk \in [Daemon -> Book]
           /\ \A d \in Daemon : /\ book[d].cursor <= Len(log)
                                /\ disk[d].cursor <= book[d].cursor
           /\ view \in [Daemon -> SUBSET Item]
           /\ used \in [Bounds -> Nat]
           /\ \A e \in Bounds : used[e] <= scene[e]
<1>1. scene \in Scenes
  BY DEF SwapInv, Typed
<1>2. scene.last \in Nat
  BY <1>1, SwapsAssumption
<1>3. now \in 0..scene.last /\ height \in 0..now
  BY DEF SwapInv, Typed
<1>4. now \in Nat /\ height \in Nat
  BY <1>2, <1>3
<1>5. QED BY <1>3, <1>4 DEF SwapInv, Typed, Budget

LEMMA Prices ==
    ASSUME SwapInv
    PROVE  /\ \A h \in Holder, x \in Unit : EscrowOK(h, x)
           /\ \A d \in Daemon, x \in Unit : DaemonOK(d, x)
           /\ \A x \in Unit : CoinOK(x)
           /\ \A i \in DOMAIN log : EventOK(eth, log[i])
BY DEF SwapInv, Priced

LEMMA SceneFacts ==
    ASSUME SwapInv
    PROVE  /\ scene.sells \subseteq Unit /\ scene.buys \subseteq Bid
           /\ scene.takers \subseteq Daemon
           /\ scene.life \in Nat /\ scene.last \in Nat /\ scene.offers \subseteq Nat
           /\ \A e \in Bounds : scene[e] \in Nat
BY Facts, SwapsAssumption

LEMMA Kinds ==
    /\ Unit \subseteq Item /\ Bid \subseteq Item /\ Daemon \subseteq Holder
    /\ Stranger \in Holder
    /\ \A x \in Item : x \in Unit \/ x \in Bid
    /\ \A x \in Unit : x \notin Bid
    /\ \A x \in Item : Maker[x] \in Daemon
    /\ \A h \in Holder : h \in Daemon \/ h = Stranger
    /\ \A h \in Holder : h \notin {"none", "sent", "live", "back"}
BY SwapsAssumption DEF Item, Holder

LEMMA Spent ==
    ASSUME SwapInv, scene' = scene, UNCHANGED used \/ \E e \in Bounds : Happens(e)
    PROVE  Budget'
<1>1. CASE UNCHANGED used
  BY <1>1, Facts DEF Budget
<1>2. CASE \E e \in Bounds : Happens(e)
  <2>1. PICK e \in Bounds : Happens(e)
    BY <1>2
  <2>2. used[e] \in Nat /\ scene[e] \in Nat
    BY Facts, SceneFacts
  <2>3. used[e] < scene[e] /\ used' = [used EXCEPT ![e] = used[e] + 1]
    BY <2>1 DEF Happens
  <2>4. used[e] + 1 \in Nat /\ used[e] + 1 <= scene[e]
    BY <2>2, <2>3
  <2>5. QED BY <2>3, <2>4, Facts DEF Budget
<1>3. QED BY <1>1, <1>2

LEMMA EscrowParts ==
    ASSUME SwapInv, NEW h \in Holder, NEW x \in Item
    PROVE  /\ eth[h] \in [Item -> Escrow] /\ eth[h][x] \in Escrow
           /\ eth[h][x].st \in EthState /\ eth[h][x].due \in Nat
           /\ eth[h][x].full \in BOOLEAN /\ eth[h][x].tx \in SUBSET Call
BY Facts DEF Escrow

LEMMA RecParts ==
    ASSUME SwapInv, NEW d \in Daemon, NEW x \in Item
    PROVE  /\ book[d] \in Book /\ disk[d] \in Book
           /\ book[d].rec \in [Item -> Swap] /\ disk[d].rec \in [Item -> Swap]
           /\ book[d].rec[x] \in Swap /\ disk[d].rec[x] \in Swap
           /\ book[d].rec[x].by \in Holder /\ disk[d].rec[x].by \in Holder
           /\ book[d].cursor \in Nat /\ disk[d].cursor \in Nat
<1>1. book[d] \in Book /\ disk[d] \in Book
  BY Facts
<1>2. /\ book[d].rec \in [Item -> Swap] /\ disk[d].rec \in [Item -> Swap]
      /\ book[d].cursor \in Nat /\ disk[d].cursor \in Nat
  BY <1>1 DEF Book
<1>3. book[d].rec[x] \in Swap /\ disk[d].rec[x] \in Swap
  BY <1>2
<1>4. QED BY <1>1, <1>2, <1>3 DEF Swap

LEMMA LogParts ==
    ASSUME SwapInv
    PROVE  /\ Len(log) \in Nat /\ DOMAIN log = 1..Len(log)
           /\ \A i \in DOMAIN log : /\ log[i] \in Event
                                    /\ log[i].by \in Holder /\ log[i].x \in Item
<1>1. log \in Seq(Event)
  BY Facts
<1>2. \A i \in DOMAIN log : log[i] \in Event
  BY <1>1
<1>3. QED BY <1>1, <1>2 DEF Event
-----------------------------------------------------------------------------
(***************************************************************************)
(* Steps on the chains: escrows that were there stay, keep their price and *)
(* are not unclaimed.                                                      *)
(***************************************************************************)
Grows ==
    \A h \in Holder, x \in Unit :
       /\ eth[h][x].st = "claimed" => eth'[h][x].st = "claimed"
       /\ eth[h][x].st # "none" => /\ eth'[h][x].st # "none"
                                   /\ eth'[h][x].full = eth[h][x].full

NoneNew ==
    \A d \in Daemon, x \in Unit : eth'[d][x].st # "none" => eth[d][x].st # "none"

LEMMA RecKept ==
    ASSUME SwapInv, Grows, NoneNew, NEW d \in Daemon, NEW x \in Unit
    PROVE  \A r : r.by \in Holder /\ RecOK(eth, d, x, r) => RecOK(eth', d, x, r)
BY Kinds DEF RecOK, Grows, NoneNew

LEMMA DaemonKept ==
    ASSUME SwapInv, Grows, NoneNew, UNCHANGED <<book, disk>>, NEW d \in Daemon, NEW x \in Unit,
           sweep'[d][x] = "reveal" => eth'[d][x].st = "claimed"
    PROVE  DaemonOK(d, x)'
<1>1. DaemonOK(d, x)
  BY Prices
<1>2. book[d].rec[x].by \in Holder /\ disk[d].rec[x].by \in Holder
  BY Kinds, RecParts
<1>3. RecOK(eth', d, x, book[d].rec[x]) /\ RecOK(eth', d, x, disk[d].rec[x])
  BY <1>1, <1>2, RecKept DEF DaemonOK
<1>4. QED BY <1>1, <1>3 DEF DaemonOK

LEMMA CoinKept ==
    ASSUME SwapInv, Grows, NEW x \in Unit, mds'[x] = mds[x], due'[x] = due[x], height' = height
    PROVE  CoinOK(x)'
<1>1. CoinOK(x)
  BY Prices
<1>2. QED BY <1>1 DEF CoinOK, Grows

\* The history after a step that may have added one event.
LEMMA HistoryKept ==
    ASSUME SwapInv, Grows,
           \/ log' = log
           \/ \E ev \in Event : log' = Append(log, ev) /\ EventOK(eth', ev)
    PROVE  /\ log' \in Seq(Event) /\ Len(log') >= Len(log) /\ Len(log') \in Nat
           /\ \A i \in DOMAIN log' : EventOK(eth', log'[i])
<1>0. log \in Seq(Event) /\ Len(log) \in Nat /\ DOMAIN log = 1..Len(log)
  BY Facts, LogParts
<1>1. ASSUME NEW i \in DOMAIN log PROVE EventOK(eth', log[i])
  <2>1. EventOK(eth, log[i]) /\ log[i].by \in Holder
    BY Prices, LogParts
  <2>2. QED BY <2>1 DEF EventOK, Grows
<1>2. CASE log' = log
  BY <1>0, <1>1, <1>2
<1>3. ASSUME NEW ev \in Event, log' = Append(log, ev), EventOK(eth', ev)
      PROVE  /\ log' \in Seq(Event) /\ Len(log') >= Len(log) /\ Len(log') \in Nat
             /\ \A i \in DOMAIN log' : EventOK(eth', log'[i])
  <2>1. /\ log' \in Seq(Event) /\ Len(log') = Len(log) + 1 /\ DOMAIN log' = 1..Len(log) + 1
        /\ \A i \in 1..Len(log) : log'[i] = log[i]
        /\ log'[Len(log) + 1] = ev
    <3> DEFINE l == Append(log, ev)
    <3>1. /\ l \in Seq(Event) /\ Len(l) = Len(log) + 1
          /\ \A i \in 1..Len(log) : l[i] = log[i]
          /\ l[Len(log) + 1] = ev
      BY <1>0, AppendProperties
    <3> HIDE DEF l
    <3>2. DOMAIN l = 1..Len(l)
      BY <3>1
    <3>3. log' = l
      BY <1>3 DEF l
    <3>4. QED BY <3>1, <3>2, <3>3
  <2>2. \A i \in 1..Len(log) + 1 : i \in 1..Len(log) \/ i = Len(log) + 1
    BY <1>0
  <2>3. \A i \in DOMAIN log' : EventOK(eth', log'[i])
    BY <1>0, <1>1, <1>3, <2>1, <2>2
  <2>4. QED BY <1>0, <2>1, <2>3
<1>4. QED BY <1>2, <1>3

\* A step on the chains that leaves the books alone.
LEMMA ChainMove ==
    ASSUME SwapInv, Grows, NoneNew, UNCHANGED <<scene, now, height, sweep, orders, book, disk>>,
           eth' \in [Holder -> [Item -> Escrow]],
           mds' \in [Item -> CoinState], due' \in [Item -> Nat],
           \A x \in Unit : mds'[x] = mds[x] /\ due'[x] = due[x],
           \A h \in Holder, x \in Unit : EscrowOK(h, x)',
           bids' \in [Daemon -> [Bid -> {"none", "saved", "sent", "open", "cancelled"}]],
           view' \in [Daemon -> SUBSET Item],
           UNCHANGED used \/ \E e \in Bounds : Happens(e),
           \/ log' = log
           \/ \E ev \in Event : log' = Append(log, ev) /\ EventOK(eth', ev)
    PROVE  SwapInv'
<1>1. /\ log' \in Seq(Event) /\ Len(log') >= Len(log) /\ Len(log') \in Nat
      /\ \A i \in DOMAIN log' : EventOK(eth', log'[i])
  BY HistoryKept
<1>2. ASSUME NEW d \in Daemon
      PROVE  book'[d].cursor <= Len(log') /\ disk'[d].cursor <= book'[d].cursor
  <2>1. book[d].cursor \in Nat /\ Len(log) \in Nat
    BY Facts, LogParts DEF Book
  <2>2. QED BY <1>1, <2>1, Facts
<1>3. Typed'
  BY <1>1, <1>2, Spent, Facts DEF Typed
<1>4. ASSUME NEW d \in Daemon, NEW x \in Unit PROVE DaemonOK(d, x)'
  <2>1. DaemonOK(d, x)
    BY Prices
  <2>2. sweep'[d][x] = "reveal" => eth'[d][x].st = "claimed"
    BY <2>1, Kinds DEF DaemonOK, Grows
  <2>3. QED BY <2>2, DaemonKept
<1>5. \A x \in Unit : CoinOK(x)'
  BY CoinKept
<1>6. Priced'
  BY <1>1, <1>4, <1>5 DEF Priced
<1>7. QED BY <1>3, <1>6 DEF SwapInv

\* ... that leaves the units alone as well.
LEMMA UnitsAside ==
    ASSUME SwapInv, UNCHANGED <<scene, now, height, sweep, orders, book, disk>>,
           eth' \in [Holder -> [Item -> Escrow]],
           mds' \in [Item -> CoinState], due' \in [Item -> Nat],
           \A x \in Unit : mds'[x] = mds[x] /\ due'[x] = due[x],
           \A h \in Holder, x \in Unit : eth'[h][x] = eth[h][x],
           bids' \in [Daemon -> [Bid -> {"none", "saved", "sent", "open", "cancelled"}]],
           view' \in [Daemon -> SUBSET Item],
           UNCHANGED used \/ \E e \in Bounds : Happens(e),
           \/ log' = log
           \/ \E ev \in Event : log' = Append(log, ev) /\ ev.x \notin Unit
    PROVE  SwapInv'
<1>1. Grows /\ NoneNew
  BY Kinds DEF Grows, NoneNew
<1>2. \A h \in Holder, x \in Unit : EscrowOK(h, x)'
  BY Prices DEF EscrowOK, Booking
<1>3. \/ log' = log
      \/ \E ev \in Event : log' = Append(log, ev) /\ EventOK(eth', ev)
  BY DEF EventOK
<1>4. QED BY <1>1, <1>2, <1>3, ChainMove

\* One escrow for a unit changes, and keeps its price if it had one.
LEMMA OneEscrow ==
    ASSUME SwapInv, NEW h \in Holder, NEW x \in Unit, NEW e \in Escrow,
           eth' = [eth EXCEPT ![h][x] = e],
           UNCHANGED <<scene, now, height, sweep, orders, book, disk, mds, due, bids, view>>,
           eth[h][x].st = "claimed" => e.st = "claimed",
           eth[h][x].st # "none" => e.st # "none" /\ e.full = eth[h][x].full,
           h \in Daemon => eth[h][x].st # "none",
           EscrowOK(h, x)',
           UNCHANGED used \/ \E b \in Bounds : Happens(b),
           \/ log' = log
           \/ \E ev \in Event : log' = Append(log, ev) /\ EventOK(eth', ev)
    PROVE  SwapInv'
<1>0. eth \in [Holder -> [Item -> Escrow]] /\ x \in Item
  BY Facts, Kinds
<1>1. eth' \in [Holder -> [Item -> Escrow]]
  BY <1>0
<1>2. /\ eth'[h][x] = e
      /\ \A g \in Holder, y \in Unit : g # h \/ y # x => eth'[g][y] = eth[g][y]
  BY <1>0, Kinds
<1>3. Grows /\ NoneNew
  BY <1>2, Kinds DEF Grows, NoneNew
<1>4. ASSUME NEW g \in Holder, NEW y \in Unit PROVE EscrowOK(g, y)'
  <2>1. CASE g = h /\ y = x
    BY <2>1
  <2>2. CASE g # h \/ y # x
    <3>1. eth'[g][y] = eth[g][y] /\ EscrowOK(g, y)
      BY <1>2, <2>2, Prices
    <3>2. QED BY <3>1 DEF EscrowOK, Booking
  <2>3. QED BY <2>1, <2>2
<1>5. QED BY <1>1, <1>3, <1>4, Facts, ChainMove

LEMMA BaseFrame ==
    ASSUME BaseOnly
    PROVE  UNCHANGED <<scene, now, height, mds, due, sweep, orders, bids, book, disk, stage, view>>
BY DEF BaseOnly, Clock, MdsEnv, Books

LEMMA LoggedEvent ==
    ASSUME SwapInv, NEW kind \in {"Locked", "Claimed"}, NEW h \in Holder, NEW x \in Item,
           Logged(kind, h, x)
    PROVE  \E ev \in Event : log' = Append(log, ev) /\ ev.x = x /\ ev.by = h /\ ev.kind = kind
<1> DEFINE ev == [kind |-> kind, by |-> h, x |-> x, at |-> now]
<1>1. ev \in Event /\ ev.x = x /\ ev.by = h /\ ev.kind = kind
  BY Facts DEF Event
<1>2. log' = Append(log, ev)
  BY DEF Logged
<1>3. QED BY <1>1, <1>2

\* A transaction on Base that ends the escrow's pending calls.
LEMMA MinedStep ==
    ASSUME SwapInv, NEW h \in Holder, NEW x \in Item, NEW st \in EthState, Mined(h, x, st),
           BaseOnly, UNCHANGED used \/ \E e \in Bounds : Happens(e),
           \/ log' = log
           \/ \E ev \in Event : /\ log' = Append(log, ev) /\ ev.x = x /\ ev.by = h
                                /\ st = "claimed" \/ ev.kind # "Claimed",
           x \in Unit => /\ eth[h][x].st # "none" /\ st # "none"
                         /\ eth[h][x].st = "claimed" => st = "claimed"
                         /\ st \notin {"pending", "locked"}
                         /\ st = "claimed" => "claim" \in eth[h][x].tx \/ eth[h][x].st = "claimed"
    PROVE  SwapInv'
<1> DEFINE e == [eth[h][x] EXCEPT !.st = st, !.tx = {}]
<1>1. UNCHANGED <<scene, now, height, mds, due, sweep, orders, bids, book, disk, stage, view>>
  BY BaseFrame
<1>2. e \in Escrow /\ e.st = st /\ e.tx = {} /\ e.full = eth[h][x].full /\ eth[h][x] \in Escrow
  BY EscrowParts DEF Escrow
<1>3. eth' = [eth EXCEPT ![h][x] = e]
  BY DEF Mined
<1> HIDE DEF e
<1>4. eth \in [Holder -> [Item -> Escrow]]
  BY Facts
<1>5. CASE x \in Bid
  <2>1. eth' \in [Holder -> [Item -> Escrow]]
    BY <1>2, <1>3, <1>4
  <2>2. \A g \in Holder, y \in Unit : eth'[g][y] = eth[g][y]
    BY <1>3, <1>4, <1>5, Kinds
  <2>3. x \notin Unit
    BY <1>5, Kinds
  <2>4. QED BY <1>1, <2>1, <2>2, <2>3, Facts, UnitsAside
<1>6. CASE x \in Unit
  <2>1. eth'[h][x] = e
    BY <1>3, <1>4, Kinds
  <2>2. EscrowOK(h, x)
    BY <1>6, Prices
  <2>3. EscrowOK(h, x)'
    BY <1>1, <1>2, <1>6, <2>1, <2>2 DEF EscrowOK, Booking
  <2>4. \/ log' = log
        \/ \E ev \in Event : log' = Append(log, ev) /\ EventOK(eth', ev)
    BY <1>2, <1>6, <2>1 DEF EventOK
  <2>5. QED BY <1>1, <1>2, <1>3, <1>6, <2>3, <2>4, OneEscrow
<1>7. QED BY <1>5, <1>6, Kinds

LEMMA MineLockStep ==
    ASSUME SwapInv, NEW h \in Holder, NEW x \in Item, MineLock(h, x) PROVE SwapInv'
<1>1. x \in Unit /\ eth[h][x].st = "pending" /\ BaseOnly
  BY DEF MineLock
<1>2. CASE Happens("refusals") /\ Mined(h, x, "reverted") /\ UNCHANGED log
  <2>1. "reverted" \in EthState /\ "refusals" \in Bounds
    BY DEF EthState, Bounds
  <2>2. QED BY <1>1, <1>2, <2>1, MinedStep
<1>3. CASE /\ UNCHANGED used
           /\ eth' = [eth EXCEPT ![h][x].st = "locked", ![h][x].due = now + @]
           /\ Logged("Locked", h, x)
  <2> DEFINE e == [eth[h][x] EXCEPT !.st = "locked", !.due = now + eth[h][x].due]
  <2>0. eth \in [Holder -> [Item -> Escrow]] /\ eth[h][x] \in Escrow
    BY Facts, EscrowParts
  <2>1. eth' = [eth EXCEPT ![h][x] = e]
    BY <1>3, <2>0 DEF Escrow
  <2>2. now + eth[h][x].due \in Nat
    BY Facts, EscrowParts
  <2>3. /\ e \in Escrow /\ e.st = "locked" /\ e.due = now + eth[h][x].due
        /\ e.full = eth[h][x].full /\ e.tx = eth[h][x].tx
    BY <2>0, <2>2 DEF Escrow, EthState
  <2> HIDE DEF e
  <2>4. eth'[h][x] = e
    BY <2>0, <2>1
  <2>5. UNCHANGED <<scene, now, height, mds, due, sweep, orders, bids, book, disk, stage, view>>
    BY <1>1, BaseFrame
  <2>6. EscrowOK(h, x)
    BY <1>1, Prices
  <2>7. h \in Daemon => e.due + Margin + height <= due[x] + now
    <3>1. h \in Daemon => eth[h][x].due + Margin + height <= due[x]
      BY <1>1, <2>6 DEF EscrowOK
    <3>2. eth[h][x].due \in Nat /\ height \in Nat /\ now \in Nat /\ due[x] \in Nat /\ Margin \in Nat
      BY EscrowParts, Facts, SwapsAssumption
    <3>3. QED BY <2>3, <3>1, <3>2
  <2>8. EscrowOK(h, x)'
    BY <1>1, <2>3, <2>4, <2>5, <2>6, <2>7 DEF EscrowOK, Booking
  <2>9. \E ev \in Event : log' = Append(log, ev) /\ EventOK(eth', ev)
    <3>1. PICK ev \in Event : log' = Append(log, ev) /\ ev.x = x /\ ev.by = h /\ ev.kind = "Locked"
      BY <1>3, LoggedEvent
    <3>2. QED BY <2>3, <2>4, <3>1 DEF EventOK
  <2>10. QED BY <1>1, <1>3, <2>1, <2>3, <2>5, <2>8, <2>9, OneEscrow
<1>4. QED BY <1>2, <1>3 DEF MineLock, Quiet

LEMMA BaseMinesStep == ASSUME SwapInv, BaseMines PROVE SwapInv'
<1>1. PICK h \in Holder, x \in Item : \/ MineLock(h, x) \/ MineBid(h, x) \/ MineClaim(h, x)
                                      \/ MineRefund(h, x) \/ MineCancel(h, x)
  BY DEF BaseMines
<1>s. /\ {"open", "claimed", "refunded", "back"} \subseteq EthState
      /\ eth[h][x].st \in EthState
  BY EscrowParts DEF EthState
<1>2. CASE MineLock(h, x)
  BY <1>2, MineLockStep
<1>3. CASE MineBid(h, x)
  BY <1>3, <1>s, MinedStep, Kinds DEF MineBid, Quiet
<1>4. CASE MineClaim(h, x)
  <2>1. \E ev \in Event : log' = Append(log, ev) /\ ev.x = x /\ ev.by = h
    BY <1>4, LoggedEvent DEF MineClaim
  <2>2. QED BY <1>4, <1>s, <2>1, MinedStep DEF MineClaim, Quiet
<1>5. CASE MineRefund(h, x)
  BY <1>5, <1>s, MinedStep DEF MineRefund, Quiet
<1>6. CASE MineCancel(h, x)
  <2>1. x \notin Unit
    BY <1>6, Prices DEF MineCancel, EscrowOK
  <2>2. QED BY <1>6, <1>s, <2>1, MinedStep DEF MineCancel, Quiet
<1>7. QED BY <1>1, <1>2, <1>3, <1>4, <1>5, <1>6

LEMMA StrangerLocksStep ==
    ASSUME SwapInv, NEW x \in Item, StrangerLocks(x) PROVE SwapInv'
<1> DEFINE e == [NoEscrow EXCEPT !.st = "locked", !.full = FALSE, !.due = now + Margin]
<1>1. /\ x \in scene.sells /\ mds[x] = "live" /\ eth[Stranger][x].st = "none"
      /\ Happens("strangers") /\ eth' = [eth EXCEPT ![Stranger][x] = e]
      /\ Logged("Locked", Stranger, x) /\ BaseOnly
  BY DEF StrangerLocks
<1>2. x \in Unit /\ Stranger \in Holder /\ Stranger \notin Daemon /\ "strangers" \in Bounds
  BY <1>1, SceneFacts, Kinds, SwapsAssumption DEF Bounds
<1>3. now + Margin \in Nat
  BY Facts, SwapsAssumption
<1>4. e \in Escrow /\ e.st = "locked" /\ e.full = FALSE /\ e.tx = {}
  BY <1>3 DEF NoEscrow, Escrow, EthState
<1> HIDE DEF e
<1>5. eth'[Stranger][x] = e
  BY <1>1, <1>2, Facts
<1>6. UNCHANGED <<scene, now, height, mds, due, sweep, orders, bids, book, disk, stage, view>>
  BY <1>1, BaseFrame
<1>7. EscrowOK(Stranger, x)'
  BY <1>1, <1>2, <1>4, <1>5, <1>6 DEF EscrowOK
<1>8. \E ev \in Event : log' = Append(log, ev) /\ EventOK(eth', ev)
  <2>1. PICK ev \in Event :
           log' = Append(log, ev) /\ ev.x = x /\ ev.by = Stranger /\ ev.kind = "Locked"
    BY <1>1, <1>2, LoggedEvent
  <2>2. QED BY <1>4, <1>5, <2>1 DEF EventOK
<1>9. QED BY <1>1, <1>2, <1>4, <1>6, <1>7, <1>8, OneEscrow

\* The escrow of a bid changes.
LEMMA BidEscrow ==
    ASSUME SwapInv, NEW h \in Holder, NEW x \in Bid, NEW e \in Escrow,
           eth' = [eth EXCEPT ![h][x] = e]
    PROVE  /\ eth' \in [Holder -> [Item -> Escrow]]
           /\ \A g \in Holder, y \in Unit : eth'[g][y] = eth[g][y]
BY Facts, Kinds

LEMMA SellerLocksStep ==
    ASSUME SwapInv, NEW x \in Item, SellerLocks(x) PROVE SwapInv'
<1> DEFINE m == Maker[x]
           e == [eth[m][x] EXCEPT !.st = "reserved"]
<1>1. /\ x \in Bid /\ Happens("fills") /\ eth' = [eth EXCEPT ![m][x].st = "reserved"]
      /\ mds' = [mds EXCEPT ![x] = "live"]
      /\ UNCHANGED <<scene, now, height, sweep, log, orders, bids, book, disk, view>>
  BY DEF SellerLocks, Clock, Books
<1>2. PICK left \in scene.offers : due' = [due EXCEPT ![x] = height + left]
  BY DEF SellerLocks
<1>3. height + left \in Nat
  BY Facts, SceneFacts
<1>4. m \in Holder /\ "fills" \in Bounds
  BY Kinds DEF Bounds
<1>5. /\ due' \in [Item -> Nat] /\ mds' \in [Item -> CoinState]
      /\ \A y \in Unit : mds'[y] = mds[y] /\ due'[y] = due[y]
  BY <1>1, <1>2, <1>3, Facts, Kinds DEF CoinState
<1>6. e \in Escrow
  BY <1>4, EscrowParts DEF Escrow, EthState
<1>7. eth' = [eth EXCEPT ![m][x] = e]
  BY <1>1, <1>4, Facts
<1> HIDE DEF e, m
<1>8. /\ eth' \in [Holder -> [Item -> Escrow]]
      /\ \A g \in Holder, y \in Unit : eth'[g][y] = eth[g][y]
  BY <1>1, <1>4, <1>6, <1>7, BidEscrow
<1>9. /\ bids' \in [Daemon -> [Bid -> {"none", "saved", "sent", "open", "cancelled"}]]
      /\ view' \in [Daemon -> SUBSET Item]
  BY <1>1, Facts
<1>10. QED BY <1>1, <1>4, <1>5, <1>8, <1>9, UnitsAside

LEMMA SellerClaimsStep ==
    ASSUME SwapInv, NEW x \in Item, SellerClaims(x) PROVE SwapInv'
<1>1. /\ x \in Bid /\ Mined(Maker[x], x, "claimed") /\ UNCHANGED <<log, used>> /\ BaseOnly
  BY DEF SellerClaims, Quiet
<1>2. x \notin Unit /\ Maker[x] \in Holder /\ "claimed" \in EthState
  BY <1>1, Kinds DEF EthState
<1>3. QED BY <1>1, <1>2, MinedStep

\* A claim in flight is in time: the coin's refund branch is still shut.
LEMMA InTime ==
    ASSUME SwapInv, NEW h \in Holder, NEW x \in Unit,
           eth[h][x].full, eth[h][x].st = "locked", now <= eth[h][x].due
    PROVE  h \in Daemon /\ height < due[x]
<1>1. EscrowOK(h, x)
  BY Prices
<1>2. h \in Daemon
  BY <1>1, Kinds DEF EscrowOK
<1>3. eth[h][x].due + Margin + height <= due[x] + now
  BY <1>1, <1>2 DEF EscrowOK
<1>4. /\ eth[h][x].due \in Nat /\ height \in Nat /\ now \in Nat /\ due[x] \in Nat
      /\ Margin \in Nat /\ Margin # 0
  BY EscrowParts, Facts, SwapsAssumption, Kinds
<1>5. height < due[x]
  BY <1>3, <1>4
<1>6. QED BY <1>2, <1>5

LEMMA ReclaimStep ==
    ASSUME SwapInv, NEW x \in Item, Reclaim(x) PROVE SwapInv'
<1>1. /\ mds[x] = "live" /\ height >= due[x] /\ mds' = [mds EXCEPT ![x] = "back"]
      /\ UNCHANGED <<scene, now, height, due, sweep, eth, log, orders, bids, book, disk, view, used>>
  BY DEF Reclaim, Clock, EthEnv, Books
<1>2. mds' \in [Item -> CoinState]
  BY <1>1, Facts DEF CoinState
<1>3. Typed'
  BY <1>1, <1>2, Spent, Facts DEF Typed
<1>4. ASSUME NEW h \in Holder, NEW y \in Unit PROVE EscrowOK(h, y)'
  <2>1. EscrowOK(h, y)
    BY Prices
  <2>2. CASE y # x
    <3>1. mds'[y] = mds[y]
      BY <1>1, <2>2, Facts, Kinds
    <3>2. QED BY <1>1, <2>1, <3>1 DEF EscrowOK, Booking
  <2>3. CASE y = x
    <3>1. mds'[y] = "back"
      BY <1>1, <2>3, Facts
    <3>2. height \in Nat /\ due[y] \in Nat
      BY Facts, Kinds
    <3>3. ~(height < due[y])
      BY <1>1, <2>3, <3>2
    <3>4. "claim" \notin eth[h][y].tx
      <4> SUFFICES ASSUME "claim" \in eth[h][y].tx PROVE FALSE
        OBVIOUS
      <4>1. eth[h][y].full /\ eth[h][y].st = "locked" /\ now <= eth[h][y].due
        BY <2>1 DEF EscrowOK
      <4>2. QED BY <3>3, <4>1, InTime
    <3>5. QED BY <1>1, <2>1, <3>1, <3>4 DEF EscrowOK, Booking
  <2>4. QED BY <2>2, <2>3
<1>5. ASSUME NEW d \in Daemon, NEW y \in Unit PROVE DaemonOK(d, y)'
  BY <1>1, Prices DEF DaemonOK
<1>6. ASSUME NEW y \in Unit PROVE CoinOK(y)'
  <2>1. CoinOK(y)
    BY Prices
  <2>2. mds'[y] = IF y = x THEN "back" ELSE mds[y]
    BY <1>1, Facts, Kinds
  <2>3. "back" \notin Holder
    BY Kinds
  <2>4. QED BY <1>1, <2>1, <2>2, <2>3 DEF CoinOK
<1>7. \A i \in DOMAIN log' : EventOK(eth', log'[i])
  BY <1>1, Prices
<1>8. QED BY <1>3, <1>4, <1>5, <1>6, <1>7 DEF SwapInv, Priced

-----------------------------------------------------------------------------
(***************************************************************************)
(* Orders.                                                                 *)
(***************************************************************************)
LEMMA PlaceAskStep ==
    ASSUME SwapInv, NEW d \in Daemon, NEW x \in Item, PlaceAsk(d, x) PROVE SwapInv'
<1>1. /\ x \in scene.sells /\ Maker[x] = d /\ mds[x] = "none"
      /\ mds' = [mds EXCEPT ![x] = "sent"]
      /\ due' = [due EXCEPT ![x] = height + scene.life]
      /\ UNCHANGED <<scene, now, height, sweep, eth, log, bids, book, disk, view>>
      /\ UNCHANGED orders \/ orders' = [orders EXCEPT ![d] = @ \cup {x}]
      /\ UNCHANGED used \/ Happens("crashes")
  BY DEF PlaceAsk, Clock, EthEnv, Quiet
<1>2. x \in Unit /\ "crashes" \in Bounds
  BY <1>1, SceneFacts DEF Bounds
<1>3. height + scene.life \in Nat
  BY Facts, SceneFacts
<1>4. mds' \in [Item -> CoinState] /\ due' \in [Item -> Nat]
  BY <1>1, <1>3, Facts DEF CoinState
<1>5. /\ orders' \in [Daemon -> SUBSET Unit]
      /\ \A c \in Daemon : \A y \in orders'[c] : Maker[y] = c
  <2>1. CASE UNCHANGED orders
    BY <2>1, Facts
  <2>2. CASE orders' = [orders EXCEPT ![d] = orders[d] \cup {x}]
    <3>1. orders \in [Daemon -> SUBSET Unit] /\ orders[d] \cup {x} \in SUBSET Unit
      BY <1>2, Facts
    <3>2. orders' \in [Daemon -> SUBSET Unit]
      BY <2>2, <3>1
    <3>3. \A c \in Daemon : orders'[c] = IF c = d THEN orders[d] \cup {x} ELSE orders[c]
      BY <2>2, <3>1
    <3>4. QED BY <1>1, <3>2, <3>3, Facts
  <2>3. QED BY <1>1, <2>1, <2>2
<1>6. Typed'
  BY <1>1, <1>2, <1>4, <1>5, Spent, Facts DEF Typed
<1>7. ASSUME NEW h \in Holder, NEW y \in Unit PROVE EscrowOK(h, y)'
  <2>1. EscrowOK(h, y)
    BY Prices
  <2>2. CASE y = x
    <3>1. eth[h][y].st = "none"
      BY <1>1, <2>1, <2>2 DEF EscrowOK
    <3>2. "claim" \notin eth[h][y].tx
      BY <2>1, <3>1 DEF EscrowOK
    <3>3. QED BY <1>1, <2>1, <3>1, <3>2 DEF EscrowOK
  <2>3. CASE y # x
    <3>1. mds'[y] = mds[y] /\ due'[y] = due[y]
      BY <1>1, <2>3, Facts, Kinds
    <3>2. QED BY <1>1, <2>1, <3>1 DEF EscrowOK, Booking
  <2>4. QED BY <2>2, <2>3
<1>8. ASSUME NEW c \in Daemon, NEW y \in Unit PROVE DaemonOK(c, y)'
  BY <1>1, Prices DEF DaemonOK
<1>9. ASSUME NEW y \in Unit PROVE CoinOK(y)'
  <2>1. CoinOK(y)
    BY Prices
  <2>2. mds'[y] = (IF y = x THEN "sent" ELSE mds[y]) /\ (y # x => due'[y] = due[y])
    BY <1>1, Facts, Kinds
  <2>3. "sent" \notin Holder
    BY Kinds
  <2>4. QED BY <1>1, <2>1, <2>2, <2>3 DEF CoinOK
<1>10. \A i \in DOMAIN log' : EventOK(eth', log'[i])
  BY <1>1, Prices
<1>11. QED BY <1>6, <1>7, <1>8, <1>9, <1>10 DEF SwapInv, Priced

LEMMA SyncOrderBookStep ==
    ASSUME SwapInv, NEW d \in Daemon, SyncOrderBook(d) PROVE SwapInv'
<1>1. /\ view' = [view EXCEPT ![d] = TakeableBids \cup LiveAsks]
      /\ UNCHANGED <<scene, now, height, mds, due, sweep, eth, log, orders, bids, book, disk, used>>
  BY DEF SyncOrderBook, Clock, MdsEnv, EthEnv, Books
<1>2. view' \in [Daemon -> SUBSET Item]
  BY <1>1, Facts, Kinds DEF TakeableBids, LiveAsks
<1>3. QED BY <1>1, <1>2, Facts, UnitsAside

LEMMA CallBudget ==
    ASSUME NEW out, CallHappens(out) PROVE UNCHANGED used \/ \E e \in Bounds : Happens(e)
<1>1. "refusals" \in Bounds /\ "cuts" \in Bounds
  BY DEF Bounds
<1>2. QED BY <1>1 DEF CallHappens, Quiet

LEMMA PlaceBidStep ==
    ASSUME SwapInv, NEW d \in Daemon, NEW x \in Item, NEW out, PlaceBid(d, x, out)
    PROVE  SwapInv'
<1> DEFINE e == [NoEscrow EXCEPT !.st = "pending"]
           s == IF out = "sent" THEN "sent" ELSE "saved"
<1>1. /\ x \in scene.buys /\ CallHappens(out) /\ bids' = [bids EXCEPT ![d][x] = s]
      /\ eth' = [eth EXCEPT ![d][x] = e] \/ eth' = eth
      /\ UNCHANGED <<scene, now, height, mds, due, sweep, log, orders, book, disk, view>>
  BY DEF PlaceBid, Clock, MdsEnv
<1>2. x \in Bid /\ d \in Holder
  BY <1>1, SceneFacts, Kinds
<1>3. e \in Escrow
  BY DEF NoEscrow, Escrow, EthState
<1> HIDE DEF e
<1>4. /\ eth' \in [Holder -> [Item -> Escrow]]
      /\ \A g \in Holder, y \in Unit : eth'[g][y] = eth[g][y]
  BY <1>1, <1>2, <1>3, BidEscrow, Facts
<1>5. s \in {"saved", "sent"}
  OBVIOUS
<1> HIDE DEF s
<1>6. bids' \in [Daemon -> [Bid -> {"none", "saved", "sent", "open", "cancelled"}]]
  BY <1>1, <1>2, <1>5, Facts
<1>7. UNCHANGED used \/ \E b \in Bounds : Happens(b)
  BY <1>1, CallBudget
<1>8. QED BY <1>1, <1>4, <1>6, <1>7, Facts, UnitsAside

LEMMA CancelBidStep ==
    ASSUME SwapInv, NEW d \in Daemon, NEW x \in Item, CancelBid(d, x) PROVE SwapInv'
<1> DEFINE e == [eth[d][x] EXCEPT !.tx = eth[d][x].tx \cup {"cancel"}]
<1>1. /\ x \in Bid /\ Happens("cancels") /\ bids' = [bids EXCEPT ![d][x] = "cancelled"]
      /\ eth' = [eth EXCEPT ![d][x].tx = @ \cup {"cancel"}]
      /\ UNCHANGED <<scene, now, height, mds, due, sweep, log, orders, book, disk, view>>
  BY DEF CancelBid, Clock, MdsEnv
<1>2. d \in Holder /\ "cancels" \in Bounds
  BY Kinds DEF Bounds
<1>3. e \in Escrow /\ eth' = [eth EXCEPT ![d][x] = e]
  <2>1. eth[d][x] \in Escrow /\ eth \in [Holder -> [Item -> Escrow]]
    BY <1>2, EscrowParts, Facts
  <2>2. e \in Escrow
    BY <2>1 DEF Escrow, Call
  <2>3. QED BY <1>1, <1>2, <2>1, <2>2
<1> HIDE DEF e
<1>4. /\ eth' \in [Holder -> [Item -> Escrow]]
      /\ \A g \in Holder, y \in Unit : eth'[g][y] = eth[g][y]
  BY <1>1, <1>2, <1>3, BidEscrow
<1>5. bids' \in [Daemon -> [Bid -> {"none", "saved", "sent", "open", "cancelled"}]]
  BY <1>1, Facts
<1>6. QED BY <1>1, <1>2, <1>4, <1>5, Facts, UnitsAside

LEMMA TakeAskStep ==
    ASSUME SwapInv, NEW d \in Daemon, NEW x \in Item, NEW out \in CallOutcome, TakeAsk(d, x, out)
    PROVE  SwapInv'
<1> DEFINE phase == CASE out = "sent" -> "LockingEth"
                      [] out \in {"refused", "lost"} -> "Failed"
                      [] OTHER -> "Recorded"
           r == [NoSwap EXCEPT !.phase = phase, !.by = d, !.deadline = now + RefundDelay(x)]
           e == [NoEscrow EXCEPT !.st = "pending", !.due = RefundDelay(x)]
<1>1. /\ x \in scene.sells /\ book[d].rec[x].phase = "none" /\ CanTake(d, x) /\ CallHappens(out)
      /\ book' = [book EXCEPT ![d].rec[x] = r] /\ disk' = [disk EXCEPT ![d].rec[x] = r]
      /\ eth' = [eth EXCEPT ![d][x] = e] \/ eth' = eth
      /\ UNCHANGED <<scene, now, height, mds, due, sweep, log, orders, bids, view>>
  BY DEF TakeAsk, Clock, MdsEnv
<1>2. x \in Unit /\ d \in Holder
  BY <1>1, SceneFacts, Kinds
<1>3. RefundDelay(x) \in Nat /\ RefundDelay(x) + Margin + height = due[x]
  <2>1. due[x] \in Nat /\ height \in Nat /\ Margin \in Nat
    BY Facts, SwapsAssumption
  <2>2. SecsLeft(x) > 2 * Margin
    BY <1>1 DEF CanTake
  <2>3. QED BY <2>1, <2>2 DEF SecsLeft, RefundDelay
<1>4. phase \in {"LockingEth", "Failed", "Recorded"}
  OBVIOUS
<1> HIDE DEF phase
<1>5. r \in Swap /\ r.phase = phase
  <2>1. now + RefundDelay(x) \in Nat
    BY <1>3, Facts
  <2>2. QED BY <1>2, <1>4, <2>1 DEF NoSwap, Swap, Phase
<1>6. e \in Escrow /\ e.st = "pending" /\ e.due = RefundDelay(x) /\ e.tx = {}
  BY <1>3 DEF NoEscrow, Escrow, EthState
<1>7. mds[x] = "live"
  BY <1>1 DEF CanTake
<1> HIDE DEF r, e
<1>8. eth \in [Holder -> [Item -> Escrow]] /\ eth' \in [Holder -> [Item -> Escrow]]
  <2>1. eth \in [Holder -> [Item -> Escrow]]
    BY Facts
  <2>2. eth' = eth \/ eth' = [eth EXCEPT ![d][x] = e]
    BY <1>1
  <2>3. QED BY <1>2, <1>6, <2>1, <2>2
<1>9. /\ \A g \in Holder, y \in Unit : g # d \/ y # x => eth'[g][y] = eth[g][y]
      /\ eth'[d][x] = e \/ eth'[d][x] = eth[d][x]
  BY <1>1, <1>2, <1>8, Kinds
<1>10. /\ book' \in [Daemon -> Book] /\ disk' \in [Daemon -> Book]
       /\ \A c \in Daemon : book'[c].cursor = book[c].cursor /\ disk'[c].cursor = disk[c].cursor
       /\ \A c \in Daemon, y \in Unit : c # d \/ y # x =>
             book'[c].rec[y] = book[c].rec[y] /\ disk'[c].rec[y] = disk[c].rec[y]
       /\ book'[d].rec[x] = r /\ disk'[d].rec[x] = r
  <2>1. /\ book \in [Daemon -> Book] /\ disk \in [Daemon -> Book]
        /\ book[d] \in Book /\ disk[d] \in Book
    BY Facts
  <2> DEFINE b == [book[d] EXCEPT !.rec = [book[d].rec EXCEPT ![x] = r]]
             k == [disk[d] EXCEPT !.rec = [disk[d].rec EXCEPT ![x] = r]]
  <2>2. book' = [book EXCEPT ![d] = b] /\ disk' = [disk EXCEPT ![d] = k]
    BY <1>1, <2>1 DEF Book
  <2>3. /\ b \in Book /\ b.cursor = book[d].cursor /\ b.rec = [book[d].rec EXCEPT ![x] = r]
        /\ k \in Book /\ k.cursor = disk[d].cursor /\ k.rec = [disk[d].rec EXCEPT ![x] = r]
    BY <1>5, <2>1 DEF Book
  <2>4. /\ b.rec[x] = r /\ \A y \in Unit : y # x => b.rec[y] = book[d].rec[y]
        /\ k.rec[x] = r /\ \A y \in Unit : y # x => k.rec[y] = disk[d].rec[y]
    BY <2>1, <2>3, Kinds DEF Book
  <2> HIDE DEF b, k
  <2>5. QED BY <2>1, <2>2, <2>3, <2>4
<1>11. Typed'
  BY <1>1, <1>8, <1>10, CallBudget, Spent, Facts DEF Typed
<1>12. eth[d][x].st = "none"
  BY <1>1, <1>2, Prices DEF DaemonOK, RecOK
<1>13. Grows
  BY <1>9, <1>12 DEF Grows
<1>14. ASSUME NEW h \in Holder, NEW y \in Unit PROVE EscrowOK(h, y)'
  <2>1. EscrowOK(h, y)
    BY Prices
  <2>2. CASE y # x
    <3>1. eth'[h][y] = eth[h][y] /\ Maker[y] \in Daemon
      BY <1>9, <2>2, Kinds
    <3>2. QED BY <1>1, <1>10, <2>1, <2>2, <3>1 DEF EscrowOK, Booking
  <2>3. CASE y = x /\ eth'[h][y] = eth[h][y]
    <3>1. CASE Maker[x] = d
      <4>1. eth[h][x].st # "claimed" /\ "claim" \notin eth[h][x].tx
        BY <1>1, <2>1, <2>3, <3>1 DEF EscrowOK, Booking
      <4>2. QED BY <1>1, <2>1, <2>3, <4>1 DEF EscrowOK
    <3>2. CASE Maker[x] # d
      <4>1. Maker[x] \in Daemon
        BY Kinds
      <4>2. /\ book'[Maker[x]].rec[x] = book[Maker[x]].rec[x]
            /\ disk'[Maker[x]].rec[x] = disk[Maker[x]].rec[x]
        BY <1>2, <1>10, <3>2, <4>1
      <4>3. QED BY <1>1, <2>1, <2>3, <4>2 DEF EscrowOK, Booking
    <3>3. QED BY <3>1, <3>2
  <2>4. CASE y = x /\ h = d /\ eth'[h][y] = e
    <3>1. Stranger \notin Daemon
      BY SwapsAssumption
    <3>2. e.due + Margin + height <= due[x]
      BY <1>3, <1>6, Facts
    <3>3. QED BY <1>1, <1>6, <1>7, <2>4, <3>1, <3>2 DEF EscrowOK
  <2>5. QED BY <1>9, <2>2, <2>3, <2>4
<1>15. ASSUME NEW c \in Daemon, NEW y \in Unit PROVE DaemonOK(c, y)'
  <2>1. DaemonOK(c, y)
    BY Prices
  <2>2. CASE c = d /\ y = x
    <3>1. sweep'[c][y] # "reveal"
      BY <1>1, <1>12, <2>1, <2>2 DEF DaemonOK
    <3>2. QED BY <1>4, <1>5, <1>10, <2>2, <3>1 DEF DaemonOK, RecOK
  <2>3. CASE c # d \/ y # x
    <3>1. /\ book'[c].rec[y] = book[c].rec[y] /\ disk'[c].rec[y] = disk[c].rec[y]
          /\ eth'[c][y] = eth[c][y]
      BY <1>9, <1>10, <2>3, Kinds
    <3>2. book[c].rec[y].by \in Holder /\ disk[c].rec[y].by \in Holder
      BY Kinds, RecParts
    <3>3. RecOK(eth', c, y, book[c].rec[y]) /\ RecOK(eth', c, y, disk[c].rec[y])
      BY <1>13, <2>1, <3>1, <3>2 DEF DaemonOK, RecOK, Grows
    <3>4. QED BY <1>1, <2>1, <3>1, <3>3 DEF DaemonOK
  <2>4. QED BY <2>2, <2>3
<1>16. \A y \in Unit : CoinOK(y)'
  BY <1>1, <1>13, CoinKept
<1>17. \A i \in DOMAIN log' : EventOK(eth', log'[i])
  BY <1>1, <1>13, HistoryKept
<1>18. QED BY <1>11, <1>14, <1>15, <1>16, <1>17 DEF SwapInv, Priced
-----------------------------------------------------------------------------
(***************************************************************************)
(* Time passes.                                                            *)
(***************************************************************************)
LEMMA IncludedType ==
    ASSUME SwapInv, NEW x \in Item, NEW m \in Included(x)
    PROVE  /\ m \in CoinState
           /\ m \in {"none", "sent"} => m = mds[x] /\ m = "none"
           /\ m = mds[x] \/ m = "live" \/ (m \in Daemon /\ sweep[m][x] = "reveal")
<1>1. mds[x] \in CoinState
  BY Facts
<1>2. \A h \in Daemon : h \notin {"none", "sent", "live", "back"} /\ h \in Holder
  BY Kinds
<1>3. CASE mds[x] = "sent"
  BY <1>3 DEF Included, CoinState
<1>4. CASE mds[x] = "live" /\ {d \in Daemon : sweep[d][x] = "reveal"} # {}
  BY <1>2, <1>4 DEF Included, CoinState
<1>5. CASE mds[x] # "sent" /\ ~(mds[x] = "live" /\ {d \in Daemon : sweep[d][x] = "reveal"} # {})
  BY <1>1, <1>5 DEF Included
<1>6. QED BY <1>3, <1>4, <1>5

LEMMA TimeStep ==
    ASSUME SwapInv, NEW block, Time(block) PROVE SwapInv'
<1>1. /\ now < scene.last /\ BaseSettled /\ now' = now + 1
      /\ height' = height \/ height' = height + 1
      /\ UNCHANGED <<scene, due, eth, log, orders, bids, book, disk, view>>
  BY DEF Time, EthEnv, Books
<1>2. UNCHANGED used \/ \E e \in Bounds : Happens(e)
  <2>1. "away" \in Bounds /\ "slow" \in Bounds
    BY DEF Bounds
  <2>2. QED BY <2>1 DEF Time, Quiet
<1>3. now \in Nat /\ height \in Nat /\ height <= now /\ scene.last \in Nat
  BY Facts, SceneFacts
<1>4. /\ now' \in 0..scene.last /\ height' \in 0..now' /\ height' \in Nat
      /\ height' >= height /\ height' <= height + 1
  BY <1>1, <1>3
<1>5. /\ mds' \in [Item -> CoinState]
      /\ \A x \in Item : /\ mds'[x] \in {"none", "sent"} => mds[x] \in {"none", "sent"}
                         /\ \/ mds'[x] = mds[x] \/ mds'[x] = "live"
                            \/ mds'[x] \in Daemon /\ sweep[mds'[x]][x] = "reveal"
  <2>1. CASE UNCHANGED mds
    BY <2>1, Facts
  <2>2. CASE mds' \in {m \in [Item -> UNION {Included(x) : x \in Item}] :
                          \A x \in Item : m[x] \in Included(x)}
    <3>1. /\ mds' \in [Item -> UNION {Included(x) : x \in Item}]
          /\ \A x \in Item : mds'[x] \in Included(x)
      BY <2>2
    <3>2. \A x \in Item : mds'[x] \in CoinState
      BY <3>1, IncludedType
    <3>3. mds' \in [Item -> CoinState]
      BY <3>1, <3>2
    <3>4. QED BY <3>1, <3>3, IncludedType
  <2>3. QED BY <2>1, <2>2 DEF Time
<1>6. /\ sweep' \in [Daemon -> [Item -> {"none", "commit", "ready", "reveal"}]]
      /\ \A d \in Daemon, x \in Item : sweep'[d][x] = "reveal" => sweep[d][x] = "reveal"
  <2>1. CASE UNCHANGED sweep
    BY <2>1, Facts
  <2>2. CASE sweep' = [d \in Daemon |-> [x \in Item |->
                          IF sweep[d][x] = "commit" THEN "ready" ELSE sweep[d][x]]]
    BY <2>2, Facts
  <2>3. QED BY <2>1, <2>2 DEF Time
<1>7. Typed'
  BY <1>1, <1>2, <1>4, <1>5, <1>6, Spent, Facts DEF Typed
<1>8. ASSUME NEW h \in Holder, NEW x \in Unit PROVE EscrowOK(h, x)'
  <2>1. EscrowOK(h, x) /\ x \in Item
    BY Prices, Kinds
  <2>2. eth[h][x].st # "pending" /\ eth[h][x].tx = {}
    BY <1>1, <2>1 DEF BaseSettled
  <2>3. eth[h][x].st # "none" => mds'[x] \notin {"none", "sent"}
    BY <1>5, <2>1 DEF EscrowOK
  <2>4. h \in Daemon /\ eth[h][x].st = "locked" =>
           eth[h][x].due + Margin + height' <= due[x] + now'
    <3>1. h \in Daemon /\ eth[h][x].st = "locked" =>
             eth[h][x].due + Margin + height <= due[x] + now
      BY <2>1 DEF EscrowOK
    <3>2. eth[h][x].due \in Nat /\ due[x] \in Nat /\ Margin \in Nat
      BY <2>1, EscrowParts, Facts, SwapsAssumption
    <3>3. QED BY <1>1, <1>3, <1>4, <3>1, <3>2
  <2>5. QED BY <1>1, <2>1, <2>2, <2>3, <2>4 DEF EscrowOK, Booking
<1>9. ASSUME NEW d \in Daemon, NEW x \in Unit PROVE DaemonOK(d, x)'
  BY <1>1, <1>6, Prices, Kinds DEF DaemonOK
<1>10. ASSUME NEW x \in Unit PROVE CoinOK(x)'
  <2>1. CoinOK(x) /\ x \in Item /\ "live" \notin Holder /\ "back" \notin Holder
    BY Prices, Kinds
  <2>2. due[x] \in Nat
    BY <2>1, Facts
  <2>3. CASE mds'[x] = mds[x]
    BY <1>1, <1>3, <1>4, <2>1, <2>2, <2>3 DEF CoinOK
  <2>4. CASE mds'[x] = "live"
    BY <2>1, <2>4 DEF CoinOK
  <2>5. CASE mds'[x] \in Daemon /\ sweep[mds'[x]][x] = "reveal"
    <3>1. eth[mds'[x]][x].st = "claimed"
      BY <2>5, Prices DEF DaemonOK
    <3>2. mds'[x] # "back"
      BY <2>1, <2>5, Kinds
    <3>3. QED BY <1>1, <3>1, <3>2 DEF CoinOK
  <2>6. QED BY <1>5, <2>1, <2>3, <2>4, <2>5
<1>11. \A i \in DOMAIN log' : EventOK(eth', log'[i])
  BY <1>1, Prices
<1>12. QED BY <1>7, <1>8, <1>9, <1>10, <1>11 DEF SwapInv, Priced
-----------------------------------------------------------------------------
(***************************************************************************)
(* The watcher learns.                                                     *)
(***************************************************************************)
LEMMA SafeType == ASSUME SwapInv PROVE Safe \in Nat /\ Safe <= Len(log)
<1> DEFINE S == {i \in DOMAIN log : log[i].at < now}
<1>1. Len(log) \in Nat /\ DOMAIN log = 1..Len(log)
  BY LogParts
<1>2. IsFiniteSet(1..Len(log)) /\ Cardinality(1..Len(log)) = Len(log)
  <2> DEFINE n == Len(log)
  <2>1. 1 \in Int /\ n \in Int /\ n >= 0
    BY <1>1
  <2> HIDE DEF n
  <2>2. /\ IsFiniteSet(1..n)
        /\ Cardinality(1..n) = IF 1 > n THEN 0 ELSE n - 1 + 1
    BY <2>1, FS_Interval
  <2>3. Cardinality(1..n) = n
    BY <2>1, <2>2
  <2>4. QED BY <2>2, <2>3 DEF n
<1>3. S \in SUBSET (1..Len(log))
  BY <1>1
<1> HIDE DEF S
<1>4. IsFiniteSet(S) /\ Cardinality(S) <= Cardinality(1..Len(log))
  BY <1>2, <1>3, FS_Subset
<1>5. Cardinality(S) \in Nat
  BY <1>4, FS_CardinalityType
<1>6. QED BY <1>2, <1>4, <1>5 DEF Safe, S

LEMMA UnreadType ==
    ASSUME SwapInv, NEW d \in Daemon
    PROVE  Unread(d) \subseteq DOMAIN log
<1>1. book[d].cursor \in Nat /\ Safe \in Nat /\ Safe <= Len(log) /\ Len(log) \in Nat
  BY SafeType, LogParts, Facts DEF Book
<1>2. DOMAIN log = 1..Len(log)
  BY LogParts
<1> HIDE DEF Safe
<1>3. ASSUME NEW i \in (book[d].cursor + 1)..Safe PROVE i \in 1..Len(log)
  BY <1>1
<1>4. QED BY <1>2, <1>3 DEF Unread

LEMMA Least ==
    ASSUME NEW S \in SUBSET Nat, S # {}
    PROVE  \E m \in S : \A n \in S : m <= n
<1>1. PICK m \in S : \A n \in S : ~(<<n, m>> \in OpToRel(<, Nat))
  BY NatLessThanWellFounded, WFMin
<1>2. ASSUME NEW n \in S PROVE m <= n
  <2>1. ~(n < m) /\ m \in Nat /\ n \in Nat
    BY <1>1 DEF OpToRel
  <2>2. QED BY <2>1
<1>3. QED BY <1>2

LEMMA ReceiptType ==
    ASSUME SwapInv, NEW d \in Daemon, NEW x \in Item
    PROVE  \/ Receipt(d, x) = book[d].rec[x].phase
           \/ book[d].rec[x].phase = "LockingEth" /\ Receipt(d, x) \in {"EthLocked", "Failed"}
BY DEF Receipt

\* What a tick makes of a swap is well formed and covered; only a payment
\* makes the maker start a claim, and a booked swap stays as it is.
LEMMA LearnedSound ==
    ASSUME SwapInv, NEW d \in Daemon, NEW x \in Item, NEW is \in SUBSET Unread(d)
    PROVE  LET r == book[d].rec[x]
               q == Learned(d, x, is)
           IN  /\ q \in Swap
               /\ x \in Unit => RecOK(eth, d, x, q)
               /\ q.phase = "ClaimingEth" /\ r.phase # "ClaimingEth" => Payments(d, x, is) # {}
               /\ x \in Unit /\ r.phase \in {"ClaimingEth", "Done"} => q = r
<1> DEFINE r == book[d].rec[x]
           q == Learned(d, x, is)
           paid == Payments(d, x, is)
           ev == log[CHOOSE i \in paid : \A j \in paid : i <= j]
<1> SUFFICES /\ q \in Swap
             /\ x \in Unit => RecOK(eth, d, x, q)
             /\ q.phase = "ClaimingEth" /\ r.phase # "ClaimingEth" => paid # {}
             /\ x \in Unit /\ r.phase \in {"ClaimingEth", "Done"} => q = r
  OBVIOUS
<1>0. r \in Swap /\ r.phase \in Phase /\ (x \in Unit => RecOK(eth, d, x, r))
  <2>1. r \in Swap
    BY RecParts
  <2>2. x \in Unit => RecOK(eth, d, x, r)
    BY Prices DEF DaemonOK
  <2>3. QED BY <2>1, <2>2 DEF Swap
<1>1. \A i \in is : i \in DOMAIN log /\ i \in Nat /\ log[i].by \in Holder /\ EventOK(eth, log[i])
  <2>1. \A i \in is : i \in DOMAIN log
    BY UnreadType
  <2>2. DOMAIN log \subseteq Nat
    BY LogParts
  <2>3. QED BY <2>1, <2>2, LogParts, Prices
<1>2. CASE paid # {}
  <2>1. paid \in SUBSET Nat
    BY <1>1 DEF Payments
  <2>2. \E i \in paid : \A j \in paid : i <= j
    BY <1>2, <2>1, Least
  <2>3. PICK i \in paid : ev = log[i]
    BY <2>2
  <2>4. /\ i \in is /\ ev.x = x /\ x \in orders[d] /\ r.phase = "none" /\ eth[ev.by][x].full
    BY <2>3 DEF Payments, Payable
  <2>6. x \in Unit /\ Maker[x] = d
    BY <2>4, Facts
  <2>p. ~Preimage(d, x, is)
    BY <2>4, ReceiptType DEF Preimage
  <2>f. ~Fillable(d, x)
    BY <2>6, Kinds DEF Fillable, OpenBids
  <2>5. q = [phase |-> "ClaimingEth", by |-> ev.by, since |-> 0, deadline |-> eth[ev.by][x].due]
    BY <1>2, <2>p, <2>f DEF Learned
  <2>7. ev.by \in Holder /\ eth[ev.by][x].st # "none"
    BY <1>1, <2>3, <2>4, <2>6 DEF EventOK
  <2>8. eth[ev.by][x].due \in Nat
    BY <2>7, EscrowParts
  <2> HIDE DEF ev, q, r, paid
  <2>9. q \in Swap /\ q.phase = "ClaimingEth" /\ q.by = ev.by
    BY <2>5, <2>7, <2>8 DEF Swap, Phase
  <2>10. RecOK(eth, d, x, q)
    BY <2>4, <2>6, <2>7, <2>9 DEF RecOK
  <2>11. QED BY <1>2, <2>4, <2>9, <2>10
<1>3. CASE paid = {} /\ Preimage(d, x, is)
  <2>2. Receipt(d, x) = "EthLocked"
    BY <1>3 DEF Preimage
  <2>f. ~Fillable(d, x)
    BY <2>2, ReceiptType DEF Fillable
  <2>1. q = [r EXCEPT !.phase = "SweepingMds"]
    BY <1>3, <2>f DEF Learned
  <2>3. PICK i \in is : log[i].kind = "Claimed" /\ log[i].x = x /\ log[i].by = d
    BY <1>3 DEF Preimage
  <2>4. r.phase \notin {"ClaimingEth", "Done"}
    BY <2>2, ReceiptType
  <2>5. x \in Unit => eth[d][x].st = "claimed"
    BY <1>1, <2>3 DEF EventOK
  <2> HIDE DEF q, r, paid
  <2>6. q \in Swap /\ q.phase = "SweepingMds"
    BY <1>0, <2>1 DEF Swap, Phase
  <2>7. QED BY <2>4, <2>5, <2>6 DEF RecOK
<1>4. CASE paid = {} /\ ~Preimage(d, x, is) /\ Fillable(d, x)
  <2>1. q = [NoSwap EXCEPT !.phase = "SweepingMds", !.by = d]
    BY <1>4 DEF Learned
  <2>2. x \notin Unit /\ d \in Holder
    BY <1>4, Kinds DEF Fillable, OpenBids
  <2> HIDE DEF q, r, paid
  <2>3. q \in Swap /\ q.phase = "SweepingMds"
    BY <2>1, <2>2 DEF NoSwap, Swap, Phase
  <2>4. QED BY <2>2, <2>3
<1>5. CASE paid = {} /\ ~Preimage(d, x, is) /\ ~Fillable(d, x)
  <2>1. q = [r EXCEPT !.phase = Receipt(d, x)]
    BY <1>5 DEF Learned
  <2>2. \/ Receipt(d, x) = r.phase
        \/ r.phase = "LockingEth" /\ Receipt(d, x) \in {"EthLocked", "Failed"}
    BY ReceiptType
  <2> HIDE DEF q, r, paid
  <2>3. CASE Receipt(d, x) = r.phase
    <3>1. q = r
      BY <1>0, <2>1, <2>3 DEF Swap
    <3>2. QED BY <1>0, <3>1
  <2>4. CASE r.phase = "LockingEth" /\ Receipt(d, x) \in {"EthLocked", "Failed"}
    <3>1. q \in Swap /\ q.phase \in {"EthLocked", "Failed"}
      BY <1>0, <2>1, <2>4 DEF Swap, Phase
    <3>2. QED BY <2>4, <3>1 DEF RecOK
  <2>5. QED BY <2>2, <2>3, <2>4
<1>6. QED BY <1>2, <1>3, <1>4, <1>5

\* A book that may take the place of the one in memory, of the saved one, or
\* of both.
Fits(d, b) ==
    /\ b \in Book /\ b.cursor <= Len(log)
    /\ \A x \in Unit : RecOK(eth, d, x, b.rec[x])
    /\ \A x \in Unit : \A h \in Holder :
          Booking(h, book[d].rec[x]) /\ Booking(h, disk[d].rec[x]) => Booking(h, b.rec[x])

LEMMA AfterFits ==
    ASSUME SwapInv, NEW d \in Daemon, NEW is \in SUBSET Unread(d)
    PROVE  /\ Fits(d, BookAfter(d, is)) /\ book[d].cursor <= BookAfter(d, is).cursor
           /\ Fits(d, [BookAfter(d, is) EXCEPT !.cursor = book[d].cursor])
<1> DEFINE b == BookAfter(d, is)
           c == [b EXCEPT !.cursor = book[d].cursor]
<1>0. book[d].cursor \in Nat /\ book[d].cursor <= Len(log) /\ Len(log) \in Nat
  BY Facts, LogParts DEF Book
<1>1. /\ b.rec = [x \in Item |-> Learned(d, x, is)]
      /\ b.cursor = Max2(Safe, book[d].cursor) /\ b = [rec |-> b.rec, cursor |-> b.cursor]
  BY DEF BookAfter
<1>2. b.cursor \in Nat /\ b.cursor <= Len(log) /\ book[d].cursor <= b.cursor
  <2> HIDE DEF b
  <2>1. QED BY <1>0, <1>1, SafeType DEF Max2
<1> HIDE DEF b
<1>3. ASSUME NEW x \in Item
      PROVE  /\ b.rec[x] \in Swap
             /\ x \in Unit => RecOK(eth, d, x, b.rec[x])
             /\ x \in Unit /\ book[d].rec[x].phase \in {"ClaimingEth", "Done"} =>
                   b.rec[x] = book[d].rec[x]
  <2>1. b.rec[x] = Learned(d, x, is)
    BY <1>1
  <2>2. QED BY <2>1, LearnedSound
<1>4. b \in Book /\ c \in Book /\ c.rec = b.rec /\ c.cursor = book[d].cursor
  BY <1>0, <1>1, <1>2, <1>3 DEF Book
<1> HIDE DEF c
<1>5. \A x \in Unit : RecOK(eth, d, x, b.rec[x])
  BY <1>3, Kinds
<1>6. \A x \in Unit : \A h \in Holder : Booking(h, book[d].rec[x]) => Booking(h, b.rec[x])
  BY <1>3, Kinds DEF Booking
<1>7. Fits(d, b) /\ Fits(d, c)
  BY <1>0, <1>2, <1>4, <1>5, <1>6 DEF Fits
<1>8. QED BY <1>2, <1>7 DEF b, c

LEMMA DiskFits ==
    ASSUME SwapInv, NEW d \in Daemon PROVE Fits(d, disk[d]) /\ Fits(d, book[d])
<1>1. /\ book[d] \in Book /\ disk[d] \in Book /\ book[d].cursor <= Len(log)
      /\ disk[d].cursor <= book[d].cursor
  BY Facts
<1>2. book[d].cursor \in Nat /\ disk[d].cursor \in Nat /\ Len(log) \in Nat
  BY <1>1, LogParts DEF Book
<1>3. disk[d].cursor <= Len(log)
  BY <1>1, <1>2
<1>4. QED BY <1>1, <1>3, Prices DEF Fits, DaemonOK

LEMMA SavedFits ==
    ASSUME SwapInv, NEW d \in Daemon, NEW is \in SUBSET Unread(d)
    PROVE  /\ Fits(d, SavedAfter(d, is)) /\ SavedAfter(d, is).cursor <= BookAfter(d, is).cursor
           /\ \A x \in Unit : BookAfter(d, is).rec[x].phase = "ClaimingEth" =>
                 /\ SavedAfter(d, is).rec[x].phase = "ClaimingEth"
                 /\ SavedAfter(d, is).rec[x].by = BookAfter(d, is).rec[x].by
<1> DEFINE b == BookAfter(d, is)
           e == BookAfter(d, {})
           c == [e EXCEPT !.cursor = book[d].cursor]
           s == SavedAfter(d, is)
<1>1. Fits(d, b) /\ book[d].cursor <= b.cursor /\ Fits(d, c)
  BY AfterFits
<1>2. \A x \in Item : b.rec[x] = Learned(d, x, is) /\ e.rec[x] = Learned(d, x, {})
  BY DEF BookAfter
<1>3. c.rec = e.rec /\ c.cursor = book[d].cursor
  BY DEF BookAfter
<1>4. \/ Booked(d, is) /\ s = b
      \/ ~Booked(d, is) /\ (s = c \/ s = disk[d])
  BY DEF SavedAfter
<1>5. /\ b.cursor \in Nat /\ book[d].cursor \in Nat /\ disk[d].cursor \in Nat
      /\ disk[d].cursor <= book[d].cursor
  BY <1>1, Facts DEF Fits, Book
<1> HIDE DEF b, c, e, s
<1>6. Fits(d, s)
  BY <1>1, <1>4, DiskFits
<1>7. s.cursor <= b.cursor
  BY <1>1, <1>3, <1>4, <1>5
<1>8. ASSUME NEW x \in Unit, b.rec[x].phase = "ClaimingEth"
      PROVE  s.rec[x].phase = "ClaimingEth" /\ s.rec[x].by = b.rec[x].by
  <2>0. x \in Item
    BY Kinds
  <2>1. CASE Booked(d, is)
    BY <1>4, <1>8, <2>1
  <2>2. CASE ~Booked(d, is)
    <3>1. Payments(d, x, is) = {}
      BY <2>0, <2>2 DEF Booked
    <3>2. book[d].rec[x].phase = "ClaimingEth"
      BY <1>2, <1>8, <2>0, <3>1, LearnedSound
    <3>3. b.rec[x] = book[d].rec[x] /\ e.rec[x] = book[d].rec[x]
      BY <1>2, <2>0, <3>2, LearnedSound
    <3>4. /\ disk[d].rec[x].phase = "ClaimingEth"
          /\ disk[d].rec[x].by = book[d].rec[x].by
      BY <3>2, Prices DEF DaemonOK
    <3>5. QED BY <1>3, <1>4, <1>8, <2>2, <3>3, <3>4
  <2>3. QED BY <2>1, <2>2
<1>9. QED BY <1>6, <1>7, <1>8 DEF b, s

\* The books of d are replaced, and with them what d's calls wait for.
LEMMA Rebooked ==
    ASSUME SwapInv, NEW d \in Daemon, NEW b, NEW k, Fits(d, b), Fits(d, k),
           k.cursor <= b.cursor,
           \A x \in Unit : b.rec[x].phase = "ClaimingEth" =>
              k.rec[x].phase = "ClaimingEth" /\ k.rec[x].by = b.rec[x].by,
           book' = [book EXCEPT ![d] = b], disk' = [disk EXCEPT ![d] = k],
           bids' \in [Daemon -> [Bid -> {"none", "saved", "sent", "open", "cancelled"}]],
           UNCHANGED <<scene, now, height, mds, due, sweep, eth, log, orders, view>>,
           UNCHANGED used \/ \E e \in Bounds : Happens(e)
    PROVE  SwapInv'
<1>1. /\ book' \in [Daemon -> Book] /\ disk' \in [Daemon -> Book]
      /\ \A c \in Daemon : /\ book'[c] = IF c = d THEN b ELSE book[c]
                           /\ disk'[c] = IF c = d THEN k ELSE disk[c]
  BY Facts DEF Fits
<1>2. \A c \in Daemon : book'[c].cursor <= Len(log') /\ disk'[c].cursor <= book'[c].cursor
  BY <1>1, Facts DEF Fits
<1>3. Typed'
  BY <1>1, <1>2, Spent, Facts DEF Typed
<1>4. ASSUME NEW h \in Holder, NEW x \in Unit PROVE EscrowOK(h, x)'
  <2>1. EscrowOK(h, x) /\ Maker[x] \in Daemon
    BY Prices, Kinds
  <2>2. /\ eth'[h][x] = eth[h][x] /\ mds' = mds /\ now' = now /\ height' = height /\ due' = due
    OBVIOUS
  <2>3. eth[h][x].st = "claimed" \/ "claim" \in eth[h][x].tx =>
           /\ Booking(h, book'[Maker[x]].rec[x]) /\ Booking(h, disk'[Maker[x]].rec[x])
    BY <1>1, <2>1 DEF Fits, EscrowOK
  <2>4. QED BY <2>1, <2>2, <2>3 DEF EscrowOK
<1>5. ASSUME NEW c \in Daemon, NEW x \in Unit PROVE DaemonOK(c, x)'
  <2>1. DaemonOK(c, x)
    BY Prices
  <2>2. CASE c = d
    <3>1. book'[c] = b /\ disk'[c] = k
      BY <1>1, <2>2
    <3>2. RecOK(eth, c, x, b.rec[x]) /\ RecOK(eth, c, x, k.rec[x])
      BY <2>2 DEF Fits
    <3>3. QED BY <2>1, <3>1, <3>2 DEF DaemonOK
  <2>3. CASE c # d
    <3>1. book'[c] = book[c] /\ disk'[c] = disk[c]
      BY <1>1, <2>3
    <3>2. QED BY <2>1, <3>1 DEF DaemonOK
  <2>4. QED BY <2>2, <2>3
<1>6. \A x \in Unit : CoinOK(x)'
  BY Prices DEF CoinOK
<1>7. \A i \in DOMAIN log' : EventOK(eth', log'[i])
  BY Prices
<1>8. QED BY <1>3, <1>4, <1>5, <1>6, <1>7 DEF SwapInv, Priced

LEMMA LearningFrame ==
    ASSUME SwapInv, NEW d \in Daemon, Learning(d)
    PROVE  /\ UNCHANGED <<scene, now, height, mds, due, sweep, eth, log, orders, view>>
           /\ bids' \in [Daemon -> [Bid -> {"none", "saved", "sent", "open", "cancelled"}]]
<1>1. /\ UNCHANGED <<scene, now, height, mds, due, sweep, eth, log, orders, view>>
      /\ bids' = [bids EXCEPT ![d] = [x \in Bid |-> IF x \in OpenBids(d) THEN "open" ELSE bids[d][x]]]
  BY DEF Learning, Clock, MdsEnv, EthEnv
<1>2. bids \in [Daemon -> [Bid -> {"none", "saved", "sent", "open", "cancelled"}]]
  BY Facts
<1>3. QED BY <1>1, <1>2

LEMMA LearnStep ==
    ASSUME SwapInv, NEW d \in Daemon, Learn(d) PROVE SwapInv'
<1>1. PICK is \in {Unread(d), {}} :
         /\ UNCHANGED used \/ Happens("outages")
         /\ book' = [book EXCEPT ![d] = BookAfter(d, is)]
         /\ disk' = [disk EXCEPT ![d] = SavedAfter(d, is)]
  BY DEF Learn, Quiet
<1>2. Learning(d) /\ is \in SUBSET Unread(d) /\ "outages" \in Bounds
  BY DEF Learn, Bounds
<1> DEFINE b == BookAfter(d, is)
           k == SavedAfter(d, is)
<1>3. /\ Fits(d, b) /\ Fits(d, k) /\ k.cursor <= b.cursor
      /\ \A x \in Unit : b.rec[x].phase = "ClaimingEth" =>
            k.rec[x].phase = "ClaimingEth" /\ k.rec[x].by = b.rec[x].by
  BY <1>2, AfterFits, SavedFits
<1>4. book' = [book EXCEPT ![d] = b] /\ disk' = [disk EXCEPT ![d] = k]
  BY <1>1
<1>5. UNCHANGED used \/ \E e \in Bounds : Happens(e)
  BY <1>1, <1>2
<1>6. /\ bids' \in [Daemon -> [Bid -> {"none", "saved", "sent", "open", "cancelled"}]]
      /\ UNCHANGED <<scene, now, height, mds, due, sweep, eth, log, orders, view>>
  BY <1>2, LearningFrame
<1> HIDE DEF b, k
<1>7. QED BY <1>3, <1>4, <1>5, <1>6, Rebooked

LEMMA LearnCrashStep ==
    ASSUME SwapInv, NEW d \in Daemon, NEW n, LearnCrash(d, n) PROVE SwapInv'
<1> DEFINE is == {i \in Unread(d) : i <= book[d].cursor + n}
           k == SavedAfter(d, is)
<1>1. /\ Learning(d) /\ Happens("crashes")
      /\ disk' = [disk EXCEPT ![d] = k] /\ book' = [book EXCEPT ![d] = k]
  BY DEF LearnCrash
<1>2. is \in SUBSET Unread(d) /\ "crashes" \in Bounds
  BY DEF Bounds
<1> HIDE DEF is
<1>3. Fits(d, k)
  BY <1>2, SavedFits
<1> HIDE DEF k
<1>4. k.cursor <= k.cursor
  BY <1>3 DEF Fits, Book
<1>5. QED BY <1>1, <1>2, <1>3, <1>4, LearningFrame, Rebooked
-----------------------------------------------------------------------------
(***************************************************************************)
(* The watcher acts.                                                       *)
(***************************************************************************)
LEMMA ActedSound ==
    ASSUME SwapInv, NEW d \in Daemon, NEW x \in Item
    PROVE  LET r == book[d].rec[x]
               q == Acted(d, x)
           IN  /\ q \in Swap /\ q.by = r.by
               /\ x \in Claims(d) => q.phase = "Done"
               /\ r.phase = "ClaimingEth" => q.phase \in {"ClaimingEth", "Done"}
               /\ r.phase # "ClaimingEth" => q.phase # "ClaimingEth"
               /\ r.phase = "Done" => q.phase = "Done"
               /\ q.phase = "none" => r.phase = "none"
               /\ q.phase \in {"SweepingMds", "Committed", "ConfirmingMds"} =>
                     r.phase \in {"SweepingMds", "Committed", "ConfirmingMds"}
<1> DEFINE r == book[d].rec[x]
           q == Acted(d, x)
<1> SUFFICES /\ q \in Swap /\ q.by = r.by
             /\ x \in Claims(d) => q.phase = "Done"
             /\ r.phase = "ClaimingEth" => q.phase \in {"ClaimingEth", "Done"}
             /\ r.phase # "ClaimingEth" => q.phase # "ClaimingEth"
             /\ r.phase = "Done" => q.phase = "Done"
             /\ q.phase = "none" => r.phase = "none"
             /\ q.phase \in {"SweepingMds", "Committed", "ConfirmingMds"} =>
                   r.phase \in {"SweepingMds", "Committed", "ConfirmingMds"}
  OBVIOUS
<1>0. r \in Swap /\ height \in Nat
  BY RecParts, Facts
<1>1. /\ x \in Claims(d) => r.phase = "ClaimingEth"
      /\ x \in Landed(d) => r.phase = "ConfirmingMds"
      /\ x \in Dead(d) => r.phase \in {"SweepingMds", "Committed"}
      /\ x \in Commits(d) => r.phase = "SweepingMds" /\ x \notin Dead(d)
      /\ x \in Reveals(d) => r.phase = "Committed" /\ x \notin Dead(d)
      /\ x \in Resends(d) => r.phase = "ConfirmingMds" /\ x \notin Landed(d)
      /\ x \in Refunds(d) => r.phase = "EthLocked"
  BY DEF Claims, Landed, Dead, Commits, Reveals, Resends, Refunds, Sweeping, should_refund
<1>2. CASE x \in Claims(d) \cup Landed(d)
  <2>1. q = [r EXCEPT !.phase = "Done"]
    BY <1>1, <1>2 DEF Acted
  <2> HIDE DEF q, r
  <2>2. q \in Swap /\ q.by = r.by /\ q.phase = "Done"
    BY <1>0, <2>1 DEF Swap, Phase
  <2>3. QED BY <2>2
<1>3. CASE x \in Dead(d)
  <2>1. q = [r EXCEPT !.phase = "Failed"]
    BY <1>1, <1>3 DEF Acted
  <2> HIDE DEF q, r
  <2>2. q \in Swap /\ q.by = r.by /\ q.phase = "Failed"
    BY <1>0, <2>1 DEF Swap, Phase
  <2>3. QED BY <1>1, <1>3, <2>2
<1>4. CASE x \in Commits(d)
  <2>1. q = [r EXCEPT !.phase = "Committed"]
    BY <1>1, <1>4 DEF Acted
  <2> HIDE DEF q, r
  <2>2. q \in Swap /\ q.by = r.by /\ q.phase = "Committed"
    BY <1>0, <2>1 DEF Swap, Phase
  <2>3. QED BY <1>1, <1>4, <2>2
<1>5. CASE x \in Reveals(d) \cup Resends(d)
  <2>1. q = [r EXCEPT !.phase = "ConfirmingMds", !.since = height]
    BY <1>1, <1>5 DEF Acted
  <2> HIDE DEF q, r
  <2>2. q \in Swap /\ q.by = r.by /\ q.phase = "ConfirmingMds"
    BY <1>0, <2>1 DEF Swap, Phase
  <2>3. QED BY <1>1, <1>5, <2>2
<1>6. CASE x \in Refunds(d)
  <2>1. q = [r EXCEPT !.phase = "RefundingEth"]
    BY <1>1, <1>6 DEF Acted
  <2> HIDE DEF q, r
  <2>2. q \in Swap /\ q.by = r.by /\ q.phase = "RefundingEth"
    BY <1>0, <2>1 DEF Swap, Phase
  <2>3. QED BY <1>1, <1>6, <2>2
<1>7. CASE x \notin Claims(d) \cup Landed(d) \cup Dead(d) \cup Commits(d) \cup Reveals(d)
                    \cup Resends(d) \cup Refunds(d)
  <2>1. q = r
    BY <1>7 DEF Acted
  <2>2. QED BY <1>0, <1>7, <2>1
<1>8. QED BY <1>2, <1>3, <1>4, <1>5, <1>6, <1>7

\* A claim is sent while the coin it opens waits for the taker.
LEMMA ClaimLive ==
    ASSUME SwapInv, NEW d \in Daemon, NEW x \in Unit, x \in Claims(d)
    PROVE  LET h == book[d].rec[x].by
           IN  /\ Maker[x] = d /\ h \in Holder /\ mds[x] = "live"
               /\ eth[h][x].full /\ eth[h][x].st = "locked" /\ now <= eth[h][x].due
<1> DEFINE h == book[d].rec[x].by
<1>1. book[d].rec[x].phase = "ClaimingEth" /\ eth[h][x].st = "locked" /\ now <= eth[h][x].due
  BY DEF Claims, CanClaim
<1>2. h \in Holder /\ x \in Item
  BY RecParts, Kinds
<1>3. Maker[x] = d /\ eth[h][x].full
  BY <1>1, Prices DEF DaemonOK, RecOK
<1>4. EscrowOK(h, x) /\ CoinOK(x) /\ mds[x] \in CoinState
  BY <1>2, Prices, Facts
<1>5. mds[x] \notin {"none", "sent"}
  BY <1>1, <1>4 DEF EscrowOK
<1>6. mds[x] # "back"
  <2>1. height < due[x] /\ height \in Nat /\ due[x] \in Nat
    BY <1>1, <1>2, <1>3, InTime, Facts
  <2>2. ~(height >= due[x])
    BY <2>1
  <2>3. QED BY <1>4, <2>2 DEF CoinOK
<1>7. mds[x] \notin Holder
  <2> SUFFICES ASSUME mds[x] \in Holder PROVE FALSE
    OBVIOUS
  <2>1. eth[mds[x]][x].st = "claimed"
    BY <1>4 DEF CoinOK
  <2>2. EscrowOK(mds[x], x)
    BY Prices
  <2>3. book[d].rec[x].by = mds[x]
    BY <1>3, <2>1, <2>2 DEF EscrowOK, Booking
  <2>4. QED BY <1>1, <2>1, <2>3
<1>8. mds[x] = "live"
  BY <1>4, <1>5, <1>6, <1>7 DEF CoinState
<1>9. QED BY <1>1, <1>2, <1>3, <1>8

LEMMA ActingFrame ==
    ASSUME SwapInv, NEW d \in Daemon, Acting(d)
    PROVE  /\ UNCHANGED <<scene, now, height, mds, due, log, orders, bids, view>>
           /\ eth' \in [Holder -> [Item -> Escrow]]
           /\ \A h \in Holder, x \in Item :
                 /\ eth'[h][x].st = eth[h][x].st /\ eth'[h][x].full = eth[h][x].full
                 /\ eth'[h][x].due = eth[h][x].due
                 /\ eth'[h][x].tx \subseteq eth[h][x].tx \cup {"claim", "refund"}
                 /\ "claim" \in eth'[h][x].tx =>
                       "claim" \in eth[h][x].tx \/ (x \in Claims(d) /\ book[d].rec[x].by = h)
           /\ sweep' \in [Daemon -> [Item -> {"none", "commit", "ready", "reveal"}]]
           /\ \A c \in Daemon, x \in Item : sweep'[c][x] = "reveal" =>
                 \/ sweep[c][x] = "reveal"
                 \/ c = d /\ book[d].rec[x].phase \in {"Committed", "ConfirmingMds"}
<1> DEFINE Calls(h, x) == (IF x \in Claims(d) /\ book[d].rec[x].by = h THEN {"claim"} ELSE {})
                             \cup (IF x \in Refunds(d) /\ d = h THEN {"refund"} ELSE {})
<1>1. /\ UNCHANGED <<scene, now, height, mds, due, log, orders, bids, view>>
      /\ eth' = [h \in Holder |-> [x \in Item |-> [eth[h][x] EXCEPT !.tx = @ \cup Calls(h, x)]]]
  BY DEF Acting, Clock
<1>2. \A h, x : /\ Calls(h, x) \subseteq {"claim", "refund"}
                /\ "claim" \in Calls(h, x) => x \in Claims(d) /\ book[d].rec[x].by = h
  OBVIOUS
<1> HIDE DEF Calls
<1>3. ASSUME NEW h \in Holder, NEW x \in Item
      PROVE  /\ eth'[h][x] \in Escrow
             /\ eth'[h][x].st = eth[h][x].st /\ eth'[h][x].full = eth[h][x].full
             /\ eth'[h][x].due = eth[h][x].due
             /\ eth'[h][x].tx = eth[h][x].tx \cup Calls(h, x)
  <2>1. eth[h][x] \in Escrow
    BY EscrowParts
  <2>2. eth'[h][x] = [eth[h][x] EXCEPT !.tx = eth[h][x].tx \cup Calls(h, x)]
    BY <1>1
  <2>3. eth[h][x].tx \cup Calls(h, x) \in SUBSET Call
    BY <1>2, EscrowParts DEF Call
  <2>4. QED BY <2>1, <2>2, <2>3 DEF Escrow
<1>4. eth' \in [Holder -> [Item -> Escrow]]
  <2>1. eth' = [h \in Holder |-> [x \in Item |-> eth'[h][x]]]
    BY <1>1
  <2>2. QED BY <1>3, <2>1
<1>5. /\ sweep' \in [Daemon -> [Item -> {"none", "commit", "ready", "reveal"}]]
      /\ \A c \in Daemon, x \in Item : sweep'[c][x] = "reveal" =>
            \/ sweep[c][x] = "reveal"
            \/ c = d /\ book[d].rec[x].phase \in {"Committed", "ConfirmingMds"}
  <2> DEFINE w == [x \in Item |-> CASE x \in Commits(d) /\ sweep[d][x] = "none" -> "commit"
                                    [] x \in Reveals(d) \cup Resends(d) -> "reveal"
                                    [] OTHER -> sweep[d][x]]
  <2>1. sweep' = [sweep EXCEPT ![d] = w]
    BY DEF Acting
  <2>2. sweep \in [Daemon -> [Item -> {"none", "commit", "ready", "reveal"}]]
    BY Facts
  <2>3. ASSUME NEW x \in Item
        PROVE  /\ w[x] \in {"none", "commit", "ready", "reveal"}
               /\ w[x] = "reveal" => \/ sweep[d][x] = "reveal"
                                     \/ book[d].rec[x].phase \in {"Committed", "ConfirmingMds"}
    <3>1. /\ x \in Commits(d) => book[d].rec[x].phase = "SweepingMds"
          /\ x \in Reveals(d) => book[d].rec[x].phase = "Committed"
          /\ x \in Resends(d) => book[d].rec[x].phase = "ConfirmingMds"
      BY DEF Commits, Reveals, Resends, Sweeping
    <3>2. CASE x \in Commits(d) /\ sweep[d][x] = "none"
      BY <3>1, <3>2
    <3>3. CASE x \in Reveals(d) \cup Resends(d)
      BY <3>1, <3>3
    <3>4. CASE ~(x \in Commits(d) /\ sweep[d][x] = "none") /\ x \notin Reveals(d) \cup Resends(d)
      BY <2>2, <3>4
    <3>5. QED BY <3>2, <3>3, <3>4
  <2>4. w \in [Item -> {"none", "commit", "ready", "reveal"}]
    <3>1. w = [x \in Item |-> w[x]]
      OBVIOUS
    <3> HIDE DEF w
    <3>2. QED BY <2>3, <3>1
  <2> HIDE DEF w
  <2>5. QED BY <2>1, <2>2, <2>3, <2>4
<1>6. \A h \in Holder, x \in Item :
         /\ eth'[h][x].st = eth[h][x].st /\ eth'[h][x].full = eth[h][x].full
         /\ eth'[h][x].due = eth[h][x].due
         /\ eth'[h][x].tx \subseteq eth[h][x].tx \cup {"claim", "refund"}
         /\ "claim" \in eth'[h][x].tx =>
               "claim" \in eth[h][x].tx \/ (x \in Claims(d) /\ book[d].rec[x].by = h)
  <2> SUFFICES ASSUME NEW h \in Holder, NEW x \in Item
               PROVE  /\ eth'[h][x].st = eth[h][x].st /\ eth'[h][x].full = eth[h][x].full
                      /\ eth'[h][x].due = eth[h][x].due
                      /\ eth'[h][x].tx \subseteq eth[h][x].tx \cup {"claim", "refund"}
                      /\ "claim" \in eth'[h][x].tx =>
                            "claim" \in eth[h][x].tx
                              \/ (x \in Claims(d) /\ book[d].rec[x].by = h)
    OBVIOUS
  <2>1. eth'[h][x].tx = eth[h][x].tx \cup Calls(h, x)
    BY <1>3
  <2>2. /\ eth'[h][x].tx \subseteq eth[h][x].tx \cup {"claim", "refund"}
        /\ "claim" \in eth'[h][x].tx =>
              "claim" \in eth[h][x].tx \/ (x \in Claims(d) /\ book[d].rec[x].by = h)
    BY <1>2, <2>1
  <2>3. QED BY <1>3, <2>2
<1>7. UNCHANGED <<scene, now, height, mds, due, log, orders, bids, view>>
  BY <1>1
<1>8. QED BY <1>4, <1>5, <1>6, <1>7

\* The books of d are replaced by a step of d's watcher.
LEMMA ActingSound ==
    ASSUME SwapInv, NEW d \in Daemon, NEW b, Acting(d), Fits(d, b),
           book' = [book EXCEPT ![d] = b], disk' = [disk EXCEPT ![d] = b],
           UNCHANGED used \/ \E e \in Bounds : Happens(e)
    PROVE  SwapInv'
<1>0. /\ UNCHANGED <<scene, now, height, mds, due, log, orders, bids, view>>
      /\ eth' \in [Holder -> [Item -> Escrow]]
      /\ \A h \in Holder, x \in Unit :
            /\ eth'[h][x].st = eth[h][x].st /\ eth'[h][x].full = eth[h][x].full
            /\ eth'[h][x].due = eth[h][x].due
            /\ eth'[h][x].tx \subseteq eth[h][x].tx \cup {"claim", "refund"}
            /\ "claim" \in eth'[h][x].tx =>
                  "claim" \in eth[h][x].tx \/ (x \in Claims(d) /\ book[d].rec[x].by = h)
      /\ sweep' \in [Daemon -> [Item -> {"none", "commit", "ready", "reveal"}]]
      /\ \A c \in Daemon, x \in Unit : sweep'[c][x] = "reveal" =>
            \/ sweep[c][x] = "reveal"
            \/ c = d /\ book[d].rec[x].phase \in {"Committed", "ConfirmingMds"}
  BY ActingFrame, Kinds
<1>1. /\ book' \in [Daemon -> Book] /\ disk' \in [Daemon -> Book]
      /\ \A c \in Daemon : /\ book'[c] = IF c = d THEN b ELSE book[c]
                           /\ disk'[c] = IF c = d THEN b ELSE disk[c]
  BY Facts DEF Fits
<1>2. \A c \in Daemon : book'[c].cursor <= Len(log') /\ disk'[c].cursor <= book'[c].cursor
  <2>1. b.cursor \in Nat
    BY DEF Fits, Book
  <2>2. b.cursor <= b.cursor /\ b.cursor <= Len(log')
    BY <1>0, <2>1 DEF Fits
  <2>3. QED BY <1>0, <1>1, <2>2, Facts
<1>3. Typed'
  BY <1>0, <1>1, <1>2, Spent, Facts DEF Typed
<1>g. Grows /\ NoneNew
  BY <1>0, Kinds DEF Grows, NoneNew
<1>4. ASSUME NEW h \in Holder, NEW x \in Unit PROVE EscrowOK(h, x)'
  <2>1. EscrowOK(h, x) /\ Maker[x] \in Daemon
    BY Prices, Kinds
  <2>2. ASSUME x \in Claims(d), book[d].rec[x].by = h
        PROVE  /\ Maker[x] = d /\ mds[x] = "live"
               /\ eth[h][x].full /\ eth[h][x].st = "locked" /\ now <= eth[h][x].due
               /\ Booking(h, book[d].rec[x]) /\ Booking(h, disk[d].rec[x])
    <3>1. /\ Maker[x] = d /\ mds[x] = "live"
          /\ eth[h][x].full /\ eth[h][x].st = "locked" /\ now <= eth[h][x].due
      BY <2>2, ClaimLive
    <3>2. book[d].rec[x].phase = "ClaimingEth"
      BY <2>2 DEF Claims
    <3>3. QED BY <2>2, <3>1, <3>2, Prices DEF DaemonOK, Booking
  <2>3. "claim" \in eth'[h][x].tx =>
           /\ mds[x] = "live" /\ eth[h][x].full /\ eth[h][x].st = "locked" /\ now <= eth[h][x].due
           /\ Booking(h, book[Maker[x]].rec[x]) /\ Booking(h, disk[Maker[x]].rec[x])
    BY <1>0, <2>1, <2>2 DEF EscrowOK
  <2>4. eth[h][x].st = "claimed" =>
           Booking(h, book[Maker[x]].rec[x]) /\ Booking(h, disk[Maker[x]].rec[x])
    BY <2>1 DEF EscrowOK
  <2>5. Booking(h, book[Maker[x]].rec[x]) /\ Booking(h, disk[Maker[x]].rec[x]) =>
           Booking(h, book'[Maker[x]].rec[x]) /\ Booking(h, disk'[Maker[x]].rec[x])
    BY <1>1, <2>1 DEF Fits
  <2>6. "cancel" \notin eth'[h][x].tx
    BY <1>0, <2>1 DEF EscrowOK
  <2>7. QED BY <1>0, <2>1, <2>3, <2>4, <2>5, <2>6 DEF EscrowOK
<1>5. ASSUME NEW c \in Daemon, NEW x \in Unit PROVE DaemonOK(c, x)'
  <2>1. DaemonOK(c, x) /\ x \in Item
    BY Prices, Kinds
  <2>2. sweep'[c][x] = "reveal" => eth'[c][x].st = "claimed"
    <3>1. sweep'[c][x] = "reveal" => eth[c][x].st = "claimed"
      BY <1>0, <2>1 DEF DaemonOK, RecOK
    <3>2. QED BY <1>g, <3>1, Kinds DEF Grows
  <2>3. CASE c = d
    <3>1. book'[c] = b /\ disk'[c] = b
      BY <1>1, <2>3
    <3>2. RecOK(eth, c, x, b.rec[x])
      BY <2>3 DEF Fits
    <3>3. b.rec[x].by \in Holder
      BY <2>1 DEF Fits, Book, Swap
    <3>4. RecOK(eth', c, x, b.rec[x])
      BY <1>g, <3>2, <3>3, RecKept
    <3>5. QED BY <2>2, <3>1, <3>4 DEF DaemonOK
  <2>4. CASE c # d
    <3>1. book'[c] = book[c] /\ disk'[c] = disk[c]
      BY <1>1, <2>4
    <3>2. book[c].rec[x].by \in Holder /\ disk[c].rec[x].by \in Holder
      BY <2>1, RecParts
    <3>3. RecOK(eth', c, x, book[c].rec[x]) /\ RecOK(eth', c, x, disk[c].rec[x])
      BY <1>g, <2>1, <3>2, RecKept DEF DaemonOK
    <3>4. QED BY <2>1, <2>2, <3>1, <3>3 DEF DaemonOK
  <2>5. QED BY <2>3, <2>4
<1>6. \A x \in Unit : CoinOK(x)'
  BY <1>0, <1>g, CoinKept
<1>7. \A i \in DOMAIN log' : EventOK(eth', log'[i])
  BY <1>0, <1>g, HistoryKept
<1>8. QED BY <1>3, <1>4, <1>5, <1>6, <1>7 DEF SwapInv, Priced

LEMMA ActStep == ASSUME SwapInv, NEW d \in Daemon, Act(d) PROVE SwapInv'
<1> DEFINE b == [book[d] EXCEPT !.rec = [x \in Item |-> Acted(d, x)]]
<1>1. /\ Acting(d) /\ book' = [book EXCEPT ![d] = b] /\ disk' = [disk EXCEPT ![d] = b]
      /\ UNCHANGED used
  BY DEF Act, Quiet
<1>2. book[d] \in Book /\ book[d].cursor <= Len(log)
  BY Facts
<1>3. b.rec = [x \in Item |-> Acted(d, x)] /\ b.cursor = book[d].cursor
      /\ b = [rec |-> b.rec, cursor |-> b.cursor]
  BY <1>2 DEF Book
<1> HIDE DEF b
<1>4. \A x \in Item : b.rec[x] \in Swap
  BY <1>3, ActedSound
<1>5. b \in Book
  BY <1>2, <1>3, <1>4 DEF Book
<1>6. ASSUME NEW x \in Unit
      PROVE  /\ RecOK(eth, d, x, b.rec[x])
             /\ \A h \in Holder : Booking(h, book[d].rec[x]) => Booking(h, b.rec[x])
  <2>1. b.rec[x] = Acted(d, x) /\ x \in Item
    BY <1>3, Kinds
  <2>2. RecOK(eth, d, x, book[d].rec[x])
    BY Prices DEF DaemonOK
  <2> DEFINE r == book[d].rec[x]
             q == b.rec[x]
  <2>3. /\ q.by = r.by
        /\ r.phase = "ClaimingEth" => q.phase \in {"ClaimingEth", "Done"}
        /\ r.phase # "ClaimingEth" => q.phase # "ClaimingEth"
        /\ r.phase = "Done" => q.phase = "Done"
        /\ q.phase = "none" => r.phase = "none"
        /\ q.phase \in {"SweepingMds", "Committed", "ConfirmingMds"} =>
              r.phase \in {"SweepingMds", "Committed", "ConfirmingMds"}
    BY <2>1, ActedSound
  <2> HIDE DEF q
  <2>4. RecOK(eth, d, x, q)
    BY <2>2, <2>3 DEF RecOK
  <2>5. \A h \in Holder : Booking(h, r) => Booking(h, q)
    BY <2>3 DEF Booking
  <2>6. QED BY <2>4, <2>5 DEF q
<1>7. Fits(d, b)
  BY <1>2, <1>3, <1>5, <1>6 DEF Fits
<1>8. QED BY <1>1, <1>7, ActingSound

LEMMA ActCrashStep == ASSUME SwapInv, NEW d \in Daemon, ActCrash(d) PROVE SwapInv'
<1> DEFINE b == IF Commits(d) # {} THEN book[d] ELSE disk[d]
<1>1. /\ Acting(d) /\ Happens("crashes") /\ "crashes" \in Bounds
      /\ book' = [book EXCEPT ![d] = b] /\ disk' = [disk EXCEPT ![d] = b]
  BY DEF ActCrash, Bounds
<1>2. Fits(d, b)
  BY DiskFits
<1> HIDE DEF b
<1>3. QED BY <1>1, <1>2, ActingSound
-----------------------------------------------------------------------------
LEMMA SwapInit == Init => SwapInv
<1> SUFFICES ASSUME Init PROVE SwapInv
  OBVIOUS
<1>1. /\ scene \in Scenes /\ now = 0 /\ height = 0
      /\ mds = [x \in Item |-> "none"] /\ due = [x \in Item |-> 0]
      /\ sweep = [d \in Daemon |-> [x \in Item |-> "none"]]
      /\ eth = [d \in Holder |-> [x \in Item |-> NoEscrow]] /\ log = <<>>
      /\ orders = [d \in Daemon |-> scene.resting[d]]
      /\ bids = [d \in Daemon |-> [x \in Bid |-> "none"]]
      /\ book = [d \in Daemon |-> [rec |-> [x \in Item |-> NoSwap], cursor |-> 0]]
      /\ disk = book /\ view = [d \in Daemon |-> {}] /\ used = [e \in Bounds |-> 0]
  BY DEF Init
<1>2. /\ scene.last \in Nat /\ scene.resting \in [Daemon -> SUBSET Unit]
      /\ \A d \in Daemon : \A x \in scene.resting[d] : Maker[x] = d
      /\ \A e \in Bounds : scene[e] \in Nat
  BY <1>1, SwapsAssumption
<1>3. NoEscrow \in Escrow /\ NoEscrow.st = "none" /\ NoEscrow.tx = {}
  BY DEF NoEscrow, Escrow, EthState
<1>4. NoSwap \in Swap /\ NoSwap.phase = "none"
  BY Kinds DEF NoSwap, Swap, Phase
<1>5. \A d \in Daemon : /\ book[d] \in Book /\ book[d].cursor = 0
                        /\ \A x \in Item : book[d].rec[x] = NoSwap
  BY <1>1, <1>4 DEF Book
<1>6. Typed
  <2>1. /\ now \in 0..scene.last /\ height \in 0..now
        /\ mds \in [Item -> CoinState] /\ due \in [Item -> Nat]
        /\ sweep \in [Daemon -> [Item -> {"none", "commit", "ready", "reveal"}]]
    BY <1>1, <1>2 DEF CoinState
  <2>2. /\ eth \in [Holder -> [Item -> Escrow]] /\ log \in Seq(Event)
        /\ bids \in [Daemon -> [Bid -> {"none", "saved", "sent", "open", "cancelled"}]]
        /\ view \in [Daemon -> SUBSET Item]
    BY <1>1, <1>3
  <2>3. /\ orders \in [Daemon -> SUBSET Unit]
        /\ \A d \in Daemon : \A x \in orders[d] : Maker[x] = d
    BY <1>1, <1>2
  <2>4. /\ book \in [Daemon -> Book] /\ disk \in [Daemon -> Book] /\ Len(log) = 0
    BY <1>1, <1>5
  <2>5. \A d \in Daemon : book[d].cursor <= Len(log) /\ disk[d].cursor <= book[d].cursor
    BY <1>1, <1>5, <2>4
  <2>6. Budget
    BY <1>1, <1>2 DEF Budget
  <2>7. QED BY <1>1, <2>1, <2>2, <2>3, <2>4, <2>5, <2>6 DEF Typed
<1>7. Priced
  <2>1. \A h \in Holder, x \in Unit : eth[h][x] = NoEscrow
    BY <1>1, Kinds
  <2>2. \A h \in Holder, x \in Unit : EscrowOK(h, x)
    BY <1>3, <2>1 DEF EscrowOK
  <2>3. \A d \in Daemon, x \in Unit : sweep[d][x] = "none"
    BY <1>1, Kinds
  <2>4. \A d \in Daemon, x \in Unit : DaemonOK(d, x)
    BY <1>1, <1>3, <1>4, <1>5, <2>1, <2>3, Kinds DEF DaemonOK, RecOK
  <2>5. \A x \in Unit : CoinOK(x)
    BY <1>1, Kinds DEF CoinOK
  <2>6. DOMAIN log = {}
    BY <1>1
  <2>7. QED BY <2>2, <2>4, <2>5, <2>6 DEF Priced
<1>8. QED BY <1>6, <1>7 DEF SwapInv

LEMMA SwapStep == SwapInv /\ [Next]_vars => SwapInv'
<1> SUFFICES ASSUME SwapInv, [Next]_vars PROVE SwapInv'
  OBVIOUS
<1>1. ASSUME NEW d \in Daemon, Watch(d) PROVE SwapInv'
  BY <1>1, LearnStep, ActStep, ActCrashStep, LearnCrashStep DEF Watch
<1>2. ASSUME NEW d \in Daemon, Trade(d) PROVE SwapInv'
  BY <1>2, SyncOrderBookStep, PlaceAskStep, CancelBidStep, TakeAskStep, PlaceBidStep DEF Trade
<1>3. CASE BaseMines
  BY <1>3, BaseMinesStep
<1>4. CASE Strangers
  BY <1>4, StrangerLocksStep, SellerLocksStep, SellerClaimsStep, ReclaimStep DEF Strangers
<1>5. ASSUME NEW block \in {"full", "empty", "none"}, Time(block) PROVE SwapInv'
  BY <1>5, TimeStep
<1>6. CASE UNCHANGED vars
  <2>1. UNCHANGED <<scene, now, height, mds, due, sweep, eth, log, orders, bids, book, disk, view,
                    used>>
    BY <1>6 DEF vars
  <2>2. QED BY <2>1, Facts, UnitsAside
<1>7. QED BY <1>1, <1>2, <1>3, <1>4, <1>5, <1>6 DEF Next

LEMMA SwapSound == SwapInv => SecretsSound
<1> SUFFICES ASSUME SwapInv PROVE SecretsSound
  OBVIOUS
<1>1. TypeOK
  <2>1. ASSUME NEW d \in Holder, NEW x \in Item
        PROVE  /\ eth[d][x].st \in {"none", "pending", "reverted", "locked", "claimed", "refunded",
                                   "open", "reserved", "back"}
               /\ eth[d][x].due \in Nat /\ eth[d][x].full \in BOOLEAN
               /\ eth[d][x].tx \subseteq {"claim", "refund", "cancel"}
    BY EscrowParts DEF EthState, Call
  <2>2. \A i \in DOMAIN log : log[i].x \in Item /\ log[i].by \in Holder
    BY LogParts
  <2>3. ASSUME NEW d \in Daemon
        PROVE  /\ book[d].cursor \in 0..Len(log)
               /\ \A x \in Item : book[d].rec[x].phase \in Phase
               /\ disk[d].cursor <= book[d].cursor
    <3>1. book[d] \in Book /\ book[d].cursor <= Len(log) /\ disk[d].cursor <= book[d].cursor
      BY Facts
    <3>2. book[d].cursor \in Nat /\ Len(log) \in Nat
      BY <3>1, LogParts DEF Book
    <3>3. \A x \in Item : book[d].rec[x].phase \in Phase
      BY RecParts DEF Swap
    <3>4. QED BY <3>1, <3>2, <3>3
  <2>4. mds \in [Item -> Holder \cup {"none", "sent", "live", "back"}]
    BY Facts DEF CoinState
  <2>5. QED BY <2>1, <2>2, <2>3, <2>4, Facts DEF TypeOK
<1>2. SecretHasItsPrice
  BY Prices DEF SecretHasItsPrice, CoinOK, EscrowOK
<1>3. SoldOnceInTime
  <2>1. ASSUME NEW x \in Unit, NEW d \in Holder, NEW e \in Holder,
               eth[d][x].st = "claimed", eth[e][x].st = "claimed"
        PROVE  d = e
    BY <2>1, Prices DEF EscrowOK, Booking
  <2>2. ASSUME NEW x \in Unit, NEW d \in Holder, "claim" \in eth[d][x].tx
        PROVE  mds[x] = "live" /\ height + Margin <= due[x]
    <3>1. EscrowOK(d, x) /\ x \in Item
      BY Prices, Kinds
    <3>2. eth[d][x].st = "locked" /\ mds[x] = "live" /\ now <= eth[d][x].due /\ d \in Daemon
      BY <2>2, <3>1, Kinds DEF EscrowOK
    <3>3. eth[d][x].due + Margin + height <= due[x] + now
      BY <3>1, <3>2 DEF EscrowOK
    <3>4. /\ eth[d][x].due \in Nat /\ height \in Nat /\ now \in Nat /\ due[x] \in Nat
          /\ Margin \in Nat
      BY <3>1, EscrowParts, Facts, SwapsAssumption
    <3>5. QED BY <3>2, <3>3, <3>4
  <2>3. QED BY <2>1, <2>2 DEF SoldOnceInTime
<1>4. QED BY <1>1, <1>2, <1>3 DEF SecretsSound

\* Whatever crashes, cut calls, refusals, missed events and delays come, the
\* watcher (tick_swaps) gives a unit's secret away only for its full price,
\* to one taker, and while the covenant coin still waits for that taker.
THEOREM SecretsCorrect == Spec => []SecretsSound
<1>1. SwapInv /\ [Next]_vars => SwapInv'
  BY SwapStep
<1>2. QED BY SwapInit, <1>1, SwapSound, PTL DEF Spec
-----------------------------------------------------------------------------
(***************************************************************************)
(* The legs of a swap of a unit move in the order AtomicExchange allows.   *)
(***************************************************************************)

\* How a step moves the escrow of d and the coin of x, one of them at most.
EthMoves(d, x) ==
    /\ mds'[x] = mds[x]
    /\ \/ eth'[d][x].st = eth[d][x].st
       \/ eth[d][x].st = "none" /\ eth'[d][x].st = "pending"
       \/ eth[d][x].st = "pending" /\ eth'[d][x].st \in {"locked", "reverted"}
       \/ eth[d][x].st = "locked" /\ eth'[d][x].st = "claimed" /\ mds[x] = "live"
       \/ eth[d][x].st = "locked" /\ eth'[d][x].st = "refunded"

CoinMoves(d, x) ==
    /\ eth'[d][x].st = eth[d][x].st
    /\ \/ mds[x] = "none" /\ mds'[x] = "sent"
       \/ mds[x] = "sent" /\ mds'[x] = "live"
       \/ mds[x] = "live" /\ mds'[x] = "back"
       \/ mds[x] = "live" /\ mds'[x] \in Daemon /\ eth[mds'[x]][x].st = "claimed"

LEMMA MinedMove ==
    ASSUME SwapInv, NEW h \in Holder, NEW y \in Item, NEW st, Mined(h, y, st), BaseOnly,
           NEW d \in Daemon, NEW x \in Unit
    PROVE  /\ mds'[x] = mds[x]
           /\ eth'[d][x].st = IF h = d /\ y = x THEN st ELSE eth[d][x].st
<1>1. eth \in [Holder -> [Item -> Escrow]] /\ d \in Holder /\ x \in Item
  BY Facts, Kinds
<1>2. eth[h][y] \in Escrow
  BY EscrowParts
<1> DEFINE e == [eth[h][y] EXCEPT !.st = st, !.tx = {}]
<1>3. e.st = st
  BY <1>2 DEF Escrow
<1>4. eth' = [eth EXCEPT ![h][y] = e]
  BY DEF Mined
<1> HIDE DEF e
<1>5. eth'[d][x] = IF h = d /\ y = x THEN e ELSE eth[d][x]
  BY <1>1, <1>4
<1>6. QED BY <1>3, <1>5, BaseFrame

LEMMA BaseMove ==
    ASSUME SwapInv, BaseMines, NEW d \in Daemon, NEW x \in Unit PROVE EthMoves(d, x)
<1>1. PICK h \in Holder, y \in Item : \/ MineLock(h, y) \/ MineBid(h, y) \/ MineClaim(h, y)
                                      \/ MineRefund(h, y) \/ MineCancel(h, y)
  BY DEF BaseMines
<1>2. EscrowOK(d, x) /\ x \notin Bid /\ x \in Item /\ d \in Holder
  BY Prices, Kinds
<1>3. CASE MineLock(h, y)
  <2>1. CASE Mined(h, y, "reverted")
    BY <1>3, <2>1, MinedMove DEF MineLock, EthMoves
  <2>2. CASE eth' = [eth EXCEPT ![h][y].st = "locked", ![h][y].due = now + @]
    <3>1. eth \in [Holder -> [Item -> Escrow]] /\ eth[h][y] \in Escrow
      BY Facts, EscrowParts
    <3>2. eth'[d][x].st = IF h = d /\ y = x THEN "locked" ELSE eth[d][x].st
      BY <1>2, <2>2, <3>1 DEF Escrow
    <3>3. mds'[x] = mds[x]
      BY <1>3, BaseFrame DEF MineLock
    <3>4. QED BY <1>3, <3>2, <3>3 DEF MineLock, EthMoves
  <2>3. QED BY <1>3, <2>1, <2>2 DEF MineLock
<1>4. CASE MineBid(h, y)
  BY <1>2, <1>4, MinedMove DEF MineBid, EthMoves
<1>5. CASE MineClaim(h, y)
  BY <1>2, <1>5, MinedMove DEF MineClaim, EthMoves, EscrowOK
<1>6. CASE MineRefund(h, y)
  BY <1>6, MinedMove DEF MineRefund, EthMoves
<1>7. CASE MineCancel(h, y)
  BY <1>2, <1>7, MinedMove DEF MineCancel, EthMoves, EscrowOK
<1>8. QED BY <1>1, <1>3, <1>4, <1>5, <1>6, <1>7

LEMMA StrangersMove ==
    ASSUME SwapInv, Strangers, NEW d \in Daemon, NEW x \in Unit
    PROVE  EthMoves(d, x) \/ CoinMoves(d, x)
<1>1. PICK y \in Item : StrangerLocks(y) \/ SellerLocks(y) \/ SellerClaims(y) \/ Reclaim(y)
  BY DEF Strangers
<1>2. /\ eth \in [Holder -> [Item -> Escrow]] /\ mds \in [Item -> CoinState]
      /\ d \in Holder /\ d # Stranger /\ x \in Item /\ x \notin Bid
  BY Facts, Kinds, SwapsAssumption
<1>3. CASE StrangerLocks(y)
  <2>1. mds'[x] = mds[x]
    BY <1>3, BaseFrame DEF StrangerLocks
  <2>2. eth'[d][x] = eth[d][x]
    BY <1>2, <1>3, Kinds DEF StrangerLocks
  <2>3. QED BY <2>1, <2>2 DEF EthMoves
<1>4. CASE SellerLocks(y)
  BY <1>2, <1>4, Kinds DEF SellerLocks, EthMoves
<1>5. CASE SellerClaims(y)
  BY <1>2, <1>5, MinedMove, Kinds DEF SellerClaims, EthMoves
<1>6. CASE Reclaim(y)
  <2>1. eth' = eth
    BY <1>6 DEF Reclaim, EthEnv
  <2>2. QED BY <1>2, <1>6, <2>1 DEF Reclaim, EthMoves, CoinMoves
<1>7. QED BY <1>1, <1>3, <1>4, <1>5, <1>6

LEMMA TradeMove ==
    ASSUME SwapInv, NEW t \in Daemon, Trade(t), NEW d \in Daemon, NEW x \in Unit
    PROVE  EthMoves(d, x) \/ CoinMoves(d, x)
<1>2. /\ eth \in [Holder -> [Item -> Escrow]] /\ mds \in [Item -> CoinState]
      /\ d \in Holder /\ t \in Holder /\ x \in Item /\ x \notin Bid
  BY Facts, Kinds
<1>3. CASE SyncOrderBook(t)
  BY <1>3 DEF SyncOrderBook, EthEnv, MdsEnv, EthMoves
<1>4. ASSUME NEW y \in Item, PlaceAsk(t, y) PROVE EthMoves(d, x) \/ CoinMoves(d, x)
  <2>1. eth' = eth /\ mds' = [mds EXCEPT ![y] = "sent"] /\ mds[y] = "none"
    BY <1>4 DEF PlaceAsk, EthEnv
  <2>2. QED BY <1>2, <2>1 DEF EthMoves, CoinMoves
<1>5. ASSUME NEW y \in Item, CancelBid(t, y) PROVE EthMoves(d, x)
  <2>1. y \in Bid /\ mds' = mds /\ eth' = [eth EXCEPT ![t][y].tx = @ \cup {"cancel"}]
    BY <1>5 DEF CancelBid, MdsEnv
  <2>2. eth'[d][x] = eth[d][x]
    BY <1>2, <2>1
  <2>3. QED BY <2>1, <2>2 DEF EthMoves
<1>6. ASSUME NEW y \in Item, NEW out \in CallOutcome, TakeAsk(t, y, out) PROVE EthMoves(d, x)
  <2>1. /\ y \in Unit /\ mds' = mds /\ book[t].rec[y].phase = "none"
        /\ \/ eth' = eth
           \/ eth' = [eth EXCEPT ![t][y] = [NoEscrow EXCEPT !.st = "pending",
                                                             !.due = RefundDelay(y)]]
    BY <1>6, SceneFacts DEF TakeAsk, MdsEnv
  <2>2. eth[t][y].st = "none"
    BY <2>1, Prices DEF DaemonOK, RecOK
  <2> DEFINE e == [NoEscrow EXCEPT !.st = "pending", !.due = RefundDelay(y)]
  <2>e. e.st = "pending"
    BY DEF NoEscrow
  <2> HIDE DEF e
  <2>3. eth'[d][x].st = eth[d][x].st \/ (t = d /\ y = x /\ eth'[d][x].st = "pending")
    <3>1. CASE eth' = eth
      BY <3>1
    <3>2. CASE eth' = [eth EXCEPT ![t][y] = e]
      BY <1>2, <2>e, <3>2
    <3>3. QED BY <2>1, <3>1, <3>2 DEF e
  <2>4. QED BY <2>1, <2>2, <2>3 DEF EthMoves
<1>7. ASSUME NEW y \in Item, NEW out \in CallOutcome, PlaceBid(t, y, out) PROVE EthMoves(d, x)
  <2>1. /\ y \in Bid /\ mds' = mds
        /\ \/ eth' = eth
           \/ eth' = [eth EXCEPT ![t][y] = [NoEscrow EXCEPT !.st = "pending"]]
    BY <1>7, SceneFacts DEF PlaceBid, MdsEnv
  <2>2. eth'[d][x] = eth[d][x]
    BY <1>2, <2>1
  <2>3. QED BY <2>1, <2>2 DEF EthMoves
<1>8. QED BY <1>3, <1>4, <1>5, <1>6, <1>7 DEF Trade

LEMMA WatchMove ==
    ASSUME SwapInv, NEW t \in Daemon, Watch(t), NEW d \in Daemon, NEW x \in Unit
    PROVE  EthMoves(d, x)
<1>1. CASE Learning(t)
  BY <1>1 DEF Learning, EthEnv, MdsEnv, EthMoves
<1>2. CASE Acting(t)
  <2>1. mds' = mds /\ d \in Holder /\ x \in Item
    BY <1>2, Kinds DEF Acting
  <2>2. eth[d][x] \in Escrow
    BY <2>1, EscrowParts
  <2> DEFINE sent == (IF x \in Claims(t) /\ book[t].rec[x].by = d THEN {"claim"} ELSE {})
                       \cup (IF x \in Refunds(t) /\ t = d THEN {"refund"} ELSE {})
  <2>3. eth'[d][x] = [eth[d][x] EXCEPT !.tx = @ \cup sent]
    BY <1>2, <2>1 DEF Acting
  <2> HIDE DEF sent
  <2>4. eth'[d][x].st = eth[d][x].st
    BY <2>2, <2>3 DEF Escrow
  <2>5. QED BY <2>1, <2>4 DEF EthMoves
<1>3. QED BY <1>1, <1>2 DEF Watch, Learn, LearnCrash, Act, ActCrash

LEMMA TimeMove ==
    ASSUME SwapInv, NEW block, Time(block), NEW d \in Daemon, NEW x \in Unit
    PROVE  EthMoves(d, x) \/ CoinMoves(d, x)
<1>1. eth' = eth /\ x \in Item
  BY Kinds DEF Time, EthEnv
<1>2. CASE UNCHANGED mds
  BY <1>1, <1>2 DEF EthMoves
<1>3. CASE \A y \in Item : mds'[y] \in Included(y)
  <2>1. mds'[x] \in Included(x)
    BY <1>1, <1>3
  <2>2. CASE mds[x] = "sent"
    BY <1>1, <2>1, <2>2 DEF Included, CoinMoves
  <2>3. CASE mds[x] = "live" /\ {e \in Daemon : sweep[e][x] = "reveal"} # {}
    <3>1. mds'[x] \in Daemon /\ sweep[mds'[x]][x] = "reveal"
      BY <2>1, <2>3 DEF Included
    <3>2. eth[mds'[x]][x].st = "claimed"
      BY <3>1, Prices DEF DaemonOK
    <3>3. QED BY <1>1, <2>3, <3>1, <3>2 DEF CoinMoves
  <2>4. CASE mds[x] # "sent" /\ ~(mds[x] = "live" /\ {e \in Daemon : sweep[e][x] = "reveal"} # {})
    BY <1>1, <2>1, <2>4 DEF Included, EthMoves
  <2>5. QED BY <2>2, <2>3, <2>4
<1>4. QED BY <1>2, <1>3 DEF Time

LEMMA StepMove ==
    ASSUME SwapInv, [Next]_vars, NEW d \in Daemon, NEW x \in Unit
    PROVE  EthMoves(d, x) \/ CoinMoves(d, x)
<1>1. CASE UNCHANGED vars
  BY <1>1 DEF vars, EthMoves
<1>2. QED BY <1>1, WatchMove, TradeMove, BaseMove, StrangersMove, TimeMove DEF Next

\* The leg an escrow in state st is.
LegOf(st) == IF st \in {"none", "pending", "reverted"} THEN "none"
             ELSE IF st = "claimed" THEN "paid"
             ELSE IF st = "refunded" THEN "back" ELSE "locked"

LEMMA EthLegOf ==
    ASSUME NEW d, NEW x
    PROVE  EthLeg(d, x) = LegOf(eth[d][x].st) /\ EthLeg(d, x)' = LegOf(eth'[d][x].st)
BY DEF EthLeg, LegOf

LEMMA MoveInOrder ==
    ASSUME SwapInv, NEW d \in Daemon, NEW x \in Unit,
           EthMoves(d, x) \/ CoinMoves(d, x)
    PROVE  Ask!Step(<<d, x>>) \/ Ask!MissSecond(<<d, x>>)
<1> DEFINE s == <<d, x>>
<1>1. s \in Daemon \X Unit /\ s[1] = d /\ s[2] = x
  OBVIOUS
<1>2. \A a, b, c, e : Ask!Goes(s, a, b, c, e) <=>
         EthLeg(d, x) = a /\ MdsLeg(d, x) = b /\ EthLeg(d, x)' = c /\ MdsLeg(d, x)' = e
  BY <1>1 DEF Ask!Goes
<1>3. d \notin {"none", "sent", "live", "back"} /\ mds[x] \in CoinState /\ x \in Item
  BY Kinds, Facts
<1>4. EthLeg(d, x) \in Ask!Leg /\ MdsLeg(d, x) \in Ask!Leg
  BY DEF EthLeg, MdsLeg, Ask!Leg
<1> SUFFICES Ask!Step(s) \/ Ask!MissSecond(s)
  OBVIOUS
<1> HIDE DEF s
<1>5. CASE EthMoves(d, x)
  <2>1. MdsLeg(d, x)' = MdsLeg(d, x)
    BY <1>5 DEF EthMoves, MdsLeg
  <2>2. CASE EthLeg(d, x)' = EthLeg(d, x)
    BY <1>2, <1>4, <2>1, <2>2 DEF Ask!Rest, Ask!Step
  <2>3. CASE EthLeg(d, x) = "none" /\ EthLeg(d, x)' = "locked"
    BY <1>2, <1>4, <2>1, <2>3 DEF Ask!Lock, Ask!Step
  <2>4. CASE EthLeg(d, x) = "locked" /\ EthLeg(d, x)' = "paid" /\ MdsLeg(d, x) = "locked"
    BY <1>2, <2>1, <2>4 DEF Ask!PayFirst, Ask!Step
  <2>5. CASE EthLeg(d, x) = "locked" /\ EthLeg(d, x)' = "back"
    BY <1>2, <1>4, <2>1, <2>5 DEF Ask!ReturnFirst, Ask!Step
  <2>6. \/ EthLeg(d, x)' = EthLeg(d, x)
        \/ EthLeg(d, x) = "none" /\ EthLeg(d, x)' = "locked"
        \/ EthLeg(d, x) = "locked" /\ EthLeg(d, x)' = "paid" /\ MdsLeg(d, x) = "locked"
        \/ EthLeg(d, x) = "locked" /\ EthLeg(d, x)' = "back"
    BY <1>3, <1>5, EthLegOf DEF EthMoves, LegOf, MdsLeg
  <2>7. QED BY <2>2, <2>3, <2>4, <2>5, <2>6
<1>6. CASE CoinMoves(d, x)
  <2>1. EthLeg(d, x)' = EthLeg(d, x)
    BY <1>6 DEF CoinMoves, EthLeg
  <2>2. CASE MdsLeg(d, x)' = MdsLeg(d, x)
    BY <1>2, <1>4, <2>1, <2>2 DEF Ask!Rest, Ask!Step
  <2>3. CASE MdsLeg(d, x) = "none" /\ MdsLeg(d, x)' = "locked"
    BY <1>2, <1>4, <2>1, <2>3 DEF Ask!Lock, Ask!Step
  <2>4. CASE MdsLeg(d, x) = "locked" /\ MdsLeg(d, x)' = "paid" /\ EthLeg(d, x) = "paid"
    BY <1>2, <2>1, <2>4 DEF Ask!PaySecond, Ask!Step
  <2>5. CASE MdsLeg(d, x) = "locked" /\ MdsLeg(d, x)' = "back"
    <3>1. CASE EthLeg(d, x) = "paid"
      BY <1>2, <2>1, <2>5, <3>1 DEF Ask!MissSecond
    <3>2. CASE EthLeg(d, x) # "paid"
      BY <1>2, <1>4, <2>1, <2>5, <3>2 DEF Ask!ReturnSecond, Ask!Step
    <3>3. QED BY <3>1, <3>2
  <2>6. \/ MdsLeg(d, x)' = MdsLeg(d, x)
        \/ MdsLeg(d, x) = "none" /\ MdsLeg(d, x)' = "locked"
        \/ MdsLeg(d, x) = "locked" /\ MdsLeg(d, x)' = "paid" /\ EthLeg(d, x) = "paid"
        \/ MdsLeg(d, x) = "locked" /\ MdsLeg(d, x)' = "back"
    BY <1>3, <1>6, Kinds DEF CoinMoves, EthLeg, MdsLeg
  <2>7. QED BY <2>2, <2>3, <2>4, <2>5, <2>6
<1>7. QED BY <1>5, <1>6

\* A swap of a unit implements the ordered exchange, with any delays: the
\* watchers (tick_swaps) and the two contracts move the legs only in the order
\* of AtomicExchange, but for a taker that paid and came after the timeout.
THEOREM AskOrdered == Spec => AskIsOrdered
<1>1. Init => Ask!Init
  <2> SUFFICES ASSUME Init PROVE Ask!Init
    OBVIOUS
  <2>1. ASSUME NEW s \in Daemon \X Unit
        PROVE  EthLeg(s[1], s[2]) = "none" /\ MdsLeg(s[1], s[2]) = "none"
    <3>1. s[1] \in Holder /\ s[2] \in Item /\ s[1] # "none"
      BY Kinds
    <3>2. mds[s[2]] = "none" /\ eth[s[1]][s[2]].st = "none"
      BY <3>1 DEF Init, NoEscrow
    <3>3. QED BY <3>1, <3>2, EthLegOf DEF LegOf, MdsLeg
  <2>2. QED BY <2>1 DEF Ask!Init
<1>2. SwapInv /\ [Next]_vars => Ask!OrderedNext
  <2> SUFFICES ASSUME SwapInv, [Next]_vars, NEW s \in Daemon \X Unit
               PROVE  Ask!Step(s) \/ Ask!MissSecond(s)
    BY DEF Ask!OrderedNext
  <2>1. PICK d \in Daemon, x \in Unit : s = <<d, x>>
    OBVIOUS
  <2>2. EthMoves(d, x) \/ CoinMoves(d, x)
    BY StepMove
  <2>3. QED BY <2>1, <2>2, MoveInOrder
<1>3. SwapInv /\ [Next]_vars => SwapInv'
  BY SwapStep
<1>4. QED BY <1>1, <1>2, <1>3, SwapInit, PTL DEF Spec, AskIsOrdered, Ask!OrderedSpec
=============================================================================
