------------------------------- MODULE Swaps --------------------------------
(***************************************************************************)
(* Swaps of MDS against ETH on Base (walletd/service.rs, swap.rs,          *)
(* swapbook.rs, dex.rs, base.rs, core/dex.rs).                             *)
(*                                                                         *)
(* A unit of a sell order is a covenant coin that opens to the maker's     *)
(* secret; a taker escrows ETH for the same hash, the maker claims it and  *)
(* so publishes the secret, the taker sweeps the coin.  A buy order turns  *)
(* this round: the buyer holds the secret and escrows ETH, a seller locks  *)
(* a covenant coin, and sweeping it publishes the secret.                  *)
(*                                                                         *)
(* One unit of time is the least time between two MDS blocks               *)
(* (blocks_to_secs_pessimistic); Base blocks and the watcher's ticks are   *)
(* far more frequent, so a unit passes only when both have nothing left to *)
(* do, or when one of the named delays is used up.  Orders are placed at   *)
(* time 0.                                                                 *)
(***************************************************************************)
EXTENDS Integers, Sequences, FiniteSets

CONSTANTS
    Daemon,      \* wallet daemons
    Stranger,    \* an account on Base no daemon controls
    Unit,        \* units of sell orders, each with its own hash
    Bid,         \* buy orders
    Maker,       \* Maker[x]: the daemon whose order or bid x is
    Margin,      \* SETTLE_MARGIN_SECS, in units of time
    FillRoom,    \* blocks a fill must leave before the seller's timeout
    Scenes

\* What a scene bounds.
Bounds == {"crashes", "cuts", "outages", "refusals", "away", "cancels", "strangers", "fills", "slow"}

\* A daemon is none of the states a covenant coin can be in; a scene is a
\* record of orders, traders and bounds.
ASSUME SwapsAssumption ==
    /\ Unit \cap Bid = {}
    /\ Stranger \notin Daemon
    /\ (Daemon \cup {Stranger}) \cap {"none", "sent", "live", "back"} = {}
    /\ Maker \in [Unit \cup Bid -> Daemon]
    /\ Margin \in Nat \ {0} /\ FillRoom \in Nat
    /\ \A s \in Scenes :
         /\ s.sells \subseteq Unit /\ s.buys \subseteq Bid /\ s.takers \subseteq Daemon
         /\ s.life \in Nat /\ s.last \in Nat /\ s.offers \subseteq Nat
         /\ s.resting \in [Daemon -> SUBSET Unit]
         /\ \A d \in Daemon : \A x \in s.resting[d] : Maker[x] = d
         /\ \A e \in Bounds : s[e] \in Nat

Item == Unit \cup Bid
Holder == Daemon \cup {Stranger}

VARIABLES
    scene,     \* chosen by Init, then fixed: what is traded and the bounds
    now,       \* time on Base
    height,    \* of the MDS chain
    mds,       \* covenant coin of x: none, sent, live, back, or who swept it
    due,       \* due[x]: the height its refund branch opens at
    sweep,     \* sweep[d][x]: none, commit, ready, reveal
    eth,       \* eth[d][x]: the escrow of d for x in the Base contract
    log,       \* contract events, in order
    orders,    \* orders[d]: units whose secrets are in d's book
    bids,      \* bids[d][x]: none, saved, sent, open, cancelled
    book,      \* book[d]: the SwapBook
    disk,      \* disk[d]: the SwapBook, as saved
    stage,     \* stage[d]: at rest, or about to act in a tick
    view,      \* view[d]: asks and bids the order book of d shows
    used       \* how much of each bound of the scene is used up

vars == <<scene, now, height, mds, due, sweep, eth, log, orders, bids, book, disk, stage,
          view, used>>

(***************************************************************************)
(* Records.                                                                *)
(***************************************************************************)
NoEscrow == [st |-> "none", due |-> 0, full |-> TRUE, tx |-> {}]
\* "Recorded" is LockingEth with an empty transaction hash, "Committed" is
\* SweepingMds with a commitment.  "by" is whose escrow the record is about.
Phase == {"none", "Recorded", "LockingEth", "EthLocked", "ClaimingEth", "SweepingMds",
          "Committed", "ConfirmingMds", "RefundingEth", "Done", "Failed"}
NoSwap == [phase |-> "none", by |-> Stranger, deadline |-> 0, since |-> 0]

active(r) == r.phase \notin {"none", "Done", "Failed"}

Happens(e) == used[e] < scene[e] /\ used' = [used EXCEPT ![e] = @ + 1]
Quiet == UNCHANGED used

EthEnv == <<eth, log>>
MdsEnv == <<mds, due, sweep>>
Books == <<orders, bids, book, disk, stage>>
Clock == <<scene, now, height>>

(***************************************************************************)
(* The clock arithmetic of swap.rs, in units.                              *)
(***************************************************************************)

\* blocks_to_secs_pessimistic: a block takes at least one unit.
SecsLeft(x) == IF due[x] > height THEN due[x] - height ELSE 0
RefundDelay(x) == SecsLeft(x) - Margin
check_ordering(reveal, act) == reveal + Margin <= act
unit_is_tradeable(x) == x \in Unit \/ x \in scene.claimable

(***************************************************************************)
(* Orders.                                                                 *)
(***************************************************************************)
\* place_ask: the wallet saves the prepared send, then the book saves the
\* secrets, then the commit goes out.  A daemon that dies in between sends
\* the order on restart without its secrets.
PlaceAsk(d, x) ==
    /\ x \in scene.sells /\ Maker[x] = d
    /\ mds[x] = "none" /\ now = 0
    /\ \/ Quiet /\ orders' = [orders EXCEPT ![d] = @ \cup {x}]
       \/ Happens("crashes") /\ UNCHANGED orders
    /\ mds' = [mds EXCEPT ![x] = "sent"]
    /\ due' = [due EXCEPT ![x] = height + scene.life]
    /\ UNCHANGED <<Clock, sweep, EthEnv, bids, book, disk, stage, view>>

\* Bids from the contract's history that were not claimed or cancelled, and
\* are not reserved; announced asks whose coins are in the coin set.
TakeableBids == {x \in Bid : eth[Maker[x]][x].st = "open"}
LiveAsks == {x \in Unit : mds[x] = "live"}

\* sync_order_book
SyncOrderBook(d) ==
    /\ d \in scene.takers
    /\ view' = [view EXCEPT ![d] = TakeableBids \cup LiveAsks]
    /\ UNCHANGED <<Clock, MdsEnv, EthEnv, Books, used>>

CanTake(d, x) ==
    /\ x \in Unit \cap view[d]
    /\ unit_is_tradeable(x)
    /\ mds[x] = "live"
    /\ SecsLeft(x) > 2 * Margin
    /\ check_ordering(now + RefundDelay(x), now + SecsLeft(x))

\* How the escrow call of take_ask, or the bid call of place_bid, ends:
\* sent; refused; sent but the answer is lost; the daemon dies before or
\* after it is sent.
CallOutcome == {"sent", "refused", "lost", "before", "after"}
Sent(out) == out \in {"sent", "lost", "after"}
CallHappens(out) ==
    \/ out = "sent" /\ Quiet
    \/ out = "refused" /\ Happens("refusals")
    \/ out \in {"lost", "before", "after"} /\ Happens("cuts")

\* take_ask: recorded, escrowed, and recorded with the transaction.
TakeAsk(d, x, out) ==
    /\ x \in scene.sells /\ d \in scene.takers
    /\ book[d].rec[x].phase = "none" /\ stage[d] = "rest"
    /\ CanTake(d, x)
    /\ CallHappens(out)
    /\ LET r == [NoSwap EXCEPT !.phase = CASE out = "sent" -> "LockingEth"
                                           [] out \in {"refused", "lost"} -> "Failed"
                                           [] OTHER -> "Recorded",
                               !.by = d, !.deadline = now + RefundDelay(x)]
       IN  /\ book' = [book EXCEPT ![d].rec[x] = r]
           /\ disk' = [disk EXCEPT ![d].rec[x] = r]
    /\ eth' = IF Sent(out)
              THEN [eth EXCEPT ![d][x] = [NoEscrow EXCEPT !.st = "pending",
                                                          !.due = RefundDelay(x)]]
              ELSE eth
    /\ UNCHANGED <<Clock, MdsEnv, log, orders, bids, stage, view>>

\* place_bid: the secret is saved before the escrow is made.
PlaceBid(d, x, out) ==
    /\ x \in scene.buys /\ Maker[x] = d
    /\ bids[d][x] = "none" /\ now = 0
    /\ CallHappens(out)
    /\ bids' = [bids EXCEPT ![d][x] = IF out = "sent" THEN "sent" ELSE "saved"]
    /\ eth' = IF Sent(out) THEN [eth EXCEPT ![d][x] = [NoEscrow EXCEPT !.st = "pending"]] ELSE eth
    /\ UNCHANGED <<Clock, MdsEnv, log, orders, book, disk, stage, view>>

\* cancel_bid: only a bid whose id is known; a failing call changes nothing.
CancelBid(d, x) ==
    /\ x \in Bid /\ bids[d][x] \in {"open", "cancelled"}
    /\ eth[d][x].st = "open"
    /\ Happens("cancels")
    /\ eth' = [eth EXCEPT ![d][x].tx = @ \cup {"cancel"}]
    /\ bids' = [bids EXCEPT ![d][x] = "cancelled"]
    /\ UNCHANGED <<Clock, MdsEnv, log, orders, book, disk, stage, view>>

(***************************************************************************)
(* The watcher, tick_swaps, in two steps: it learns what happened on the   *)
(* chains (sections 1 and 2 of the code), then acts on it (3 to 5) and     *)
(* saves.  A crash in between starts again from what is on disk.           *)
(***************************************************************************)
\* Without an active swap or a sell order the tick ends at once.
Watching(d) == (\E x \in Item : active(book[d].rec[x])) \/ orders[d] # {}

\* 1. The phase of a swap once the receipt of its escrow is read.
Receipt(d, x) ==
    LET p == book[d].rec[x].phase
    IN  CASE p = "LockingEth" /\ eth[d][x].st \in {"locked", "claimed", "refunded"} -> "EthLocked"
          [] p = "LockingEth" /\ eth[d][x].st = "reverted" -> "Failed"
          [] OTHER -> p

\* 1b. A bid has an id once its transaction is mined.
OpenBids(d) == {x \in Bid : /\ Maker[x] = d
                            /\ \/ bids[d][x] = "open"
                               \/ bids[d][x] = "sent" /\ eth[d][x].st \in {"open", "reserved"}}

\* Mutant: any fill that is there is taken.
Fillable_late(d, x) ==
    /\ x \in OpenBids(d) /\ book[d].rec[x].phase = "none"
    /\ mds[x] = "live" /\ unit_is_tradeable(x)

\* 1c. A covenant coin announced for one of our bids that pays us enough,
\* is worth its claim, and leaves time for it.
Fillable(d, x) ==
    /\ x \in OpenBids(d) /\ book[d].rec[x].phase = "none"
    /\ mds[x] = "live" /\ unit_is_tradeable(x)
    /\ due[x] > height + FillRoom

\* 2. Events up to the safe head: those older than this unit of time.
Safe == Cardinality({i \in DOMAIN log : log[i].at < now})
Max2(m, n) == IF m > n THEN m ELSE n
Unread(d) == (book[d].cursor + 1)..Safe

\* Mutant: an escrow of any amount is taken for the price.
Payable_any(e) == now + Margin \div 2 <= e.due

\* Claiming publishes the secret: the money and the clock must be right.
Payable(e) == e.full /\ now + Margin \div 2 <= e.due

\* The Locked events among "is" for a unit of ours that no swap tracks yet.
\* The first one that pays is booked.
Payments(d, x, is) ==
    {i \in is : /\ log[i].kind = "Locked" /\ log[i].x = x
                /\ x \in orders[d] /\ book[d].rec[x].phase = "none"
                /\ Payable(eth[log[i].by][x])}

\* A Claimed event carries the preimage to the taker that waits for it.
Preimage(d, x, is) ==
    /\ Receipt(d, x) = "EthLocked"
    /\ \E i \in is : log[i].kind = "Claimed" /\ log[i].x = x /\ log[i].by = d

Learned(d, x, is) ==
    LET r == book[d].rec[x]
        paid == Payments(d, x, is)
        ev == log[CHOOSE i \in paid : \A j \in paid : i <= j]
    IN  CASE paid # {} -> [phase |-> "ClaimingEth", by |-> ev.by, since |-> 0,
                           deadline |-> eth[ev.by][x].due]
          [] Preimage(d, x, is) -> [r EXCEPT !.phase = "SweepingMds"]
          [] Fillable(d, x) -> [NoSwap EXCEPT !.phase = "SweepingMds", !.by = d]
          [] OTHER -> [r EXCEPT !.phase = Receipt(d, x)]

\* The book after the events "is" were handled: the cursor has passed all.
BookAfter(d, is) == [rec |-> [x \in Item |-> Learned(d, x, is)],
                     cursor |-> Max2(Safe, book[d].cursor)]

\* A new swap of a maker or a buyer is saved the moment it is booked, with
\* the cursor already past the whole batch if it came from an event.
Booked(d, is) == \E x \in Item : Payments(d, x, is) # {}
SavedAfter(d, is) ==
    CASE Booked(d, is) -> BookAfter(d, is)
      [] ~ Booked(d, is) /\ (\E x \in Bid : Fillable(d, x)) ->
           [BookAfter(d, {}) EXCEPT !.cursor = book[d].cursor]
      [] OTHER -> disk[d]

\* A call is sent only if its gas estimate succeeds: the contract takes a
\* claim until the refund is due, and the refund from then on.
CanClaim(e) == e.st = "locked" /\ now <= e.due
CanRefund(e) == e.st = "locked" /\ now > e.due

\* 3. The maker's claim; settled once sent.
Claims(d) == {x \in Item : /\ book[d].rec[x].phase = "ClaimingEth"
                           /\ CanClaim(eth[book[d].rec[x].by][x])}

\* 4. The sweep: given up past the timeout, otherwise commit, and reveal
\* once the commitment is on chain.
sweep_dead_end(x) == ~ unit_is_tradeable(x) \/ height > due[x]
Sweeping(d, phase) == {x \in Item : book[d].rec[x].phase = phase}
Dead(d) == {x \in Sweeping(d, "SweepingMds") \cup Sweeping(d, "Committed") : sweep_dead_end(x)}
Commits(d) == Sweeping(d, "SweepingMds") \ Dead(d)
Reveals(d) == {x \in Sweeping(d, "Committed") : sweep[d][x] # "commit"} \ Dead(d)

\* 4b. Landed; or sent again after three blocks.
Landed(d) == {x \in Sweeping(d, "ConfirmingMds") : mds[x] = d}
Resends(d) == {x \in Sweeping(d, "ConfirmingMds") \ Landed(d) :
                  height >= book[d].rec[x].since + 3}

\* 5. The taker's refund.
should_refund(r) == r.phase = "EthLocked" /\ now >= r.deadline
Refunds(d) == {x \in Item : /\ should_refund(book[d].rec[x])
                            /\ CanRefund(eth[d][x])}

Acted(d, x) ==
    LET r == book[d].rec[x]
    IN  CASE x \in Claims(d) \cup Landed(d) -> [r EXCEPT !.phase = "Done"]
          [] x \in Dead(d) -> [r EXCEPT !.phase = "Failed"]
          [] x \in Commits(d) -> [r EXCEPT !.phase = "Committed"]
          [] x \in Reveals(d) \cup Resends(d) -> [r EXCEPT !.phase = "ConfirmingMds",
                                                           !.since = height]
          [] x \in Refunds(d) -> [r EXCEPT !.phase = "RefundingEth"]
          [] OTHER -> r

\* Nothing is due: a tick would change nothing (and is left out).
UpToDate(d) ==
    Watching(d) => /\ stage[d] = "rest"
                   /\ \A x \in Item : Learned(d, x, Unread(d)) = book[d].rec[x]
                   /\ \A x \in Item : Acted(d, x) = book[d].rec[x]
                   /\ Unread(d) = {}
                   /\ \A x \in OpenBids(d) : bids[d][x] = "open"

Learning(d) ==
    /\ stage[d] = "rest" /\ ~ UpToDate(d)
    /\ bids' = [bids EXCEPT ![d] = [x \in Bid |-> IF x \in OpenBids(d) THEN "open" ELSE @[x]]]
    /\ UNCHANGED <<Clock, MdsEnv, EthEnv, orders, view>>

\* A query for events that fails loses them: the cursor moves all the same.
Learn(d) ==
    /\ Learning(d)
    /\ \E is \in {Unread(d), {}} :
          /\ IF is = Unread(d) THEN Quiet ELSE Happens("outages")
          /\ book' = [book EXCEPT ![d] = BookAfter(d, is)]
          /\ disk' = [disk EXCEPT ![d] = SavedAfter(d, is)]
    /\ stage' = [stage EXCEPT ![d] = "act"]

\* The daemon dies after the first n of the new events.
LearnCrash(d, n) ==
    /\ Learning(d)
    /\ Happens("crashes")
    /\ LET is == {i \in Unread(d) : i <= book[d].cursor + n}
       IN  /\ disk' = [disk EXCEPT ![d] = SavedAfter(d, is)]
           /\ book' = [book EXCEPT ![d] = SavedAfter(d, is)]
    /\ UNCHANGED stage

Acting(d) ==
    /\ stage[d] = "act"
    /\ stage' = [stage EXCEPT ![d] = "rest"]
    /\ eth' = [h \in Holder |-> [x \in Item |->
          LET sent == (IF x \in Claims(d) /\ book[d].rec[x].by = h THEN {"claim"} ELSE {})
                        \cup (IF x \in Refunds(d) /\ d = h THEN {"refund"} ELSE {})
          IN  [eth[h][x] EXCEPT !.tx = @ \cup sent]]]
    /\ sweep' = [sweep EXCEPT ![d] = [x \in Item |->
          CASE x \in Commits(d) /\ @[x] = "none" -> "commit"
            [] x \in Reveals(d) \cup Resends(d) -> "reveal"
            [] OTHER -> @[x]]]
    /\ UNCHANGED <<Clock, mds, due, log, orders, bids, view>>

Act(d) ==
    /\ Acting(d)
    /\ LET b == [book[d] EXCEPT !.rec = [x \in Item |-> Acted(d, x)]]
       IN  book' = [book EXCEPT ![d] = b] /\ disk' = [disk EXCEPT ![d] = b]
    /\ Quiet

\* The daemon dies before the book is saved.  begin_sweep had saved it, as
\* it was, before committing.
ActCrash(d) ==
    /\ Acting(d)
    /\ Happens("crashes")
    /\ LET b == IF Commits(d) # {} THEN book[d] ELSE disk[d]
       IN  book' = [book EXCEPT ![d] = b] /\ disk' = [disk EXCEPT ![d] = b]

(***************************************************************************)
(* The two chains and the strangers on them.                               *)
(***************************************************************************)
Mined(d, x, st) == eth' = [eth EXCEPT ![d][x] = [@ EXCEPT !.st = st, !.tx = {}]]
Logged(kind, d, x) == log' = Append(log, [kind |-> kind, by |-> d, x |-> x, at |-> now])
BaseOnly == UNCHANGED <<Clock, MdsEnv, Books, view>>

\* lock() is mined: its refund delay counts from here.
MineLock(d, x) ==
    /\ x \in Unit /\ eth[d][x].st = "pending"
    /\ \/ /\ Quiet
          /\ eth' = [eth EXCEPT ![d][x].st = "locked", ![d][x].due = now + @]
          /\ Logged("Locked", d, x)
       \/ Happens("refusals") /\ Mined(d, x, "reverted") /\ UNCHANGED log
    /\ BaseOnly

MineBid(d, x) ==
    /\ x \in Bid /\ eth[d][x].st = "pending"
    /\ Mined(d, x, "open") /\ UNCHANGED log /\ Quiet /\ BaseOnly

\* A claim is good until the refund is due; the other call then reverts.
MineClaim(d, x) ==
    /\ "claim" \in eth[d][x].tx /\ eth[d][x].st = "locked"
    /\ Mined(d, x, "claimed") /\ Logged("Claimed", d, x) /\ Quiet /\ BaseOnly

MineRefund(d, x) ==
    /\ "refund" \in eth[d][x].tx /\ eth[d][x].st = "locked"
    /\ Mined(d, x, "refunded") /\ UNCHANGED log /\ Quiet /\ BaseOnly

MineCancel(d, x) ==
    /\ "cancel" \in eth[d][x].tx
    /\ Mined(d, x, IF eth[d][x].st = "open" THEN "back" ELSE eth[d][x].st)
    /\ UNCHANGED log /\ Quiet /\ BaseOnly

\* Someone escrows too little for a unit.
StrangerLocks(x) ==
    /\ x \in scene.sells /\ mds[x] = "live" /\ eth[Stranger][x].st = "none"
    /\ Happens("strangers")
    /\ eth' = [eth EXCEPT ![Stranger][x] =
                 [NoEscrow EXCEPT !.st = "locked", !.full = FALSE, !.due = now + Margin]]
    /\ Logged("Locked", Stranger, x)
    /\ BaseOnly

\* A seller reserves the bid, locks the coin it asks for and announces it.
SellerLocks(x) ==
    /\ x \in Bid /\ eth[Maker[x]][x].st = "open" /\ mds[x] = "none"
    /\ Happens("fills")
    /\ eth' = [eth EXCEPT ![Maker[x]][x].st = "reserved"]
    /\ mds' = [mds EXCEPT ![x] = "live"]
    /\ \E left \in scene.offers : due' = [due EXCEPT ![x] = height + left]
    /\ UNCHANGED <<Clock, sweep, log, Books, view>>

\* The seller collects the ETH with the secret the sweep made public.
Published(d, x) == sweep[d][x] = "reveal" \/ mds[x] = d
SellerClaims(x) ==
    /\ x \in Bid /\ eth[Maker[x]][x].st = "reserved" /\ Published(Maker[x], x)
    /\ Mined(Maker[x], x, "claimed") /\ UNCHANGED log /\ Quiet /\ BaseOnly

\* The refund branch of a covenant: its owner takes the coin back.
Reclaim(x) ==
    /\ mds[x] = "live" /\ height >= due[x]
    /\ mds' = [mds EXCEPT ![x] = "back"]
    /\ UNCHANGED <<Clock, due, sweep, EthEnv, Books, view, used>>

\* Base mines far faster than MDS.
BaseSettled == \A d \in Holder, x \in Item : eth[d][x].st # "pending" /\ eth[d][x].tx = {}

\* The covenant coins after a block that holds every pending transaction.
Included(x) ==
    LET reveals == {d \in Daemon : sweep[d][x] = "reveal"}
    IN  CASE mds[x] = "sent" -> {"live"}
          [] mds[x] = "live" /\ reveals # {} -> reveals
          [] OTHER -> {mds[x]}

\* A unit of time passes with an MDS block, with one that leaves the
\* pending transactions out, or with none; or while a daemon is away.
Time(block) ==
    /\ now < scene.last
    /\ BaseSettled
    /\ \/ block = "full" /\ Quiet /\ \A d \in Daemon : UpToDate(d)
       \/ block = "full" /\ Happens("away") /\ \E d \in Daemon : ~ UpToDate(d)
       \/ block # "full" /\ Happens("slow") /\ \A d \in Daemon : UpToDate(d)
    /\ now' = now + 1
    /\ height' = IF block = "none" THEN height ELSE height + 1
    /\ IF block = "full"
       THEN /\ mds' \in {m \in [Item -> UNION {Included(x) : x \in Item}] :
                           \A x \in Item : m[x] \in Included(x)}
            /\ sweep' = [d \in Daemon |-> [x \in Item |->
                            IF sweep[d][x] = "commit" THEN "ready" ELSE sweep[d][x]]]
       ELSE UNCHANGED <<mds, sweep>>
    /\ UNCHANGED <<scene, due, EthEnv, Books, view>>

(***************************************************************************)
(* The specification.                                                      *)
(***************************************************************************)
Init ==
    /\ scene \in Scenes
    /\ now = 0 /\ height = 0
    /\ mds = [x \in Item |-> "none"]
    /\ due = [x \in Item |-> 0]
    /\ sweep = [d \in Daemon |-> [x \in Item |-> "none"]]
    /\ eth = [d \in Holder |-> [x \in Item |-> NoEscrow]]
    /\ log = <<>>
    /\ orders = [d \in Daemon |-> scene.resting[d]]
    /\ bids = [d \in Daemon |-> [x \in Bid |-> "none"]]
    /\ book = [d \in Daemon |-> [rec |-> [x \in Item |-> NoSwap], cursor |-> 0]]
    /\ disk = book
    /\ stage = [d \in Daemon |-> "rest"]
    /\ view = [d \in Daemon |-> {}]
    /\ used = [e \in Bounds |-> 0]

Watch(d) == \/ Learn(d) \/ Act(d) \/ ActCrash(d)
            \/ \E n \in 0..Cardinality(Unread(d)) : LearnCrash(d, n)
Trade(d) ==
    \/ SyncOrderBook(d)
    \/ \E x \in Item : PlaceAsk(d, x) \/ CancelBid(d, x)
    \/ \E x \in Item, out \in CallOutcome : TakeAsk(d, x, out) \/ PlaceBid(d, x, out)
BaseMines == \E d \in Holder, x \in Item : \/ MineLock(d, x) \/ MineBid(d, x) \/ MineClaim(d, x)
                                           \/ MineRefund(d, x) \/ MineCancel(d, x)
Strangers == \E x \in Item : \/ StrangerLocks(x) \/ SellerLocks(x) \/ SellerClaims(x)
                              \/ Reclaim(x)

Next == \/ \E d \in Daemon : Watch(d) \/ Trade(d)
        \/ BaseMines \/ Strangers \/ \E block \in {"full", "empty", "none"} : Time(block)

Spec == Init /\ [][Next]_vars

\* The watcher ticks, Base mines and both clocks move on.
FairSpec == /\ Spec
            /\ \A d \in Daemon : WF_vars(Learn(d)) /\ WF_vars(Act(d))
            /\ WF_vars(BaseMines)
            /\ WF_vars(Time("full"))

(***************************************************************************)
(* Properties.                                                             *)
(***************************************************************************)
TypeOK ==
    /\ scene \in Scenes
    /\ now \in 0..scene.last /\ height \in 0..now
    /\ mds \in [Item -> Holder \cup {"none", "sent", "live", "back"}]
    /\ due \in [Item -> Nat]
    /\ sweep \in [Daemon -> [Item -> {"none", "commit", "ready", "reveal"}]]
    /\ \A d \in Holder, x \in Item :
          /\ eth[d][x].st \in {"none", "pending", "reverted", "locked", "claimed", "refunded",
                              "open", "reserved", "back"}
          /\ eth[d][x].due \in Nat /\ eth[d][x].full \in BOOLEAN
          /\ eth[d][x].tx \subseteq {"claim", "refund", "cancel"}
    /\ \A i \in DOMAIN log : log[i].x \in Item /\ log[i].by \in Holder
    /\ orders \in [Daemon -> SUBSET Unit]
    /\ bids \in [Daemon -> [Bid -> {"none", "saved", "sent", "open", "cancelled"}]]
    /\ \A d \in Daemon : /\ book[d].cursor \in 0..Len(log)
                         /\ \A x \in Item : book[d].rec[x].phase \in Phase
                         /\ disk[d].cursor <= book[d].cursor
    /\ view \in [Daemon -> SUBSET Item]
    /\ \A e \in Bounds : used[e] <= scene[e]

\* The legs of a swap of unit x with taker d: the ETH moves first.
EthLeg(d, x) == CASE eth[d][x].st \in {"none", "pending", "reverted"} -> "none"
                  [] eth[d][x].st = "claimed" -> "paid"
                  [] eth[d][x].st = "refunded" -> "back"
                  [] OTHER -> "locked"
MdsLeg(d, x) == CASE mds[x] \in {"none", "sent"} -> "none"
                  [] mds[x] = "live" -> "locked"
                  [] mds[x] = d -> "paid"
                  [] OTHER -> "back"
Ask == INSTANCE AtomicExchange
         WITH Exchange <- Daemon \X Unit,
              first <- [s \in Daemon \X Unit |-> EthLeg(s[1], s[2])],
              second <- [s \in Daemon \X Unit |-> MdsLeg(s[1], s[2])]

\* Every swap of a unit is an atomic exchange: the maker collects the ETH
\* only while the MDS waits for the taker, the maker does not get the MDS
\* back from a taker that paid, a taker never holds both, and an escrow
\* ends, with the MDS if it was collected.  (take_ask, tick_swaps)
AskIsAtomic == Ask!LiveSpec

\* However long daemons are away and blocks take, the legs of a swap of a unit
\* move in order: the ETH is collected while the MDS waits for that taker, the
\* MDS is swept by the taker whose ETH was collected, each leg ends once, and
\* only a taker that paid and came too late ends with neither.  (tick_swaps)
AskIsOrdered == Ask!OrderedSpec

\* The legs of a bid: the sweep of the MDS, once broadcast, publishes the
\* secret, the ETH moves second.
SweepLeg(x) == CASE mds[x] = "none" -> "none"
                 [] mds[x] = "back" -> "back"
                 [] Published(Maker[x], x) -> "paid"
                 [] OTHER -> "locked"
BidLeg(x) == CASE eth[Maker[x]][x].st \in {"none", "pending"} -> "none"
               [] eth[Maker[x]][x].st = "claimed" -> "paid"
               [] eth[Maker[x]][x].st = "back" -> "back"
               [] OTHER -> "locked"
Fill == INSTANCE AtomicExchange
          WITH Exchange <- Bid,
               first <- [x \in Bid |-> SweepLeg(x)], second <- [x \in Bid |-> BidLeg(x)]

\* Every fill of a buy order is an atomic exchange: the buyer publishes its
\* secret only for MDS the seller can no longer take back, and the seller
\* collects the ETH only with that secret.  (tick_swaps, 1c)
FillIsAtomic == Fill!Spec

\* Both kinds of trade are atomic exchanges.
TradesAreAtomic == AskIsAtomic /\ FillIsAtomic

\* A secret is released only for its full price: a unit goes to a taker
\* whose escrow the maker has collected, and no maker ever collects an
\* escrow that pays too little for the unit it opens.  (tick_swaps, 2)
SecretHasItsPrice ==
    /\ \A x \in Unit : mds[x] \in Holder => eth[mds[x]][x].st = "claimed"
    /\ \A x \in Unit, d \in Holder : eth[d][x].st = "claimed" => eth[d][x].full

\* A unit is sold once and in time: no two takers pay for it, whatever
\* crashes the maker's watcher has been through, and while the maker's claim
\* is in flight the coin it opens still waits for the taker, who has at least
\* Margin blocks to sweep it before the refund branch opens.  (tick_swaps
\* books the escrow before it claims; Payable and should_refund leave the
\* margin between the two clocks)
SoldOnceInTime ==
    \A x \in Unit :
       /\ \A d, e \in Holder : eth[d][x].st = "claimed" /\ eth[e][x].st = "claimed" => d = e
       /\ \A d \in Holder : "claim" \in eth[d][x].tx =>
                               mds[x] = "live" /\ height + Margin <= due[x]

\* Chains, books and escrows are well formed, no secret is given away and
\* none is sold twice or too late (tick_swaps).
SecretsSound == TypeOK /\ SecretHasItsPrice /\ SoldOnceInTime

\* Comment on take_ask: ETH in escrow is always known to the watcher of
\* whoever put it there.
EscrowTracked ==
    \A d \in Daemon, x \in Unit :
        eth[d][x].st = "locked" => book[d].rec[x].phase \notin {"Recorded", "Failed"}

\* A resting bid that is filled in time and form is collected (tick_swaps, 1c).
BidServed ==
    \A x \in Bid : (mds[x] = "live" /\ bids[Maker[x]][x] # "cancelled" /\ due[x] > height + FillRoom + 1)
                      ~> (mds[x] = Maker[x] \/ bids[Maker[x]][x] = "cancelled")

=============================================================================
