------------------------------ MODULE Channels ------------------------------
(***************************************************************************)
(* Q-Bolt payment channels of the wallet daemon (walletd/service.rs,       *)
(* walletd/channels.rs, core/channel.rs).                                  *)
(*                                                                         *)
(* A channel is one-way: the sender c[1] funds a covenant coin, signs      *)
(* states with growing nonces and sends them over the public chat bus; the *)
(* receiver c[2] keeps the newest one and may close with it; the sender    *)
(* may take everything back once the channel has expired.  Hubs forward    *)
(* hash-locked payments (HTLCs) from one channel to the next and open the  *)
(* next channel just in time when there is none.                           *)
(*                                                                         *)
(* Frames arrive in any order, or never: nothing obliges a step to handle  *)
(* one.  None is handled twice: mark_seen drops a frame read again.  A     *)
(* signature is membership in signed[c].  A daemon handles one frame or    *)
(* one tick decision at a time; a crash may interrupt a handler after the  *)
(* book was saved, or, when the daemon is about to sign, before.           *)
(***************************************************************************)
EXTENDS Integers, Sequences, FiniteSets, Sums

CONSTANTS
    Node,            \* daemons, by identity key
    Chan,            \* possible channels: pairs <<sender, receiver>>
    Scenes,          \* starting points: see Init
    Hash,            \* payment hashes
    Capacity,        \* what a channel holds besides CLOSE_FEE
    Price,           \* the amount of an invoice
    HopFee, HopDelta, Headroom,     \* HOP_FEE, HTLC_HOP_DELTA, HTLC_MIN_HEADROOM
    PayCutoff, CloseMargin,         \* PAY_CUTOFF, CLOSE_MARGIN
    LeafReserve, Leaves,            \* LEAF_RESERVE, leaves of a fresh identity key
    MaxSkips,        \* bound on the blocks that leave transactions out
    Overload         \* whether the node's command queue may be full

\* Amounts, heights and leaf indices are unsigned in the code; a scene is a
\* record of channels, payees and bounds.
ASSUME ChannelAssumption ==
    /\ Chan \subseteq Node \X Node
    /\ Capacity \in Nat /\ Price \in Nat /\ HopFee \in Nat
    /\ HopDelta \in Nat /\ Headroom \in Nat
    /\ LeafReserve \in Nat /\ Leaves \in Nat /\ MaxSkips \in Nat
    /\ \A s \in Scenes :
         /\ s.open \subseteq s.chan /\ s.chan \subseteq Chan /\ s.payee \subseteq Node
         /\ s.last \in Nat /\ s.orders \in Nat /\ s.tries \in Nat /\ s.crashes \in Nat

VARIABLES
    scene,      \* chosen by Init, then fixed: the channels in play, those open at
                \* the start, the payees, the expiry height of the channels, and the
                \* bounds: last height, orders, repeats of a frame, crashes
    height,
    coin,       \* funding coin: none, committed, live, closed, refunded
    tx,         \* tx[c].close, tx[c].refund: none, commit, mined, reveal
    snd, rcv,   \* the ChannelRecord of c in the book of c[1], of c[2]
    signed,     \* states the sender's key has signed
    book,       \* routes, parked forwards, preimages, invoices, payments
    leaves,     \* one-time signatures left under each identity key
    frames,     \* frames on the bus
    skips, crashes, orders            \* used up of the bounds

vars == <<scene, height, coin, tx, snd, rcv, signed, book, leaves, frames,
          skips, crashes, orders>>

Htlc == [hash : Hash, amt : Nat, timeout : Nat]
Amounts(hs) == SumOf([x \in hs |-> x.amt], hs)
Hashes(st) == {x.hash : x \in st.htlcs}

\* State 0 of a channel: everything to the sender.  "paid" is a history
\* field: the hashes whose amount has been moved into rcv.
State0 == [nonce |-> 0, snd |-> Capacity, rcv |-> 0, htlcs |-> {}, paid |-> {}]

\* build_state refuses amounts that do not add up to the capacity.
Conserves(st) == st.snd + st.rcv + Amounts(st.htlcs) = Capacity

NoRecord == [status |-> "none", st |-> State0, acked |-> FALSE, tries |-> 0]
\* "own" is a history field: the payments the daemon started itself.
NoBook == [routes |-> {}, parked |-> {}, secrets |-> {}, invoices |-> {},
           paying |-> {}, own |-> {}]

(***************************************************************************)
(* Signing.  sign_commitment refuses when the key is down to its reserve,  *)
(* whatever the signature is for.  The leaf is saved before it is used.    *)
(***************************************************************************)
CanSign(n) == leaves[n] > LeafReserve

Burn(n) == leaves' = [leaves EXCEPT ![n] = @ - 1]

\* How a handler that has to send a signed state ends.
Outcomes(n) ==
    IF CanSign(n)
    THEN {"sent"} \cup (IF Overload THEN {"overload"} ELSE {})
                  \cup (IF crashes < scene.crashes THEN {"crash", "early"} ELSE {})
    ELSE {"unsigned"}

Saved(out) == out \in {"sent", "overload", "crash"}

\* Mutant: the frame leaves before the record is saved.
SenderAdvance_sends_first(c, draft, out) ==
    LET st == [draft EXCEPT !.nonce = snd[c].st.nonce + 1] IN
    /\ out \in Outcomes(c[1])
    /\ Conserves(st)
    /\ IF out = "unsigned" THEN UNCHANGED leaves ELSE Burn(c[1])
    /\ crashes' = IF out \in {"crash", "early"} THEN crashes + 1 ELSE crashes
    /\ snd' = IF out \in {"sent", "overload"}
              THEN [snd EXCEPT ![c] = [@ EXCEPT !.st = st, !.acked = FALSE, !.tries = 0]]
              ELSE snd
    /\ signed' = IF Saved(out) THEN [signed EXCEPT ![c] = @ \cup {st}] ELSE signed

\* sender_advance: next nonce, sign, save the record, put the frame out.
\* "early" is a crash after the leaf advance was saved and before the book was.
SenderAdvance(c, draft, out) ==
    LET st == [draft EXCEPT !.nonce = snd[c].st.nonce + 1] IN
    /\ out \in Outcomes(c[1])
    /\ Conserves(st)
    /\ IF out = "unsigned" THEN UNCHANGED leaves ELSE Burn(c[1])
    /\ crashes' = IF out \in {"crash", "early"} THEN crashes + 1 ELSE crashes
    /\ IF Saved(out)
       THEN /\ snd' = [snd EXCEPT ![c] = [@ EXCEPT !.st = st, !.acked = FALSE,
                                                    !.tries = 0]]
            /\ signed' = [signed EXCEPT ![c] = @ \cup {st}]
       ELSE UNCHANGED <<snd, signed>>

\* The frame sender_advance sends; nothing leaves on the other outcomes.
AdvanceFrame(c, draft, cmd, route, out) ==
    IF out = "sent"
    THEN {[cmd |-> cmd, ch |-> c, route |-> route,
           st |-> [draft EXCEPT !.nonce = snd[c].st.nonce + 1]]}
    ELSE {}

AckFrame(c, n) == [cmd |-> "ACK", ch |-> c, nonce |-> n]
ClaimFrame(c, h) == [cmd |-> "CLAIM", ch |-> c, hash |-> h]
FailFrame(c, h) == [cmd |-> "FAIL", ch |-> c, hash |-> h]

\* A frame is consumed by the step that handles it, unless the daemon died
\* before the book, and with it the seen mark, was saved.
Consume(f, out, new) == frames' = (IF out = "early" THEN frames ELSE frames \ {f}) \cup new

Chain == <<height, coin, tx>>
Bounds == <<scene, skips, orders>>

(***************************************************************************)
(* Opening: fund on chain, announce, and wait for the receiver.            *)
(***************************************************************************)
\* channel_open by the sender: the funding send is committed and state 0 signed.
Opened(c) ==
    /\ snd[c].status = "none"
    /\ CanSign(c[1])
    /\ Burn(c[1])
    /\ coin' = [coin EXCEPT ![c] = "committed"]
    /\ snd' = [snd EXCEPT ![c] = [NoRecord EXCEPT !.status = "Opening"]]
    /\ signed' = [signed EXCEPT ![c] = @ \cup {State0}]

\* Opened when asked to: a user's order, or a CHAN_REQ within the budget.
ChannelOpen(c) ==
    /\ Opened(c)
    /\ height + PayCutoff < scene.expiry
    /\ UNCHANGED <<height, tx, rcv, book, frames, crashes, scene, skips>>

\* tick: announce a funded channel until the receiver answers.
SendOpen(c) ==
    /\ snd[c].status = "Opening" /\ coin[c] = "live"
    /\ height < scene.expiry /\ snd[c].tries < scene.tries
    /\ snd' = [snd EXCEPT ![c].tries = @ + 1]
    /\ frames' = frames \cup {[cmd |-> "OPEN", ch |-> c]}
    /\ UNCHANGED <<Chain, rcv, signed, book, leaves, crashes, Bounds>>

\* OPEN: a known channel is acknowledged again, a new one is looked for on chain.
OnOpen(f) ==
    LET c == f.ch IN
    /\ f.cmd = "OPEN"
    /\ IF rcv[c].status = "none"
       THEN /\ rcv' = IF height + PayCutoff < scene.expiry
                      THEN [rcv EXCEPT ![c].status = "pending"] ELSE rcv
            /\ frames' = frames \ {f}
       ELSE /\ frames' = (frames \ {f}) \cup
                (IF rcv[c].status = "pending" THEN {} ELSE {AckFrame(c, rcv[c].st.nonce)})
            /\ UNCHANGED rcv
    /\ UNCHANGED <<Chain, snd, signed, book, leaves, crashes, Bounds>>

\* tick: promote a pending open whose funding is live, with the signed state 0.
AcceptOpen(c) ==
    /\ rcv[c].status = "pending" /\ coin[c] = "live"
    /\ State0 \in signed[c]
    /\ rcv' = [rcv EXCEPT ![c] = [NoRecord EXCEPT !.status = "Active"]]
    /\ frames' = frames \cup {AckFrame(c, 0)}
    /\ UNCHANGED <<Chain, snd, signed, book, leaves, crashes, Bounds>>

\* ACK: the sender's newest state has arrived; a first one opens the channel.
Acked(c) == snd' = [snd EXCEPT ![c].acked = TRUE,
                                ![c].status = IF @ = "Opening" THEN "Active" ELSE @]

OnAck(f) ==
    /\ f.cmd = "ACK"
    /\ IF f.nonce >= snd[f.ch].st.nonce THEN Acked(f.ch) ELSE UNCHANGED snd
    /\ frames' = frames \ {f}
    /\ UNCHANGED <<Chain, rcv, signed, book, leaves, crashes, Bounds>>

(***************************************************************************)
(* Paying.                                                                 *)
(***************************************************************************)
Usable(c) == snd[c].status = "Active" /\ height + PayCutoff < scene.expiry

\* channel_pay: move one unit to the receiver.
ChannelPay(c, out) ==
    LET draft == [snd[c].st EXCEPT !.snd = @ - 1, !.rcv = @ + 1] IN
    /\ Usable(c) /\ snd[c].st.snd >= 1
    /\ SenderAdvance(c, draft, out)
    /\ frames' = frames \cup AdvanceFrame(c, draft, "UPDATE", <<>>, out)
    /\ UNCHANGED <<Chain, rcv, book, scene, skips>>

\* mint_invoice: a fresh preimage and the amount the payee insists on; the
\* text reaches the payer outside the bus, or as a signed INVOICE frame.
CreateInvoice(n, h) ==
    /\ \A m \in Node : h \notin book[m].secrets
    /\ book' = [book EXCEPT ![n].secrets = @ \cup {h}, ![n].invoices = @ \cup {h}]
    /\ UNCHANGED <<Chain, snd, rcv, signed, leaves, frames, crashes, Bounds>>

\* answer_invoice_request: one answer per request, paid for with a leaf.
AnswerInvoice(n, h) ==
    /\ \A m \in Node : h \notin book[m].secrets
    /\ leaves[n] > LeafReserve + 1
    /\ Burn(n)
    /\ book' = [book EXCEPT ![n].secrets = @ \cup {h}, ![n].invoices = @ \cup {h}]
    /\ frames' = frames \cup {[cmd |-> "INVOICE", hash |-> h, payee |-> n]}
    /\ UNCHANGED <<Chain, snd, rcv, signed, crashes, Bounds>>

WithHtlc(st, h, amt, timeout) ==
    [st EXCEPT !.snd = @ - amt,
               !.htlcs = @ \cup {[hash |-> h, amt |-> amt, timeout |-> timeout]}]

\* pay_resolved: a direct channel, or one hop through a hub.
PayResolved(n, h, dest, out, rest) ==
    \E c \in scene.chan :
      LET hops == IF c[2] = dest THEN 0 ELSE 1
          amt  == Price + hops * HopFee
          route == IF hops = 0 THEN <<>> ELSE <<dest>>
          draft == WithHtlc(snd[c].st, h, amt, height + Headroom + (hops + 1) * HopDelta)
      IN
      /\ c[1] = n /\ Usable(c) /\ snd[c].st.snd >= amt
      /\ hops = 0 \/ \A d \in Chan : d[1] = n /\ d[2] = dest =>
                        ~(Usable(d) /\ snd[d].st.snd >= Price)
      /\ h \notin book[n].paying /\ h \notin Hashes(snd[c].st)
      /\ SenderAdvance(c, draft, out)
      \* saved before the signature; undone when sender_advance fails
      /\ book' = [book EXCEPT ![n].own = @ \cup {h},
                    ![n].paying = IF out \in {"unsigned", "overload"} THEN @ ELSE @ \cup {h}]
      /\ frames' = rest \cup AdvanceFrame(c, draft, "HTLC_ADD", route, out)
      /\ UNCHANGED <<Chain, rcv, scene, skips>>

PayInvoice(n, h, dest, out) ==
    /\ h \in book[dest].invoices /\ h \notin book[n].invoices
    /\ PayResolved(n, h, dest, out, frames)

OnInvoice(f, n, out) ==
    /\ f.cmd = "INVOICE" /\ n # f.payee
    /\ PayResolved(n, f.hash, f.payee, out, frames \ {f})
    /\ UNCHANGED orders

\* tick: repeat the newest state until it is acknowledged.  The repeat is
\* packed without the HTLCs the signature covers.
SendUpdate(c) ==
    /\ snd[c].status = "Active" /\ height < scene.expiry
    /\ ~snd[c].acked /\ snd[c].tries < scene.tries
    /\ snd' = [snd EXCEPT ![c].tries = @ + 1]
    /\ frames' = frames \cup {[cmd |-> "UPDATE", ch |-> c, route |-> <<>>,
                               st |-> [snd[c].st EXCEPT !.htlcs = {}]]}
    /\ UNCHANGED <<Chain, rcv, signed, book, leaves, crashes, Bounds>>

(***************************************************************************)
(* A state arrives.  handle_frame keeps it when it is newer, pays the      *)
(* receiver no less, adds up and carries the sender's signature; it is     *)
(* saved, then acknowledged, then every new HTLC is looked at (one at a    *)
(* time here: TakeHtlc, from the set "fresh" of the record).               *)
(***************************************************************************)
\* Mutant: an older state is taken too.
Acceptable_any_nonce(c, st) ==
    st.rcv >= rcv[c].st.rcv /\ Conserves(st) /\ st \in signed[c]

Acceptable(c, st) ==
    /\ st.nonce > rcv[c].st.nonce
    /\ st.rcv >= rcv[c].st.rcv
    /\ Conserves(st)
    /\ st \in signed[c]

OnState(f) ==
    LET c == f.ch
        new == {x \in f.st.htlcs : x.hash \notin Hashes(rcv[c].st)}
    IN
    /\ f.cmd \in {"UPDATE", "HTLC_ADD"}
    /\ IF rcv[c].status = "Active" /\ Acceptable(c, f.st)
       THEN /\ rcv' = [rcv EXCEPT ![c].st = f.st]
            /\ frames' = (frames \ {f})
                 \cup {AckFrame(c, f.st.nonce)}
                 \cup {[cmd |-> "ADDED", ch |-> c, htlc |-> x, route |-> f.route] : x \in new}
       ELSE /\ frames' = (frames \ {f})
                 \cup (IF rcv[c].status = "Active" /\ f.st.nonce <= rcv[c].st.nonce
                       THEN {AckFrame(c, rcv[c].st.nonce)} ELSE {})
            /\ UNCHANGED rcv
    /\ UNCHANGED <<Chain, snd, signed, book, leaves, crashes, Bounds>>

\* on_htlc_added at the payee: claim, but never below the invoiced amount.
ClaimHtlc(f) ==
    LET c == f.ch  n == c[2]  h == f.htlc.hash IN
    /\ f.cmd = "ADDED" /\ (f.route = <<>> \/ f.route = <<n>>)
    /\ frames' = (frames \ {f}) \cup
          (IF h \notin book[n].secrets THEN {}
           ELSE IF h \in book[n].invoices /\ f.htlc.amt < Price THEN {FailFrame(c, h)}
           ELSE {ClaimFrame(c, h)})
    /\ UNCHANGED <<Chain, snd, rcv, signed, book, leaves, crashes, Bounds>>

\* The channel on_htlc_added and deliver_parked forward over.
Onward(n, next, amt) ==
    {d \in scene.chan : d = <<n, next>> /\ snd[d].status = "Active" /\ snd[d].acked
                  /\ snd[d].st.snd >= amt /\ height + PayCutoff < scene.expiry}

NextHop(route, n) == IF route[1] = n /\ Len(route) > 1 THEN route[2] ELSE route[1]
HopsLeft(route, n) == SubSeq(route, IF route[1] = n /\ Len(route) > 1 THEN 3 ELSE 2, Len(route))

\* on_htlc_added at a hub, an open channel ahead: forward the rest, less the fee.
ForwardHtlc(f, out) ==
    LET c == f.ch  n == c[2]  h == f.htlc.hash
        next == NextHop(f.route, n)
        amt == f.htlc.amt - HopFee
        timeout == f.htlc.timeout - HopDelta
        fine == amt > 0 /\ timeout >= height + Headroom
    IN
    /\ f.cmd = "ADDED" /\ f.route # <<>> /\ f.route # <<n>>
    /\ fine
    /\ \E d \in Onward(n, next, amt) :
         LET draft == WithHtlc(snd[d].st, h, amt, timeout) IN
         /\ SenderAdvance(d, draft, out)
         \* the route is stored only once sender_advance has returned
         /\ book' = IF out = "sent"
                    THEN [book EXCEPT ![n].routes = @ \cup {<<h, c>>}] ELSE book
         /\ Consume(f, out, AdvanceFrame(d, draft, "HTLC_ADD", HopsLeft(f.route, n), out)
               \cup IF out \in {"unsigned", "overload"} THEN {FailFrame(c, h)} ELSE {})
    /\ UNCHANGED <<Chain, rcv, Bounds>>

\* ... no channel ahead: fund one just in time and park the forward, or fail it.
ParkHtlc(f) ==
    LET c == f.ch  n == c[2]  h == f.htlc.hash
        next == NextHop(f.route, n)
        amt == f.htlc.amt - HopFee
        timeout == f.htlc.timeout - HopDelta
        fine == amt > 0 /\ timeout >= height + Headroom
        d == <<n, next>>
    IN
    /\ f.cmd = "ADDED" /\ f.route # <<>> /\ f.route # <<n>>
    /\ ~fine \/ Onward(n, next, amt) = {}
    /\ IF fine /\ d \in scene.chan /\ snd[d].status = "none" /\ CanSign(n)
               /\ HopsLeft(f.route, n) = <<>>
       THEN /\ Opened(d)
            /\ book' = [book EXCEPT ![n].parked = @ \cup
                  {[hash |-> h, up |-> c, next |-> next, amt |-> amt, timeout |-> timeout]}]
            /\ frames' = frames \ {f}
            /\ UNCHANGED <<height, tx, rcv, crashes, Bounds>>
       ELSE /\ frames' = (frames \ {f}) \cup {FailFrame(c, h)}
            /\ UNCHANGED <<Chain, snd, rcv, signed, book, leaves, crashes, Bounds>>

\* deliver_parked: the channel it waited for has come up.
DeliverParked(n, p, out) ==
    /\ p \in book[n].parked
    /\ \E d \in Onward(n, p.next, p.amt) :
         LET draft == WithHtlc(snd[d].st, p.hash, p.amt, p.timeout)
             late == p.timeout < height + Headroom
             o == IF late THEN "late" ELSE out
         IN
         /\ IF late THEN UNCHANGED <<snd, signed, leaves, crashes>>
                    ELSE SenderAdvance(d, draft, out)
         /\ book' = CASE o = "sent" -> [book EXCEPT ![n].parked = @ \ {p},
                                            ![n].routes = @ \cup {<<p.hash, p.up>>}]
                      [] o \in {"crash", "early"} -> book
                      [] OTHER -> [book EXCEPT ![n].parked = @ \ {p}]
         /\ frames' = frames \cup AdvanceFrame(d, draft, "HTLC_ADD", <<>>, o)
               \cup IF o \in {"unsigned", "overload", "late"} THEN {FailFrame(p.up, p.hash)} ELSE {}
    /\ UNCHANGED <<Chain, rcv, Bounds>>

(***************************************************************************)
(* The answer travels back.                                                *)
(***************************************************************************)
Without(st, h) == [st EXCEPT !.htlcs = {x \in @ : x.hash # h}]
AmountOf(st, h) == (CHOOSE x \in st.htlcs : x.hash = h).amt

UpstreamOf(n, h) == {r[2] : r \in {r \in book[n].routes : r[1] = h}}

\* on_claim: credit the receiver who showed the preimage, then pull upstream.
OnClaim(f, out) ==
    LET c == f.ch  n == c[1]  h == f.hash
        mine == h \in Hashes(snd[c].st)
        draft == [Without(snd[c].st, h) EXCEPT !.rcv = @ + AmountOf(snd[c].st, h),
                                               !.paid = @ \cup {h}]
        done == out \notin {"crash", "early"}
    IN
    /\ f.cmd = "CLAIM"
    /\ IF mine THEN SenderAdvance(c, draft, out)
               ELSE out = "none" /\ UNCHANGED <<snd, signed, leaves, crashes>>
    /\ book' = IF out = "early" THEN book
               ELSE [book EXCEPT ![n].secrets = @ \cup {h},
                       ![n].paying = IF mine /\ done THEN @ \ {h} ELSE @,
                       ![n].routes = IF done THEN {r \in @ : r[1] # h} ELSE @]
    /\ Consume(f, out,
         (IF mine THEN AdvanceFrame(c, draft, "UPDATE", <<>>, out) ELSE {})
         \cup (IF done THEN {ClaimFrame(u, h) : u \in {u \in UpstreamOf(n, h) :
                                 u # c /\ rcv[u].status = "Active"}} ELSE {}))
    /\ UNCHANGED <<Chain, rcv, Bounds>>

\* on_fail: take the HTLC back and pass the failure on.
OnFail(f, out) ==
    LET c == f.ch  n == c[1]  h == f.hash
        mine == h \in Hashes(snd[c].st)
        draft == [Without(snd[c].st, h) EXCEPT !.snd = @ + AmountOf(snd[c].st, h)]
        done == out \notin {"crash", "early"}
    IN
    /\ f.cmd = "FAIL"
    /\ IF mine THEN SenderAdvance(c, draft, out)
               ELSE out = "none" /\ UNCHANGED <<snd, signed, leaves, crashes>>
    /\ book' = IF ~done THEN book
               ELSE [book EXCEPT ![n].paying = @ \ {h},
                       ![n].parked = {p \in @ : p.hash # h},
                       ![n].routes = {r \in @ : r[1] # h}]
    /\ Consume(f, out,
         (IF mine THEN AdvanceFrame(c, draft, "UPDATE", <<>>, out) ELSE {})
         \cup (IF done THEN {FailFrame(u, h) : u \in {u \in UpstreamOf(n, h) :
                                 u # c /\ rcv[u].status = "Active"}} ELSE {}))
    /\ UNCHANGED <<Chain, rcv, Bounds>>

(***************************************************************************)
(* Settling: commit, wait for it to be mined, reveal, see the coin gone.   *)
(***************************************************************************)
\* Mutant: the autopilot closes when the channel has expired.
MustClose_at_expiry(c) == rcv[c].status = "Active" /\ height >= scene.expiry
MustClose(c) == rcv[c].status = "Active" /\ height + CloseMargin >= scene.expiry
MayClose(c) == rcv[c].status = "Active"

\* start_close: on the receiver's order or by the expiry autopilot.
StartClose(c) ==
    /\ MayClose(c) /\ CanSign(c[2])
    /\ Burn(c[2])
    /\ rcv' = [rcv EXCEPT ![c].status = "Closing"]
    /\ tx' = [tx EXCEPT ![c].close = "commit"]
    /\ UNCHANGED <<height, coin, snd, signed, book, frames, crashes, scene, skips>>

RevealDue(c) == rcv[c].status = "Closing" /\ tx[c].close = "mined" /\ coin[c] = "live"

Reveal(c) ==
    /\ RevealDue(c)
    /\ tx' = [tx EXCEPT ![c].close = "reveal"]
    /\ UNCHANGED <<height, coin, snd, rcv, signed, book, leaves, frames, crashes, Bounds>>

\* Settled: the coin is gone, whoever spent it; tell the sender.
Settled(c) ==
    /\ rcv[c].status = "Closing" /\ tx[c].close = "done"
    /\ coin[c] \in {"closed", "refunded"}
    /\ rcv' = [rcv EXCEPT ![c].status = "Closed"]
    /\ frames' = frames \cup {[cmd |-> "CLOSED", ch |-> c]}
    /\ UNCHANGED <<Chain, snd, signed, book, leaves, crashes, Bounds>>

OnClosed(f) ==
    /\ f.cmd = "CLOSED"
    /\ frames' = frames \ {f}
    /\ snd' = [snd EXCEPT ![f.ch].status = IF @ = "Refunded" THEN @ ELSE "Closed"]
    /\ UNCHANGED <<Chain, rcv, signed, book, leaves, crashes, Bounds>>

\* Mutant: a channel the receiver never acknowledged is forgotten.
MustRefund_active(c) == height >= scene.expiry /\ snd[c].status = "Active"
MustRefund(c) ==
    /\ height >= scene.expiry
    /\ snd[c].status = "Active" \/ (snd[c].status = "Opening" /\ coin[c] = "live")

\* start_refund, by the autopilot once the channel has expired.
StartRefund(c) ==
    /\ MustRefund(c) /\ CanSign(c[1])
    /\ Burn(c[1])
    /\ snd' = [snd EXCEPT ![c].status = "Refunding"]
    /\ tx' = [tx EXCEPT ![c].refund = "commit"]
    /\ UNCHANGED <<height, coin, rcv, signed, book, frames, crashes, Bounds>>

RefundRevealDue(c) == snd[c].status = "Refunding" /\ tx[c].refund = "mined" /\ coin[c] = "live"

RefundReveal(c) ==
    /\ RefundRevealDue(c)
    /\ tx' = [tx EXCEPT ![c].refund = "reveal"]
    /\ UNCHANGED <<height, coin, snd, rcv, signed, book, leaves, frames, crashes, Bounds>>

RefundSettled(c) ==
    /\ snd[c].status = "Refunding" /\ tx[c].refund = "done"
    /\ coin[c] \in {"closed", "refunded"}
    /\ snd' = [snd EXCEPT ![c].status = "Refunded"]
    /\ UNCHANGED <<Chain, rcv, signed, book, leaves, frames, crashes, Bounds>>

(***************************************************************************)
(* The chain and the bus.                                                  *)
(***************************************************************************)
Mined(t) == CASE t = "commit" -> "mined" [] t = "reveal" -> "done" [] OTHER -> t

\* The spenders of c whose reveal waits: the first one mined wins.
Spenders(c) == (IF tx[c].close = "reveal" THEN {"closed"} ELSE {})
               \cup (IF tx[c].refund = "reveal" THEN {"refunded"} ELSE {})

\* What the daemons' ticks have to do for c at this height.
Duty(c) == \/ RevealDue(c) \/ RefundRevealDue(c)
           \/ MustClose(c) /\ CanSign(c[2])
           \/ MustRefund(c) /\ CanSign(c[1])

\* A block.  Daemons tick every few seconds, so their duties are done before
\* the next block; at most MaxSkips blocks leave waiting transactions out.
Block ==
    /\ height < scene.last
    /\ \A c \in Chan : ~Duty(c)
    /\ height' = height + 1
    /\ \/ /\ coin' \in [Chan -> {"none", "committed", "live", "closed", "refunded"}]
          /\ \A c \in Chan :
               coin'[c] \in CASE coin[c] = "committed" -> {"live"}
                              [] coin[c] = "live" /\ Spenders(c) # {} -> Spenders(c)
                              [] OTHER -> {coin[c]}
          /\ tx' = [c \in Chan |-> [close |-> Mined(tx[c].close),
                                    refund |-> Mined(tx[c].refund)]]
          /\ UNCHANGED skips
       \/ /\ skips < MaxSkips /\ skips' = skips + 1
          /\ \E c \in Chan : tx[c].close \in {"commit", "reveal"}
          /\ UNCHANGED <<coin, tx>>
    /\ UNCHANGED <<scene, snd, rcv, signed, book, leaves, frames, crashes, orders>>

\* The daemon dies after the state was saved and before its HTLC was looked at.
LoseAdded(f) ==
    /\ crashes < scene.crashes
    /\ crashes' = crashes + 1
    /\ frames' = frames \ {f}
    /\ UNCHANGED <<Chain, snd, rcv, signed, book, leaves, Bounds>>

\* The channels of scene.open start open and acknowledged, the others absent.
Init ==
    /\ height = 0
    /\ scene \in Scenes
    /\ LET open == scene.open IN
         /\ coin = [c \in Chan |-> IF c \in open THEN "live" ELSE "none"]
         /\ snd = [c \in Chan |-> IF c \in open
                      THEN [NoRecord EXCEPT !.status = "Active", !.acked = TRUE] ELSE NoRecord]
         /\ rcv = [c \in Chan |-> IF c \in open
                      THEN [NoRecord EXCEPT !.status = "Active"] ELSE NoRecord]
         /\ signed = [c \in Chan |-> IF c \in open THEN {State0} ELSE {}]
    /\ tx = [c \in Chan |-> [close |-> "none", refund |-> "none"]]
    /\ book = [n \in Node |-> NoBook]
    /\ leaves = [n \in Node |-> Leaves]
    /\ frames = {}
    /\ skips = 0 /\ crashes = 0 /\ orders = 0

Outcome == {"sent", "overload", "unsigned", "crash", "early", "none"}

\* The events of the state a daemon has just accepted, handled before
\* anything else it does.
Added == {f \in frames : f.cmd = "ADDED"}

HandleAdded ==
    \E f \in Added : \/ ClaimHtlc(f)
                     \/ \E out \in Outcome : ForwardHtlc(f, out)
                     \/ ParkHtlc(f)
                     \/ LoseAdded(f)

HandleFrame ==
    \E f \in frames : \/ OnOpen(f) \/ OnAck(f) \/ OnState(f) \/ OnClosed(f)
                      \/ \E out \in Outcome : OnClaim(f, out) \/ OnFail(f, out)
                      \/ \E out \in Outcome, n \in Node : OnInvoice(f, n, out)

\* What the users ask for, at most scene.orders times.
Order ==
    /\ orders < scene.orders /\ orders' = orders + 1
    /\ \/ \E c \in scene.chan : ChannelOpen(c) \/ StartClose(c)
                          \/ \E out \in Outcome : ChannelPay(c, out)
       \/ \E n \in Node, d \in scene.payee, h \in Hash, out \in Outcome : PayInvoice(n, h, d, out)

Invoicing == \E n \in scene.payee, h \in Hash : CreateInvoice(n, h) \/ AnswerInvoice(n, h)

Tick ==
    \/ \E c \in scene.chan : SendOpen(c) \/ AcceptOpen(c) \/ SendUpdate(c)
                       \/ Settled(c) \/ RefundSettled(c)
    \/ \E n \in Node : \E p \in book[n].parked, out \in Outcome : DeliverParked(n, p, out)

\* The steps that carry a channel to its end on chain.
Settle == \/ Block
          \/ \E c \in scene.chan : (MustClose(c) /\ StartClose(c) /\ UNCHANGED orders) \/ Reveal(c)
                             \/ StartRefund(c) \/ RefundReveal(c)

Next == IF Added # {} THEN HandleAdded
                      ELSE HandleFrame \/ Order \/ Invoicing \/ Tick \/ Settle

Spec == Init /\ [][Next]_vars

\* The daemon ticks and blocks come.
FairSpec == Spec /\ WF_vars(Added = {} /\ Settle) /\ WF_vars(Added # {} /\ HandleAdded)

(***************************************************************************)
(* Properties.                                                             *)
(***************************************************************************)
Status == {"none", "pending", "Opening", "Active", "Closing", "Closed", "Refunding", "Refunded"}

\* Records, books and frames are well formed, and every record's amounts add
\* up to the capacity (build_state).
TypeOK ==
    /\ height \in 0..scene.last
    /\ \A c \in Chan :
         /\ coin[c] \in {"none", "committed", "live", "closed", "refunded"}
         /\ \A r \in {snd[c], rcv[c]} :
              /\ r.status \in Status /\ r.acked \in BOOLEAN /\ r.tries \in 0..scene.tries
              /\ r.st.snd >= 0 /\ r.st.rcv >= 0 /\ Conserves(r.st)
    /\ \A n \in Node : /\ leaves[n] \in 0..Leaves
                       /\ book[n].secrets \subseteq Hash /\ book[n].paying \subseteq Hash
                       /\ book[n].routes \subseteq Hash \X Chan
    /\ skips \in 0..MaxSkips /\ crashes \in 0..scene.crashes /\ orders \in 0..scene.orders

\* A sender never signs two different states with one nonce, whatever
\* handler was interrupted: sender_advance saves before it sends, "so the
\* nonce, signature, saved record and wire frame can never diverge".
OneStatePerNonce ==
    \A c \in Chan : \A s, t \in signed[c] : s.nonce = t.nonce => s = t

\* Records are well formed and conserve the capacity, and signatures bind
\* (channel.rs build_state, service.rs sender_advance).
SigningSound == TypeOK /\ OneStatePerNonce

\* A hub is covered: whatever it owes or has paid to the next hop for a
\* hash, it still holds, or has been paid, for that hash by the previous one.
HubCovered ==
    \A d \in Chan : \A h \in (Hashes(snd[d].st) \cup snd[d].st.paid) \ book[d[1]].own :
       \E c \in Chan : c[2] = d[1] /\ h \in Hashes(rcv[c].st) \cup rcv[c].st.paid

\* A receiver that holds money on a channel is never beaten by the refund:
\* its close is on chain before the sender's expiry branch opens.
RefundTakesOnlyUnpaid ==
    \A c \in Chan : coin[c] = "refunded" => rcv[c].st.rcv = 0

\* Every funded channel is settled on chain, by close or by refund, when the
\* scene is long enough to see the refund: a commit, a reveal, skipped blocks.
ChannelSettles ==
    \A c \in Chan : coin[c] \in {"committed", "live"} /\ scene.last > scene.expiry + 2 + MaxSkips
                       ~> coin[c] \in {"closed", "refunded"}

=============================================================================
