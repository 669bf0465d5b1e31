---------------------------- MODULE ChannelProofs ----------------------------
(***************************************************************************)
(* Channels' SigningSound, proved for every set of daemons and channels,   *)
(* every capacity, price and number of signatures, and any mix of frames,  *)
(* crashes and overload: records add up to the capacity and a sender's key *)
(* never signs two states with one nonce.                                  *)
(***************************************************************************)
EXTENDS Channels, SumProofs, TLAPS

StateType ==
    [nonce : Nat, snd : Nat, rcv : Nat, htlcs : SUBSET Htlc, paid : SUBSET Hash]

Balanced == {st \in StateType : Conserves(st)}

Record == [status : Status, st : Balanced, acked : BOOLEAN, tries : 0..scene.tries]

\* What the sender's record says of the signatures that exist: none is ahead
\* of it, no nonce is used twice, and before the channel is opened there are
\* none.
Signing(c) ==
    /\ \A s \in signed[c] : s.nonce <= snd[c].st.nonce
    /\ \A s, t \in signed[c] : s.nonce = t.nonce => s = t
    /\ snd[c].status = "none" => signed[c] = {} /\ snd[c].st = State0

\* The part sender_advance touches.
Sender ==
    /\ snd \in [Chan -> Record]
    /\ signed \in [Chan -> SUBSET Balanced]
    /\ \A c \in Chan : Signing(c)
    /\ leaves \in [Node -> 0..Leaves]
    /\ crashes \in 0..scene.crashes

CoinState == {"none", "committed", "live", "closed", "refunded"}

Parked == [hash : Hash, up : Chan, next : Node, amt : Nat, timeout : Nat]

BookType ==
    [routes : SUBSET (Hash \X Chan), parked : SUBSET Parked, secrets : SUBSET Hash,
     invoices : SUBSET Hash, paying : SUBSET Hash, own : SUBSET Hash]

FrameOK(f) ==
    /\ f.cmd # "INVOICE" => f.ch \in Chan
    /\ f.cmd \in {"CLAIM", "FAIL", "INVOICE"} => f.hash \in Hash
    /\ f.cmd = "ADDED" => f.htlc \in Htlc

\* The rest.
Others ==
    /\ height \in 0..scene.last /\ coin \in [Chan -> CoinState]
    /\ rcv \in [Chan -> Record]
    /\ book \in [Node -> BookType]
    /\ \A f \in frames : FrameOK(f)
    /\ skips \in 0..MaxSkips

ChanInv == scene \in Scenes /\ Sender /\ Others /\ orders \in 0..scene.orders
-----------------------------------------------------------------------------
LEMMA SceneType ==
    ASSUME ChanInv
    PROVE  /\ scene.open \subseteq Chan /\ scene.chan \subseteq Chan /\ scene.payee \subseteq Node
           /\ scene.last \in Nat /\ scene.orders \in Nat /\ scene.tries \in Nat
           /\ scene.crashes \in Nat
BY ChannelAssumption DEF ChanInv

LEMMA ChanNodes == ASSUME NEW c \in Chan PROVE c[1] \in Node /\ c[2] \in Node
BY ChannelAssumption

LEMMA State0Balanced == State0 \in Balanced
<1>1. State0 \in StateType
  BY ChannelAssumption DEF State0, StateType
<1>2. Amounts({}) = 0
  BY SumEmpty DEF Amounts
<1>3. Conserves(State0)
  BY <1>2, ChannelAssumption DEF Conserves, State0
<1>4. QED BY <1>1, <1>3 DEF Balanced

LEMMA NoRecordType == ASSUME ChanInv PROVE NoRecord \in Record
BY State0Balanced, SceneType DEF NoRecord, Record, Status

\* The state sender_advance signs is new, whatever handler asked for it.
LEMMA Advance ==
    ASSUME ChanInv, NEW c \in Chan, snd[c].status # "none",
           NEW draft \in StateType, NEW out, SenderAdvance(c, draft, out), scene' = scene
    PROVE  Sender'
<1> DEFINE n == snd[c].st.nonce + 1
           st == [draft EXCEPT !.nonce = n]
           r == [snd[c] EXCEPT !.st = st, !.acked = FALSE, !.tries = 0]
<1>0. /\ snd \in [Chan -> Record] /\ signed \in [Chan -> SUBSET Balanced]
      /\ \A d \in Chan : Signing(d) /\ leaves \in [Node -> 0..Leaves]
      /\ crashes \in 0..scene.crashes
  BY DEF ChanInv, Sender
<1>1. snd[c] \in Record /\ snd[c].st \in StateType /\ snd[c].st.nonce \in Nat
  BY <1>0 DEF Record, Balanced, StateType
<1>2. n \in Nat /\ n > snd[c].st.nonce
  BY <1>1
<1> HIDE DEF n
<1>3. st \in StateType /\ st.nonce = n
  BY <1>2 DEF StateType
<1>4. /\ out \in Outcomes(c[1]) /\ Conserves(st)
      /\ IF out = "unsigned" THEN UNCHANGED leaves ELSE Burn(c[1])
      /\ crashes' = IF out \in {"crash", "early"} THEN crashes + 1 ELSE crashes
      /\ IF Saved(out)
         THEN /\ snd' = [snd EXCEPT ![c] = r]
              /\ signed' = [signed EXCEPT ![c] = signed[c] \cup {st}]
         ELSE UNCHANGED <<snd, signed>>
  BY DEF SenderAdvance, n
<1> HIDE DEF st
<1>5. st \in Balanced
  BY <1>3, <1>4 DEF Balanced
<1>6. r \in Record /\ r.st = st /\ r.status = snd[c].status
  <2>1. 0 \in 0..scene.tries
    BY SceneType
  <2>2. QED BY <1>1, <1>5, <2>1 DEF Record
<1>7. leaves' \in [Node -> 0..Leaves]
  <2>1. CASE out = "unsigned"
    BY <1>0, <1>4, <2>1
  <2>2. CASE out # "unsigned"
    <3>1. CanSign(c[1]) /\ c[1] \in Node /\ leaves[c[1]] \in 0..Leaves
      BY <1>0, <1>4, <2>2, ChanNodes DEF Outcomes
    <3>2. leaves[c[1]] - 1 \in 0..Leaves
      BY <3>1, ChannelAssumption DEF CanSign
    <3>3. leaves' = [leaves EXCEPT ![c[1]] = leaves[c[1]] - 1]
      BY <1>4, <2>2 DEF Burn
    <3>4. QED BY <1>0, <3>2, <3>3
  <2>3. QED BY <2>1, <2>2
<1>8. crashes' \in 0..scene'.crashes
  <2>1. out \in {"crash", "early"} => crashes < scene.crashes
    BY <1>4 DEF Outcomes
  <2>2. scene.crashes \in Nat
    BY SceneType
  <2>3. QED BY <1>0, <1>4, <2>1, <2>2
<1>9. snd' \in [Chan -> Record'] /\ signed' \in [Chan -> SUBSET Balanced]
  <2>1. Record' = Record
    BY DEF Record
  <2> HIDE DEF r
  <2>2. QED BY <1>0, <1>4, <1>5, <1>6, <2>1
<1>10. ASSUME NEW d \in Chan PROVE Signing(d)'
  <2>1. CASE ~Saved(out)
    BY <1>0, <1>4, <2>1 DEF Signing
  <2>2. CASE Saved(out) /\ d # c
    <3>1. snd'[d] = snd[d] /\ signed'[d] = signed[d]
      BY <1>0, <1>4, <2>2
    <3>2. QED BY <1>0, <3>1 DEF Signing
  <2>3. CASE Saved(out) /\ d = c
    <3> HIDE DEF r
    <3>1. snd'[c] = r /\ signed'[c] = signed[c] \cup {st}
      BY <1>0, <1>4, <2>3
    <3>2. \A s \in signed[c] : s.nonce <= snd[c].st.nonce /\ s.nonce \in Nat
      BY <1>0 DEF Signing, Balanced, StateType
    <3>3. \A s \in signed[c] : s.nonce < n
      BY <1>1, <1>2, <3>2
    <3>4. \A s \in signed'[c] : s.nonce <= snd'[c].st.nonce
      BY <1>2, <1>3, <1>6, <3>1, <3>2, <3>3
    <3>5. \A s \in signed[c] : s.nonce # st.nonce
      BY <1>2, <1>3, <3>2, <3>3
    <3>6. \A s, t \in signed'[c] : s.nonce = t.nonce => s = t
      <4>1. \A s, t \in signed[c] : s.nonce = t.nonce => s = t
        BY <1>0 DEF Signing
      <4>2. QED BY <3>1, <3>5, <4>1
    <3>7. snd'[c].status # "none"
      BY <1>6, <3>1
    <3>8. QED BY <2>3, <3>4, <3>6, <3>7 DEF Signing
  <2>4. QED BY <2>1, <2>2, <2>3
<1>11. QED BY <1>7, <1>8, <1>9, <1>10 DEF Sender

\* A record whose state stays as it is.
LEMMA Mark ==
    ASSUME ChanInv, NEW c \in Chan, NEW r \in Record, r.st = snd[c].st,
           r.status = "none" => snd[c].status = "none",
           snd' = [snd EXCEPT ![c] = r], UNCHANGED <<scene, signed>>,
           leaves' \in [Node -> 0..Leaves], crashes' \in 0..scene.crashes
    PROVE  Sender'
<1>0. /\ snd \in [Chan -> Record] /\ signed \in [Chan -> SUBSET Balanced]
      /\ \A d \in Chan : Signing(d)
  BY DEF ChanInv, Sender
<1>1. Record' = Record
  BY DEF Record
<1>2. snd' \in [Chan -> Record']
  BY <1>0, <1>1
<1>3. ASSUME NEW d \in Chan PROVE Signing(d)'
  <2>1. snd'[d].st = snd[d].st /\ (snd'[d].status = "none" => snd[d].status = "none")
    BY <1>0
  <2>2. signed'[d] = signed[d]
    OBVIOUS
  <2>3. QED BY <1>0, <2>1, <2>2 DEF Signing
<1>4. QED BY <1>0, <1>2, <1>3 DEF Sender

LEMMA SenderSame ==
    ASSUME ChanInv, UNCHANGED <<scene, snd, signed>>,
           leaves' \in [Node -> 0..Leaves], crashes' \in 0..scene.crashes
    PROVE  Sender'
<1>1. Record' = Record
  BY DEF Record
<1>2. QED BY <1>1 DEF ChanInv, Sender, Signing

LEMMA BurnLeaf ==
    ASSUME ChanInv, NEW n \in Node, CanSign(n), Burn(n)
    PROVE  leaves' \in [Node -> 0..Leaves]
<1>1. leaves \in [Node -> 0..Leaves] /\ leaves[n] \in 0..Leaves
  BY DEF ChanInv, Sender
<1>2. leaves[n] - 1 \in 0..Leaves
  BY <1>1, ChannelAssumption DEF CanSign
<1>3. QED BY <1>1, <1>2 DEF Burn

LEMMA OpenedSound ==
    ASSUME ChanInv, NEW c \in Chan, Opened(c), UNCHANGED <<scene, crashes>>
    PROVE  Sender' /\ coin' \in [Chan -> CoinState]
<1> DEFINE r == [NoRecord EXCEPT !.status = "Opening"]
<1>0. /\ snd[c].status = "none" /\ CanSign(c[1]) /\ Burn(c[1])
      /\ coin' = [coin EXCEPT ![c] = "committed"]
      /\ snd' = [snd EXCEPT ![c] = r]
      /\ signed' = [signed EXCEPT ![c] = signed[c] \cup {State0}]
  BY DEF Opened
<1>1. /\ snd \in [Chan -> Record] /\ signed \in [Chan -> SUBSET Balanced]
      /\ \A d \in Chan : Signing(d)
      /\ crashes \in 0..scene.crashes
  BY DEF ChanInv, Sender
<1>2. signed[c] = {}
  BY <1>0, <1>1 DEF Signing
<1>3. leaves' \in [Node -> 0..Leaves]
  BY <1>0, ChanNodes, BurnLeaf
<1>4. r \in Record /\ r.st = State0 /\ r.status = "Opening"
  BY NoRecordType DEF NoRecord, Record, Status
<1> HIDE DEF r
<1>5. Record' = Record
  BY DEF Record
<1>6. snd' \in [Chan -> Record'] /\ signed' \in [Chan -> SUBSET Balanced]
  BY <1>0, <1>1, <1>4, <1>5, State0Balanced
<1>7. ASSUME NEW d \in Chan PROVE Signing(d)'
  <2>1. CASE d # c
    <3>1. snd'[d] = snd[d] /\ signed'[d] = signed[d]
      BY <1>0, <1>1, <2>1
    <3>2. QED BY <1>1, <3>1 DEF Signing
  <2>2. CASE d = c
    <3>1. snd'[c] = r /\ signed'[c] = {State0}
      BY <1>0, <1>1, <1>2
    <3>2. State0.nonce = 0
      BY DEF State0
    <3>3. QED BY <1>4, <2>2, <3>1, <3>2 DEF Signing
  <2>3. QED BY <2>1, <2>2
<1>8. coin' \in [Chan -> CoinState]
  BY <1>0 DEF ChanInv, Others, CoinState
<1>9. QED BY <1>1, <1>3, <1>6, <1>7, <1>8 DEF Sender

\* The frames a handler adds are well formed when the ones it found are.
LEMMA FrameKinds ==
    ASSUME NEW c \in Chan
    PROVE  /\ \A n : FrameOK(AckFrame(c, n))
           /\ \A h \in Hash : FrameOK(ClaimFrame(c, h)) /\ FrameOK(FailFrame(c, h))
           /\ FrameOK([cmd |-> "OPEN", ch |-> c]) /\ FrameOK([cmd |-> "CLOSED", ch |-> c])
           /\ \A x \in Htlc : \A route : FrameOK([cmd |-> "ADDED", ch |-> c, htlc |-> x, route |-> route])
           /\ \A cmd \in {"UPDATE", "HTLC_ADD"} : \A route, st :
                 FrameOK([cmd |-> cmd, ch |-> c, route |-> route, st |-> st])
BY DEF FrameOK, AckFrame, ClaimFrame, FailFrame

LEMMA AdvanceFrameOK ==
    ASSUME NEW c \in Chan, NEW draft, NEW cmd \in {"UPDATE", "HTLC_ADD"}, NEW route, NEW out
    PROVE  \A f \in AdvanceFrame(c, draft, cmd, route, out) : FrameOK(f)
<1>1. ASSUME NEW st PROVE FrameOK([cmd |-> cmd, ch |-> c, route |-> route, st |-> st])
  BY DEF FrameOK
<1>2. QED BY <1>1 DEF AdvanceFrame

\* Others after a step that leaves the receivers' records and the chain alone.
LEMMA OthersSame ==
    ASSUME ChanInv, UNCHANGED <<scene, height, skips>>,
           coin' \in [Chan -> CoinState], rcv' \in [Chan -> Record],
           book' \in [Node -> BookType], \A f \in frames' : FrameOK(f)
    PROVE  Others'
<1>1. Record' = Record
  BY DEF Record
<1>2. QED BY <1>1 DEF ChanInv, Others
-----------------------------------------------------------------------------
(***************************************************************************)
(* One lemma for each action; `orders' is left to OrdersStep.              *)
(***************************************************************************)
Good == scene' \in Scenes /\ Sender' /\ Others'

LEMMA Parts ==
    ASSUME ChanInv
    PROVE  /\ scene \in Scenes /\ snd \in [Chan -> Record]
           /\ signed \in [Chan -> SUBSET Balanced]
           /\ \A c \in Chan : Signing(c)
           /\ leaves \in [Node -> 0..Leaves] /\ crashes \in 0..scene.crashes
           /\ height \in 0..scene.last /\ height \in Nat /\ coin \in [Chan -> CoinState]
           /\ rcv \in [Chan -> Record] /\ book \in [Node -> BookType]
           /\ \A f \in frames : FrameOK(f)
           /\ skips \in 0..MaxSkips
<1>1. \A h \in 0..scene.last : h \in Nat
  BY SceneType
<1>2. QED BY <1>1 DEF ChanInv, Sender, Others

LEMMA ChannelOpenStep ==
    ASSUME ChanInv, NEW c \in Chan, ChannelOpen(c) PROVE Good
<1>1. Opened(c) /\ UNCHANGED <<height, rcv, book, frames, crashes, scene, skips>>
  BY DEF ChannelOpen
<1>2. QED BY <1>1, Parts, OpenedSound, OthersSame DEF Good

LEMMA SendOpenStep ==
    ASSUME ChanInv, NEW c \in Chan, SendOpen(c) PROVE Good
<1> DEFINE r == [snd[c] EXCEPT !.tries = snd[c].tries + 1]
<1>1. /\ snd[c].tries < scene.tries /\ snd' = [snd EXCEPT ![c] = r]
      /\ frames' = frames \cup {[cmd |-> "OPEN", ch |-> c]}
      /\ UNCHANGED <<height, coin, rcv, signed, book, leaves, crashes, scene, skips>>
  BY Parts DEF SendOpen, Chain, Bounds
<1>2. snd[c] \in Record /\ snd[c].tries \in 0..scene.tries /\ scene.tries \in Nat
  BY Parts, SceneType DEF Record
<1>3. snd[c].tries + 1 \in 0..scene.tries
  BY <1>1, <1>2
<1>4. r \in Record /\ r.st = snd[c].st /\ r.status = snd[c].status
  BY <1>2, <1>3 DEF Record
<1> HIDE DEF r
<1>5. Sender'
  BY <1>1, <1>4, Parts, Mark
<1>6. \A f \in frames' : FrameOK(f)
  BY <1>1, Parts, FrameKinds
<1>7. QED BY <1>1, <1>5, <1>6, Parts, OthersSame DEF Good

LEMMA SendUpdateStep ==
    ASSUME ChanInv, NEW c \in Chan, SendUpdate(c) PROVE Good
<1> DEFINE r == [snd[c] EXCEPT !.tries = snd[c].tries + 1]
           f0 == [cmd |-> "UPDATE", ch |-> c, route |-> <<>>, st |-> [snd[c].st EXCEPT !.htlcs = {}]]
<1>1. /\ snd[c].tries < scene.tries /\ snd' = [snd EXCEPT ![c] = r]
      /\ frames' = frames \cup {f0}
      /\ UNCHANGED <<height, coin, rcv, signed, book, leaves, crashes, scene, skips>>
  BY Parts DEF SendUpdate, Chain, Bounds
<1>2. snd[c] \in Record /\ snd[c].tries \in 0..scene.tries /\ scene.tries \in Nat
  BY Parts, SceneType DEF Record
<1>3. snd[c].tries + 1 \in 0..scene.tries
  BY <1>1, <1>2
<1>4. r \in Record /\ r.st = snd[c].st /\ r.status = snd[c].status
  BY <1>2, <1>3 DEF Record
<1> HIDE DEF r
<1>5. Sender'
  BY <1>1, <1>4, Parts, Mark
<1>6. FrameOK(f0)
  BY FrameKinds
<1> HIDE DEF f0
<1>7. \A f \in frames' : FrameOK(f)
  BY <1>1, <1>6, Parts
<1>8. QED BY <1>1, <1>5, <1>7, Parts, OthersSame DEF Good

\* A receiver's record that changes its status only.
LEMMA ReceiverStatus ==
    ASSUME ChanInv, NEW c \in Chan, NEW s \in Status
    PROVE  [rcv EXCEPT ![c].status = s] \in [Chan -> Record]
<1>1. rcv \in [Chan -> Record] /\ rcv[c] \in Record
  BY Parts
<1>2. [rcv[c] EXCEPT !.status = s] \in Record
  BY <1>1 DEF Record
<1>3. QED BY <1>1, <1>2

LEMMA OnOpenStep ==
    ASSUME ChanInv, NEW f \in frames, OnOpen(f) PROVE Good
<1> DEFINE c == f.ch
<1>1. f.cmd = "OPEN" /\ UNCHANGED <<height, coin, snd, signed, book, leaves, crashes, scene, skips>>
  BY DEF OnOpen, Chain, Bounds
<1>2. c \in Chan
  BY <1>1, Parts DEF FrameOK
<1>3. Sender'
  BY <1>1, Parts, SenderSame
<1>4. rcv' \in [Chan -> Record]
  <2>1. "pending" \in Status
    BY DEF Status
  <2>2. \/ rcv' = rcv
        \/ rcv' = [rcv EXCEPT ![c].status = "pending"]
    BY DEF OnOpen
  <2>3. QED BY <1>2, <2>1, <2>2, Parts, ReceiverStatus
<1>5. \A g \in frames' : FrameOK(g)
  <2>1. \A g \in frames' : g \in frames \/ g = AckFrame(c, rcv[c].st.nonce)
    BY DEF OnOpen
  <2>2. QED BY <1>2, <2>1, Parts, FrameKinds
<1>6. QED BY <1>1, <1>3, <1>4, <1>5, Parts, OthersSame DEF Good

LEMMA AcceptOpenStep ==
    ASSUME ChanInv, NEW c \in Chan, AcceptOpen(c) PROVE Good
<1> DEFINE r == [NoRecord EXCEPT !.status = "Active"]
<1>1. /\ rcv' = [rcv EXCEPT ![c] = r] /\ frames' = frames \cup {AckFrame(c, 0)}
      /\ UNCHANGED <<height, coin, snd, signed, book, leaves, crashes, scene, skips>>
  BY DEF AcceptOpen, Chain, Bounds
<1>2. r \in Record
  BY NoRecordType DEF Record, Status
<1> HIDE DEF r
<1>3. Sender'
  BY <1>1, Parts, SenderSame
<1>4. rcv' \in [Chan -> Record]
  BY <1>1, <1>2, Parts
<1>5. \A g \in frames' : FrameOK(g)
  BY <1>1, Parts, FrameKinds
<1>6. QED BY <1>1, <1>3, <1>4, <1>5, Parts, OthersSame DEF Good

LEMMA OnAckStep ==
    ASSUME ChanInv, NEW f \in frames, OnAck(f) PROVE Good
<1> DEFINE c == f.ch
           r == [snd[c] EXCEPT !.acked = TRUE,
                   !.status = IF snd[c].status = "Opening" THEN "Active" ELSE snd[c].status]
<1>1. /\ f.cmd = "ACK" /\ frames' = frames \ {f}
      /\ UNCHANGED <<height, coin, rcv, signed, book, leaves, crashes, scene, skips>>
      /\ \/ snd' = [snd EXCEPT ![c].acked = TRUE,
                               ![c].status = IF @ = "Opening" THEN "Active" ELSE @]
         \/ UNCHANGED snd
  BY DEF OnAck, Acked, Chain, Bounds
<1>2. c \in Chan
  BY <1>1, Parts DEF FrameOK
<1>3. snd[c] \in Record
  BY <1>2, Parts
<1>4. /\ r \in Record /\ r.st = snd[c].st /\ (r.status = "none" => snd[c].status = "none")
  BY <1>3 DEF Record, Status
<1>r. snd' = [snd EXCEPT ![c] = r] \/ UNCHANGED snd
  BY <1>1, <1>2, <1>3, Parts DEF Record
<1> HIDE DEF r, c
<1>5. Sender'
  <2>1. CASE UNCHANGED snd
    BY <1>1, <2>1, Parts, SenderSame
  <2>2. CASE snd' = [snd EXCEPT ![c] = r]
    BY <1>1, <1>2, <1>4, <2>2, Parts, Mark
  <2>3. QED BY <1>r, <2>1, <2>2
<1>6. \A g \in frames' : FrameOK(g)
  BY <1>1, Parts
<1>7. QED BY <1>1, <1>5, <1>6, Parts, OthersSame DEF Good

LEMMA ChannelPayStep ==
    ASSUME ChanInv, NEW c \in Chan, NEW out, ChannelPay(c, out) PROVE Good
<1> DEFINE draft == [snd[c].st EXCEPT !.snd = snd[c].st.snd - 1, !.rcv = snd[c].st.rcv + 1]
<1>1. /\ snd[c].status = "Active" /\ snd[c].st.snd >= 1 /\ SenderAdvance(c, draft, out)
      /\ frames' = frames \cup AdvanceFrame(c, draft, "UPDATE", <<>>, out)
      /\ UNCHANGED <<height, coin, rcv, book, scene, skips>>
  <2>1. [snd[c].st EXCEPT !.snd = @ - 1, !.rcv = @ + 1] = draft
    BY Parts DEF Record, Balanced, StateType
  <2>2. QED BY <2>1 DEF ChannelPay, Usable, Chain
<1>2. snd[c].st \in StateType
  BY Parts DEF Record, Balanced
<1>3. snd[c].st.snd - 1 \in Nat /\ snd[c].st.rcv + 1 \in Nat
  BY <1>1, <1>2 DEF StateType
<1>4. draft \in StateType
  BY <1>2, <1>3 DEF StateType
<1> HIDE DEF draft
<1>5. Sender'
  BY <1>1, <1>4, Advance
<1>6. \A g \in frames' : FrameOK(g)
  BY <1>1, Parts, AdvanceFrameOK
<1>7. QED BY <1>1, <1>5, <1>6, Parts, OthersSame DEF Good

LEMMA InvoiceStep ==
    ASSUME ChanInv, NEW n \in Node, NEW h \in Hash, CreateInvoice(n, h) \/ AnswerInvoice(n, h)
    PROVE  Good
<1>1. /\ book' = [book EXCEPT ![n].secrets = @ \cup {h}, ![n].invoices = @ \cup {h}]
      /\ UNCHANGED <<height, coin, snd, rcv, signed, crashes, scene, skips>>
  BY DEF CreateInvoice, AnswerInvoice, Chain, Bounds
<1>3. book' \in [Node -> BookType]
  <2>1. book \in [Node -> BookType] /\ book[n] \in BookType
    BY Parts
  <2>2. QED BY <1>1, <2>1 DEF BookType
<1>4. leaves' \in [Node -> 0..Leaves]
  <2>1. CASE UNCHANGED leaves
    BY <2>1, Parts
  <2>2. CASE AnswerInvoice(n, h)
    <3>1. leaves[n] > LeafReserve + 1 /\ leaves[n] \in 0..Leaves
      BY <2>2, Parts DEF AnswerInvoice
    <3>2. CanSign(n)
      BY <3>1, ChannelAssumption DEF CanSign
    <3>3. QED BY <2>2, <3>2, BurnLeaf DEF AnswerInvoice
  <2>3. QED BY <2>1, <2>2 DEF CreateInvoice
<1>5. \A g \in frames' : FrameOK(g)
  <2>1. FrameOK([cmd |-> "INVOICE", hash |-> h, payee |-> n])
    BY DEF FrameOK
  <2>2. \A g \in frames' : g \in frames \/ g = [cmd |-> "INVOICE", hash |-> h, payee |-> n]
    BY DEF CreateInvoice, AnswerInvoice
  <2>3. QED BY <2>1, <2>2, Parts
<1>6. Sender'
  BY <1>1, <1>4, Parts, SenderSame
<1>7. QED BY <1>1, <1>3, <1>5, <1>6, Parts, OthersSame DEF Good

LEMMA WithHtlcType ==
    ASSUME NEW st \in StateType, NEW h \in Hash, NEW amt \in Nat, NEW timeout \in Nat,
           st.snd >= amt
    PROVE  WithHtlc(st, h, amt, timeout) \in StateType
<1>1. [hash |-> h, amt |-> amt, timeout |-> timeout] \in Htlc
  BY DEF Htlc
<1>2. st.snd - amt \in Nat
  BY DEF StateType
<1>3. QED BY <1>1, <1>2 DEF WithHtlc, StateType

LEMMA PayResolvedStep ==
    ASSUME ChanInv, NEW n \in Node, NEW h \in Hash, NEW dest, NEW out,
           NEW rest \in SUBSET frames, PayResolved(n, h, dest, out, rest)
    PROVE  Good
<1>1. PICK c \in scene.chan :
         LET hops == IF c[2] = dest THEN 0 ELSE 1
             amt  == Price + hops * HopFee
             route == IF hops = 0 THEN <<>> ELSE <<dest>>
             draft == WithHtlc(snd[c].st, h, amt, height + Headroom + (hops + 1) * HopDelta)
         IN
         /\ c[1] = n /\ Usable(c) /\ snd[c].st.snd >= amt
         /\ SenderAdvance(c, draft, out)
         /\ book' = [book EXCEPT ![n].own = @ \cup {h},
                       ![n].paying = IF out \in {"unsigned", "overload"} THEN @ ELSE @ \cup {h}]
         /\ frames' = rest \cup AdvanceFrame(c, draft, "HTLC_ADD", route, out)
         /\ UNCHANGED <<Chain, rcv, scene, skips>>
  BY DEF PayResolved
<1> DEFINE hops == IF c[2] = dest THEN 0 ELSE 1
           amt  == Price + hops * HopFee
           timeout == height + Headroom + (hops + 1) * HopDelta
           route == IF hops = 0 THEN <<>> ELSE <<dest>>
           draft == WithHtlc(snd[c].st, h, amt, timeout)
<1>2. /\ snd[c].status = "Active" /\ snd[c].st.snd >= amt /\ SenderAdvance(c, draft, out)
      /\ book' = [book EXCEPT ![n].own = @ \cup {h},
                    ![n].paying = IF out \in {"unsigned", "overload"} THEN @ ELSE @ \cup {h}]
      /\ frames' = rest \cup AdvanceFrame(c, draft, "HTLC_ADD", route, out)
      /\ UNCHANGED <<height, coin, rcv, scene, skips>>
  BY <1>1 DEF Usable, Chain
<1>3. c \in Chan
  BY SceneType
<1>4. amt \in Nat /\ timeout \in Nat
  <2>1. hops = 0 \/ hops = 1
    OBVIOUS
  <2>2. height \in Nat
    BY Parts
  <2> HIDE DEF hops
  <2>3. CASE hops = 0
    BY <2>2, <2>3, ChannelAssumption
  <2>4. CASE hops = 1
    BY <2>2, <2>4, ChannelAssumption
  <2>5. QED BY <2>1, <2>3, <2>4
<1> HIDE DEF amt, timeout, route
<1>5. draft \in StateType
  <2>1. snd[c].st \in StateType
    BY <1>3, Parts DEF Record, Balanced
  <2>2. QED BY <1>2, <1>4, <2>1, WithHtlcType
<1> HIDE DEF draft
<1>6. Sender'
  BY <1>2, <1>3, <1>5, Advance
<1>8. book' \in [Node -> BookType]
  <2>1. book \in [Node -> BookType] /\ book[n] \in BookType
    BY Parts
  <2>2. QED BY <1>2, <2>1 DEF BookType
<1>9. \A g \in frames' : FrameOK(g)
  BY <1>2, <1>3, Parts, AdvanceFrameOK
<1>10. QED BY <1>2, <1>6, <1>8, <1>9, Parts, OthersSame DEF Good

LEMMA OnStateStep ==
    ASSUME ChanInv, NEW f \in frames, OnState(f) PROVE Good
<1> DEFINE c == f.ch
           new == {x \in f.st.htlcs : x.hash \notin Hashes(rcv[c].st)}
           r == [rcv[c] EXCEPT !.st = f.st]
<1>1. /\ f.cmd \in {"UPDATE", "HTLC_ADD"}
      /\ UNCHANGED <<height, coin, snd, signed, book, leaves, crashes, scene, skips>>
  BY DEF OnState, Chain, Bounds
<1>2. c \in Chan
  BY <1>1, Parts DEF FrameOK
<1>3. Sender'
  BY <1>1, Parts, SenderSame
<1>4. CASE Acceptable(c, f.st) /\ rcv[c].status = "Active"
  <2>1. f.st \in Balanced
    BY <1>2, <1>4, Parts DEF Acceptable
  <2>2. f.st.htlcs \in SUBSET Htlc
    BY <2>1 DEF Balanced, StateType
  <2>3. rcv[c] \in Record
    BY <1>2, Parts
  <2>4. r \in Record
    BY <2>1, <2>3 DEF Record
  <2>5. /\ rcv' = [rcv EXCEPT ![c] = r]
        /\ \A g \in frames' :
              \/ g \in frames \/ g = AckFrame(c, f.st.nonce)
              \/ \E x \in new : g = [cmd |-> "ADDED", ch |-> c, htlc |-> x, route |-> f.route]
    BY <1>4 DEF OnState
  <2>6. rcv' \in [Chan -> Record]
    <3> HIDE DEF r
    <3>1. QED BY <1>2, <2>4, <2>5, Parts
  <2>7. \A x \in new : x \in Htlc
    BY <2>2
  <2>8. \A g \in frames' : FrameOK(g)
    <3> HIDE DEF new
    <3>1. ASSUME NEW g \in frames PROVE FrameOK(g)
      BY Parts
    <3>2. QED BY <1>2, <2>5, <2>7, <3>1, FrameKinds
  <2>9. QED BY <1>1, <1>3, <2>6, <2>8, Parts, OthersSame DEF Good
<1>5. CASE ~(Acceptable(c, f.st) /\ rcv[c].status = "Active")
  <2>1. /\ rcv' = rcv
        /\ \A g \in frames' : g \in frames \/ g = AckFrame(c, rcv[c].st.nonce)
    BY <1>5 DEF OnState
  <2>2. \A g \in frames' : FrameOK(g)
    BY <1>2, <2>1, Parts, FrameKinds
  <2>3. QED BY <1>1, <1>3, <2>1, <2>2, Parts, OthersSame DEF Good
<1>6. QED BY <1>4, <1>5

LEMMA ClaimHtlcStep ==
    ASSUME ChanInv, NEW f \in frames, ClaimHtlc(f) PROVE Good
<1> DEFINE c == f.ch
           h == f.htlc.hash
<1>1. /\ f.cmd = "ADDED"
      /\ UNCHANGED <<height, coin, snd, rcv, signed, book, leaves, crashes, scene, skips>>
  BY DEF ClaimHtlc, Chain, Bounds
<1>2. c \in Chan /\ h \in Hash
  BY <1>1, Parts DEF FrameOK, Htlc
<1>3. \A g \in frames' : g \in frames \/ g = FailFrame(c, h) \/ g = ClaimFrame(c, h)
  BY DEF ClaimHtlc
<1>4. \A g \in frames' : FrameOK(g)
  BY <1>2, <1>3, Parts, FrameKinds
<1>5. QED BY <1>1, <1>4, Parts, SenderSame, OthersSame DEF Good

LEMMA ForwardHtlcStep ==
    ASSUME ChanInv, NEW f \in frames, NEW out, ForwardHtlc(f, out) PROVE Good
<1> DEFINE c == f.ch
           n == c[2]
           h == f.htlc.hash
           next == NextHop(f.route, n)
           amt == f.htlc.amt - HopFee
           timeout == f.htlc.timeout - HopDelta
<1>1. /\ f.cmd = "ADDED" /\ amt > 0 /\ timeout >= height + Headroom
      /\ UNCHANGED <<height, coin, rcv, scene, skips>>
  BY DEF ForwardHtlc, Chain, Bounds
<1>2. PICK d \in Onward(n, next, amt) :
         LET draft == WithHtlc(snd[d].st, h, amt, timeout) IN
         /\ SenderAdvance(d, draft, out)
         /\ book' = IF out = "sent"
                    THEN [book EXCEPT ![n].routes = @ \cup {<<h, c>>}] ELSE book
         /\ Consume(f, out, AdvanceFrame(d, draft, "HTLC_ADD", HopsLeft(f.route, n), out)
               \cup IF out \in {"unsigned", "overload"} THEN {FailFrame(c, h)} ELSE {})
  BY DEF ForwardHtlc
<1>3. c \in Chan /\ h \in Hash /\ n \in Node /\ f.htlc \in Htlc
  BY <1>1, Parts, ChanNodes DEF FrameOK, Htlc
<1>4. d \in Chan /\ snd[d].status = "Active" /\ snd[d].st.snd >= amt
  BY SceneType DEF Onward
<1>5. amt \in Nat /\ timeout \in Nat
  <2>1. f.htlc.amt \in Nat /\ f.htlc.timeout \in Nat /\ height \in Nat
    BY <1>3, Parts DEF Htlc
  <2>2. QED BY <1>1, <2>1, ChannelAssumption
<1> DEFINE draft == WithHtlc(snd[d].st, h, amt, timeout)
           route == HopsLeft(f.route, n)
<1> HIDE DEF amt, timeout
<1>6. draft \in StateType
  <2>1. snd[d].st \in StateType
    BY <1>4, Parts DEF Record, Balanced
  <2>2. QED BY <1>3, <1>4, <1>5, <2>1, WithHtlcType
<1>7. /\ SenderAdvance(d, draft, out)
      /\ \A g \in frames' : \/ g \in frames \/ g = FailFrame(c, h)
                            \/ g \in AdvanceFrame(d, draft, "HTLC_ADD", route, out)
  BY <1>2 DEF Consume, amt, timeout
<1> HIDE DEF draft, route
<1>8. Sender'
  BY <1>1, <1>4, <1>6, <1>7, Advance
<1>9. \A g \in frames' : FrameOK(g)
  BY <1>3, <1>4, <1>7, Parts, AdvanceFrameOK, FrameKinds
<1>10. book' \in [Node -> BookType]
  <2>1. book \in [Node -> BookType] /\ book[n] \in BookType
    BY <1>3, Parts
  <2>2. book' = book \/ book' = [book EXCEPT ![n].routes = @ \cup {<<h, c>>}]
    BY <1>2
  <2>3. QED BY <1>3, <2>1, <2>2 DEF BookType
<1>11. QED BY <1>1, <1>8, <1>9, <1>10, Parts, OthersSame DEF Good

LEMMA ParkHtlcStep ==
    ASSUME ChanInv, NEW f \in frames, ParkHtlc(f) PROVE Good
<1> DEFINE c == f.ch
           n == c[2]
           h == f.htlc.hash
           next == NextHop(f.route, n)
           amt == f.htlc.amt - HopFee
           timeout == f.htlc.timeout - HopDelta
           d == <<n, next>>
           p == [hash |-> h, up |-> c, next |-> next, amt |-> amt, timeout |-> timeout]
<1>1. f.cmd = "ADDED"
  BY DEF ParkHtlc
<1>2. c \in Chan /\ h \in Hash /\ n \in Node /\ f.htlc \in Htlc
  BY <1>1, Parts, ChanNodes DEF FrameOK, Htlc
<1>3. CASE /\ frames' = (frames \ {f}) \cup {FailFrame(c, h)}
           /\ UNCHANGED <<Chain, snd, rcv, signed, book, leaves, crashes, Bounds>>
  <2>1. UNCHANGED <<height, coin, snd, rcv, signed, book, leaves, crashes, scene, skips>>
    BY <1>3 DEF Chain, Bounds
  <2>2. \A g \in frames' : FrameOK(g)
    BY <1>2, <1>3, Parts, FrameKinds
  <2>3. QED BY <2>1, <2>2, Parts, SenderSame, OthersSame DEF Good
<1>4. CASE /\ amt > 0 /\ timeout >= height + Headroom /\ d \in scene.chan
           /\ Opened(d)
           /\ book' = [book EXCEPT ![n].parked = @ \cup {p}]
           /\ frames' = frames \ {f}
           /\ UNCHANGED <<height, tx, rcv, crashes, Bounds>>
  <2>1. UNCHANGED <<height, rcv, crashes, scene, skips>> /\ d \in Chan
    BY <1>4, SceneType DEF Bounds
  <2>2. Sender' /\ coin' \in [Chan -> CoinState]
    BY <1>4, <2>1, OpenedSound
  <2>3. next \in Node
    BY <2>1, ChanNodes
  <2>4. p \in Parked
    <3>1. f.htlc.amt \in Nat /\ f.htlc.timeout \in Nat /\ height \in Nat
      BY <1>2, Parts DEF Htlc
    <3>2. amt \in Nat /\ timeout \in Nat
      BY <1>4, <3>1, ChannelAssumption
    <3> HIDE DEF amt, timeout, next
    <3>3. QED BY <1>2, <2>3, <3>2 DEF Parked
  <2>5. book' \in [Node -> BookType]
    <3> HIDE DEF p
    <3>1. book \in [Node -> BookType] /\ book[n] \in BookType
      BY <1>2, Parts
    <3>2. QED BY <1>4, <2>4, <3>1 DEF BookType
  <2>6. \A g \in frames' : FrameOK(g)
    BY <1>4, Parts
  <2>7. QED BY <2>1, <2>2, <2>5, <2>6, Parts, OthersSame DEF Good
<1>5. QED BY <1>3, <1>4 DEF ParkHtlc

LEMMA DeliverParkedStep ==
    ASSUME ChanInv, NEW n \in Node, NEW p \in book[n].parked, NEW out, DeliverParked(n, p, out)
    PROVE  Good
<1> DEFINE late == p.timeout < height + Headroom
           o == IF late THEN "late" ELSE out
<1>1. UNCHANGED <<height, coin, rcv, scene, skips>>
  BY DEF DeliverParked, Chain, Bounds
<1>2. PICK d \in Onward(n, p.next, p.amt) :
         LET draft == WithHtlc(snd[d].st, p.hash, p.amt, p.timeout) IN
         /\ IF late THEN UNCHANGED <<snd, signed, leaves, crashes>>
                    ELSE SenderAdvance(d, draft, out)
         /\ book' = CASE o = "sent" -> [book EXCEPT ![n].parked = @ \ {p},
                                            ![n].routes = @ \cup {<<p.hash, p.up>>}]
                      [] o \in {"crash", "early"} -> book
                      [] OTHER -> [book EXCEPT ![n].parked = @ \ {p}]
         /\ frames' = frames \cup AdvanceFrame(d, draft, "HTLC_ADD", <<>>, o)
               \cup IF o \in {"unsigned", "overload", "late"} THEN {FailFrame(p.up, p.hash)} ELSE {}
  BY DEF DeliverParked
<1>3. book \in [Node -> BookType] /\ book[n] \in BookType
  BY Parts
<1>4. p \in Parked
  BY <1>3 DEF BookType
<1>5. /\ p.hash \in Hash /\ p.up \in Chan /\ p.amt \in Nat /\ p.timeout \in Nat
  BY <1>4 DEF Parked
<1>6. d \in Chan /\ snd[d].status = "Active" /\ snd[d].st.snd >= p.amt
  BY SceneType DEF Onward
<1> DEFINE draft == WithHtlc(snd[d].st, p.hash, p.amt, p.timeout)
<1>7. draft \in StateType
  <2>1. snd[d].st \in StateType
    BY <1>6, Parts DEF Record, Balanced
  <2>2. QED BY <1>5, <1>6, <2>1, WithHtlcType
<1>8. /\ UNCHANGED <<snd, signed, leaves, crashes>> \/ SenderAdvance(d, draft, out)
      /\ \A g \in frames' : \/ g \in frames \/ g = FailFrame(p.up, p.hash)
                            \/ g \in AdvanceFrame(d, draft, "HTLC_ADD", <<>>, o)
  BY <1>2
<1> HIDE DEF draft, o, late
<1>9. Sender'
  <2>1. CASE UNCHANGED <<snd, signed, leaves, crashes>>
    BY <1>1, <2>1, Parts, SenderSame
  <2>2. CASE SenderAdvance(d, draft, out)
    BY <1>1, <1>6, <1>7, <2>2, Advance
  <2>3. QED BY <1>8, <2>1, <2>2
<1>10. \A g \in frames' : FrameOK(g)
  BY <1>5, <1>6, <1>8, Parts, AdvanceFrameOK, FrameKinds
<1>11. book' \in [Node -> BookType]
  <2>1. \/ book' = book
        \/ book' = [book EXCEPT ![n].parked = @ \ {p}]
        \/ book' = [book EXCEPT ![n].parked = @ \ {p}, ![n].routes = @ \cup {<<p.hash, p.up>>}]
    BY <1>2
  <2>2. QED BY <1>3, <1>5, <2>1 DEF BookType
<1>12. QED BY <1>1, <1>9, <1>10, <1>11, Parts, OthersSame DEF Good

LEMMA AmountOfType ==
    ASSUME NEW st \in StateType, NEW h, h \in Hashes(st)
    PROVE  AmountOf(st, h) \in Nat
<1>1. \E x \in st.htlcs : x.hash = h
  BY DEF Hashes
<1>2. (CHOOSE x \in st.htlcs : x.hash = h) \in st.htlcs
  BY <1>1
<1>3. st.htlcs \in SUBSET Htlc
  BY DEF StateType
<1>4. (CHOOSE x \in st.htlcs : x.hash = h) \in Htlc
  BY <1>2, <1>3
<1>5. QED BY <1>4 DEF AmountOf, Htlc

\* A channel that holds an HTLC is one that was opened.
LEMMA HoldsOpen ==
    ASSUME ChanInv, NEW c \in Chan, NEW h, h \in Hashes(snd[c].st)
    PROVE  snd[c].status # "none" /\ snd[c].st \in StateType
<1>1. snd[c].st \in StateType
  BY Parts DEF Record, Balanced
<1>2. Hashes(State0) = {}
  BY DEF Hashes, State0
<1>3. snd[c].status = "none" => snd[c].st = State0
  BY Parts DEF Signing
<1>4. QED BY <1>1, <1>2, <1>3

LEMMA UpstreamType ==
    ASSUME ChanInv, NEW n \in Node, NEW h
    PROVE  UpstreamOf(n, h) \subseteq Chan
<1>1. book[n].routes \in SUBSET (Hash \X Chan)
  BY Parts DEF BookType
<1>2. QED BY <1>1 DEF UpstreamOf

LEMMA OnClaimStep ==
    ASSUME ChanInv, NEW f \in frames, NEW out, OnClaim(f, out) PROVE Good
<1> DEFINE c == f.ch
           n == c[1]
           h == f.hash
           mine == h \in Hashes(snd[c].st)
           a == AmountOf(snd[c].st, h)
           draft == [Without(snd[c].st, h) EXCEPT !.rcv = @ + AmountOf(snd[c].st, h),
                                                  !.paid = @ \cup {h}]
           done == out \notin {"crash", "early"}
<1>1. /\ f.cmd = "CLAIM" /\ UNCHANGED <<height, coin, rcv, scene, skips>>
      /\ IF mine THEN SenderAdvance(c, draft, out)
                 ELSE UNCHANGED <<snd, signed, leaves, crashes>>
  BY DEF OnClaim, Chain, Bounds
<1>2. c \in Chan /\ h \in Hash /\ n \in Node
  BY <1>1, Parts, ChanNodes DEF FrameOK
<1>3. \A g \in frames' : \/ g \in frames
                         \/ g \in AdvanceFrame(c, draft, "UPDATE", <<>>, out)
                         \/ \E u \in UpstreamOf(n, h) : g = ClaimFrame(u, h)
  BY DEF OnClaim, Consume
<1>4. \/ book' = book
      \/ book' = [book EXCEPT ![n].secrets = @ \cup {h},
                     ![n].paying = IF mine /\ done THEN @ \ {h} ELSE @,
                     ![n].routes = IF done THEN {r \in @ : r[1] # h} ELSE @]
  BY DEF OnClaim
<1>5. mine => draft \in StateType /\ snd[c].status # "none"
  <2> SUFFICES ASSUME mine PROVE draft \in StateType /\ snd[c].status # "none"
    OBVIOUS
  <2>1. snd[c].st \in StateType /\ snd[c].status # "none" /\ a \in Nat
    BY <1>2, HoldsOpen, AmountOfType
  <2> DEFINE w == Without(snd[c].st, h)
  <2>2. w \in StateType
    BY <2>1 DEF Without, StateType
  <2>3. draft = [w EXCEPT !.rcv = w.rcv + a, !.paid = w.paid \cup {h}]
    OBVIOUS
  <2> HIDE DEF w, a, draft
  <2>4. w.rcv + a \in Nat
    BY <2>1, <2>2 DEF StateType
  <2>5. w.paid \cup {h} \in SUBSET Hash
    BY <1>2, <2>2 DEF StateType
  <2> DEFINE u == w.rcv + a
             v == w.paid \cup {h}
  <2> HIDE DEF u, v
  <2>6. draft = [w EXCEPT !.rcv = u, !.paid = v]
    BY <2>3 DEF u, v
  <2>7. u \in Nat /\ v \in SUBSET Hash
    BY <2>4, <2>5 DEF u, v
  <2>8. draft \in StateType
    BY <2>2, <2>6, <2>7 DEF StateType
  <2>9. QED BY <2>1, <2>8
<1> HIDE DEF draft, mine, done
<1>6. Sender'
  BY <1>1, <1>2, <1>5, Parts, Advance, SenderSame
<1>7. \A g \in frames' : FrameOK(g)
  <2>1. \A u \in UpstreamOf(n, h) : FrameOK(ClaimFrame(u, h))
    BY <1>2, UpstreamType, FrameKinds
  <2>2. QED BY <1>2, <1>3, <2>1, Parts, AdvanceFrameOK
<1>8. book' \in [Node -> BookType]
  <2>1. book \in [Node -> BookType] /\ book[n] \in BookType
    BY <1>2, Parts
  <2>2. QED BY <1>2, <1>4, <2>1 DEF BookType
<1>9. QED BY <1>1, <1>6, <1>7, <1>8, Parts, OthersSame DEF Good

LEMMA OnFailStep ==
    ASSUME ChanInv, NEW f \in frames, NEW out, OnFail(f, out) PROVE Good
<1> DEFINE c == f.ch
           n == c[1]
           h == f.hash
           mine == h \in Hashes(snd[c].st)
           draft == [Without(snd[c].st, h) EXCEPT !.snd = @ + AmountOf(snd[c].st, h)]
<1>1. /\ f.cmd = "FAIL" /\ UNCHANGED <<height, coin, rcv, scene, skips>>
      /\ IF mine THEN SenderAdvance(c, draft, out)
                 ELSE UNCHANGED <<snd, signed, leaves, crashes>>
  BY DEF OnFail, Chain, Bounds
<1>2. c \in Chan /\ h \in Hash /\ n \in Node
  BY <1>1, Parts, ChanNodes DEF FrameOK
<1>3. \A g \in frames' : \/ g \in frames
                         \/ g \in AdvanceFrame(c, draft, "UPDATE", <<>>, out)
                         \/ \E u \in UpstreamOf(n, h) : g = FailFrame(u, h)
  BY DEF OnFail, Consume
<1>4. \/ book' = book
      \/ book' = [book EXCEPT ![n].paying = @ \ {h},
                     ![n].parked = {p \in @ : p.hash # h},
                     ![n].routes = {r \in @ : r[1] # h}]
  BY DEF OnFail
<1>5. mine => draft \in StateType /\ snd[c].status # "none"
  <2> SUFFICES ASSUME mine PROVE draft \in StateType /\ snd[c].status # "none"
    OBVIOUS
  <2>1. /\ snd[c].st \in StateType /\ snd[c].status # "none"
        /\ AmountOf(snd[c].st, h) \in Nat
    BY <1>2, HoldsOpen, AmountOfType
  <2>2. Without(snd[c].st, h) \in StateType
    BY <2>1 DEF Without, StateType
  <2>3. QED BY <2>1, <2>2 DEF StateType
<1> HIDE DEF draft, mine
<1>6. Sender'
  BY <1>1, <1>2, <1>5, Parts, Advance, SenderSame
<1>7. \A g \in frames' : FrameOK(g)
  <2>1. \A u \in UpstreamOf(n, h) : FrameOK(FailFrame(u, h))
    BY <1>2, UpstreamType, FrameKinds
  <2>2. QED BY <1>2, <1>3, <2>1, Parts, AdvanceFrameOK
<1>8. book' \in [Node -> BookType]
  <2>1. book \in [Node -> BookType] /\ book[n] \in BookType
    BY <1>2, Parts
  <2> DEFINE pay == book[n].paying \ {h}
             park == {p \in book[n].parked : p.hash # h}
             routes == {r \in book[n].routes : r[1] # h}
  <2>2. pay \in SUBSET Hash /\ park \in SUBSET Parked /\ routes \in SUBSET (Hash \X Chan)
    BY <2>1 DEF BookType
  <2>3. \/ book' = book
        \/ book' = [book EXCEPT ![n].paying = pay, ![n].parked = park, ![n].routes = routes]
    BY <1>2, <1>4, <2>1 DEF BookType
  <2> HIDE DEF pay, park, routes
  <2>4. QED BY <1>2, <2>1, <2>2, <2>3 DEF BookType
<1>9. QED BY <1>1, <1>6, <1>7, <1>8, Parts, OthersSame DEF Good

LEMMA LoseAddedStep ==
    ASSUME ChanInv, NEW f \in frames, LoseAdded(f) PROVE Good
<1>1. /\ crashes < scene.crashes /\ crashes' = crashes + 1 /\ frames' = frames \ {f}
      /\ UNCHANGED <<height, coin, snd, rcv, signed, book, leaves, scene, skips>>
  BY DEF LoseAdded, Chain, Bounds
<1>2. crashes' \in 0..scene.crashes
  BY <1>1, Parts, SceneType
<1>3. QED BY <1>1, <1>2, Parts, SenderSame, OthersSame DEF Good

\* A sender's record that changes its status only.
LEMMA SenderStatus ==
    ASSUME ChanInv, NEW c \in Chan, NEW s \in Status, s # "none",
           snd' = [snd EXCEPT ![c].status = s], UNCHANGED <<scene, signed, crashes>>,
           leaves' \in [Node -> 0..Leaves]
    PROVE  Sender'
<1> DEFINE r == [snd[c] EXCEPT !.status = s]
<1>1. snd \in [Chan -> Record] /\ snd[c] \in Record /\ crashes' \in 0..scene.crashes
  BY Parts
<1>2. r \in Record /\ r.st = snd[c].st /\ r.status # "none"
  BY <1>1 DEF Record
<1>3. snd' = [snd EXCEPT ![c] = r]
  BY <1>1
<1> HIDE DEF r
<1>4. QED BY <1>1, <1>2, <1>3, Mark

LEMMA OnClosedStep ==
    ASSUME ChanInv, NEW f \in frames, OnClosed(f) PROVE Good
<1> DEFINE c == f.ch
           s == IF snd[c].status = "Refunded" THEN snd[c].status ELSE "Closed"
<1>1. /\ f.cmd = "CLOSED" /\ frames' = frames \ {f}
      /\ snd' = [snd EXCEPT ![c].status = s]
      /\ UNCHANGED <<height, coin, rcv, signed, book, leaves, crashes, scene, skips>>
  BY DEF OnClosed, Chain, Bounds
<1>2. c \in Chan
  BY <1>1, Parts DEF FrameOK
<1>3. s \in Status /\ s # "none"
  BY DEF Status
<1> HIDE DEF s
<1>4. Sender'
  BY <1>1, <1>2, <1>3, Parts, SenderStatus
<1>5. QED BY <1>1, <1>4, Parts, OthersSame DEF Good

LEMMA SettledStep ==
    ASSUME ChanInv, NEW c \in Chan, Settled(c) PROVE Good
<1>1. /\ rcv' = [rcv EXCEPT ![c].status = "Closed"]
      /\ frames' = frames \cup {[cmd |-> "CLOSED", ch |-> c]}
      /\ UNCHANGED <<height, coin, snd, signed, book, leaves, crashes, scene, skips>>
  BY DEF Settled, Chain, Bounds
<1>2. rcv' \in [Chan -> Record]
  BY <1>1, ReceiverStatus DEF Status
<1>3. \A g \in frames' : FrameOK(g)
  BY <1>1, Parts, FrameKinds
<1>4. QED BY <1>1, <1>2, <1>3, Parts, SenderSame, OthersSame DEF Good

LEMMA RefundSettledStep ==
    ASSUME ChanInv, NEW c \in Chan, RefundSettled(c) PROVE Good
<1>1. /\ snd' = [snd EXCEPT ![c].status = "Refunded"]
      /\ UNCHANGED <<height, coin, rcv, signed, book, leaves, frames, crashes, scene, skips>>
  BY DEF RefundSettled, Chain, Bounds
<1>2. Sender'
  BY <1>1, Parts, SenderStatus DEF Status
<1>3. QED BY <1>1, <1>2, Parts, OthersSame DEF Good

LEMMA StartCloseStep ==
    ASSUME ChanInv, NEW c \in Chan, StartClose(c) PROVE Good
<1>1. /\ CanSign(c[2]) /\ Burn(c[2]) /\ rcv' = [rcv EXCEPT ![c].status = "Closing"]
      /\ UNCHANGED <<height, coin, snd, signed, book, frames, crashes, scene, skips>>
  BY DEF StartClose
<1>2. rcv' \in [Chan -> Record]
  BY <1>1, ReceiverStatus DEF Status
<1>3. leaves' \in [Node -> 0..Leaves]
  BY <1>1, ChanNodes, BurnLeaf
<1>4. QED BY <1>1, <1>2, <1>3, Parts, SenderSame, OthersSame DEF Good

LEMMA StartRefundStep ==
    ASSUME ChanInv, NEW c \in Chan, StartRefund(c) PROVE Good
<1>1. /\ CanSign(c[1]) /\ Burn(c[1]) /\ snd' = [snd EXCEPT ![c].status = "Refunding"]
      /\ UNCHANGED <<height, coin, rcv, signed, book, frames, crashes, scene, skips>>
  BY DEF StartRefund, Bounds
<1>2. leaves' \in [Node -> 0..Leaves]
  BY <1>1, ChanNodes, BurnLeaf
<1>3. Sender'
  BY <1>1, <1>2, Parts, SenderStatus DEF Status
<1>4. QED BY <1>1, <1>3, Parts, OthersSame DEF Good

LEMMA RevealStep ==
    ASSUME ChanInv, NEW c \in Chan, Reveal(c) \/ RefundReveal(c) PROVE Good
<1>1. UNCHANGED <<height, coin, snd, rcv, signed, book, leaves, frames, crashes, scene, skips>>
  BY DEF Reveal, RefundReveal, Bounds
<1>2. QED BY <1>1, Parts, SenderSame, OthersSame DEF Good

LEMMA BlockStep == ASSUME ChanInv, Block PROVE Good
<1>1. /\ height < scene.last /\ height' = height + 1
      /\ coin' \in [Chan -> CoinState] \/ UNCHANGED coin
      /\ UNCHANGED skips \/ (skips < MaxSkips /\ skips' = skips + 1)
      /\ UNCHANGED <<scene, snd, rcv, signed, book, leaves, frames, crashes, orders>>
  BY DEF Block, CoinState
<1>2. height' \in 0..scene.last
  BY <1>1, Parts, SceneType
<1>3. skips' \in 0..MaxSkips
  BY <1>1, Parts, ChannelAssumption
<1>4. Record' = Record
  BY <1>1 DEF Record
<1>5. Others'
  BY <1>1, <1>2, <1>3, <1>4, Parts DEF Others
<1>6. QED BY <1>1, <1>5, Parts, SenderSame DEF Good

-----------------------------------------------------------------------------
LEMMA HandleAddedStep ==
    ASSUME ChanInv, HandleAdded PROVE Good /\ UNCHANGED <<scene, orders>>
<1>1. PICK f \in Added : \/ ClaimHtlc(f)
                         \/ \E out \in Outcome : ForwardHtlc(f, out)
                         \/ ParkHtlc(f)
                         \/ LoseAdded(f)
  BY DEF HandleAdded
<1>2. f \in frames
  BY DEF Added
<1>3. CASE ClaimHtlc(f)
  BY <1>2, <1>3, ClaimHtlcStep DEF ClaimHtlc, Bounds
<1>4. CASE \E out \in Outcome : ForwardHtlc(f, out)
  <2>1. PICK out \in Outcome : ForwardHtlc(f, out)
    BY <1>4
  <2>2. UNCHANGED <<scene, orders>>
    BY <2>1 DEF ForwardHtlc, Bounds
  <2>3. QED BY <1>2, <2>1, <2>2, ForwardHtlcStep
<1>5. CASE ParkHtlc(f)
  <2>1. UNCHANGED <<scene, orders>>
    BY <1>5 DEF ParkHtlc, Bounds
  <2>2. QED BY <1>2, <1>5, <2>1, ParkHtlcStep
<1>6. CASE LoseAdded(f)
  BY <1>2, <1>6, LoseAddedStep DEF LoseAdded, Bounds
<1>7. QED BY <1>1, <1>3, <1>4, <1>5, <1>6

LEMMA OnInvoiceStep ==
    ASSUME ChanInv, NEW f \in frames, NEW n \in Node, NEW out, OnInvoice(f, n, out)
    PROVE  Good /\ UNCHANGED <<scene, orders>>
<1>1. /\ f.cmd = "INVOICE" /\ UNCHANGED orders
      /\ PayResolved(n, f.hash, f.payee, out, frames \ {f})
  BY DEF OnInvoice
<1>2. f.hash \in Hash
  BY <1>1, Parts DEF FrameOK
<1>3. Good
  BY <1>1, <1>2, PayResolvedStep
<1>4. UNCHANGED scene
  BY <1>1 DEF PayResolved
<1>5. QED BY <1>1, <1>3, <1>4

LEMMA HandleFrameStep ==
    ASSUME ChanInv, HandleFrame PROVE Good /\ UNCHANGED <<scene, orders>>
<1>1. PICK f \in frames :
         \/ OnOpen(f) \/ OnAck(f) \/ OnState(f) \/ OnClosed(f)
         \/ \E out \in Outcome : OnClaim(f, out) \/ OnFail(f, out)
         \/ \E out \in Outcome, n \in Node : OnInvoice(f, n, out)
  BY DEF HandleFrame
<1>2. CASE OnOpen(f)
  BY <1>2, OnOpenStep DEF OnOpen, Bounds
<1>3. CASE OnAck(f)
  BY <1>3, OnAckStep DEF OnAck, Bounds
<1>4. CASE OnState(f)
  BY <1>4, OnStateStep DEF OnState, Bounds
<1>5. CASE OnClosed(f)
  BY <1>5, OnClosedStep DEF OnClosed, Bounds
<1>6. CASE \E out \in Outcome : OnClaim(f, out) \/ OnFail(f, out)
  <2>1. PICK out \in Outcome : OnClaim(f, out) \/ OnFail(f, out)
    BY <1>6
  <2>2. UNCHANGED <<scene, orders>>
    BY <2>1 DEF OnClaim, OnFail, Bounds
  <2>3. QED BY <2>1, <2>2, OnClaimStep, OnFailStep
<1>7. CASE \E out \in Outcome, n \in Node : OnInvoice(f, n, out)
  BY <1>7, OnInvoiceStep
<1>8. QED BY <1>1, <1>2, <1>3, <1>4, <1>5, <1>6, <1>7

LEMMA OrderStep ==
    ASSUME ChanInv, Order
    PROVE  Good /\ UNCHANGED scene /\ orders < scene.orders /\ orders' = orders + 1
<1>1. /\ orders < scene.orders /\ orders' = orders + 1
      /\ \/ \E c \in scene.chan : ChannelOpen(c) \/ StartClose(c)
                            \/ \E out \in Outcome : ChannelPay(c, out)
         \/ \E n \in Node, d \in scene.payee, h \in Hash, out \in Outcome :
               PayInvoice(n, h, d, out)
  BY DEF Order
<1>2. CASE \E c \in scene.chan : ChannelOpen(c) \/ StartClose(c)
                            \/ \E out \in Outcome : ChannelPay(c, out)
  <2>1. PICK c \in scene.chan : ChannelOpen(c) \/ StartClose(c)
                            \/ \E out \in Outcome : ChannelPay(c, out)
    BY <1>2
  <2>2. c \in Chan
    BY SceneType
  <2>3. CASE ChannelOpen(c)
    BY <1>1, <2>2, <2>3, ChannelOpenStep DEF ChannelOpen
  <2>4. CASE StartClose(c)
    BY <1>1, <2>2, <2>4, StartCloseStep DEF StartClose
  <2>5. CASE \E out \in Outcome : ChannelPay(c, out)
    <3>1. PICK out \in Outcome : ChannelPay(c, out)
      BY <2>5
    <3>2. UNCHANGED scene
      BY <3>1 DEF ChannelPay
    <3>3. QED BY <1>1, <2>2, <3>1, <3>2, ChannelPayStep
  <2>6. QED BY <2>1, <2>3, <2>4, <2>5
<1>3. CASE \E n \in Node, d \in scene.payee, h \in Hash, out \in Outcome :
              PayInvoice(n, h, d, out)
  <2>1. PICK n \in Node, d \in scene.payee, h \in Hash, out \in Outcome :
           PayResolved(n, h, d, out, frames)
    BY <1>3 DEF PayInvoice
  <2>2. UNCHANGED scene
    BY <2>1 DEF PayResolved
  <2>3. Good
    BY <2>1, PayResolvedStep
  <2>4. QED BY <1>1, <2>2, <2>3
<1>4. QED BY <1>1, <1>2, <1>3

LEMMA InvoicingStep ==
    ASSUME ChanInv, Invoicing PROVE Good /\ UNCHANGED <<scene, orders>>
<1>1. PICK n \in scene.payee, h \in Hash : CreateInvoice(n, h) \/ AnswerInvoice(n, h)
  BY DEF Invoicing
<1>2. n \in Node
  BY SceneType
<1>3. UNCHANGED <<scene, orders>>
  BY <1>1 DEF CreateInvoice, AnswerInvoice, Bounds
<1>4. QED BY <1>1, <1>2, <1>3, InvoiceStep

LEMMA TickStep ==
    ASSUME ChanInv, Tick PROVE Good /\ UNCHANGED <<scene, orders>>
<1>1. CASE \E c \in scene.chan : \/ SendOpen(c) \/ AcceptOpen(c) \/ SendUpdate(c)
                                 \/ Settled(c) \/ RefundSettled(c)
  <2>1. PICK c \in scene.chan : \/ SendOpen(c) \/ AcceptOpen(c) \/ SendUpdate(c)
                                \/ Settled(c) \/ RefundSettled(c)
    BY <1>1
  <2>2. c \in Chan
    BY SceneType
  <2>3. UNCHANGED <<scene, orders>>
    BY <2>1 DEF SendOpen, AcceptOpen, SendUpdate, Settled, RefundSettled, Bounds
  <2>4. QED BY <2>1, <2>2, <2>3, SendOpenStep, AcceptOpenStep, SendUpdateStep,
               SettledStep, RefundSettledStep
<1>2. CASE \E n \in Node : \E p \in book[n].parked, out \in Outcome : DeliverParked(n, p, out)
  <2>1. PICK n \in Node : \E p \in book[n].parked, out \in Outcome : DeliverParked(n, p, out)
    BY <1>2
  <2>2. PICK p \in book[n].parked, out \in Outcome : DeliverParked(n, p, out)
    BY <2>1
  <2>3. UNCHANGED <<scene, orders>>
    BY <2>2 DEF DeliverParked, Bounds
  <2>4. QED BY <2>2, <2>3, DeliverParkedStep
<1>3. QED BY <1>1, <1>2 DEF Tick

LEMMA SettleStep ==
    ASSUME ChanInv, Settle PROVE Good /\ UNCHANGED <<scene, orders>>
<1>1. CASE Block
  <2>1. UNCHANGED <<scene, orders>>
    BY <1>1 DEF Block
  <2>2. QED BY <1>1, <2>1, BlockStep
<1>2. CASE \E c \in scene.chan : \/ (MustClose(c) /\ StartClose(c) /\ UNCHANGED orders)
                                 \/ Reveal(c) \/ StartRefund(c) \/ RefundReveal(c)
  <2>1. PICK c \in scene.chan : \/ (MustClose(c) /\ StartClose(c) /\ UNCHANGED orders)
                                \/ Reveal(c) \/ StartRefund(c) \/ RefundReveal(c)
    BY <1>2
  <2>2. c \in Chan
    BY SceneType
  <2>3. UNCHANGED <<scene, orders>>
    BY <2>1 DEF StartClose, Reveal, StartRefund, RefundReveal, Bounds
  <2>4. QED BY <2>1, <2>2, <2>3, StartCloseStep, RevealStep, StartRefundStep
<1>3. QED BY <1>1, <1>2 DEF Settle
-----------------------------------------------------------------------------
LEMMA ChanInit == Init => ChanInv
<1> SUFFICES ASSUME Init PROVE ChanInv
  OBVIOUS
<1> DEFINE Active == [NoRecord EXCEPT !.status = "Active"]
           Ready == [NoRecord EXCEPT !.status = "Active", !.acked = TRUE]
<1>1. /\ scene \in Scenes /\ height = 0 /\ frames = {}
      /\ skips = 0 /\ crashes = 0 /\ orders = 0
      /\ coin = [c \in Chan |-> IF c \in scene.open THEN "live" ELSE "none"]
      /\ snd = [c \in Chan |-> IF c \in scene.open THEN Ready ELSE NoRecord]
      /\ rcv = [c \in Chan |-> IF c \in scene.open THEN Active ELSE NoRecord]
      /\ signed = [c \in Chan |-> IF c \in scene.open THEN {State0} ELSE {}]
      /\ book = [n \in Node |-> NoBook] /\ leaves = [n \in Node |-> Leaves]
  BY DEF Init
<1>2. /\ scene.last \in Nat /\ scene.orders \in Nat /\ scene.tries \in Nat
      /\ scene.crashes \in Nat
  BY <1>1, ChannelAssumption
<1>3. /\ NoRecord \in Record /\ NoRecord.st = State0 /\ NoRecord.status = "none"
  BY <1>2, State0Balanced DEF NoRecord, Record, Status
<1>4. /\ Active \in Record /\ Active.st = State0 /\ Active.status = "Active"
      /\ Ready \in Record /\ Ready.st = State0 /\ Ready.status = "Active"
  <2>1. "Active" \in Status
    BY DEF Status
  <2>2. Active \in Record /\ Active.st = State0 /\ Active.status = "Active"
    BY <1>3, <2>1 DEF Record
  <2>3. Ready \in Record /\ Ready.st = State0 /\ Ready.status = "Active"
    BY <1>3, <2>1 DEF Record
  <2>4. QED BY <2>2, <2>3
<1> HIDE DEF Active, Ready
<1>5. Sender
  <2>1. snd \in [Chan -> Record] /\ signed \in [Chan -> SUBSET Balanced]
    BY <1>1, <1>3, <1>4, State0Balanced
  <2>2. leaves \in [Node -> 0..Leaves] /\ crashes \in 0..scene.crashes
    BY <1>1, <1>2, ChannelAssumption
  <2>3. State0.nonce = 0
    BY DEF State0
  <2>4. ASSUME NEW c \in Chan PROVE Signing(c)
    <3>1. CASE c \in scene.open
      <4>1. snd[c] = Ready /\ signed[c] = {State0}
        BY <1>1, <3>1
      <4>2. QED BY <1>4, <2>3, <4>1 DEF Signing
    <3>2. CASE c \notin scene.open
      <4>1. snd[c] = NoRecord /\ signed[c] = {}
        BY <1>1, <3>2
      <4>2. QED BY <1>3, <4>1 DEF Signing
    <3>3. QED BY <3>1, <3>2
  <2>5. QED BY <2>1, <2>2, <2>4 DEF Sender
<1>6. Others
  <2>1. NoBook \in BookType
    BY DEF NoBook, BookType
  <2>2. book \in [Node -> BookType] /\ rcv \in [Chan -> Record]
    BY <1>1, <1>3, <1>4, <2>1
  <2>3. height \in 0..scene.last /\ skips \in 0..MaxSkips
    BY <1>1, <1>2, ChannelAssumption
  <2>4. coin \in [Chan -> CoinState]
    BY <1>1 DEF CoinState
  <2>5. QED BY <1>1, <2>2, <2>3, <2>4 DEF Others
<1>7. QED BY <1>1, <1>2, <1>5, <1>6 DEF ChanInv

LEMMA ChanStep == ChanInv /\ [Next]_vars => ChanInv'
<1> SUFFICES ASSUME ChanInv, [Next]_vars PROVE ChanInv'
  OBVIOUS
<1>1. orders \in 0..scene.orders /\ scene.orders \in Nat
  BY SceneType DEF ChanInv
<1>2. ASSUME Good, UNCHANGED <<scene, orders>> PROVE ChanInv'
  BY <1>1, <1>2 DEF Good, ChanInv
<1>3. CASE Order
  <2>1. Good /\ scene' = scene /\ orders < scene.orders /\ orders' = orders + 1
    BY <1>3, OrderStep
  <2>2. orders' \in 0..scene'.orders
    BY <1>1, <2>1
  <2>3. QED BY <2>1, <2>2 DEF Good, ChanInv
<1>4. CASE HandleAdded \/ HandleFrame \/ Invoicing \/ Tick \/ Settle
  BY <1>2, <1>4, HandleAddedStep, HandleFrameStep, InvoicingStep, TickStep, SettleStep
<1>5. CASE UNCHANGED vars
  <2>1. UNCHANGED <<scene, height, coin, snd, rcv, signed, book, leaves, frames, skips,
                    crashes, orders>>
    BY <1>5 DEF vars
  <2>2. Good
    BY <2>1, Parts, SenderSame, OthersSame DEF Good
  <2>3. QED BY <1>2, <2>1, <2>2
<1>6. QED BY <1>3, <1>4, <1>5 DEF Next

LEMMA ChanSound == ChanInv => SigningSound
<1> SUFFICES ASSUME ChanInv PROVE SigningSound
  OBVIOUS
<1>1. ASSUME NEW c \in Chan, NEW r \in {snd[c], rcv[c]}
      PROVE  /\ r.status \in Status /\ r.acked \in BOOLEAN /\ r.tries \in 0..scene.tries
             /\ r.st.snd >= 0 /\ r.st.rcv >= 0 /\ Conserves(r.st)
  <2>1. r \in Record
    BY Parts
  <2>2. r.st \in StateType /\ Conserves(r.st)
    BY <2>1 DEF Record, Balanced
  <2>3. r.st.snd \in Nat /\ r.st.rcv \in Nat
    BY <2>2 DEF StateType
  <2>4. QED BY <2>1, <2>2, <2>3 DEF Record
<1>2. ASSUME NEW n \in Node
      PROVE  /\ leaves[n] \in 0..Leaves
             /\ book[n].secrets \subseteq Hash /\ book[n].paying \subseteq Hash
             /\ book[n].routes \subseteq Hash \X Chan
  <2>1. book[n] \in BookType /\ leaves[n] \in 0..Leaves
    BY Parts
  <2>2. QED BY <2>1 DEF BookType
<1>3. \A c \in Chan : coin[c] \in {"none", "committed", "live", "closed", "refunded"}
  BY Parts DEF CoinState
<1>4. TypeOK
  BY <1>1, <1>2, <1>3, Parts DEF TypeOK, ChanInv
<1>5. OneStatePerNonce
  BY Parts DEF OneStatePerNonce, Signing
<1>6. QED BY <1>4, <1>5 DEF SigningSound

\* Whatever frames arrive, in whatever order, and whichever handlers a crash
\* or a full queue cuts short, every record conserves the capacity of its
\* channel and the sender's key signs one state per nonce (sender_advance
\* saves the record before the frame leaves; build_state checks the sum).
THEOREM SigningCorrect == Spec => []SigningSound
<1>1. ChanInv /\ [Next]_vars => ChanInv'
  BY ChanStep
<1>2. QED BY ChanInit, <1>1, ChanSound, PTL DEF Spec
=============================================================================
