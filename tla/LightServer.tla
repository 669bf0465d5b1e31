----------------------------- MODULE LightServer -----------------------------
(***************************************************************************)
(* How a node serves browser light clients: the per-peer guard of          *)
(* network/mod.rs (rate, stream and expensive-request limits, reputation,  *)
(* bans), the task that each stream runs in, and handle_light_request in   *)
(* the node's single event loop, with the command queue the loop itself    *)
(* drains.                                                                 *)
(*                                                                         *)
(* A request is a record of a plan: who sends it, what it asks, whether    *)
(* the client stalls sending it or reading the answer.  Every request that *)
(* only reads the node's state is a "query".                               *)
(***************************************************************************)
EXTENDS Naturals, Sequences, FiniteSets, FiniteSetsExt, Functions

CONSTANTS
    LightPeers,
    MaxStreams, RateWindow, BanThreshold, LightBanTime, StaleTime,
    RateFloor, RateBase, RateSpan,      \* current_rate_limit
    DearFloor, DearBase, DearSpan,      \* current_expensive_limit
    ChatLimit, CommandCap,              \* chats per peer and window, room in cmd_tx
    SubmitTime, ResponseTime,           \* how long a block's ack and an answer are awaited
    EndOfTime,                          \* bound: the clock stops here
    LightScenes                         \* [plan, slow, drops]

VARIABLES
    here,       \* light_peers
    leaving,    \* peers told to disconnect, not gone yet
    guard,      \* LightGuardInner.peers
    st, ans, at,\* per request: the stream task's stage, the answer, when it was asked
    inbox,      \* light_rx
    cmds,       \* cmd_rx
    loop,       \* the submitted block the node's loop is waiting for, or 0
    till,       \* until when it waits
    acked,      \* blocks handled, their acks sent
    chats,      \* light_chat_limits
    clock, play

vars == <<here, leaving, guard, st, ans, at, inbox, cmds, loop, till, acked, chats, clock, play>>
taskVars == <<st, ans, at>>
loopVars == <<inbox, cmds, loop, till, acked, chats>>

Requests == DOMAIN play.plan
PeerOf(i) == play.plan[i].peer
Kind(i) == play.plan[i].kind
Stalls(i) == play.plan[i].stalls = "reading"

Init ==
    /\ play \in LightScenes
    /\ here = LightPeers /\ leaving = {}
    /\ guard = <<>>
    /\ st = [i \in Requests |-> "none"]
    /\ ans = [i \in Requests |-> "none"]
    /\ at = [i \in Requests |-> 0]
    /\ inbox = <<>> /\ cmds = <<>>
    /\ loop = 0 /\ till = 0 /\ acked = {}
    /\ chats = [p \in LightPeers |-> [n |-> 0, since |-> 0]]
    /\ clock = 0

-----------------------------------------------------------------------------
(* LightPeerState, LightGuard *)

NewPeer == [req |-> 0, exp |-> 0, start |-> clock, active |-> 0, viol |-> 0, until |-> 0,
            alpha |-> 1, beta |-> 1]
Entry(p) == IF p \in DOMAIN guard THEN guard[p] ELSE NewPeer
Set(p, e) == [q \in DOMAIN guard \cup {p} |-> IF q = p THEN e ELSE guard[q]]
Update(p, e) == IF p \in DOMAIN guard THEN Set(p, e) ELSE guard

is_banned(p) == p \in DOMAIN guard /\ clock < guard[p].until
maybe_reset_window(e) ==
    IF clock - e.start >= RateWindow THEN [e EXCEPT !.req = 0, !.exp = 0, !.start = clock] ELSE e

current_rate_limit(e) ==
    IF 10 * e.alpha < e.alpha + e.beta THEN RateFloor
    ELSE RateBase + (RateSpan * e.alpha) \div (e.alpha + e.beta)
current_expensive_limit(e) ==
    IF 5 * e.alpha < e.alpha + e.beta THEN DearFloor
    ELSE DearBase + (DearSpan * e.alpha) \div (e.alpha + e.beta)

Violated(e) ==
    [e EXCEPT !.viol = @ + 1,
              !.until = IF e.viol + 1 >= BanThreshold THEN clock + LightBanTime ELSE @]

try_open_stream(p) == [maybe_reset_window(Entry(p)) EXCEPT !.active = @ + 1, !.req = @ + 1]
Exceeds(e) == e.active >= MaxStreams \/ e.req >= current_rate_limit(e)

TooDear(p) ==
    p \in DOMAIN guard /\
    LET e == maybe_reset_window(guard[p]) IN e.exp >= current_expensive_limit(e)
check_expensive(p) ==
    LET e == maybe_reset_window(Entry(p)) IN
    Update(p, IF TooDear(p) THEN Violated(e) ELSE [e EXCEPT !.exp = @ + 1])

\* Mutant: a task that ends early forgets its stream.
close_stream_leak(g, p) == g
close_stream(g, p) ==
    IF p \notin DOMAIN g THEN g
    ELSE [g EXCEPT ![p].active = IF @ > 0 THEN @ - 1 ELSE 0]

observe_honest(p) == Update(p, [Entry(p) EXCEPT !.alpha = @ + 1])
observe_adversarial(p) ==
    LET e == [Entry(p) EXCEPT !.beta = @ + 10] IN
    Update(p, IF e.beta > 10 * e.alpha THEN [e EXCEPT !.until = clock + LightBanTime] ELSE e)

-----------------------------------------------------------------------------
(* A stream and its task *)

Finish(i, g) ==
    /\ st' = [st EXCEPT ![i] = "closed"]
    /\ guard' = close_stream(g, PeerOf(i))

\* A light client opens a stream for the next request of the plan.
OpenStream(i) ==
    /\ st[i] = "none" /\ PeerOf(i) \in here
    /\ \A j \in 1..(i - 1) : st[j] # "none"
    /\ LET p == PeerOf(i)
           e == maybe_reset_window(Entry(p)) IN
       IF is_banned(p)
       THEN st' = [st EXCEPT ![i] = "denied"] /\ UNCHANGED <<guard, leaving>>
       ELSE IF Exceeds(e)
       THEN /\ st' = [st EXCEPT ![i] = "denied"]
            /\ guard' = Set(p, Violated(e))
            /\ leaving' = IF Violated(e).until > clock THEN leaving \cup {p} ELSE leaving
       ELSE /\ st' = [st EXCEPT ![i] = "reading"]
            /\ guard' = Set(p, try_open_stream(p))
            /\ UNCHANGED leaving
    /\ UNCHANGED <<here, ans, at, loopVars, clock, play>>

\* Nothing came within ten seconds, or it was no request.
ReadFails(i) ==
    /\ st[i] = "reading" /\ play.plan[i].stalls = "sending"
    /\ Finish(i, guard)
    /\ UNCHANGED <<here, leaving, ans, at, loopVars, clock, play>>

Expensive == {"template", "filters"}

ReadRequest(i) ==
    /\ st[i] = "reading" /\ play.plan[i].stalls # "sending"
    /\ guard' = IF Kind(i) \in Expensive THEN check_expensive(PeerOf(i)) ELSE guard
    /\ IF Kind(i) \in Expensive /\ TooDear(PeerOf(i))
       THEN st' = [st EXCEPT ![i] = "refusing"] /\ UNCHANGED <<at, inbox>>
       ELSE /\ st' = [st EXCEPT ![i] = "waiting"]
            /\ at' = [at EXCEPT ![i] = clock]
            /\ inbox' = Append(inbox, i)
    /\ UNCHANGED <<here, leaving, ans, cmds, loop, till, acked, chats, clock, play>>

\* The refusal is written without a timeout.
Refused(i) ==
    /\ st[i] = "refusing" /\ ~Stalls(i)
    /\ Finish(i, guard)
    /\ UNCHANGED <<here, leaving, ans, at, loopVars, clock, play>>

Since(t, d) == clock >= Min({t + d, EndOfTime})

\* The oneshot brought the node's answer, or thirty seconds passed.
Answered(i) ==
    /\ st[i] = "waiting"
    /\ ans[i] # "none" \/ Since(at[i], ResponseTime)
    /\ st' = [st EXCEPT ![i] = "writing"]
    /\ ans' = [ans EXCEPT ![i] = IF @ = "none" THEN "server timeout" ELSE @]
    /\ UNCHANGED <<here, leaving, guard, at, loopVars, clock, play>>

\* Mutant: the answer is written without a timeout.
WriteEnds_patient(i) == ~Stalls(i)
\* The answer is out, or five seconds passed with the client not reading.
WriteEnds(i) == TRUE
WriteAnswer(i) ==
    /\ st[i] = "writing" /\ WriteEnds(i)
    /\ Finish(i, guard)
    /\ UNCHANGED <<here, leaving, ans, at, loopVars, clock, play>>

-----------------------------------------------------------------------------
(* The node's event loop: light requests and its own commands *)

Reply(i, what) == ans' = IF st[i] = "waiting" THEN [ans EXCEPT ![i] = what] ELSE ans
HasRoom == Len(cmds) < CommandCap

\* Send exempts a reveal whose commit is not mined yet.
should_penalize(i) == Kind(i) # "early"

submit_light_transaction(i) ==
    /\ IF Kind(i) = "tx"
       THEN /\ guard' = observe_honest(PeerOf(i))
            /\ cmds' = IF HasRoom THEN Append(cmds, i) ELSE cmds
            /\ Reply(i, IF HasRoom THEN "accepted" ELSE "overloaded")
       ELSE /\ guard' = IF should_penalize(i) THEN observe_adversarial(PeerOf(i)) ELSE guard
            /\ Reply(i, "invalid")
            /\ UNCHANGED cmds
    /\ UNCHANGED <<loop, till, chats>>

SubmitBatch(i) ==
    /\ IF HasRoom
       THEN /\ cmds' = Append(cmds, i)
            /\ loop' = i /\ till' = clock + SubmitTime
            /\ UNCHANGED ans
       ELSE Reply(i, "overloaded") /\ UNCHANGED <<cmds, loop, till>>
    /\ UNCHANGED <<guard, chats>>

SendChat(i) ==
    LET old == chats[PeerOf(i)]
        cur == IF clock - old.since >= RateWindow THEN [n |-> 0, since |-> clock] ELSE old
        over == cur.n + 1 > ChatLimit
    IN /\ chats' = [chats EXCEPT ![PeerOf(i)] = [cur EXCEPT !.n = @ + 1]]
       /\ cmds' = IF ~over /\ HasRoom THEN Append(cmds, i) ELSE cmds
       /\ Reply(i, IF over THEN "limited" ELSE "queued")
       /\ UNCHANGED <<guard, loop, till>>

Query(i) == Reply(i, "answered") /\ UNCHANGED <<guard, cmds, loop, till, chats>>

handle_light_request ==
    /\ loop = 0 /\ inbox # <<>>
    /\ LET i == Head(inbox) IN
       CASE Kind(i) \in {"tx", "early", "bad"} -> submit_light_transaction(i)
         [] Kind(i) = "block" -> SubmitBatch(i)
         [] Kind(i) = "chat" -> SendChat(i)
         [] OTHER -> Query(i)
    /\ inbox' = Tail(inbox)
    /\ UNCHANGED <<here, leaving, st, at, acked, clock, play>>

\* SubmitBatch goes on when the ack is there or the wait is over.
BlockAwaited ==
    /\ loop # 0
    /\ loop \in acked \/ clock >= Min({till, EndOfTime})
    /\ Reply(loop, IF loop \in acked THEN "accepted" ELSE "timed out")
    /\ loop' = 0
    /\ UNCHANGED <<here, leaving, guard, st, at, inbox, cmds, till, acked, chats, clock, play>>

\* The loop takes a command of its own: a transaction, a chat, or a mined
\* block, whose submitter gets its ack.
RunCommand ==
    /\ loop = 0 /\ cmds # <<>>
    /\ cmds' = Tail(cmds)
    /\ acked' = IF Kind(Head(cmds)) = "block" THEN acked \cup {Head(cmds)} ELSE acked
    /\ UNCHANGED <<here, leaving, guard, taskVars, inbox, loop, till, chats, clock, play>>

-----------------------------------------------------------------------------
(* Connections and time *)

\* The last connection closes; the peer's guard entry goes with it.
Disconnect(p) ==
    /\ p \in here
    /\ IF p \in leaving THEN UNCHANGED play
       ELSE play.drops > 0 /\ play' = [play EXCEPT !.drops = @ - 1]
    /\ here' = here \ {p} /\ leaving' = leaving \ {p}
    /\ guard' = Restrict(guard, DOMAIN guard \ {p})
    /\ UNCHANGED <<taskVars, loopVars, clock>>

Reconnect(p) ==
    /\ p \notin here /\ ~is_banned(p)
    /\ here' = here \cup {p}
    /\ UNCHANGED <<leaving, guard, taskVars, loopVars, clock, play>>

gc_stale ==
    LET stale == {p \in DOMAIN guard : guard[p].active = 0 /\ ~is_banned(p)
                                       /\ clock - guard[p].start >= StaleTime} IN
    /\ stale # {}
    /\ guard' = Restrict(guard, DOMAIN guard \ stale)
    /\ UNCHANGED <<here, leaving, taskVars, loopVars, clock, play>>

\* "comfortably sub-second": unless the node is slow, time passes only when
\* its loop has nothing left to do but wait.
LoopRests ==
    IF loop = 0 THEN inbox = <<>> /\ cmds = <<>> ELSE loop \notin acked
Tick ==
    /\ clock < EndOfTime /\ (play.slow \/ LoopRests)
    /\ clock' = clock + 1
    /\ UNCHANGED <<here, leaving, guard, taskVars, loopVars, play>>

Next ==
    \/ \E i \in Requests :
          OpenStream(i) \/ ReadFails(i) \/ ReadRequest(i) \/ Refused(i) \/ Answered(i) \/ WriteAnswer(i)
    \/ handle_light_request \/ BlockAwaited \/ RunCommand
    \/ \E p \in LightPeers : Disconnect(p) \/ Reconnect(p)
    \/ gc_stale \/ Tick

Spec == Init /\ [][Next]_vars

\* Timers fire, the loop takes what is there, a task that can go on does.
Fairness ==
    /\ WF_vars(Tick) /\ WF_vars(handle_light_request)
    /\ WF_vars(BlockAwaited) /\ WF_vars(RunCommand)
    /\ WF_vars(\E i \in Requests : ReadFails(i) \/ ReadRequest(i) \/ Refused(i) \/ Answered(i) \/ WriteAnswer(i))
FairSpec == Spec /\ Fairness

-----------------------------------------------------------------------------
(* Properties *)

Open == {i \in Requests : st[i] \in {"reading", "refusing", "waiting", "writing"}}

\* Streams and counters have their types, and the queues their bounds.
TypeOK ==
    /\ here \subseteq LightPeers /\ DOMAIN guard \subseteq LightPeers
    /\ \A i \in Requests : st[i] \in
          {"none", "denied", "reading", "refusing", "waiting", "writing", "closed"}
    /\ Len(cmds) <= CommandCap
    /\ loop \in Requests \cup {0} /\ clock \in 0..EndOfTime

\* No stream is counted that is not open, on whichever path its task ended
\* (a leaked count would in the end lock the client out until it reconnects).
StreamsCounted ==
    \A p \in DOMAIN guard : guard[p].active <= Cardinality({i \in Open : PeerOf(i) = p})

\* A client that asks little and asks nothing invalid is neither banned nor
\* turned away, however others flood the node, and even when it reveals
\* before its commit is mined.
Blameless(p) ==
    LET own == {i \in Requests : PeerOf(i) = p} IN
    /\ \A i \in own : Kind(i) # "bad"
    /\ Cardinality(own) <= Min({MaxStreams, RateBase})
    /\ Cardinality({i \in own : Kind(i) \in Expensive}) <= DearBase
BlamelessServed ==
    \A i \in Requests : Blameless(PeerOf(i)) => st[i] \notin {"denied", "refusing"}

\* Every stream task comes to its end and the node's loop to rest, clients
\* that send or read nothing included: the one task that may hang writes a
\* refusal to a client that does not read.
AtRest ==
    /\ loop = 0 /\ inbox = <<>>
    /\ \A i \in Open : st[i] = "refusing" /\ Stalls(i)
StreamsEnd == <>[]AtRest

\* A light miner told that its block timed out does not see it accepted
\* (node.rs: five seconds are generous).
TimedOutIsLost == \A i \in acked : ans[i] # "timed out"
=============================================================================
