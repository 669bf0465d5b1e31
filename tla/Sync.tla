-------------------------------- MODULE Sync --------------------------------
(***************************************************************************)
(* Headers-first synchronisation: the SyncManager of src/sync.rs and the   *)
(* handlers of src/node.rs that drive it.  The event loop runs one handler *)
(* at a time; the proof-of-work of header chunks, the search for the fork  *)
(* point, the rebuilding of the State there and the application of batches *)
(* run in background tasks whose results come back as commands, in any     *)
(* order and possibly after the session they belong to has ended.          *)
(*                                                                         *)
(* Blocks and States are named by paths as in NodeChain: <<>> is the State *)
(* before genesis and the block at height h is a path of length h + 1.  A  *)
(* list of headers or batches is [from, to]: the blocks of the path `to`   *)
(* from height `from` on.  Backoff only delays polls, and the snapshot of a*)
(* fast-forward is never set by this code; both are left out.  sync_state   *)
(* .bin is written at once.                                                *)
(***************************************************************************)
EXTENDS Integers, Sequences, FiniteSets, FiniteSetsExt, SequencesExt, Sums

CONSTANTS
    Tree,                   \* every valid block, as paths
    Work(_),                \* work of a path's last block
    Peer,
    OwnChains,              \* State and stored blocks the node may start with
    PeerChains,             \* chains its peers may have
    WINDOW,                 \* 360, the first look-back below the common height
    MAX_GETHEADERS_COUNT, MAX_GETBATCHES_COUNT, BATCH_LOOKAHEAD, MAX_PREFETCH_BUFFER,
    CHECKPOINT,             \* 500, batches held before they are flushed
    MaxEvents,              \* bound on failures and on blocks from elsewhere
    MaxTasks                \* bound: tasks unfinished while an answer is handled

ASSUME SyncAssumption ==
    /\ IsFiniteSet(Tree) /\ Tree # {} /\ \A p \in Tree : p \in Seq(Nat) /\ p # <<>>
    /\ \A p \in Tree : \A n \in 1..Len(p) : SubSeq(p, 1, n) \in Tree
    /\ \A p \in Tree : Work(p) \in Nat \ {0}
    /\ \A c \in OwnChains : c[1] \in Tree /\ c[2] \in Seq(Tree) /\ Len(c[2]) = Len(c[1])
                            /\ Last(c[2]) = c[1]
    /\ PeerChains \subseteq Tree
    /\ \A n \in {WINDOW, MAX_GETHEADERS_COUNT, MAX_GETBATCHES_COUNT,
                 BATCH_LOOKAHEAD, MAX_PREFETCH_BUFFER, CHECKPOINT} : n \in Nat \ {0}
    /\ MaxEvents \in Nat /\ MaxTasks \in Nat \ {0}

VARIABLES
    chain,      \* self.state, as a path
    store,      \* BATCHES_TABLE: the block stored at each height, height 0 first
    peers,      \* the chain each peer serves
    connected,  \* connected peers
    mgr,        \* SyncManager
    net,        \* requests whose answer has not arrived
    tasks,      \* background tasks that have not reported
    events      \* failures, and blocks from elsewhere, so far

node == <<chain, store>>
vars == <<chain, store, peers, connected, mgr, net, tasks, events>>

State == Tree \cup {<<>>}
Height == 0..Max({Len(p) : p \in Tree})

StateAt(p, n) == SubSeq(p, 1, n)
BlockAt(p, h) == SubSeq(p, 1, h + 1)
Depth(p)      == SumOf([n \in 1..Len(p) |-> Work(StateAt(p, n))], 1..Len(p))

\* Smaller paths stand for smaller hashes.
Less(p, q) ==
    \E n \in 1..Len(p) : n <= Len(q) /\ StateAt(p, n - 1) = StateAt(q, n - 1) /\ p[n] < q[n]

\* The test before a synced chain replaces the State.
Heavier(p, q) == Depth(p) > Depth(q) \/ (Depth(p) = Depth(q) /\ Less(p, q))

Run(from, to) == [from |-> from, to |-> to]
Runs   == [from : Height, to : State]
NoRun  == Run(0, <<>>)
Length(r) == Len(r.to) - r.from
-----------------------------------------------------------------------------
(***************************************************************************)
(* The session.  Fields that a phase does not have are at their default.   *)
(***************************************************************************)
Phase == {"Headers", "VerifyingHeaders", "PipelinedRebuild", "Batches", "VerifyingBatches"}

Session ==
    [peer : Peer, height : Height, phase : Phase,
     headers : Runs, cursor : Nat, verifying : BOOLEAN,
     fork : Height, cand : State, hist : Height,        \* new_history is cand from hist on
     flight : SUBSET Height, buffer : SUBSET Runs,      \* in_flight, prefetch_buffer
     pipe : Seq(Runs)]                                  \* buffered_batches
NoSession == [phase |-> "none"]
NoCursor  == -1
NoBackup  == [cursor |-> NoCursor, headers |-> NoRun]

\* A session of peer p in a phase, everything else at its default.
SessionIn(phase, p, height) ==
    [peer |-> p, height |-> height, phase |-> phase, headers |-> NoRun, cursor |-> 0,
     verifying |-> FALSE, fork |-> 0, cand |-> <<>>, hist |-> 0, flight |-> {}, buffer |-> {},
     pipe |-> <<>>]

Is(m, phase, p) == m.session.phase = phase /\ m.session.peer = p
IsSyncPeer(m, p) == m.session # NoSession /\ m.session.peer = p

\* What a handler does: the manager it leaves, requests it sends, tasks it spawns.
Outcome(m, send, spawn) == [m |-> m, send |-> send, spawn |-> spawn]
Ignore(m) == Outcome(m, {}, {})
Then(o, f(_)) ==
    LET next == f(o.m) IN Outcome(next.m, o.send \cup next.send, o.spawn \cup next.spawn)

GetHeaders(p, start, count) == [kind |-> "headers", peer |-> p, start |-> start, count |-> count]
GetBatches(p, start, count) == [kind |-> "batches", peer |-> p, start |-> start, count |-> count]
GetState(p) == [kind |-> "state", peer |-> p, start |-> 0, count |-> 0]

Atmost(a, b) == IF a < b THEN a ELSE b
Monus(a, b)  == IF a > b THEN a - b ELSE 0

\* (height - start).min(limit): the release build's subtraction wraps, so a start above a
\* height that belongs to another session asks for a whole message.
Ask(limit, height, start) == IF height < start THEN limit ELSE Atmost(limit, height - start)

abort(m) == [m EXCEPT !.session = NoSession, !.in_progress = FALSE]

clear_backup(m) == [m EXCEPT !.backup = NoBackup]

start_sync_session(m, own, p, height) ==
    LET usable    == m.backup # NoBackup /\ height > m.backup.cursor
        m1        == IF usable THEN m ELSE clear_backup(m)
        effective == Atmost(Len(own), height)
        hinted    == m.last_sync_cursor > Monus(effective, WINDOW) /\ m.last_sync_cursor <= effective
        from      == CASE usable -> m.backup.cursor
                       [] ~usable /\ hinted -> m.last_sync_cursor
                       [] OTHER -> Monus(effective, WINDOW)
        s         == SessionIn("Headers", p, height)
    IN  IF height <= from
        THEN Ignore([m1 EXCEPT !.in_progress = FALSE])
        ELSE Outcome([m1 EXCEPT !.in_progress = TRUE, !.last_sync_cursor = from,
                         !.session = [s EXCEPT !.headers = m1.backup.headers, !.cursor = from]],
                     {GetHeaders(p, from, Atmost(MAX_GETHEADERS_COUNT, Monus(height, from)))}, {})

\* The first free chunks from the cursor on, as many as there are slots.
fire_batch_lookahead(m) ==
    IF m.session.phase # "Batches" THEN Ignore(m)
    ELSE LET s     == m.session
             free  == {n \in s.cursor..(s.height - 1) :
                          /\ (n - s.cursor) % MAX_GETBATCHES_COUNT = 0
                          /\ n \notin s.flight /\ \A r \in s.buffer : r.from # n}
             slots == Monus(BATCH_LOOKAHEAD, Cardinality(s.flight))
             new   == {n \in free : Cardinality({k \in free : k < n}) < slots}
         IN  Outcome([m EXCEPT !.session.flight = @ \cup new],
                     {GetBatches(s.peer, n, Ask(MAX_GETBATCHES_COUNT, s.height, n)) : n \in new}, {})
-----------------------------------------------------------------------------
(***************************************************************************)
(* Headers.                                                                *)
(***************************************************************************)
VerifyTask(p, r) == [kind |-> "headers", peer |-> p, run |-> r]

\* Adaptive step back: WINDOW near the tip, a whole message further down.
StepBack(own, start) ==
    Monus(start, IF Monus(Len(own), start) < WINDOW THEN WINDOW ELSE MAX_GETHEADERS_COUNT)

restart_headers_with_step_back(m, p, start) ==
    [m EXCEPT !.session = [SessionIn("Headers", p, @.height) EXCEPT !.cursor = start]]

\* r links to the blocks before it that end in path q.
LinksTo(r, q) == StateAt(r.to, r.from) = q

handle_sync_headers(m, own, disk, p, r) ==
    LET s == m.session
        local == IF r.from > Len(disk) \/ r.from = 0 THEN <<>> ELSE disk[r.from]
        first == r.from = s.cursor /\ r.from > 0
        back  == StepBack(own, r.from)
        fresh == s.headers = NoRun
    IN  IF ~Is(m, "Headers", p) THEN Ignore(m)
        ELSE IF Length(r) <= 0 THEN Ignore(clear_backup(abort(m)))
        ELSE CASE first /\ fresh /\ ~LinksTo(r, local) ->
                 Outcome(restart_headers_with_step_back(m, p, back),
                         {GetHeaders(p, back, Ask(MAX_GETHEADERS_COUNT, s.height, back))}, {})
          [] first /\ ~fresh /\ ~LinksTo(r, s.headers.to) ->
                 Ignore(abort([clear_backup(m) EXCEPT !.last_sync_cursor = NoCursor]))
          [] OTHER -> Outcome([m EXCEPT !.session.verifying = TRUE], {}, {VerifyTask(p, r)})

\* The search for the fork point and the rebuild: works on the State cloned at spawn.
RebuildTask(p, r, own) ==
    [kind |-> "rebuild", peer |-> p, run |-> r, own |-> own, fork |-> 0, cand |-> <<>>, step |-> "search"]

save_backup(m) == [m EXCEPT !.backup = [cursor |-> m.session.cursor, headers |-> m.session.headers]]

\* accumulate_verified_headers; a chunk that lies below the accumulated ones goes in front.
accumulate(m, r) ==
    LET s == m.session
        below == s.headers # NoRun /\ Len(r.to) - 1 < s.headers.from
        links == \/ s.headers = NoRun
                 \/ below /\ StateAt(s.headers.to, s.headers.from) = r.to
                 \/ ~below /\ LinksTo(r, s.headers.to)
        acc == CASE s.headers = NoRun -> r
                 [] s.headers # NoRun /\ below -> Run(r.from, s.headers.to)
                 [] OTHER -> Run(s.headers.from, r.to)
    IN  IF links
        THEN [ok |-> TRUE, m |-> [m EXCEPT !.session.headers = acc,
                                           !.session.cursor = IF below THEN s.height ELSE @ + Length(r)]]
        ELSE [ok |-> FALSE, m |-> abort([clear_backup(m) EXCEPT !.last_sync_cursor = NoCursor])]

process_verified_headers_chunk(m, own, p, r) ==
    LET a    == accumulate([m EXCEPT !.session.verifying = FALSE], r)
        s    == a.m.session
        m1   == save_backup(a.m)
    IN  IF ~Is(m, "Headers", p) THEN Ignore(m)
        ELSE CASE ~a.ok -> Ignore(a.m)
          [] a.ok /\ s.cursor < s.height ->
                 Outcome([m1 EXCEPT !.last_sync_cursor = s.cursor],
                         {GetHeaders(p, s.cursor, Ask(MAX_GETHEADERS_COUNT, s.height, s.cursor))}, {})
          [] OTHER ->
                 Outcome([m1 EXCEPT !.session = SessionIn("VerifyingHeaders", p, s.height)], {},
                         {RebuildTask(p, s.headers, own)})

\* The first height where the stored block is missing, does not follow the one before
\* it, or is not the peer's.
find_fork_point(disk, r, ours) ==
    LET end  == Atmost(ours, Len(r.to))
        diff == {h \in r.from..(end - 1) :
                    \/ h >= Len(disk)
                    \/ h > 0 /\ StateAt(disk[h + 1], h) # disk[h]
                    \/ disk[h + 1] # BlockAt(r.to, h)}
    IN  IF ours <= r.from THEN r.from ELSE IF diff = {} THEN end ELSE Min(diff)

\* Replaying the stored blocks below height n works when each follows the one before.
Replays(disk, n) == n <= Len(disk) /\ \A h \in 1..n : Len(disk[h]) = h /\ disk[h] = StateAt(disk[n], h)
-----------------------------------------------------------------------------
(***************************************************************************)
(* Batches.                                                                *)
(***************************************************************************)
\* Fault: batches are not compared with the headers.
AppliedTo_unmatched(s, r) ==
    IF r.from = s.cursor /\ StateAt(r.to, r.from) = s.cand THEN Len(r.to) ELSE s.cursor

\* How far the batches of run r can be applied to the candidate: up to the first that
\* does not match the verified headers.
AppliedTo(s, r) ==
    LET good == {n \in s.cursor..Atmost(Len(r.to), Len(s.headers.to)) :
                    StateAt(r.to, n) = StateAt(s.headers.to, n)}
    IN  IF r.from = s.cursor /\ StateAt(r.to, r.from) = s.cand /\ s.cursor \in good
        THEN Max(good) ELSE s.cursor

\* The task that applies a list of chunks.
ApplyTask(s, rs) ==
    LET whole == \A i \in 2..Len(rs) : LinksTo(rs[i], rs[i - 1].to)
        r     == IF whole THEN Run(rs[1].from, Last(rs).to) ELSE rs[1]
        n     == AppliedTo(s, r)
    IN  [kind |-> "batches", peer |-> s.peer, height |-> s.height, headers |-> s.headers,
         fork |-> s.fork, cand |-> IF n > s.cursor THEN StateAt(r.to, n) ELSE s.cand,
         cursor |-> n, hist |-> s.hist, valid |-> whole /\ r.from = s.cursor /\ n = Len(r.to)]

handle_sync_batches(m, p, rs) ==
    IF ~Is(m, "Batches", p) THEN Ignore(m)
    ELSE LET s == m.session
             waiting == [SessionIn("VerifyingBatches", p, s.height)
                            EXCEPT !.flight = s.flight, !.buffer = s.buffer]
         IN  Outcome([m EXCEPT !.session = waiting], {}, {ApplyTask(s, rs)})

drain_prefetch_buffer(m) ==
    LET here == {r \in m.session.buffer : r.from = m.session.cursor}
    IN  IF m.session.phase # "Batches" \/ here = {} THEN Ignore(m)
        ELSE handle_sync_batches([m EXCEPT !.session.buffer = @ \ here], m.session.peer,
                                 <<CHOOSE r \in here : TRUE>>)

LookaheadThenDrain(o) == Then(Then(o, fire_batch_lookahead), drain_prefetch_buffer)

\* A chunk for later: kept if there is room, and its request is no longer in flight.
Prefetch(m, r) ==
    LET s == m.session
        room == Cardinality(s.buffer) < MAX_PREFETCH_BUFFER
                    /\ (s.phase = "VerifyingBatches" \/ r.from > s.cursor)
        asked == {n \in s.flight : n <= r.from /\ r.from < n + MAX_GETBATCHES_COUNT}
    IN  [m EXCEPT !.session.buffer = IF room THEN {q \in @ : q.from # r.from} \cup {r} ELSE @,
                  !.session.flight = IF asked = {} THEN @ ELSE @ \ {Min(asked)}]

\* Message::Batches from a peer that has a role in the session.
handle_batches(m, p, r) ==
    LET s == m.session
    IN  IF Length(r) <= 0 THEN Ignore(abort(m))
        ELSE CASE s.phase = "Batches" /\ r.from = s.cursor ->
                 handle_sync_batches([m EXCEPT !.session.flight = @ \ {r.from}], p, <<r>>)
          [] (s.phase = "Batches" /\ r.from # s.cursor) \/ s.phase = "VerifyingBatches" ->
                 Ignore(Prefetch(m, r))
          [] s.phase = "PipelinedRebuild" -> Ignore([m EXCEPT !.session.pipe = Append(@, r)])
          [] OTHER -> Ignore(m)

\* The report of a rebuild task t: the first one, without a State, only says where the
\* fork is; the last one carries the State there.
ForkFound(m, t) ==
    IF ~Is(m, "VerifyingHeaders", t.peer) /\ ~Is(m, "PipelinedRebuild", t.peer) THEN Ignore(m)
    ELSE LET s == m.session
         IN  Outcome([m EXCEPT !.session =
                         [SessionIn("PipelinedRebuild", t.peer, s.height) EXCEPT
                             !.headers = t.run, !.fork = t.fork,
                             !.pipe = s.pipe, !.flight = s.flight \cup {t.fork}]],
                     {GetBatches(t.peer, t.fork, Ask(MAX_GETBATCHES_COUNT, s.height, t.fork))}, {})

StateReady(m, t) ==
    LET s    == m.session
        pipe == s.phase = "PipelinedRebuild"
        next == [SessionIn("Batches", t.peer, s.height) EXCEPT
                    !.headers = IF pipe THEN s.headers ELSE t.run,
                    !.fork    = IF pipe THEN s.fork ELSE t.fork,
                    !.cursor  = IF pipe THEN s.fork ELSE t.fork,
                    !.hist    = IF pipe THEN s.fork ELSE t.fork,
                    !.cand    = t.cand,
                    !.flight  = IF pipe THEN s.flight ELSE {t.fork}]
        m1   == [m EXCEPT !.session = next]
    IN  CASE ~IsSyncPeer(m, t.peer) -> Ignore(m)
          [] Is(m, "PipelinedRebuild", t.peer) /\ s.pipe = <<>> -> LookaheadThenDrain(Ignore(m1))
          [] Is(m, "PipelinedRebuild", t.peer) /\ s.pipe # <<>> ->
                 LookaheadThenDrain(handle_sync_batches(m1, t.peer, s.pipe))
          [] Is(m, "VerifyingHeaders", t.peer) ->
                 LookaheadThenDrain(Outcome(m1,
                     {GetBatches(t.peer, t.fork, Ask(MAX_GETBATCHES_COUNT, s.height, t.fork))}, {}))
          \* The session has been taken out and is not put back; in_progress stays set.
          [] OTHER -> Ignore([m EXCEPT !.session = NoSession])

DeepFork(own, t) == t.fork = t.run.from /\ t.run.from > 0 /\ t.fork < Len(own)

process_state_rebuild(m, own, t) ==
    LET back == StepBack(own, t.run.from)
    IN  CASE DeepFork(own, t) /\ ~IsSyncPeer(m, t.peer) -> Ignore(m)
          [] DeepFork(own, t) /\ IsSyncPeer(m, t.peer) ->
                 Outcome(restart_headers_with_step_back(m, t.peer, back),
                         {GetHeaders(t.peer, back, Atmost(MAX_GETHEADERS_COUNT, Monus(t.run.from, back)))}, {})
          [] ~DeepFork(own, t) /\ t.step = "announce" -> ForkFound(m, t)
          [] OTHER -> StateReady(m, t)
-----------------------------------------------------------------------------
(***************************************************************************)
(* Steps.                                                                  *)
(***************************************************************************)
Do(o, pending, running) ==
    /\ mgr' = o.m
    /\ net' = pending \cup o.send
    /\ tasks' = running \cup o.spawn

\* perform_reorg: the candidate becomes the State, its blocks from height n on are written.
Adopt(cand, n) ==
    /\ chain' = cand
    /\ store' = [i \in 1..Max({Len(store), Len(cand)}) |->
                    IF i > n /\ i <= Len(cand) THEN BlockAt(cand, i - 1)
                    ELSE IF i <= Len(store) THEN store[i] ELSE <<>>]

\* What peer p answers to a request.
Served(r) ==
    Run(r.start, StateAt(peers[r.peer], Atmost(Len(peers[r.peer]), r.start + r.count)))

Busy == mgr.in_progress \/ mgr.session # NoSession

Ahead(q) == Depth(q) > Depth(chain) \/ Len(q) > Len(chain) \/ Heavier(q, chain)

StateInfo(r) ==
    LET q == peers[r.peer]
        o == CASE Busy /\ IsSyncPeer(mgr, r.peer) /\ q = chain -> Ignore(abort(mgr))
               [] ~Busy /\ Ahead(q) -> start_sync_session(mgr, chain, r.peer, Len(q))
               [] OTHER -> Ignore(mgr)
    IN  /\ r.kind = "state"
        /\ Do(o, net \ {r}, tasks)
        /\ UNCHANGED node

Headers(r) ==
    /\ r.kind = "headers"
    /\ Do(handle_sync_headers(mgr, chain, store, r.peer, Served(r)), net \ {r}, tasks)
    /\ UNCHANGED node

HasRole(p) ==
    IsSyncPeer(mgr, p) /\ mgr.session.phase \in {"Batches", "VerifyingBatches", "PipelinedRebuild"}

SyncBatches(r) ==
    /\ r.kind = "batches"
    /\ HasRole(r.peer) \/ (Length(Served(r)) <= 0 /\ IsSyncPeer(mgr, r.peer))
    /\ Do(handle_batches(mgr, r.peer, Served(r)), net \ {r}, tasks)
    /\ UNCHANGED node

\* Batches nobody waits for any more go to handle_batches_response.
handle_batches_response(r) ==
    LET run == Served(r)
        n   == Max({k \in 0..Atmost(Len(chain), Len(run.to)) : StateAt(chain, k) = StateAt(run.to, k)})
        better == Length(run) > 0 /\ n >= run.from /\ Heavier(run.to, chain)
    IN  /\ r.kind = "batches"
        /\ ~HasRole(r.peer) /\ ~(Length(run) <= 0 /\ IsSyncPeer(mgr, r.peer))
        /\ IF better THEN Adopt(run.to, n) ELSE UNCHANGED node
        /\ Do(Ignore(IF Length(run) > 0 THEN [mgr EXCEPT !.in_progress = FALSE] ELSE mgr),
              (net \ {r}) \cup (IF better /\ n < Len(chain) THEN {GetState(r.peer)} ELSE {}), tasks)

\* A request to a peer that is gone fails at once.
SendFails(r) ==
    /\ r.peer \notin connected
    /\ Do(Ignore(IF IsSyncPeer(mgr, r.peer) THEN abort(mgr) ELSE mgr), net \ {r}, tasks)
    /\ UNCHANGED node

Deliver ==
    /\ Cardinality(tasks) < MaxTasks
    /\ \E r \in net :
          \/ /\ r.peer \in connected
             /\ StateInfo(r) \/ Headers(r) \/ SyncBatches(r) \/ handle_batches_response(r)
          \/ SendFails(r)
    /\ UNCHANGED <<peers, connected, events>>

\* A verified chunk of headers; bad proof-of-work ends the session and the connection.
FinishSyncHeadersChunk(t) ==
    /\ t.kind = "headers"
    /\ Do(process_verified_headers_chunk(mgr, chain, t.peer, t.run), net, tasks \ {t})
    /\ UNCHANGED <<node, connected, events>>

\* The task compares the headers with the disk as it is now, and takes the State at the
\* fork from genesis, from the cache it was given, or announces that it has to rebuild it.
SearchFork(t) ==
    LET fork == find_fork_point(store, t.run, Len(t.own))
        found(c, step) == [t EXCEPT !.fork = fork, !.cand = c, !.step = step]
    IN  /\ t.kind = "rebuild" /\ t.step = "search"
        /\ \/ tasks' = (tasks \ {t}) \cup
                   {found(StateAt(t.own, Atmost(fork, Len(t.own))), "ready")}
           \/ /\ fork \in 1..Len(t.own)
              /\ tasks' = (tasks \ {t}) \cup {found(<<>>, "announce")}
        /\ UNCHANGED <<node, connected, events, mgr, net>>

AnnounceFork(t) ==
    /\ t.kind = "rebuild" /\ t.step = "announce"
    /\ Do(process_state_rebuild(mgr, chain, t), net, (tasks \ {t}) \cup {[t EXCEPT !.step = "rebuild"]})
    /\ UNCHANGED <<node, connected, events>>

\* rebuild_state_from_disk
RebuildState(t) ==
    /\ t.kind = "rebuild" /\ t.step = "rebuild" /\ Replays(store, t.fork)
    /\ tasks' = (tasks \ {t}) \cup {[t EXCEPT !.step = "ready", !.cand = store[t.fork]]}
    /\ UNCHANGED <<node, connected, events, mgr, net>>

\* is_local_corruption: roll back to a State that the disk can still produce, whatever
\* session is active.
LocalCorruption(t) ==
    /\ t.kind = "rebuild" /\ t.step = "rebuild" /\ ~Replays(store, t.fork)
    /\ \E n \in 1..t.fork :
          /\ Replays(store, n) /\ ~Replays(store, n + 1)
          /\ chain' = store[n] /\ store' = SubSeq(store, 1, n)
    /\ Do(Ignore(abort(mgr)), net, tasks \ {t})
    /\ UNCHANGED <<connected, events>>

FinishStateRebuild(t) ==
    /\ t.kind = "rebuild" /\ t.step = "ready"
    /\ Do(process_state_rebuild(mgr, chain, t), net, tasks \ {t})
    /\ UNCHANGED <<node, connected, events>>

\* Taking the session ends whatever session there is.
InvalidBatches(t) ==
    /\ t.kind = "batches" /\ ~t.valid
    /\ Do(Ignore([abort(mgr) EXCEPT !.last_sync_cursor = Monus(t.cursor, 1)]),
          {r \in net : r.peer # t.peer}, tasks \ {t})
    /\ connected' = connected \ {t.peer}
    /\ UNCHANGED <<node, events>>

\* Fault: a finished candidate is adopted whatever its work.
BatchesDone_any(t) ==
    LET m == [mgr EXCEPT !.session = NoSession, !.in_progress = FALSE]
    IN  /\ t.kind = "batches" /\ t.valid /\ t.cursor >= t.height
        /\ Adopt(t.cand, t.hist)
        /\ Do(Ignore(m), net \cup {GetState(t.peer)}, tasks \ {t})
        /\ UNCHANGED <<connected, events>>

BatchesDone(t) ==
    LET m == [clear_backup(mgr) EXCEPT !.session = NoSession, !.in_progress = FALSE,
                 !.last_sync_cursor = Monus(Len(chain'), 1)]
    IN  /\ t.kind = "batches" /\ t.valid /\ t.cursor >= t.height
        /\ IF Heavier(t.cand, chain) THEN Adopt(t.cand, t.hist) ELSE UNCHANGED node
        /\ Do(Ignore(m), net \cup {GetState(t.peer)}, tasks \ {t})
        /\ UNCHANGED <<connected, events>>

\* More to fetch: flush a long history that has more work already, and re-arm the session,
\* taking over whatever session there is.
MoreBatches(t) ==
    LET flush == t.cursor - t.hist >= CHECKPOINT /\ Depth(t.cand) > Depth(chain)
        mine  == mgr.session.phase = "VerifyingBatches"
        kept  == IF mine THEN mgr.session.buffer ELSE {}
        next  == \E r \in kept : r.from = t.cursor
        s     == [SessionIn("Batches", t.peer, t.height) EXCEPT
                     !.headers = t.headers, !.fork = t.fork, !.cand = t.cand, !.cursor = t.cursor,
                     !.hist = IF flush THEN t.cursor ELSE t.hist, !.buffer = kept,
                     !.flight = (IF mine THEN mgr.session.flight ELSE {})
                                    \cup (IF next THEN {} ELSE {t.cursor})]
        m     == [mgr EXCEPT !.session = s, !.in_progress = TRUE]
    IN  /\ t.kind = "batches" /\ t.valid /\ t.cursor < t.height
        /\ IF flush THEN Adopt(t.cand, t.hist) ELSE UNCHANGED node
        /\ Do(LookaheadThenDrain(Ignore(m)),
              net \cup (IF next THEN {}
                        ELSE {GetBatches(t.peer, t.cursor, Ask(MAX_GETBATCHES_COUNT, t.height, t.cursor))}),
              tasks \ {t})
        /\ UNCHANGED <<connected, events>>

\* A task that finds invalid proof-of-work, an invalid chain or a batch that breaks the
\* rules ends whatever session is active and loses the peer.
Rejected(t) ==
    /\ events < MaxEvents /\ events' = events + 1
    /\ \/ t.kind = "headers" /\ Is(mgr, "Headers", t.peer) /\ mgr' = abort(mgr)
       \/ t.kind = "rebuild" /\ t.step = "search" /\ mgr' = abort(mgr)
       \/ /\ t.kind = "batches"
          /\ mgr' = [abort(clear_backup(mgr)) EXCEPT !.last_sync_cursor = NoCursor]
    /\ tasks' = tasks \ {t}
    /\ connected' = connected \ {t.peer}
    /\ net' = {r \in net : r.peer # t.peer}
    /\ UNCHANGED node

Report ==
    /\ \E t \in tasks :
          \/ FinishSyncHeadersChunk(t)
          \/ SearchFork(t) \/ AnnounceFork(t) \/ RebuildState(t) \/ LocalCorruption(t)
          \/ FinishStateRebuild(t)
          \/ InvalidBatches(t) \/ BatchesDone(t) \/ MoreBatches(t)
    /\ UNCHANGED <<peers>>

BadPeer == (\E t \in tasks : Rejected(t)) /\ UNCHANGED <<peers>>

\* PeerDisconnected: with the connection go its pending requests.
PeerDisconnected(p) ==
    /\ events < MaxEvents /\ events' = events + 1
    /\ p \in connected /\ connected' = connected \ {p}
    /\ Do(IF IsSyncPeer(mgr, p) THEN Ignore(abort(mgr)) ELSE fire_batch_lookahead(mgr),
          {r \in net : r.peer # p}, tasks)
    /\ UNCHANGED <<node, peers>>

PeerConnected(p) ==
    /\ p \notin connected /\ connected' = connected \cup {p}
    /\ net' = net \cup {GetState(p)}
    /\ UNCHANGED <<node, peers, mgr, tasks, events>>

\* RequestFailed: an answer is lost or times out.
RequestFailed(r) ==
    /\ events < MaxEvents /\ events' = events + 1
    /\ Do(Ignore(IF IsSyncPeer(mgr, r.peer) THEN abort(mgr) ELSE mgr), net \ {r}, tasks)
    /\ UNCHANGED <<node, peers, connected>>

\* The answer never comes (a peer that limits the rate drops the request), and nothing says so.
Unanswered(r) ==
    /\ events < MaxEvents /\ events' = events + 1
    /\ net' = net \ {r}
    /\ UNCHANGED <<node, peers, connected, mgr, tasks>>

\* Fault: the monitor forgets the phase that waits for batches.
CanStall_headers_only == mgr.session.phase = "Headers" /\ ~mgr.session.verifying

\* check_for_stall: phases that wait for a task are exempt.
CanStall ==
    mgr.session.phase = "Batches" \/ (mgr.session.phase = "Headers" /\ ~mgr.session.verifying)

Stalled == CanStall /\ \A r \in net : r.peer # mgr.session.peer \/ r.kind = "state"

\* The timer may also fire while the answer is still on its way.
sync_timeout ==
    /\ CanStall
    /\ Stalled \/ events < MaxEvents
    /\ events' = IF Stalled THEN events ELSE events + 1
    /\ connected' = connected \ {mgr.session.peer}
    /\ net' = {r \in net : r.peer # mgr.session.peer}
    /\ mgr' = abort(mgr)
    /\ UNCHANGED <<node, peers, tasks>>

sync_poll ==
    /\ ~Busy /\ \A r \in net : r.kind # "state"
    /\ connected # {} /\ net' = net \cup {GetState(p) : p \in connected}
    /\ UNCHANGED <<node, peers, connected, mgr, tasks, events>>

\* A block gossiped by somebody extends the chain; the session does not notice.
NewBatch(q) ==
    /\ events < MaxEvents /\ events' = events + 1
    /\ q # <<>> /\ Front(q) = chain
    /\ Adopt(q, Len(chain))
    /\ UNCHANGED <<peers, connected, mgr, net, tasks>>

\* A peer's own chain is extended or reorganised.
PeerMoves(p, q) ==
    /\ events < MaxEvents /\ events' = events + 1
    /\ q \in PeerChains /\ Heavier(q, peers[p])
    /\ peers' = [peers EXCEPT ![p] = q]
    /\ UNCHANGED <<node, connected, mgr, net, tasks>>

\* The process ends and starts again: only the disk is left.
Restart ==
    /\ events < MaxEvents /\ events' = events + 1
    /\ mgr' = [mgr EXCEPT !.session = NoSession, !.in_progress = FALSE, !.last_sync_cursor = NoCursor]
    /\ net' = {} /\ tasks' = {} /\ connected' = {}
    /\ UNCHANGED <<node, peers>>

Init ==
    /\ \E c \in OwnChains : chain = c[1] /\ store = c[2]
    /\ peers \in [Peer -> PeerChains]
    /\ connected = Peer
    /\ mgr = [session |-> NoSession, in_progress |-> FALSE, last_sync_cursor |-> NoCursor,
              backup |-> NoBackup]
    /\ net = {} /\ tasks = {} /\ events = 0

Next ==
    \/ Deliver \/ Report \/ BadPeer
    \/ \E p \in Peer : PeerDisconnected(p) \/ PeerConnected(p)
    \/ \E r \in net : RequestFailed(r) \/ Unanswered(r)
    \/ sync_timeout \/ sync_poll
    \/ \E q \in Tree : NewBatch(q)
    \/ \E p \in Peer, q \in PeerChains : PeerMoves(p, q)
    \/ Restart

Spec == Init /\ [][Next]_vars

\* Answers arrive or fail and tasks end, as weak fairness of Deliver and Report would say
\* (their guards are spelled out: both are enabled whenever there is something to handle),
\* and the stall timer keeps ticking.
CanDeliver == net # {} /\ Cardinality(tasks) < MaxTasks
Answered   == \E r \in net : r \notin net'
Reported   == \E t \in tasks : t \notin tasks'

FairSpec ==
    /\ Spec
    /\ []<>~CanDeliver \/ []<><<Answered>>_vars
    /\ []<>(tasks = {}) \/ []<><<Reported>>_vars
    /\ WF_vars(sync_timeout)
-----------------------------------------------------------------------------
(***************************************************************************)
(* Properties.                                                             *)
(***************************************************************************)
\* The types of the manager, the requests and the chains; no request asks for more than a
\* message holds.
TypeOK ==
    /\ chain \in State /\ store \in Seq(State)
    /\ peers \in [Peer -> Tree] /\ connected \subseteq Peer
    /\ mgr.session = NoSession \/ mgr.session \in Session
    /\ mgr.in_progress \in BOOLEAN
    /\ mgr.last_sync_cursor \in Nat \cup {NoCursor}
    /\ mgr.backup.cursor \in Nat \cup {NoCursor} /\ mgr.backup.headers \in Runs
    /\ \A r \in net : /\ r.peer \in Peer /\ r.start \in Height /\ r.count \in Nat
                     /\ r.count <= IF r.kind = "headers" THEN MAX_GETHEADERS_COUNT ELSE MAX_GETBATCHES_COUNT
    /\ events \in 0..MaxEvents

\* Whatever tasks report late or out of order, the State is replaced only by one with more
\* work (process_verified_batches_chunk compares with the State of that moment, not of the
\* moment the candidate was started), unless the disk can no longer produce it.
OnlyHeavierAdopted ==
    [][chain' # chain => Heavier(chain', chain) \/ ~Replays(store, Len(chain))]_vars

\* Every batch that will be adopted matched a header whose proof-of-work was verified, and
\* the candidate stands where the cursor says, even when a State rebuilt for another
\* session was put into this one.
AppliedFollowsHeaders ==
    \A t \in tasks : t.kind = "batches" /\ t.valid =>
        t.cursor <= Len(t.headers.to) /\ t.cand = StateAt(t.headers.to, t.cursor)

\* The sync manager is well formed and applies only what its headers announced
\* (sync.rs, process_verified_batches_chunk).
SessionSound == TypeOK /\ AppliedFollowsHeaders

\* The node is "syncing" only while it is downloading or verifying something
\* (NodeHandle::is_syncing): sync.in_progress, which stops mining, relaying and polling, is
\* set only while a session or a task is there to clear it.
FlagHasOwner == mgr.in_progress => mgr.session # NoSession \/ tasks # {}

\* The blocks on disk are those the State was reached by: below the fork height perform_reorg
\* relies on them being shared by the old chain and the new one.
SharedBelowFork == \A h \in 1..Len(chain) : store[h] = StateAt(chain, h)

\* Every session ends: by catching up, by a failure, or by the stall monitor, which leaves
\* the phases that wait for a task alone because the task always reports.
SessionEnds == mgr.session # NoSession ~> mgr.session = NoSession

=============================================================================
