----------------------------- MODULE SyncProofs -----------------------------
(***************************************************************************)
(* Sync's SessionSound and OnlyHeavierAdopted, proved for every tree of    *)
(* blocks, any peers and any number of tasks, sessions and failures: what  *)
(* a background task hands over for adoption followed headers whose        *)
(* proof-of-work was verified, and the State is replaced only by one with  *)
(* more work.                                                              *)
(***************************************************************************)
EXTENDS Sync, SumProofs, SequenceTheorems

\* A message of batches that was let in is not empty.
Chunk == {r \in Runs : Length(r) > 0}

\* While batches are fetched, new_history starts at the cursor or below it.
Held ==
    {s \in [peer : Peer, height : Height, phase : Phase,
            headers : Runs, cursor : Nat, verifying : BOOLEAN,
            fork : Height, cand : State, hist : Height,
            flight : SUBSET Height, buffer : SUBSET Chunk, pipe : Seq(Chunk)] :
        s.phase = "Batches" => s.hist <= s.cursor}

Cursor == Nat \cup {NoCursor}

Manager ==
    [session : Held \cup {NoSession}, in_progress : BOOLEAN, last_sync_cursor : Cursor,
     backup : [cursor : Nat, headers : Runs] \cup {NoBackup}]

Limit(kind) == IF kind = "headers" THEN MAX_GETHEADERS_COUNT ELSE MAX_GETBATCHES_COUNT

Request ==
    {r \in [kind : {"headers", "batches", "state"}, peer : Peer, start : Height, count : Nat] :
        r.count <= Limit(r.kind)}

Verifying == [kind : {"headers"}, peer : Peer, run : Chunk]

Rebuilding ==
    {t \in [kind : {"rebuild"}, peer : Peer, run : Runs, own : State, fork : Height,
            cand : State, step : {"search", "announce", "rebuild", "ready"}] :
        t.step \in {"announce", "rebuild"} => t.fork > 0}

Follows(t) ==
    t.valid => /\ t.cursor <= Len(t.headers.to) /\ t.cand = StateAt(t.headers.to, t.cursor)
               /\ t.hist < t.cursor

Applying ==
    {t \in [kind : {"batches"}, peer : Peer, height : Height, headers : Runs, fork : Height,
            cand : State, cursor : Nat, hist : Height, valid : BOOLEAN] : Follows(t)}

Task == Verifying \cup Rebuilding \cup Applying

Done == [m : Manager, send : SUBSET Request, spawn : SUBSET Task]

\* The tip of the chain is on disk.
NodeOK ==
    /\ chain \in State /\ store \in Seq(State)
    /\ chain # <<>> => Len(chain) <= Len(store) /\ store[Len(chain)] = chain

FlowOK == mgr \in Manager /\ net \subseteq Request /\ tasks \subseteq Task

\* The inductive invariant.
SyncInv ==
    /\ NodeOK /\ FlowOK
    /\ peers \in [Peer -> Tree] /\ connected \subseteq Peer
    /\ events \in 0..MaxEvents
-----------------------------------------------------------------------------
(***************************************************************************)
(* Heights, paths and runs.                                                *)
(***************************************************************************)
LEMMA Heights ==
    /\ Height \subseteq Nat /\ 0 \in Height
    /\ \A p \in State : p \in Seq(Nat) /\ Len(p) \in Height
    /\ \A k \in Height : \A n \in Nat : n <= k => n \in Height
<1> DEFINE L == {Len(p) : p \in Tree}
<1>1. \A p \in Tree : p \in Seq(Nat) /\ Len(p) \in Nat
  BY SyncAssumption
<1>2. L \in SUBSET Int /\ L # {}
  <2>1. PICK p \in Tree : TRUE
    BY SyncAssumption
  <2>2. Len(p) \in L
    OBVIOUS
  <2>3. \A n \in L : n \in Int
    BY <1>1
  <2> HIDE DEF L
  <2>4. QED BY <2>2, <2>3
<1>3. IsFiniteSet(L)
  <2> DEFINE f == [p \in Tree |-> Len(p)]
  <2>1. f \in Surjection(Tree, L)
    <3>1. f \in [Tree -> L]
      OBVIOUS
    <3>2. \A n \in L : \E p \in Tree : f[p] = n
      OBVIOUS
    <3> HIDE DEF f, L
    <3>3. QED BY <3>1, <3>2 DEF Surjection
  <2> HIDE DEF f, L
  <2>2. QED BY <2>1, SyncAssumption, FS_Surjection
<1>4. Max(L) \in L /\ \A y \in L : Max(L) >= y
  <2> HIDE DEF L
  <2>1. QED BY <1>2, <1>3, MaxOf
<1>5. Max(L) \in Nat
  BY <1>1, <1>4
<1>6. \A p \in Tree : Len(p) <= Max(L)
  <2>1. ASSUME NEW p \in Tree PROVE Len(p) <= Max(L)
    <3>1. Len(p) \in L
      OBVIOUS
    <3> HIDE DEF L
    <3>2. QED BY <1>1, <1>4, <1>5, <3>1
  <2>2. QED BY <2>1
<1>7. Height = 0..Max(L)
  BY DEF Height
<1> HIDE DEF L
<1>8. \A p \in State : p \in Seq(Nat) /\ Len(p) \in Height
  <2>1. ASSUME NEW p \in State PROVE p \in Seq(Nat) /\ Len(p) \in Height
    <3>1. CASE p \in Tree
      BY <1>1, <1>5, <1>6, <1>7, <3>1
    <3>2. CASE p = <<>>
      <4>1. p \in Seq(Nat) /\ Len(p) = 0
        BY <3>2
      <4>2. QED BY <1>5, <1>7, <4>1
    <3>3. QED BY <3>1, <3>2 DEF State
  <2>2. QED BY <2>1
<1>9. QED BY <1>5, <1>7, <1>8

LEMMA PrefixState ==
    ASSUME NEW p \in State, NEW n \in Int, n <= Len(p)
    PROVE  /\ StateAt(p, n) \in State
           /\ n \in Nat => Len(StateAt(p, n)) = n
<1>1. p \in Seq(Nat) /\ Len(p) \in Nat
  BY Heights
<1>2. ASSUME n <= 0 PROVE StateAt(p, n) = <<>>
  BY <1>1, <1>2 DEF StateAt
<1>3. ASSUME n > 0 PROVE StateAt(p, n) \in Tree /\ Len(StateAt(p, n)) = n
  <2>1. p \in Tree
    BY <1>1, <1>3 DEF State
  <2>2. StateAt(p, n) \in Tree
    BY <1>1, <1>3, <2>1, SyncAssumption DEF StateAt
  <2>3. Len(StateAt(p, n)) = n
    BY <1>1, <1>3 DEF StateAt
  <2>4. QED BY <2>2, <2>3
<1>4. StateAt(p, n) \in State
  BY <1>2, <1>3 DEF State
<1>5. ASSUME n \in Nat PROVE Len(StateAt(p, n)) = n
  <2>1. n = 0 \/ n > 0
    BY <1>5
  <2>2. ASSUME n = 0 PROVE Len(StateAt(p, n)) = n
    BY <1>2, <2>2
  <2>3. QED BY <1>3, <2>1, <2>2
<1>6. QED BY <1>4, <1>5

LEMMA WholePath == ASSUME NEW p \in State PROVE StateAt(p, Len(p)) = p
BY Heights, SubSeqFull DEF StateAt

LEMMA PrefixPrefix ==
    ASSUME NEW p \in State, NEW n \in Nat, NEW k \in Nat, k <= n, n <= Len(p)
    PROVE  StateAt(StateAt(p, n), k) = StateAt(p, k)
<1>1. p \in Seq(Nat) /\ Len(p) \in Nat
  BY Heights
<1>2. CASE k = 0
  BY <1>2, SubSeqEmpty DEF StateAt
<1>3. CASE k > 0
  <2>1. 1 \in 1..Len(p) /\ n \in 1..Len(p) /\ 1 \in 1..(n - 1 + 1) /\ k \in 1..(n - 1 + 1)
    BY <1>1, <1>3
  <2>2. SubSeq(SubSeq(p, 1, n), 1, k) = SubSeq(p, 1 + 1 - 1, 1 + k - 1)
    BY <1>1, <2>1, SubSeqOfSubSeq
  <2>3. 1 + 1 - 1 = 1 /\ 1 + k - 1 = k
    OBVIOUS
  <2>4. QED BY <2>2, <2>3 DEF StateAt
<1>4. QED BY <1>2, <1>3

\* Every block adds work.
LEMMA DepthGrows ==
    ASSUME NEW p \in State, NEW n \in Nat, n <= Len(p)
    PROVE  /\ Depth(StateAt(p, n)) \in Nat /\ Depth(p) \in Nat
           /\ Depth(StateAt(p, n)) <= Depth(p)
           /\ n < Len(p) => Depth(StateAt(p, n)) < Depth(p)
<1> DEFINE q == StateAt(p, n)
           f == [i \in 1..Len(p) |-> Work(StateAt(p, i))]
           g == [i \in 1..Len(q) |-> Work(StateAt(q, i))]
           A == 1..n
           B == (n + 1)..Len(p)
<1>1. p \in Seq(Nat) /\ Len(p) \in Nat /\ q \in State /\ Len(q) = n
  BY Heights, PrefixState
<1>2. \A i \in 1..Len(p) : f[i] \in Nat /\ f[i] > 0
  <2>1. ASSUME NEW i \in 1..Len(p) PROVE Work(StateAt(p, i)) \in Nat \ {0}
    <3>1. p # <<>>
      BY <1>1
    <3>2. p \in Tree
      BY <3>1 DEF State
    <3>3. StateAt(p, i) \in Tree
      BY <3>2, SyncAssumption DEF StateAt
    <3>4. QED BY <3>3, SyncAssumption
  <2>2. QED BY <2>1
<1>3. A \cup B = 1..Len(p) /\ A \cap B = {}
  BY <1>1
<1>4. IsFiniteSet(A) /\ IsFiniteSet(B)
  BY <1>1, FS_Interval
<1>5. \A i \in A : g[i] = f[i]
  <2>1. ASSUME NEW i \in A PROVE g[i] = f[i]
    <3>1. i \in Nat /\ i <= n /\ i \in 1..Len(p) /\ i \in 1..Len(q)
      BY <1>1
    <3>2. StateAt(q, i) = StateAt(p, i)
      BY <3>1, PrefixPrefix
    <3>3. QED BY <3>1, <3>2
  <2>2. QED BY <2>1
<1>6. Depth(p) = SumOf(f, A \cup B) /\ Depth(q) = SumOf(g, A)
  BY <1>1, <1>3 DEF Depth
<1>7. \A i \in A \cup B : f[i] \in Nat /\ f[i] > 0
  BY <1>2, <1>3
<1>8. n < Len(p) => Len(p) \in B
  BY <1>1
<1> HIDE DEF f, g, A, B
<1>9. SumOf(g, A) = SumOf(f, A)
  BY <1>4, <1>5, SumCongruence
<1>10. SumOf(f, A \cup B) = SumOf(f, A) + SumOf(f, B)
  <2>1. \A i \in A \cup B : f[i] \in Int
    BY <1>7
  <2>2. QED BY <1>3, <1>4, <2>1, SumUnion
<1>11. SumOf(f, A) \in Nat /\ SumOf(f, B) \in Nat
  BY <1>4, <1>7, SumNat
<1>12. ASSUME n < Len(p) PROVE SumOf(f, B) > 0
  <2> DEFINE C == B \ {Len(p)}
  <2>1. \A i \in B : f[i] \in Int
    BY <1>7
  <2>2. SumOf(f, B) = f[Len(p)] + SumOf(f, C)
    BY <1>4, <1>8, <1>12, <2>1, SumElement
  <2>3. IsFiniteSet(C) /\ \A i \in C : f[i] \in Nat
    BY <1>4, <1>7, FS_Subset
  <2> HIDE DEF C
  <2>4. SumOf(f, C) \in Nat
    BY <2>3, SumNat
  <2>5. f[Len(p)] \in Nat /\ f[Len(p)] > 0
    BY <1>7, <1>8, <1>12
  <2>6. QED BY <2>2, <2>4, <2>5
<1> HIDE DEF q
<1>13. Depth(q) \in Nat /\ Depth(p) \in Nat /\ Depth(q) <= Depth(p) /\ (n < Len(p) => Depth(q) < Depth(p))
  BY <1>6, <1>9, <1>10, <1>11, <1>12
<1>14. QED BY <1>13 DEF q

\* A longer path is heavier than the paths it extends, and they are not heavier than it.
LEMMA HeavierExtends ==
    ASSUME NEW p \in State, NEW n \in Nat, n <= Len(p)
    PROVE  /\ n < Len(p) => Heavier(p, StateAt(p, n))
           /\ ~Heavier(StateAt(p, n), p)
<1>1. n < Len(p) => Heavier(p, StateAt(p, n))
  BY DepthGrows DEF Heavier
<1>2. ~(Depth(StateAt(p, n)) > Depth(p))
  BY DepthGrows
<1>3. ~Less(StateAt(p, n), p)
  <2>1. p \in Seq(Nat) /\ Len(p) \in Nat /\ Len(StateAt(p, n)) = n
    BY Heights, PrefixState
  <2>2. ASSUME NEW k \in 1..n PROVE StateAt(p, n)[k] = p[k] /\ p[k] \in Nat
    BY <2>1, <2>2 DEF StateAt
  <2>3. QED BY <2>1, <2>2 DEF Less
<1>4. QED BY <1>1, <1>2, <1>3 DEF Heavier

LEMMA Extended ==
    ASSUME NEW q \in Tree, NewBatch(q)
    PROVE  q \in State /\ Len(chain) < Len(q) /\ Len(chain) \in Nat /\ chain = StateAt(q, Len(chain))
<1>1. q \in State /\ q \in Seq(Nat) /\ q # <<>>
  BY SyncAssumption DEF State
<1>2. Len(q) \in Nat /\ Len(q) > 0
  BY <1>1
<1>3. chain = StateAt(q, Len(q) - 1)
  BY DEF NewBatch, Front, StateAt
<1>4. Len(q) - 1 \in Nat /\ Len(q) - 1 <= Len(q)
  BY <1>2
<1>5. Len(chain) = Len(q) - 1
  BY <1>1, <1>3, <1>4, PrefixState
<1>6. QED BY <1>1, <1>2, <1>3, <1>4, <1>5

\* Where two paths part lies below the tip of the heavier one.
LEMMA Diverge ==
    ASSUME NEW own \in State, NEW p \in State, Heavier(p, own)
    PROVE  Max({k \in 0..Atmost(Len(own), Len(p)) : StateAt(own, k) = StateAt(p, k)}) < Len(p)
<1> DEFINE top == Atmost(Len(own), Len(p))
           S == {k \in 0..top : StateAt(own, k) = StateAt(p, k)}
<1>1. Len(own) \in Nat /\ Len(p) \in Nat
  BY Heights
<1>2. top \in Nat /\ top <= Len(own) /\ top <= Len(p)
  BY <1>1 DEF Atmost
<1> HIDE DEF top
<1>3. 0 \in S
  BY <1>2, SubSeqEmpty DEF StateAt
<1>4. S \in SUBSET Int /\ IsFiniteSet(S)
  <2>1. S \in SUBSET (0..top) /\ 0 \in Int /\ top \in Int
    BY <1>2
  <2> HIDE DEF S
  <2>2. QED BY <2>1, IntervalSubset
<1>5. \A k \in S : k \in Nat /\ k <= Len(own) /\ k <= Len(p) /\ StateAt(own, k) = StateAt(p, k)
  BY <1>1, <1>2
<1>6. Max(S) \in S
  <2> HIDE DEF S
  <2>1. QED BY <1>3, <1>4, MaxOf
<1>7. ASSUME Max(S) = Len(p) PROVE FALSE
  <2>1. /\ Len(p) \in Nat /\ Len(p) <= Len(own) /\ StateAt(own, Len(p)) = StateAt(p, Len(p))
    BY <1>5, <1>6, <1>7
  <2>2. p = StateAt(own, Len(p))
    BY <2>1, WholePath
  <2>3. ~Heavier(StateAt(own, Len(p)), own)
    BY <2>1, HeavierExtends
  <2>4. QED BY <2>2, <2>3
<1>8. Max(S) < Len(p)
  <2> HIDE DEF S
  <2>1. QED BY <1>1, <1>5, <1>6, <1>7
<1>9. QED BY <1>8 DEF S, top

LEMMA ReplaysBelow ==
    ASSUME NEW disk \in Seq(State), NEW k \in Nat, NEW j \in Nat, j <= k, Replays(disk, k)
    PROVE  Replays(disk, j)
<1>1. k <= Len(disk) /\ Len(disk) \in Nat
  BY DEF Replays
<1>2. j <= Len(disk)
  BY <1>1
<1>3. ASSUME NEW h \in 1..j PROVE Len(disk[h]) = h /\ disk[h] = StateAt(disk[j], h)
  <2>1. h \in 1..k /\ j \in 1..k /\ k \in 1..k /\ h \in Nat /\ h <= j
    OBVIOUS
  <2>2. /\ Len(disk[h]) = h /\ disk[h] = StateAt(disk[k], h) /\ disk[j] = StateAt(disk[k], j)
        /\ Len(disk[k]) = k
    BY <2>1 DEF Replays
  <2>3. disk[k] \in State
    BY <1>1, <2>1
  <2>4. StateAt(StateAt(disk[k], j), h) = StateAt(disk[k], h)
    BY <2>1, <2>2, <2>3, PrefixPrefix
  <2>5. QED BY <2>2, <2>4
<1>4. QED BY <1>2, <1>3 DEF Replays

LEMMA Limits ==
    /\ MAX_GETHEADERS_COUNT \in Nat /\ MAX_GETBATCHES_COUNT \in Nat /\ WINDOW \in Nat
    /\ BATCH_LOOKAHEAD \in Nat /\ MaxEvents \in Nat
BY SyncAssumption

LEMMA Asked ==
    ASSUME NEW limit \in Nat, NEW a \in Nat, NEW b \in Nat
    PROVE  /\ Ask(limit, a, b) \in Nat /\ Ask(limit, a, b) <= limit
           /\ Atmost(limit, Monus(a, b)) \in Nat /\ Atmost(limit, Monus(a, b)) <= limit
           /\ Monus(a, b) \in Nat /\ Monus(a, b) <= a
           /\ Atmost(a, b) \in Nat /\ Atmost(a, b) <= a /\ Atmost(a, b) <= b
BY DEF Ask, Atmost, Monus

LEMMA Requests ==
    ASSUME NEW p \in Peer, NEW n \in Height, NEW k \in Nat
    PROVE  /\ k <= MAX_GETHEADERS_COUNT => GetHeaders(p, n, k) \in Request
           /\ k <= MAX_GETBATCHES_COUNT => GetBatches(p, n, k) \in Request
           /\ GetState(p) \in Request
BY Limits, Heights DEF GetHeaders, GetBatches, GetState, Request, Limit

LEMMA Sessions ==
    ASSUME NEW phase \in Phase, NEW p \in Peer, NEW h \in Height
    PROVE  /\ SessionIn(phase, p, h) \in Held /\ SessionIn(phase, p, h) # NoSession
           /\ SessionIn(phase, p, h).phase = phase
<1>1. NoRun \in Runs /\ <<>> \in State
  BY Heights DEF NoRun, Run, Runs, State
<1>2. <<>> \in Seq(Chunk)
  OBVIOUS
<1>3. SessionIn(phase, p, h) \in Held
  BY <1>1, <1>2, Heights DEF SessionIn, Held
<1>4. SessionIn(phase, p, h).phase # NoSession.phase
  BY DEF SessionIn, NoSession, Phase
<1>5. SessionIn(phase, p, h).phase = phase
  BY DEF SessionIn
<1>6. QED BY <1>3, <1>4, <1>5

\* Who has a phase has a session.
LEMMA InPhase ==
    ASSUME NEW m \in Manager, NEW p, m.session.phase \in Phase \/ IsSyncPeer(m, p)
    PROVE  m.session \in Held
<1>1. NoSession.phase \notin Phase
  BY DEF NoSession, Phase
<1>2. QED BY <1>1 DEF Manager, IsSyncPeer
-----------------------------------------------------------------------------
(***************************************************************************)
(* Handlers: what each leaves, sends and spawns.                           *)
(***************************************************************************)
LEMMA ManagerParts ==
    ASSUME NEW m \in Manager
    PROVE  /\ m.session \in Held \cup {NoSession} /\ m.in_progress \in BOOLEAN
           /\ m.last_sync_cursor \in Cursor
           /\ m.backup \in [cursor : Nat, headers : Runs] \cup {NoBackup}
           /\ m.backup.headers \in Runs
           /\ m.backup # NoBackup => m.backup.cursor \in Nat
           /\ \A s \in Held \cup {NoSession} : [m EXCEPT !.session = s] \in Manager
           /\ \A b \in BOOLEAN : [m EXCEPT !.in_progress = b] \in Manager
           /\ \A c \in Cursor : [m EXCEPT !.last_sync_cursor = c] \in Manager
<1>1. NoBackup.headers \in Runs
  BY Heights DEF NoBackup, NoRun, Run, Runs, State
<1>2. QED BY <1>1 DEF Manager

LEMMA Aborts ==
    ASSUME NEW m \in Manager
    PROVE  /\ abort(m) \in Manager /\ clear_backup(m) \in Manager
           /\ abort(m).session = NoSession
           /\ \A c \in Cursor : /\ [abort(m) EXCEPT !.last_sync_cursor = c] \in Manager
                                /\ abort([m EXCEPT !.last_sync_cursor = c]) \in Manager
                                /\ abort([clear_backup(m) EXCEPT !.last_sync_cursor = c]) \in Manager
                                /\ [abort(clear_backup(m)) EXCEPT !.last_sync_cursor = c] \in Manager
BY DEF abort, clear_backup, Manager

LEMMA Ignored == ASSUME NEW m \in Manager PROVE Ignore(m) \in Done
BY DEF Ignore, Outcome, Done

LEMMA Outcomes ==
    ASSUME NEW m \in Manager, NEW send \in SUBSET Request, NEW spawn \in SUBSET Task
    PROVE  Outcome(m, send, spawn) \in Done
BY DEF Outcome, Done

LEMMA NoCursorType == NoCursor \in Cursor /\ NoCursor \notin Nat /\ NoCursor \in Int
BY DEF NoCursor, Cursor

LEMMA StartType ==
    ASSUME NEW m \in Manager, NEW own \in State, NEW p \in Peer, NEW height \in Height
    PROVE  start_sync_session(m, own, p, height) \in Done
<1> DEFINE usable == m.backup # NoBackup /\ height > m.backup.cursor
           m1 == IF usable THEN m ELSE clear_backup(m)
           effective == Atmost(Len(own), height)
           hinted == m.last_sync_cursor > Monus(effective, WINDOW)
                        /\ m.last_sync_cursor <= effective
           from == CASE usable -> m.backup.cursor
                     [] ~usable /\ hinted -> m.last_sync_cursor
                     [] OTHER -> Monus(effective, WINDOW)
           s == [SessionIn("Headers", p, height) EXCEPT !.headers = m1.backup.headers,
                                                        !.cursor = from]
<1>1. /\ Len(own) \in Nat /\ height \in Nat /\ effective \in Nat
      /\ Monus(effective, WINDOW) \in Nat
  BY Heights, Limits, Asked
<1>2. m1 \in Manager
  BY Aborts
<1>3. from \in Nat
  <2>1. CASE usable
    BY <2>1, ManagerParts
  <2>2. CASE ~usable /\ hinted
    <3>1. m.last_sync_cursor \in Int
      BY ManagerParts, NoCursorType DEF Cursor
    <3>2. m.last_sync_cursor \in Nat
      BY <1>1, <2>2, <3>1
    <3>3. QED BY <2>2, <3>2
  <2>3. CASE ~usable /\ ~hinted
    BY <1>1, <2>3
  <2>4. QED BY <2>1, <2>2, <2>3
<1>4. s \in Held
  <2>1. m1.backup.headers \in Runs
    BY <1>2, ManagerParts
  <2>2. SessionIn("Headers", p, height) \in Held /\ SessionIn("Headers", p, height).phase = "Headers"
    BY Sessions DEF Phase
  <2>3. QED BY <1>3, <2>1, <2>2 DEF Held
<1> HIDE DEF usable, m1, effective, hinted, from
<1>5. [m1 EXCEPT !.in_progress = FALSE] \in Manager
  BY <1>2, ManagerParts
<1>6. [m1 EXCEPT !.in_progress = TRUE, !.last_sync_cursor = from, !.session = s] \in Manager
  BY <1>2, <1>3, <1>4 DEF Manager, Cursor
<1>7. ASSUME ~(height <= from)
      PROVE  GetHeaders(p, from, Atmost(MAX_GETHEADERS_COUNT, Monus(height, from))) \in Request
  <2>1. from \in Height
    BY <1>1, <1>3, <1>7, Heights
  <2>2. QED BY <1>1, <1>3, <2>1, Asked, Limits, Requests
<1>8. start_sync_session(m, own, p, height)
        = IF height <= from
          THEN Ignore([m1 EXCEPT !.in_progress = FALSE])
          ELSE Outcome([m1 EXCEPT !.in_progress = TRUE, !.last_sync_cursor = from, !.session = s],
                       {GetHeaders(p, from, Atmost(MAX_GETHEADERS_COUNT, Monus(height, from)))}, {})
  BY DEF start_sync_session, usable, m1, effective, hinted, from
<1>9. QED BY <1>5, <1>6, <1>7, <1>8, Ignored, Outcomes

LEMMA LookaheadType ==
    ASSUME NEW m \in Manager
    PROVE  /\ fire_batch_lookahead(m) \in Done
           /\ fire_batch_lookahead(m).m.session.phase = m.session.phase
<1>1. CASE m.session.phase # "Batches"
  BY <1>1, Ignored DEF fire_batch_lookahead, Ignore, Outcome
<1>2. CASE m.session.phase = "Batches"
  <2> DEFINE s == m.session
             free == {n \in s.cursor..(s.height - 1) :
                          /\ (n - s.cursor) % MAX_GETBATCHES_COUNT = 0
                          /\ n \notin s.flight /\ \A r \in s.buffer : r.from # n}
             slots == Monus(BATCH_LOOKAHEAD, Cardinality(s.flight))
             new == {n \in free : Cardinality({k \in free : k < n}) < slots}
             after == [m EXCEPT !.session = [s EXCEPT !.flight = s.flight \cup new]]
             asks == {GetBatches(s.peer, n, Ask(MAX_GETBATCHES_COUNT, s.height, n)) : n \in new}
  <2>1. s \in Held
    BY <1>2, InPhase DEF Phase
  <2>2. s.cursor \in Nat /\ s.height \in Height /\ s.height \in Nat /\ s.peer \in Peer
    BY <2>1, Heights DEF Held
  <2>3. \A n \in new : n \in Height /\ n \in Nat
    <3>1. \A n \in new : n \in s.cursor..(s.height - 1)
      OBVIOUS
    <3> HIDE DEF new
    <3>2. QED BY <2>2, <3>1, Heights
  <2>4. fire_batch_lookahead(m) = Outcome(after, asks, {})
    BY <1>2 DEF fire_batch_lookahead
  <2> HIDE DEF new
  <2>5. [s EXCEPT !.flight = s.flight \cup new] \in Held
    BY <2>1, <2>3 DEF Held
  <2>6. after \in Manager
    BY <2>5, ManagerParts
  <2>7. asks \in SUBSET Request
    <3>1. ASSUME NEW n \in new
          PROVE  GetBatches(s.peer, n, Ask(MAX_GETBATCHES_COUNT, s.height, n)) \in Request
      BY <2>2, <2>3, Asked, Limits, Requests
    <3>2. QED BY <3>1
  <2>8. after.session.phase = s.phase
    BY <2>1 DEF Manager, Held
  <2> HIDE DEF after, asks
  <2>9. fire_batch_lookahead(m) \in Done
    BY <2>4, <2>6, <2>7, Outcomes
  <2>10. QED BY <2>4, <2>8, <2>9 DEF Outcome
<1>3. QED BY <1>1, <1>2

LEMMA RunParts ==
    ASSUME NEW r \in Runs
    PROVE  r.from \in Height /\ r.from \in Nat /\ r.to \in State /\ r.to \in Seq(Nat)
           /\ Len(r.to) \in Nat /\ Length(r) \in Int
           /\ \A a \in Runs : Run(r.from, a.to) \in Runs
<1>1. r.from \in Height /\ r.to \in State
  BY DEF Runs
<1>2. r.from \in Nat /\ r.to \in Seq(Nat) /\ Len(r.to) \in Nat
  BY <1>1, Heights
<1>3. Length(r) \in Int
  BY <1>2 DEF Length
<1>4. \A a \in Runs : Run(r.from, a.to) \in Runs
  BY <1>1 DEF Runs, Run
<1>5. QED BY <1>1, <1>2, <1>3, <1>4

LEMMA StepBackType ==
    ASSUME NEW own, NEW n \in Height
    PROVE  StepBack(own, n) \in Height /\ StepBack(own, n) \in Nat
<1> DEFINE k == IF Monus(Len(own), n) < WINDOW THEN WINDOW ELSE MAX_GETHEADERS_COUNT
<1>1. k \in Nat /\ n \in Nat
  BY Limits, Heights
<1> HIDE DEF k
<1>2. Monus(n, k) \in Nat /\ Monus(n, k) <= n
  BY <1>1, Asked
<1>3. StepBack(own, n) = Monus(n, k)
  BY DEF StepBack, k
<1>4. QED BY <1>2, <1>3, Heights

LEMMA RestartType ==
    ASSUME NEW m \in Manager, m.session \in Held, NEW p \in Peer, NEW n \in Nat
    PROVE  restart_headers_with_step_back(m, p, n) \in Manager
<1>1. m.session.height \in Height
  BY DEF Held
<1>2. /\ SessionIn("Headers", p, m.session.height) \in Held
      /\ SessionIn("Headers", p, m.session.height).phase = "Headers"
  BY <1>1, Sessions DEF Phase
<1>3. [SessionIn("Headers", p, m.session.height) EXCEPT !.cursor = n] \in Held
  BY <1>2 DEF Held
<1>4. QED BY <1>3, ManagerParts DEF restart_headers_with_step_back

LEMMA HeadersType ==
    ASSUME NEW m \in Manager, NEW own \in State, NEW disk, NEW p \in Peer, NEW r \in Runs
    PROVE  handle_sync_headers(m, own, disk, p, r) \in Done
<1> DEFINE s == m.session
           local == IF r.from > Len(disk) \/ r.from = 0 THEN <<>> ELSE disk[r.from]
           first == r.from = s.cursor /\ r.from > 0
           back == StepBack(own, r.from)
           fresh == s.headers = NoRun
           o1 == Outcome(restart_headers_with_step_back(m, p, back),
                         {GetHeaders(p, back, Ask(MAX_GETHEADERS_COUNT, s.height, back))}, {})
           o2 == Ignore(abort([clear_backup(m) EXCEPT !.last_sync_cursor = NoCursor]))
           o3 == Outcome([m EXCEPT !.session = [s EXCEPT !.verifying = TRUE]], {}, {VerifyTask(p, r)})
<1>1. CASE ~Is(m, "Headers", p)
  BY <1>1, Ignored DEF handle_sync_headers
<1>2. CASE Is(m, "Headers", p) /\ Length(r) <= 0
  BY <1>2, Ignored, Aborts DEF handle_sync_headers
<1>3. CASE Is(m, "Headers", p) /\ ~(Length(r) <= 0)
  <2>1. s \in Held /\ s.height \in Nat
    <3>1. s \in Held
      BY <1>3, InPhase DEF Is, Phase
    <3>2. QED BY <3>1, Heights DEF Held
  <2>2. back \in Height /\ back \in Nat
    BY RunParts, StepBackType
  <2>3. o1 \in Done
    <3>1. Ask(MAX_GETHEADERS_COUNT, s.height, back) \in Nat
          /\ Ask(MAX_GETHEADERS_COUNT, s.height, back) <= MAX_GETHEADERS_COUNT
      BY <2>1, <2>2, Asked, Limits
    <3>2. GetHeaders(p, back, Ask(MAX_GETHEADERS_COUNT, s.height, back)) \in Request
      BY <2>2, <3>1, Requests
    <3>3. restart_headers_with_step_back(m, p, back) \in Manager
      BY <2>1, <2>2, RestartType
    <3> HIDE DEF back, s
    <3>4. QED BY <3>2, <3>3, Outcomes
  <2>4. o2 \in Done
    BY Aborts, Ignored, NoCursorType
  <2>5. o3 \in Done
    <3>1. r \in Chunk
      BY <1>3, RunParts DEF Chunk
    <3>2. VerifyTask(p, r) \in Task
      BY <3>1 DEF VerifyTask, Task, Verifying
    <3>3. [s EXCEPT !.verifying = TRUE] \in Held
      BY <2>1 DEF Held
    <3>4. [m EXCEPT !.session = [s EXCEPT !.verifying = TRUE]] \in Manager
      BY <3>3, ManagerParts
    <3>5. QED BY <3>2, <3>4, Outcomes
  <2>6. handle_sync_headers(m, own, disk, p, r)
          = CASE first /\ fresh /\ ~LinksTo(r, local) -> o1
              [] first /\ ~fresh /\ ~LinksTo(r, s.headers.to) -> o2
              [] OTHER -> o3
    BY <1>3 DEF handle_sync_headers
  <2> HIDE DEF o1, o2, o3, first, fresh, local
  <2>7. QED BY <2>3, <2>4, <2>5, <2>6
<1>4. QED BY <1>1, <1>2, <1>3

LEMMA Accumulated ==
    ASSUME NEW m \in Manager, m.session \in Held, m.session.phase = "Headers", NEW r \in Chunk
    PROVE  LET a == accumulate(m, r)
           IN  /\ a.m \in Manager /\ a.ok \in BOOLEAN
               /\ a.ok => a.m.session \in Held /\ a.m.session.height = m.session.height
<1> DEFINE s == m.session
           below == s.headers # NoRun /\ Len(r.to) - 1 < s.headers.from
           links == \/ s.headers = NoRun
                    \/ below /\ StateAt(s.headers.to, s.headers.from) = r.to
                    \/ ~below /\ LinksTo(r, s.headers.to)
           acc == CASE s.headers = NoRun -> r
                    [] s.headers # NoRun /\ below -> Run(r.from, s.headers.to)
                    [] OTHER -> Run(s.headers.from, r.to)
           n == IF below THEN s.height ELSE s.cursor + Length(r)
           t == [s EXCEPT !.headers = acc, !.cursor = n]
           good == [ok |-> TRUE, m |-> [m EXCEPT !.session = t]]
           bad == [ok |-> FALSE, m |-> abort([clear_backup(m) EXCEPT !.last_sync_cursor = NoCursor])]
<1>1. r \in Runs /\ Length(r) \in Nat
  BY RunParts DEF Chunk
<1>2. s.headers \in Runs /\ s.height \in Nat /\ s.cursor \in Nat
  BY Heights DEF Held
<1>3. acc \in Runs
  <2>1. Run(r.from, s.headers.to) \in Runs /\ Run(s.headers.from, r.to) \in Runs
    BY <1>1, <1>2, RunParts
  <2>2. QED BY <1>1, <2>1
<1>4. n \in Nat
  BY <1>1, <1>2
<1>5. t \in Held /\ t.height = s.height
  <2> HIDE DEF acc, n
  <2>1. QED BY <1>3, <1>4 DEF Held
<1>6. [m EXCEPT !.session = t] \in Manager /\ [m EXCEPT !.session = t].session = t
  <2> HIDE DEF t
  <2>1. QED BY <1>5 DEF Manager
<1>7. accumulate(m, r) = IF links THEN good ELSE bad
  BY DEF accumulate
<1>8. bad.m \in Manager /\ bad.ok = FALSE
  BY Aborts, NoCursorType
<1>9. good.m = [m EXCEPT !.session = t] /\ good.ok = TRUE
  OBVIOUS
<1> HIDE DEF good, bad, links, t
<1>10. CASE links
  BY <1>5, <1>6, <1>7, <1>9, <1>10
<1>11. CASE ~links
  BY <1>7, <1>8, <1>11
<1>12. QED BY <1>10, <1>11

LEMMA BackupType ==
    ASSUME NEW m \in Manager, m.session \in Held
    PROVE  save_backup(m) \in Manager /\ save_backup(m).session = m.session
<1>1. [cursor |-> m.session.cursor, headers |-> m.session.headers] \in [cursor : Nat, headers : Runs]
  BY DEF Held
<1>2. QED BY <1>1 DEF save_backup, Manager

LEMMA RebuildTaskType ==
    ASSUME NEW p \in Peer, NEW r \in Runs, NEW own \in State
    PROVE  RebuildTask(p, r, own) \in Task
BY Heights DEF RebuildTask, Task, Rebuilding, State

LEMMA VerifiedType ==
    ASSUME NEW m \in Manager, NEW own \in State, NEW p \in Peer, NEW r \in Chunk
    PROVE  process_verified_headers_chunk(m, own, p, r) \in Done
<1> DEFINE m0 == [m EXCEPT !.session = [m.session EXCEPT !.verifying = FALSE]]
           a == accumulate(m0, r)
           s == a.m.session
           m1 == save_backup(a.m)
           o1 == Outcome([m1 EXCEPT !.last_sync_cursor = s.cursor],
                         {GetHeaders(p, s.cursor, Ask(MAX_GETHEADERS_COUNT, s.height, s.cursor))}, {})
           o2 == Outcome([m1 EXCEPT !.session = SessionIn("VerifyingHeaders", p, s.height)], {},
                         {RebuildTask(p, s.headers, own)})
<1>1. CASE ~Is(m, "Headers", p)
  BY <1>1, Ignored DEF process_verified_headers_chunk
<1>2. CASE Is(m, "Headers", p)
  <2>1. m.session \in Held
    BY <1>2, InPhase DEF Is, Phase
  <2>2. [m.session EXCEPT !.verifying = FALSE] \in Held
    BY <2>1 DEF Held
  <2>3. m0 \in Manager /\ m0.session \in Held /\ m0.session.phase = "Headers"
    <3>1. m0.session = [m.session EXCEPT !.verifying = FALSE]
      BY DEF Manager
    <3>2. m0.session.phase = "Headers"
      BY <1>2, <2>1, <3>1 DEF Held, Is
    <3>3. QED BY <2>2, <3>1, <3>2, ManagerParts
  <2> HIDE DEF m0
  <2>4. a.m \in Manager /\ a.ok \in BOOLEAN /\ (a.ok => s \in Held)
    BY <2>3, Accumulated
  <2>5. process_verified_headers_chunk(m, own, p, r)
          = CASE ~a.ok -> Ignore(a.m)
              [] a.ok /\ s.cursor < s.height -> o1
              [] OTHER -> o2
    BY <1>2 DEF process_verified_headers_chunk, m0
  <2> HIDE DEF a
  <2>6. Ignore(a.m) \in Done
    BY <2>4, Ignored
  <2>7. ASSUME a.ok PROVE m1 \in Manager /\ s.cursor \in Nat /\ s.height \in Height
                          /\ s.height \in Nat /\ s.headers \in Runs
    <3>1. s \in Held
      BY <2>4, <2>7
    <3>2. QED BY <2>4, <3>1, BackupType, Heights DEF Held
  <2> HIDE DEF m1, s
  <2>8. ASSUME a.ok, s.cursor < s.height PROVE o1 \in Done
    <3>1. s.cursor \in Height
      BY <2>7, <2>8, Heights
    <3>2. GetHeaders(p, s.cursor, Ask(MAX_GETHEADERS_COUNT, s.height, s.cursor)) \in Request
      BY <2>7, <2>8, <3>1, Asked, Limits, Requests
    <3>3. [m1 EXCEPT !.last_sync_cursor = s.cursor] \in Manager
      BY <2>7, <2>8, ManagerParts DEF Cursor
    <3>4. QED BY <3>2, <3>3, Outcomes
  <2>9. ASSUME a.ok PROVE o2 \in Done
    <3>1. SessionIn("VerifyingHeaders", p, s.height) \in Held
      BY <2>7, <2>9, Sessions DEF Phase
    <3>2. [m1 EXCEPT !.session = SessionIn("VerifyingHeaders", p, s.height)] \in Manager
      BY <2>7, <2>9, <3>1, ManagerParts
    <3>3. RebuildTask(p, s.headers, own) \in Task
      BY <2>7, <2>9, RebuildTaskType
    <3>4. QED BY <3>2, <3>3, Outcomes
  <2> HIDE DEF o1, o2
  <2>10. QED BY <2>4, <2>5, <2>6, <2>8, <2>9
<1>3. QED BY <1>1, <1>2

-----------------------------------------------------------------------------
(***************************************************************************)
(* Applying batches.                                                       *)
(***************************************************************************)
\* Chunks that link, none of them empty, end above the height where the first one starts.
LEMMA LinkedGrow ==
    ASSUME NEW rs \in Seq(Chunk), rs # <<>>,
           \A i \in 2..Len(rs) : LinksTo(rs[i], rs[i - 1].to)
    PROVE  Len(Last(rs).to) > rs[1].from
<1> DEFINE Bad == {i \in 1..Len(rs) : ~(Len(rs[i].to) > rs[1].from)}
<1>1. Len(rs) \in Nat /\ Len(rs) > 0
  BY EmptySeq, LenProperties
<1>2. \A i \in 1..Len(rs) : rs[i] \in Runs /\ Length(rs[i]) > 0
  BY DEF Chunk
<1>3. \A i \in 1..Len(rs) : /\ rs[i].from \in Nat /\ Len(rs[i].to) \in Nat /\ rs[i].to \in State
                            /\ Len(rs[i].to) > rs[i].from
  <2>1. ASSUME NEW i \in 1..Len(rs)
        PROVE  /\ rs[i].from \in Nat /\ Len(rs[i].to) \in Nat /\ rs[i].to \in State
               /\ Len(rs[i].to) > rs[i].from
    <3>1. rs[i].from \in Nat /\ Len(rs[i].to) \in Nat /\ rs[i].to \in State /\ Length(rs[i]) > 0
      BY <1>2, RunParts
    <3>2. QED BY <3>1 DEF Length
  <2>2. QED BY <2>1
<1>4. ASSUME Bad # {} PROVE FALSE
  <2>1. Bad \in SUBSET Nat
    BY <1>1
  <2>2. PICK i \in Bad : \A j \in Bad : i <= j
    <3> HIDE DEF Bad
    <3>1. QED BY <1>4, <2>1, MinOf
  <2>3. i \in 1..Len(rs) /\ ~(Len(rs[i].to) > rs[1].from)
    OBVIOUS
  <2>4. i # 1
    BY <1>3, <2>3
  <2>5. i \in 2..Len(rs) /\ i - 1 \in 1..Len(rs)
    BY <1>1, <2>3, <2>4
  <2>6. i - 1 \notin Bad
    BY <1>1, <2>2, <2>5
  <2>7. Len(rs[i - 1].to) > rs[1].from
    BY <2>5, <2>6
  <2>8. StateAt(rs[i].to, rs[i].from) = rs[i - 1].to
    BY <2>5 DEF LinksTo
  <2>9. Len(StateAt(rs[i].to, rs[i].from)) = rs[i].from
    BY <1>3, <2>3, PrefixState
  <2>10. Len(rs[i].to) > Len(rs[i - 1].to)
    BY <1>3, <2>3, <2>8, <2>9
  <2>11. rs[1].from \in Nat /\ Len(rs[i].to) \in Nat /\ Len(rs[i - 1].to) \in Nat
    BY <1>1, <1>3, <2>3, <2>5
  <2>12. QED BY <2>3, <2>7, <2>10, <2>11
<1>5. Len(rs) \notin Bad /\ Len(rs) \in 1..Len(rs)
  BY <1>1, <1>4
<1>6. QED BY <1>5 DEF Last

LEMMA AppliedToType ==
    ASSUME NEW s \in Held, NEW r \in Runs
    PROVE  /\ AppliedTo(s, r) \in Nat
           /\ AppliedTo(s, r) > s.cursor =>
                 /\ AppliedTo(s, r) <= Len(r.to) /\ AppliedTo(s, r) <= Len(s.headers.to)
                 /\ StateAt(r.to, AppliedTo(s, r)) = StateAt(s.headers.to, AppliedTo(s, r))
           /\ AppliedTo(s, r) >= s.cursor
<1> DEFINE top == Atmost(Len(r.to), Len(s.headers.to))
           good == {n \in s.cursor..top : StateAt(r.to, n) = StateAt(s.headers.to, n)}
           can == r.from = s.cursor /\ StateAt(r.to, r.from) = s.cand /\ s.cursor \in good
<1>1. s.cursor \in Nat /\ s.headers \in Runs
  BY DEF Held
<1>2. Len(r.to) \in Nat /\ Len(s.headers.to) \in Nat
  BY <1>1, RunParts
<1>3. top \in Nat /\ top <= Len(r.to) /\ top <= Len(s.headers.to)
  BY <1>2, Asked
<1>4. AppliedTo(s, r) = IF can THEN Max(good) ELSE s.cursor
  BY DEF AppliedTo
<1> HIDE DEF top
<1>5. CASE can
  <2>1. good \in SUBSET Int /\ IsFiniteSet(good)
    <3>1. good \in SUBSET (s.cursor..top)
      OBVIOUS
    <3> HIDE DEF good
    <3>2. s.cursor \in Int /\ top \in Int
      BY <1>1, <1>3
    <3>3. QED BY <3>1, <3>2, IntervalSubset
  <2>2. Max(good) \in good
    <3>1. good # {}
      BY <1>5
    <3> HIDE DEF good
    <3>2. QED BY <2>1, <3>1, MaxOf
  <2>3. /\ Max(good) \in s.cursor..top
        /\ StateAt(r.to, Max(good)) = StateAt(s.headers.to, Max(good))
    BY <2>2
  <2> HIDE DEF good
  <2>4. AppliedTo(s, r) = Max(good)
    BY <1>4, <1>5
  <2> HIDE DEF can
  <2>5. QED BY <1>1, <1>2, <1>3, <2>3, <2>4
<1>6. CASE ~can
  <2>1. AppliedTo(s, r) = s.cursor
    BY <1>4, <1>6
  <2> HIDE DEF can
  <2>2. QED BY <1>1, <2>1
<1>7. QED BY <1>5, <1>6

LEMMA ApplyTaskType ==
    ASSUME NEW s \in Held, s.phase = "Batches", NEW rs \in Seq(Chunk), rs # <<>>
    PROVE  ApplyTask(s, rs) \in Task
<1> DEFINE whole == \A i \in 2..Len(rs) : LinksTo(rs[i], rs[i - 1].to)
           r == IF whole THEN Run(rs[1].from, Last(rs).to) ELSE rs[1]
           n == AppliedTo(s, r)
           c == IF n > s.cursor THEN StateAt(r.to, n) ELSE s.cand
           v == whole /\ r.from = s.cursor /\ n = Len(r.to)
           t == [kind |-> "batches", peer |-> s.peer, height |-> s.height, headers |-> s.headers,
                 fork |-> s.fork, cand |-> c, cursor |-> n, hist |-> s.hist, valid |-> v]
<1>1. rs[1] \in Runs /\ Last(rs) \in Runs
  <2>1. Len(rs) \in Nat /\ Len(rs) > 0
    BY EmptySeq, LenProperties
  <2>2. 1 \in 1..Len(rs) /\ Len(rs) \in 1..Len(rs)
    BY <2>1
  <2>3. rs[1] \in Chunk /\ rs[Len(rs)] \in Chunk
    BY <2>2
  <2>4. QED BY <2>3 DEF Last, Chunk
<1>2. r \in Runs
  BY <1>1, RunParts
<1>3. v => Len(r.to) > r.from
  <2>1. ASSUME whole PROVE r.from = rs[1].from /\ r.to = Last(rs).to
    BY <2>1 DEF Run
  <2>2. QED BY <2>1, LinkedGrow
<1> HIDE DEF whole, r
<1>4. /\ n \in Nat /\ n >= s.cursor
      /\ n > s.cursor => /\ n <= Len(r.to) /\ n <= Len(s.headers.to)
                         /\ StateAt(r.to, n) = StateAt(s.headers.to, n)
  BY <1>2, AppliedToType
<1> HIDE DEF n
<1>5. s.cursor \in Nat /\ s.cand \in State /\ s.headers \in Runs
  BY DEF Held
<1>6. c \in State
  <2>1. ASSUME n > s.cursor PROVE StateAt(r.to, n) \in State
    <3>1. r.to \in State
      BY <1>2, RunParts
    <3>2. n \in Int /\ n <= Len(r.to)
      BY <1>4, <2>1
    <3>3. QED BY <3>1, <3>2, PrefixState
  <2>2. QED BY <1>5, <2>1
<1>7. v => n > s.cursor
  BY <1>2, <1>3, <1>4, <1>5, RunParts
<1>8. v => n <= Len(s.headers.to) /\ c = StateAt(s.headers.to, n) /\ s.hist < n
  <2>1. s.hist \in Nat /\ s.hist <= s.cursor
    BY Heights DEF Held
  <2>2. v => s.hist < n
    BY <1>4, <1>5, <1>7, <2>1
  <2>3. QED BY <1>4, <1>7, <2>2
<1>9. v \in BOOLEAN
  BY DEF whole
<1> HIDE DEF c, v
<1>10. t \in [kind : {"batches"}, peer : Peer, height : Height, headers : Runs, fork : Height,
              cand : State, cursor : Nat, hist : Height, valid : BOOLEAN]
  BY <1>4, <1>6, <1>9 DEF Held
<1>11. Follows(t)
  BY <1>8 DEF Follows
<1>12. t \in Applying
  BY <1>10, <1>11 DEF Applying
<1>13. ApplyTask(s, rs) = t
  BY DEF ApplyTask, whole, r, n, c, v
<1>14. QED BY <1>12, <1>13 DEF Task

LEMMA SyncBatchesType ==
    ASSUME NEW m \in Manager, NEW p \in Peer, NEW rs \in Seq(Chunk), rs # <<>>
    PROVE  handle_sync_batches(m, p, rs) \in Done
<1> DEFINE s == m.session
           waiting == [SessionIn("VerifyingBatches", p, s.height)
                          EXCEPT !.flight = s.flight, !.buffer = s.buffer]
<1>1. CASE ~Is(m, "Batches", p)
  BY <1>1, Ignored DEF handle_sync_batches
<1>2. CASE Is(m, "Batches", p)
  <2>1. s \in Held
    BY <1>2, InPhase DEF Is, Phase
  <2>2. SessionIn("VerifyingBatches", p, s.height) \in Held
    BY <2>1, Sessions DEF Phase, Held
  <2>3. waiting \in Held
    BY <2>1, <2>2 DEF Held
  <2>4. [m EXCEPT !.session = waiting] \in Manager
    BY <2>3, ManagerParts
  <2>5. ApplyTask(s, rs) \in Task
    BY <1>2, <2>1, ApplyTaskType DEF Is
  <2>6. handle_sync_batches(m, p, rs) = Outcome([m EXCEPT !.session = waiting], {}, {ApplyTask(s, rs)})
    BY <1>2 DEF handle_sync_batches
  <2>7. QED BY <2>4, <2>5, <2>6, Outcomes
<1>3. QED BY <1>1, <1>2

LEMMA SingleChunk ==
    ASSUME NEW r \in Chunk
    PROVE  <<r>> \in Seq(Chunk) /\ <<r>> # <<>>
OBVIOUS

LEMMA DrainType ==
    ASSUME NEW m \in Manager
    PROVE  drain_prefetch_buffer(m) \in Done
<1> DEFINE s == m.session
           here == {r \in s.buffer : r.from = s.cursor}
           one == CHOOSE r \in here : TRUE
           m1 == [m EXCEPT !.session = [s EXCEPT !.buffer = s.buffer \ here]]
<1>1. CASE s.phase # "Batches" \/ here = {}
  BY <1>1, Ignored DEF drain_prefetch_buffer
<1>2. CASE ~(s.phase # "Batches" \/ here = {})
  <2>1. s \in Held
    BY <1>2, InPhase DEF Phase
  <2>2. s.peer \in Peer /\ s.buffer \in SUBSET Chunk
    BY <2>1 DEF Held
  <2>3. one \in Chunk
    BY <1>2, <2>2
  <2>4. [s EXCEPT !.buffer = s.buffer \ here] \in Held
    BY <2>1, <2>2 DEF Held
  <2>5. m1 \in Manager
    BY <2>4, ManagerParts
  <2>6. drain_prefetch_buffer(m) = handle_sync_batches(m1, s.peer, <<one>>)
    BY <1>2 DEF drain_prefetch_buffer
  <2> HIDE DEF m1, one
  <2>7. QED BY <2>2, <2>3, <2>5, <2>6, SingleChunk, SyncBatchesType
<1>3. QED BY <1>1, <1>2

LEMMA LookaheadThenDrainType ==
    ASSUME NEW o \in Done
    PROVE  LookaheadThenDrain(o) \in Done
<1> DEFINE a == fire_batch_lookahead(o.m)
           oa == Outcome(a.m, o.send \cup a.send, o.spawn \cup a.spawn)
           b == drain_prefetch_buffer(oa.m)
           ob == Outcome(b.m, oa.send \cup b.send, oa.spawn \cup b.spawn)
<1>1. a \in Done
  BY LookaheadType DEF Done
<1>2. oa \in Done
  <2> HIDE DEF a
  <2>1. QED BY <1>1 DEF Outcome, Done
<1>3. b \in Done
  <2> HIDE DEF oa
  <2>1. QED BY <1>2, DrainType DEF Done
<1>4. ob \in Done
  <2> HIDE DEF oa, b
  <2>1. QED BY <1>2, <1>3 DEF Outcome, Done
<1>5. LookaheadThenDrain(o) = ob
  BY DEF LookaheadThenDrain, Then
<1>6. QED BY <1>4, <1>5

LEMMA PrefetchType ==
    ASSUME NEW m \in Manager, m.session \in Held, NEW r \in Chunk
    PROVE  Prefetch(m, r) \in Manager
<1> DEFINE s == m.session
           room == Cardinality(s.buffer) < MAX_PREFETCH_BUFFER
                       /\ (s.phase = "VerifyingBatches" \/ r.from > s.cursor)
           asked == {n \in s.flight : n <= r.from /\ r.from < n + MAX_GETBATCHES_COUNT}
           b == IF room THEN {q \in s.buffer : q.from # r.from} \cup {r} ELSE s.buffer
           f == IF asked = {} THEN s.flight ELSE s.flight \ {Min(asked)}
<1>1. b \in SUBSET Chunk /\ f \in SUBSET Height
  BY DEF Held
<1>2. Prefetch(m, r) = [m EXCEPT !.session = [s EXCEPT !.buffer = b, !.flight = f]]
  BY DEF Prefetch, Manager, Held
<1> HIDE DEF b, f
<1>3. [s EXCEPT !.buffer = b, !.flight = f] \in Held
  BY <1>1 DEF Held
<1>4. QED BY <1>2, <1>3, ManagerParts

LEMMA BatchesType ==
    ASSUME NEW m \in Manager, NEW p \in Peer, NEW r \in Runs
    PROVE  handle_batches(m, p, r) \in Done
<1> DEFINE s == m.session
           o1 == handle_sync_batches([m EXCEPT !.session = [s EXCEPT !.flight = s.flight \ {r.from}]],
                                     p, <<r>>)
           o2 == Ignore(Prefetch(m, r))
           o3 == Ignore([m EXCEPT !.session = [s EXCEPT !.pipe = Append(s.pipe, r)]])
           c1 == s.phase = "Batches" /\ r.from = s.cursor
           c2 == (s.phase = "Batches" /\ r.from # s.cursor) \/ s.phase = "VerifyingBatches"
           c3 == s.phase = "PipelinedRebuild"
<1>1. CASE Length(r) <= 0
  BY <1>1, Ignored, Aborts DEF handle_batches
<1>2. CASE ~(Length(r) <= 0)
  <2>1. r \in Chunk
    BY <1>2, RunParts DEF Chunk
  <2>2. c1 \/ c2 \/ c3 => s \in Held
    BY InPhase DEF Phase
  <2>3. ASSUME c1 PROVE o1 \in Done
    <3>1. [s EXCEPT !.flight = s.flight \ {r.from}] \in Held
      BY <2>2, <2>3 DEF Held
    <3>2. [m EXCEPT !.session = [s EXCEPT !.flight = s.flight \ {r.from}]] \in Manager
      BY <3>1, ManagerParts
    <3>3. QED BY <2>1, <3>2, SingleChunk, SyncBatchesType
  <2>4. ASSUME c2 PROVE o2 \in Done
    BY <2>1, <2>2, <2>4, PrefetchType, Ignored
  <2>5. ASSUME c3 PROVE o3 \in Done
    <3>1. Append(s.pipe, r) \in Seq(Chunk)
      BY <2>1, <2>2, <2>5 DEF Held
    <3>2. [s EXCEPT !.pipe = Append(s.pipe, r)] \in Held
      BY <2>2, <2>5, <3>1 DEF Held
    <3>3. [m EXCEPT !.session = [s EXCEPT !.pipe = Append(s.pipe, r)]] \in Manager
      BY <3>2, ManagerParts
    <3>4. QED BY <3>3, Ignored
  <2>6. handle_batches(m, p, r) = CASE c1 -> o1 [] c2 -> o2 [] c3 -> o3 [] OTHER -> Ignore(m)
    BY <1>2 DEF handle_batches
  <2>7. Ignore(m) \in Done
    BY Ignored
  <2> HIDE DEF o1, o2, o3, c1, c2, c3
  <2>8. QED BY <2>3, <2>4, <2>5, <2>6, <2>7
<1>3. QED BY <1>1, <1>2

-----------------------------------------------------------------------------
(***************************************************************************)
(* The reports of a rebuild task.                                          *)
(***************************************************************************)
LEMMA RebuildParts ==
    ASSUME NEW t \in Rebuilding
    PROVE  /\ t.kind = "rebuild" /\ t.peer \in Peer /\ t.run \in Runs /\ t.own \in State
           /\ t.fork \in Height /\ t.fork \in Nat /\ t.cand \in State
           /\ t.step \in {"announce", "rebuild"} => t.fork > 0
BY Heights DEF Rebuilding

LEMMA ForkRequest ==
    ASSUME NEW p \in Peer, NEW h \in Height, NEW n \in Height
    PROVE  GetBatches(p, n, Ask(MAX_GETBATCHES_COUNT, h, n)) \in Request
<1>1. h \in Nat /\ n \in Nat
  BY Heights
<1>2. QED BY <1>1, Asked, Limits, Requests

LEMMA ForkFoundType ==
    ASSUME NEW m \in Manager, NEW t \in Rebuilding
    PROVE  ForkFound(m, t) \in Done
<1> DEFINE s == m.session
           next == [SessionIn("PipelinedRebuild", t.peer, s.height) EXCEPT
                       !.headers = t.run, !.fork = t.fork,
                       !.pipe = s.pipe, !.flight = s.flight \cup {t.fork}]
           asks == {GetBatches(t.peer, t.fork, Ask(MAX_GETBATCHES_COUNT, s.height, t.fork))}
<1>1. CASE ~Is(m, "VerifyingHeaders", t.peer) /\ ~Is(m, "PipelinedRebuild", t.peer)
  BY <1>1, Ignored DEF ForkFound
<1>2. CASE ~(~Is(m, "VerifyingHeaders", t.peer) /\ ~Is(m, "PipelinedRebuild", t.peer))
  <2>1. s \in Held
    BY <1>2, InPhase DEF Is, Phase
  <2>2. s.height \in Height /\ s.pipe \in Seq(Chunk) /\ s.flight \in SUBSET Height
    BY <2>1 DEF Held
  <2>3. SessionIn("PipelinedRebuild", t.peer, s.height) \in Held
    BY <2>2, RebuildParts, Sessions DEF Phase
  <2>4. next \in Held
    BY <2>2, <2>3, RebuildParts DEF Held
  <2>5. [m EXCEPT !.session = next] \in Manager
    BY <2>4, ManagerParts
  <2>6. asks \in SUBSET Request
    BY <2>2, RebuildParts, ForkRequest
  <2>7. ForkFound(m, t) = Outcome([m EXCEPT !.session = next], asks, {})
    BY <1>2 DEF ForkFound
  <2> HIDE DEF next, asks
  <2>8. QED BY <2>5, <2>6, <2>7, Outcomes
<1>3. QED BY <1>1, <1>2

LEMMA StateReadyType ==
    ASSUME NEW m \in Manager, NEW t \in Rebuilding
    PROVE  StateReady(m, t) \in Done
<1> DEFINE s == m.session
           pipe == s.phase = "PipelinedRebuild"
           next == [SessionIn("Batches", t.peer, s.height) EXCEPT
                       !.headers = IF pipe THEN s.headers ELSE t.run,
                       !.fork    = IF pipe THEN s.fork ELSE t.fork,
                       !.cursor  = IF pipe THEN s.fork ELSE t.fork,
                       !.hist    = IF pipe THEN s.fork ELSE t.fork,
                       !.cand    = t.cand,
                       !.flight  = IF pipe THEN s.flight ELSE {t.fork}]
           m1 == [m EXCEPT !.session = next]
           asks == {GetBatches(t.peer, t.fork, Ask(MAX_GETBATCHES_COUNT, s.height, t.fork))}
           c1 == ~IsSyncPeer(m, t.peer)
           c2 == Is(m, "PipelinedRebuild", t.peer) /\ s.pipe = <<>>
           c3 == Is(m, "PipelinedRebuild", t.peer) /\ s.pipe # <<>>
           c4 == Is(m, "VerifyingHeaders", t.peer)
           o2 == LookaheadThenDrain(Ignore(m1))
           o3 == LookaheadThenDrain(handle_sync_batches(m1, t.peer, s.pipe))
           o4 == LookaheadThenDrain(Outcome(m1, asks, {}))
           o5 == Ignore([m EXCEPT !.session = NoSession])
<1>1. StateReady(m, t) = CASE c1 -> Ignore(m) [] c2 -> o2 [] c3 -> o3 [] c4 -> o4 [] OTHER -> o5
  BY DEF StateReady
<1>2. Ignore(m) \in Done /\ o5 \in Done
  BY Ignored, ManagerParts
<1>3. ASSUME s \in Held PROVE m1 \in Manager /\ asks \in SUBSET Request /\ s.pipe \in Seq(Chunk)
  <2>1. /\ s.height \in Height /\ s.headers \in Runs /\ s.fork \in Height
        /\ s.flight \in SUBSET Height /\ s.pipe \in Seq(Chunk)
    BY <1>3 DEF Held
  <2>2. s.fork \in Nat
    BY <2>1, Heights
  <2>3. SessionIn("Batches", t.peer, s.height) \in Held
    BY <2>1, RebuildParts, Sessions DEF Phase
  <2>4. next \in Held
    <3> DEFINE n == IF pipe THEN s.fork ELSE t.fork
    <3>1. n \in Height /\ n \in Nat /\ n <= n
      BY <2>1, <2>2, RebuildParts
    <3> HIDE DEF n
    <3>2. [SessionIn("Batches", t.peer, s.height) EXCEPT
              !.headers = IF pipe THEN s.headers ELSE t.run, !.fork = n, !.cursor = n, !.hist = n,
              !.cand = t.cand, !.flight = IF pipe THEN s.flight ELSE {t.fork}] \in Held
      BY <2>1, <2>3, <3>1, RebuildParts DEF Held
    <3>3. QED BY <3>2 DEF n
  <2>5. asks \in SUBSET Request
    BY <2>1, RebuildParts, ForkRequest
  <2> HIDE DEF next, asks
  <2>6. QED BY <2>1, <2>4, <2>5, ManagerParts
<1>4. c2 \/ c3 \/ c4 => s \in Held
  BY InPhase DEF Is, Phase
<1> HIDE DEF m1, asks
<1>5. ASSUME c2 PROVE o2 \in Done
  BY <1>3, <1>4, <1>5, Ignored, LookaheadThenDrainType
<1>6. ASSUME c3 PROVE o3 \in Done
  <2>1. handle_sync_batches(m1, t.peer, s.pipe) \in Done
    BY <1>3, <1>4, <1>6, RebuildParts, SyncBatchesType
  <2>2. QED BY <2>1, LookaheadThenDrainType
<1>7. ASSUME c4 PROVE o4 \in Done
  BY <1>3, <1>4, <1>7, Outcomes, LookaheadThenDrainType
<1> HIDE DEF c1, c2, c3, c4, o2, o3, o4, o5
<1>8. QED BY <1>1, <1>2, <1>5, <1>6, <1>7

LEMMA RebuildType ==
    ASSUME NEW m \in Manager, NEW own \in State, NEW t \in Rebuilding
    PROVE  process_state_rebuild(m, own, t) \in Done
<1> DEFINE back == StepBack(own, t.run.from)
           ask == Atmost(MAX_GETHEADERS_COUNT, Monus(t.run.from, back))
           c1 == DeepFork(own, t) /\ ~IsSyncPeer(m, t.peer)
           c2 == DeepFork(own, t) /\ IsSyncPeer(m, t.peer)
           c3 == ~DeepFork(own, t) /\ t.step = "announce"
           o2 == Outcome(restart_headers_with_step_back(m, t.peer, back),
                         {GetHeaders(t.peer, back, ask)}, {})
<1>1. process_state_rebuild(m, own, t)
        = CASE c1 -> Ignore(m) [] c2 -> o2 [] c3 -> ForkFound(m, t) [] OTHER -> StateReady(m, t)
  BY DEF process_state_rebuild
<1>2. Ignore(m) \in Done /\ ForkFound(m, t) \in Done /\ StateReady(m, t) \in Done
  BY Ignored, ForkFoundType, StateReadyType
<1>3. ASSUME c2 PROVE o2 \in Done
  <2>1. t.peer \in Peer /\ t.run.from \in Height /\ t.run.from \in Nat
    BY RebuildParts, RunParts
  <2>2. back \in Height /\ back \in Nat
    BY <2>1, StepBackType
  <2>3. ask \in Nat /\ ask <= MAX_GETHEADERS_COUNT
    BY <2>1, <2>2, Asked, Limits
  <2>4. m.session \in Held
    BY <1>3, InPhase
  <2> HIDE DEF back, ask
  <2>5. GetHeaders(t.peer, back, ask) \in Request
    BY <2>1, <2>2, <2>3, Requests
  <2>6. restart_headers_with_step_back(m, t.peer, back) \in Manager
    BY <2>1, <2>2, <2>4, RestartType
  <2>7. QED BY <2>5, <2>6, Outcomes
<1> HIDE DEF c1, c2, c3, o2
<1>4. QED BY <1>1, <1>2, <1>3

LEMMA ForkPoint ==
    ASSUME NEW disk, NEW r \in Runs, NEW ours \in Height
    PROVE  find_fork_point(disk, r, ours) \in Height
<1> DEFINE end == Atmost(ours, Len(r.to))
           diff == {h \in r.from..(end - 1) :
                       \/ h >= Len(disk)
                       \/ h > 0 /\ StateAt(disk[h + 1], h) # disk[h]
                       \/ disk[h + 1] # BlockAt(r.to, h)}
<1>1. r.from \in Height /\ r.from \in Nat /\ Len(r.to) \in Nat /\ ours \in Nat
  BY RunParts, Heights
<1>2. end \in Nat /\ end <= ours
  BY <1>1, Asked
<1>3. end \in Height
  BY <1>2, Heights
<1>4. find_fork_point(disk, r, ours) = IF ours <= r.from THEN r.from
                                       ELSE IF diff = {} THEN end ELSE Min(diff)
  BY DEF find_fork_point
<1> HIDE DEF end
<1>5. \A h \in diff : h \in Nat /\ h <= end
  <2>1. diff \in SUBSET (r.from..(end - 1))
    OBVIOUS
  <2> HIDE DEF diff
  <2>2. QED BY <1>1, <1>2, <2>1
<1>6. ASSUME diff # {} PROVE Min(diff) \in Height
  <2> HIDE DEF diff
  <2>1. Min(diff) \in diff
    BY <1>5, <1>6, MinOf
  <2>2. QED BY <1>3, <1>5, <2>1, Heights
<1> HIDE DEF diff
<1>7. QED BY <1>1, <1>3, <1>4, <1>6

-----------------------------------------------------------------------------
(***************************************************************************)
(* Steps.                                                                  *)
(***************************************************************************)
LEMMA DoType ==
    ASSUME NEW o \in Done, NEW pending \in SUBSET Request, NEW running \in SUBSET Task,
           Do(o, pending, running)
    PROVE  FlowOK'
<1>1. mgr' = o.m /\ net' = pending \cup o.send /\ tasks' = running \cup o.spawn
  BY DEF Do
<1>2. o.m \in Manager /\ o.send \in SUBSET Request /\ o.spawn \in SUBSET Task
  BY DEF Done
<1>3. QED BY <1>1, <1>2 DEF FlowOK

LEMMA NodeKept ==
    ASSUME NodeOK, UNCHANGED node
    PROVE  NodeOK'
BY DEF NodeOK, node

LEMMA AdoptType ==
    ASSUME NodeOK, NEW cand \in State, NEW n, n < Len(cand), Adopt(cand, n)
    PROVE  NodeOK' /\ chain' = cand
<1> DEFINE k == Max({Len(store), Len(cand)})
           new == [i \in 1..k |->
                      IF i > n /\ i <= Len(cand) THEN BlockAt(cand, i - 1)
                      ELSE IF i <= Len(store) THEN store[i] ELSE <<>>]
<1>1. store \in Seq(State) /\ Len(store) \in Nat /\ Len(cand) \in Nat
  BY Heights DEF NodeOK
<1>2. k \in Nat /\ Len(cand) <= k
  <2>1. IsFiniteSet({Len(store)}) /\ IsFiniteSet({Len(store)} \cup {Len(cand)})
    BY FS_Singleton, FS_Union
  <2>2. {Len(store)} \cup {Len(cand)} = {Len(store), Len(cand)}
    OBVIOUS
  <2>3. k \in {Len(store), Len(cand)} /\ k >= Len(cand)
    <3> DEFINE S == {Len(store), Len(cand)}
    <3>a. S \in SUBSET Int /\ S # {}
      BY <1>1
    <3>b. IsFiniteSet(S)
      BY <2>1, <2>2
    <3>1. S \in SUBSET Int /\ IsFiniteSet(S) /\ S # {}
      BY <3>a, <3>b
    <3>2. k = Max(S)
      OBVIOUS
    <3> HIDE DEF S, k
    <3>3. k \in S /\ \A y \in S : k >= y
      BY <3>1, <3>2, MaxOf
    <3>4. QED BY <3>3 DEF S
  <2>4. QED BY <1>1, <2>3
<1>3. chain' = cand /\ store' = new
  BY DEF Adopt
<1> HIDE DEF k
<1>4. ASSUME NEW i \in 1..k PROVE new[i] \in State
  <2>1. i \in Nat /\ i > 0
    BY <1>2
  <2>2. new[i] = IF i > n /\ i <= Len(cand) THEN BlockAt(cand, i - 1)
                 ELSE IF i <= Len(store) THEN store[i] ELSE <<>>
    OBVIOUS
  <2> HIDE DEF new
  <2>3. ASSUME i <= Len(cand) PROVE BlockAt(cand, i - 1) \in State
    <3>1. BlockAt(cand, i - 1) = StateAt(cand, i)
      BY <2>1 DEF BlockAt, StateAt
    <3>2. i \in Int
      BY <2>1
    <3>3. QED BY <2>3, <3>1, <3>2, PrefixState
  <2>4. ASSUME i <= Len(store) PROVE store[i] \in State
    BY <1>1, <2>1, <2>4
  <2>5. <<>> \in State
    BY DEF State
  <2>6. QED BY <2>2, <2>3, <2>4, <2>5
<1>5. new \in Seq(State)
  <2>1. new \in [1..k -> State]
    BY <1>4
  <2> HIDE DEF new
  <2>2. QED BY <1>2, <2>1, IsASeq
<1>6. ASSUME cand # <<>> PROVE Len(cand) <= Len(new) /\ new[Len(cand)] = cand
  <2>1. Len(cand) \in 1..k
    BY <1>1, <1>2, <1>6, Heights
  <2>2. new[Len(cand)] = BlockAt(cand, Len(cand) - 1)
    BY <1>1, <2>1
  <2>3. BlockAt(cand, Len(cand) - 1) = StateAt(cand, Len(cand))
    BY <1>1 DEF BlockAt, StateAt
  <2>4. Len(new) = k
    BY <1>2
  <2> HIDE DEF new
  <2>5. QED BY <1>2, <2>2, <2>3, <2>4, WholePath
<1> HIDE DEF new
<1>7. QED BY <1>3, <1>5, <1>6 DEF NodeOK

LEMMA ServedType ==
    ASSUME SyncInv, NEW r \in Request
    PROVE  Served(r) \in Runs
<1>1. r.start \in Height /\ r.count \in Nat /\ r.peer \in Peer
  BY DEF Request
<1>2. peers[r.peer] \in State /\ Len(peers[r.peer]) \in Nat /\ r.start + r.count \in Nat
  <2>1. peers[r.peer] \in State
    BY <1>1 DEF SyncInv, State
  <2>2. Len(peers[r.peer]) \in Nat /\ r.start \in Nat
    BY <1>1, <2>1, Heights
  <2>3. QED BY <1>1, <2>1, <2>2
<1>3. /\ Atmost(Len(peers[r.peer]), r.start + r.count) \in Int
      /\ Atmost(Len(peers[r.peer]), r.start + r.count) <= Len(peers[r.peer])
  BY <1>2 DEF Atmost
<1>4. StateAt(peers[r.peer], Atmost(Len(peers[r.peer]), r.start + r.count)) \in State
  BY <1>2, <1>3, PrefixState
<1>5. QED BY <1>1, <1>4 DEF Served, Run, Runs

\* An answer is handled.
LEMMA DeliverKeeps ==
    ASSUME SyncInv, Deliver
    PROVE  SyncInv'
<1>1. /\ mgr \in Manager /\ net \in SUBSET Request /\ tasks \in SUBSET Task /\ NodeOK
      /\ chain \in State
  BY DEF SyncInv, FlowOK, NodeOK
<1>2. PICK r \in net :
          \/ StateInfo(r) \/ Headers(r) \/ SyncBatches(r) \/ handle_batches_response(r)
          \/ SendFails(r)
  BY DEF Deliver
<1>3. r \in Request /\ r.peer \in Peer /\ net \ {r} \in SUBSET Request
  BY <1>1 DEF Request
<1>4. UNCHANGED <<peers, connected, events>>
  BY DEF Deliver
<1>5. Served(r) \in Runs
  BY <1>3, ServedType
<1>6. CASE StateInfo(r)
  <2> DEFINE q == peers[r.peer]
             c1 == Busy /\ IsSyncPeer(mgr, r.peer) /\ q = chain
             c2 == ~Busy /\ Ahead(q)
             o == CASE c1 -> Ignore(abort(mgr))
                    [] c2 -> start_sync_session(mgr, chain, r.peer, Len(q))
                    [] OTHER -> Ignore(mgr)
  <2>1. Len(q) \in Height
    BY <1>3, Heights DEF SyncInv, State
  <2>2. Ignore(abort(mgr)) \in Done /\ Ignore(mgr) \in Done
    BY <1>1, Aborts, Ignored
  <2>3. start_sync_session(mgr, chain, r.peer, Len(q)) \in Done
    BY <1>1, <1>3, <2>1, StartType
  <2>4. Do(o, net \ {r}, tasks) /\ UNCHANGED node
    BY <1>6 DEF StateInfo
  <2> HIDE DEF c1, c2
  <2>5. o \in Done
    BY <2>2, <2>3
  <2> HIDE DEF o
  <2>6. FlowOK' /\ NodeOK'
    BY <1>1, <1>3, <2>4, <2>5, DoType, NodeKept
  <2>7. QED BY <1>4, <2>6 DEF SyncInv
<1>7. CASE Headers(r)
  <2> DEFINE o == handle_sync_headers(mgr, chain, store, r.peer, Served(r))
  <2>1. Do(o, net \ {r}, tasks) /\ UNCHANGED node
    BY <1>7 DEF Headers
  <2>2. o \in Done
    BY <1>1, <1>3, <1>5, HeadersType
  <2> HIDE DEF o
  <2>3. FlowOK' /\ NodeOK'
    BY <1>1, <1>3, <2>1, <2>2, DoType, NodeKept
  <2>4. QED BY <1>4, <2>3 DEF SyncInv
<1>8. CASE SyncBatches(r)
  <2> DEFINE o == handle_batches(mgr, r.peer, Served(r))
  <2>1. Do(o, net \ {r}, tasks) /\ UNCHANGED node
    BY <1>8 DEF SyncBatches
  <2>2. o \in Done
    BY <1>1, <1>3, <1>5, BatchesType
  <2> HIDE DEF o
  <2>3. FlowOK' /\ NodeOK'
    BY <1>1, <1>3, <2>1, <2>2, DoType, NodeKept
  <2>4. QED BY <1>4, <2>3 DEF SyncInv
<1>9. CASE handle_batches_response(r)
  <2> DEFINE run == Served(r)
             n == Max({k \in 0..Atmost(Len(chain), Len(run.to)) : StateAt(chain, k) = StateAt(run.to, k)})
             better == Length(run) > 0 /\ n >= run.from /\ Heavier(run.to, chain)
             m == IF Length(run) > 0 THEN [mgr EXCEPT !.in_progress = FALSE] ELSE mgr
             asks == IF better /\ n < Len(chain) THEN {GetState(r.peer)} ELSE {}
  <2>1. /\ IF better THEN Adopt(run.to, n) ELSE UNCHANGED node
        /\ Do(Ignore(m), (net \ {r}) \cup asks, tasks)
    BY <1>9 DEF handle_batches_response
  <2>2. Ignore(m) \in Done
    BY <1>1, ManagerParts, Ignored
  <2>3. GetState(r.peer) \in Request
    BY Heights, <1>3, Requests
  <2>4. (net \ {r}) \cup asks \in SUBSET Request
    BY <1>3, <2>3
  <2>5. run.to \in State
    BY <1>5, RunParts
  <2>d. better => n < Len(run.to)
    BY <1>1, <2>5, Diverge
  <2> HIDE DEF m, asks, better, n, run
  <2>6. FlowOK'
    BY <1>1, <2>1, <2>2, <2>4, DoType
  <2>7. NodeOK'
    BY <1>1, <2>1, <2>5, <2>d, AdoptType, NodeKept
  <2>8. QED BY <1>4, <2>6, <2>7 DEF SyncInv
<1>10. CASE SendFails(r)
  <2> DEFINE m == IF IsSyncPeer(mgr, r.peer) THEN abort(mgr) ELSE mgr
  <2>1. Do(Ignore(m), net \ {r}, tasks) /\ UNCHANGED node
    BY <1>10 DEF SendFails
  <2>2. Ignore(m) \in Done
    BY <1>1, Aborts, Ignored
  <2> HIDE DEF m
  <2>3. FlowOK' /\ NodeOK'
    BY <1>1, <1>3, <2>1, <2>2, DoType, NodeKept
  <2>4. QED BY <1>4, <2>3 DEF SyncInv
<1>11. QED BY <1>2, <1>6, <1>7, <1>8, <1>9, <1>10

\* Who has the kind of a task is one.
LEMMA Kinds ==
    ASSUME NEW t \in Task
    PROVE  /\ t.peer \in Peer
           /\ t.kind = "headers" => t \in Verifying /\ t.run \in Chunk
           /\ t.kind = "rebuild" => t \in Rebuilding
           /\ t.kind = "batches" => t \in Applying
<1>1. \A x \in Verifying : x.kind = "headers" /\ x.peer \in Peer /\ x.run \in Chunk
  BY DEF Verifying
<1>2. \A x \in Rebuilding : x.kind = "rebuild" /\ x.peer \in Peer
  BY DEF Rebuilding
<1>3. \A x \in Applying : x.kind = "batches" /\ x.peer \in Peer
  BY DEF Applying
<1>4. QED BY <1>1, <1>2, <1>3 DEF Task

LEMMA ApplyingParts ==
    ASSUME NEW t \in Applying
    PROVE  /\ t.peer \in Peer /\ t.height \in Height /\ t.height \in Nat /\ t.headers \in Runs
           /\ t.fork \in Height /\ t.cand \in State /\ t.cursor \in Nat /\ t.hist \in Height
<1>1. /\ t.peer \in Peer /\ t.height \in Height /\ t.headers \in Runs
      /\ t.fork \in Height /\ t.cand \in State /\ t.cursor \in Nat /\ t.hist \in Height
  BY DEF Applying
<1>2. QED BY <1>1, Heights

\* A valid task has applied something.
LEMMA ValidParts ==
    ASSUME NEW t \in Applying, t.valid
    PROVE  t.hist < t.cursor /\ Len(t.cand) = t.cursor /\ t.hist < Len(t.cand)
<1>1. t.hist < t.cursor /\ t.cursor <= Len(t.headers.to) /\ t.cand = StateAt(t.headers.to, t.cursor)
  BY DEF Applying, Follows
<1>2. t.headers.to \in State /\ t.cursor \in Nat
  BY ApplyingParts, RunParts
<1>3. Len(t.cand) = t.cursor
  BY <1>1, <1>2, PrefixState
<1>4. QED BY <1>1, <1>3

LEMMA CursorBelow == ASSUME NEW n \in Nat PROVE Monus(n, 1) \in Cursor
BY DEF Monus, Cursor

\* The steps inside the task that rebuilds a State.
LEMMA SearchKeeps ==
    ASSUME SyncInv, NEW t \in tasks, SearchFork(t) \/ RebuildState(t)
    PROVE  NodeOK' /\ FlowOK' /\ UNCHANGED <<connected, events>>
<1>1. mgr \in Manager /\ net \in SUBSET Request /\ tasks \in SUBSET Task /\ NodeOK /\ store \in Seq(State)
  BY DEF SyncInv, FlowOK, NodeOK
<1>2. t \in Rebuilding
  BY <1>1, Kinds DEF SearchFork, RebuildState
<1>3. UNCHANGED <<node, connected, events, mgr, net>>
  BY DEF SearchFork, RebuildState
<1>4. NodeOK' /\ mgr' \in Manager /\ net' \in SUBSET Request /\ UNCHANGED <<connected, events>>
  BY <1>1, <1>3, NodeKept
<1>5. CASE SearchFork(t)
  <2> DEFINE fork == find_fork_point(store, t.run, Len(t.own))
             near == StateAt(t.own, Atmost(fork, Len(t.own)))
             t1 == [t EXCEPT !.fork = fork, !.cand = near, !.step = "ready"]
             t2 == [t EXCEPT !.fork = fork, !.cand = <<>>, !.step = "announce"]
  <2>1. \/ tasks' = (tasks \ {t}) \cup {t1}
        \/ fork \in 1..Len(t.own) /\ tasks' = (tasks \ {t}) \cup {t2}
    BY <1>5 DEF SearchFork
  <2>2. t.own \in State /\ t.run \in Runs /\ Len(t.own) \in Height /\ Len(t.own) \in Nat
    BY <1>2, RebuildParts, Heights
  <2>3. fork \in Height /\ fork \in Nat
    BY <2>2, ForkPoint, Heights
  <2> HIDE DEF fork
  <2>4. near \in State
    <3>1. Atmost(fork, Len(t.own)) \in Int /\ Atmost(fork, Len(t.own)) <= Len(t.own)
      BY <2>2, <2>3 DEF Atmost
    <3>2. QED BY <2>2, <3>1, PrefixState
  <2> HIDE DEF near
  <2>5. t1 \in Rebuilding
    BY <1>2, <2>3, <2>4 DEF Rebuilding
  <2>6. ASSUME fork \in 1..Len(t.own) PROVE t2 \in Rebuilding
    <3>1. fork > 0
      BY <2>2, <2>3, <2>6
    <3>2. <<>> \in State
      BY DEF State
    <3>3. QED BY <1>2, <2>3, <3>1, <3>2 DEF Rebuilding
  <2> HIDE DEF t1, t2
  <2>7. tasks' \in SUBSET Task
    BY <1>1, <2>1, <2>5, <2>6 DEF Task
  <2>8. QED BY <1>4, <2>7 DEF FlowOK
<1>6. CASE RebuildState(t)
  <2> DEFINE t1 == [t EXCEPT !.step = "ready", !.cand = store[t.fork]]
  <2>1. tasks' = (tasks \ {t}) \cup {t1} /\ t.step = "rebuild" /\ Replays(store, t.fork)
    BY <1>6 DEF RebuildState
  <2>2. t.fork \in Nat /\ t.fork > 0 /\ t.fork <= Len(store)
    BY <1>2, <2>1, RebuildParts DEF Replays
  <2>3. store[t.fork] \in State
    BY <1>1, <2>2
  <2>4. t1 \in Rebuilding
    BY <1>2, <2>3 DEF Rebuilding
  <2> HIDE DEF t1
  <2>5. tasks' \in SUBSET Task
    BY <1>1, <2>1, <2>4 DEF Task
  <2>6. QED BY <1>4, <2>5 DEF FlowOK
<1>7. QED BY <1>5, <1>6

LEMMA CorruptionKeeps ==
    ASSUME SyncInv, NEW t \in tasks, LocalCorruption(t)
    PROVE  NodeOK' /\ FlowOK'
<1>1. mgr \in Manager /\ net \in SUBSET Request /\ tasks \in SUBSET Task /\ store \in Seq(State)
  BY DEF SyncInv, FlowOK, NodeOK
<1>2. t \in Rebuilding /\ t.fork \in Nat
  BY <1>1, Kinds, RebuildParts DEF LocalCorruption
<1>3. PICK n \in 1..t.fork : Replays(store, n) /\ chain' = store[n] /\ store' = SubSeq(store, 1, n)
  BY DEF LocalCorruption
<1>4. n \in Nat /\ n > 0 /\ n <= Len(store)
  BY <1>2, <1>3 DEF Replays
<1>5. store[n] \in State /\ SubSeq(store, 1, n) \in Seq(State)
  BY <1>1, <1>4
<1>6. Do(Ignore(abort(mgr)), net, tasks \ {t})
  BY DEF LocalCorruption
<1>7. Ignore(abort(mgr)) \in Done /\ tasks \ {t} \in SUBSET Task
  BY <1>1, Aborts, Ignored
<1>8. FlowOK'
  BY <1>1, <1>6, <1>7, DoType
<1>9. Len(store[n]) = n /\ Len(SubSeq(store, 1, n)) = n /\ SubSeq(store, 1, n)[n] = store[n]
  BY <1>1, <1>3, <1>4 DEF Replays
<1>10. NodeOK'
  BY <1>3, <1>4, <1>5, <1>9 DEF NodeOK
<1>11. QED BY <1>8, <1>10

\* A batch task has applied all it was given and the session goes on.
LEMMA MoreKeeps ==
    ASSUME SyncInv, NEW t \in tasks, MoreBatches(t)
    PROVE  NodeOK' /\ FlowOK' /\ UNCHANGED <<connected, events>>
<1> DEFINE flush == t.cursor - t.hist >= CHECKPOINT /\ Depth(t.cand) > Depth(chain)
           mine == mgr.session.phase = "VerifyingBatches"
           kept == IF mine THEN mgr.session.buffer ELSE {}
           next == \E r \in kept : r.from = t.cursor
           hist == IF flush THEN t.cursor ELSE t.hist
           flight == (IF mine THEN mgr.session.flight ELSE {}) \cup (IF next THEN {} ELSE {t.cursor})
           s == [SessionIn("Batches", t.peer, t.height) EXCEPT
                     !.headers = t.headers, !.fork = t.fork, !.cand = t.cand, !.cursor = t.cursor,
                     !.hist = hist, !.buffer = kept, !.flight = flight]
           m == [mgr EXCEPT !.session = s, !.in_progress = TRUE]
           asks == IF next THEN {}
                   ELSE {GetBatches(t.peer, t.cursor, Ask(MAX_GETBATCHES_COUNT, t.height, t.cursor))}
<1>1. mgr \in Manager /\ net \in SUBSET Request /\ tasks \in SUBSET Task /\ NodeOK
  BY DEF SyncInv, FlowOK
<1>2. t \in Applying /\ t.cursor < t.height
  BY <1>1, Kinds DEF MoreBatches
<1>3. /\ IF flush THEN Adopt(t.cand, t.hist) ELSE UNCHANGED node
      /\ Do(LookaheadThenDrain(Ignore(m)), net \cup asks, tasks \ {t})
      /\ UNCHANGED <<connected, events>>
  BY DEF MoreBatches
<1>4. /\ t.peer \in Peer /\ t.height \in Height /\ t.height \in Nat /\ t.headers \in Runs
      /\ t.fork \in Height /\ t.cand \in State /\ t.cursor \in Nat /\ t.hist \in Height
  BY <1>2, ApplyingParts
<1>5. t.cursor \in Height
  BY <1>2, <1>4, Heights
<1>6. mine => mgr.session.buffer \in SUBSET Chunk /\ mgr.session.flight \in SUBSET Height
  <2>1. mine => mgr.session \in Held
    BY <1>1, InPhase DEF Phase
  <2>2. QED BY <2>1 DEF Held
<1>7. kept \in SUBSET Chunk /\ flight \in SUBSET Height /\ hist \in Height
  BY <1>4, <1>5, <1>6
<1>8. asks \in SUBSET Request
  BY <1>4, <1>5, ForkRequest
<1>9. SessionIn("Batches", t.peer, t.height) \in Held
  BY <1>4, Sessions DEF Phase
<1>v. t.hist < t.cursor /\ Len(t.cand) = t.cursor
  BY <1>2, ValidParts DEF MoreBatches
<1>f. hist <= t.cursor
  <2>1. t.hist \in Nat
    BY <1>4, Heights
  <2>2. QED BY <1>4, <1>v, <2>1
<1> HIDE DEF kept, flight, hist, asks, flush
<1>10. s \in Held
  BY <1>4, <1>7, <1>9, <1>f DEF Held
<1> HIDE DEF s
<1>11. m \in Manager
  BY <1>1, <1>10 DEF Manager
<1> HIDE DEF m
<1>12. LookaheadThenDrain(Ignore(m)) \in Done
  BY <1>11, Ignored, LookaheadThenDrainType
<1>13. net \cup asks \in SUBSET Request /\ tasks \ {t} \in SUBSET Task
  BY <1>1, <1>8
<1>14. FlowOK'
  BY <1>3, <1>12, <1>13, DoType
<1>15. NodeOK'
  BY <1>1, <1>3, <1>4, <1>v, AdoptType, NodeKept
<1>16. QED BY <1>3, <1>14, <1>15

\* The candidate is complete: it is compared with the State of this moment.
LEMMA DoneKeeps ==
    ASSUME SyncInv, NEW t \in tasks, BatchesDone(t)
    PROVE  NodeOK' /\ FlowOK' /\ UNCHANGED <<connected, events>>
<1> DEFINE m == [clear_backup(mgr) EXCEPT !.session = NoSession, !.in_progress = FALSE,
                    !.last_sync_cursor = Monus(Len(chain'), 1)]
<1>1. mgr \in Manager /\ net \in SUBSET Request /\ tasks \in SUBSET Task /\ NodeOK
  BY DEF SyncInv, FlowOK
<1>2. t \in Applying
  BY <1>1, Kinds DEF BatchesDone
<1>3. t.peer \in Peer /\ t.cand \in State
  BY <1>2, ApplyingParts
<1>4. /\ IF Heavier(t.cand, chain) THEN Adopt(t.cand, t.hist) ELSE UNCHANGED node
      /\ Do(Ignore(m), net \cup {GetState(t.peer)}, tasks \ {t})
      /\ UNCHANGED <<connected, events>>
  BY DEF BatchesDone
<1>v. t.hist < Len(t.cand)
  BY <1>2, ValidParts DEF BatchesDone
<1>5. NodeOK'
  BY <1>1, <1>3, <1>4, <1>v, AdoptType, NodeKept
<1>6. Len(chain') \in Nat
  BY <1>5, Heights DEF NodeOK
<1>7. Monus(Len(chain'), 1) \in Cursor
  BY <1>6, CursorBelow
<1>8. m \in Manager
  <2>1. clear_backup(mgr) \in Manager
    BY <1>1, Aborts
  <2>2. QED BY <1>7, <2>1 DEF Manager
<1>9. GetState(t.peer) \in Request
  BY <1>3, Heights, Requests
<1>10. net \cup {GetState(t.peer)} \in SUBSET Request /\ tasks \ {t} \in SUBSET Task
  BY <1>1, <1>9
<1>11. mgr' = m /\ net' = net \cup {GetState(t.peer)} /\ tasks' = tasks \ {t}
  BY <1>4 DEF Do, Ignore, Outcome
<1> HIDE DEF m
<1>12. FlowOK'
  BY <1>8, <1>10, <1>11 DEF FlowOK
<1>13. QED BY <1>4, <1>5, <1>12

LEMMA ReportKeeps ==
    ASSUME SyncInv, Report
    PROVE  SyncInv'
<1>1. /\ mgr \in Manager /\ net \in SUBSET Request /\ tasks \in SUBSET Task /\ NodeOK
      /\ chain \in State
  BY DEF SyncInv, FlowOK, NodeOK
<1>2. PICK t \in tasks :
          \/ FinishSyncHeadersChunk(t)
          \/ SearchFork(t) \/ AnnounceFork(t) \/ RebuildState(t) \/ LocalCorruption(t)
          \/ FinishStateRebuild(t)
          \/ InvalidBatches(t) \/ BatchesDone(t) \/ MoreBatches(t)
  BY DEF Report
<1>3. t \in Task /\ tasks \ {t} \in SUBSET Task /\ UNCHANGED peers
  BY <1>1 DEF Report
<1>4. SUFFICES NodeOK' /\ FlowOK' /\ connected' \subseteq Peer /\ UNCHANGED events
  BY <1>3 DEF SyncInv
<1>5. CASE FinishSyncHeadersChunk(t)
  <2> DEFINE o == process_verified_headers_chunk(mgr, chain, t.peer, t.run)
  <2>1. Do(o, net, tasks \ {t}) /\ UNCHANGED <<node, connected, events>> /\ t.kind = "headers"
    BY <1>5 DEF FinishSyncHeadersChunk
  <2>2. o \in Done
    BY <1>1, <1>3, <2>1, Kinds, VerifiedType
  <2> HIDE DEF o
  <2>3. FlowOK' /\ NodeOK'
    BY <1>1, <1>3, <2>1, <2>2, DoType, NodeKept
  <2>4. QED BY <2>1, <2>3 DEF SyncInv
<1>6. CASE SearchFork(t) \/ RebuildState(t)
  BY <1>6, SearchKeeps DEF SyncInv
<1>7. CASE AnnounceFork(t)
  <2> DEFINE o == process_state_rebuild(mgr, chain, t)
             t1 == [t EXCEPT !.step = "rebuild"]
  <2>1. /\ Do(o, net, (tasks \ {t}) \cup {t1}) /\ UNCHANGED <<node, connected, events>>
        /\ t.kind = "rebuild" /\ t.step = "announce"
    BY <1>7 DEF AnnounceFork
  <2>2. t \in Rebuilding /\ t.fork > 0
    BY <1>3, <2>1, Kinds, RebuildParts
  <2>3. o \in Done
    BY <1>1, <2>2, RebuildType
  <2>4. t1 \in Rebuilding
    BY <2>2 DEF Rebuilding
  <2> HIDE DEF o, t1
  <2>5. (tasks \ {t}) \cup {t1} \in SUBSET Task
    BY <1>3, <2>4 DEF Task
  <2>6. FlowOK' /\ NodeOK'
    BY <1>1, <2>1, <2>3, <2>5, DoType, NodeKept
  <2>7. QED BY <2>1, <2>6 DEF SyncInv
<1>8. CASE LocalCorruption(t)
  BY <1>8, CorruptionKeeps DEF LocalCorruption, SyncInv
<1>9. CASE FinishStateRebuild(t)
  <2> DEFINE o == process_state_rebuild(mgr, chain, t)
  <2>1. /\ Do(o, net, tasks \ {t}) /\ UNCHANGED <<node, connected, events>> /\ t.kind = "rebuild"
    BY <1>9 DEF FinishStateRebuild
  <2>2. o \in Done
    BY <1>1, <1>3, <2>1, Kinds, RebuildType
  <2> HIDE DEF o
  <2>3. FlowOK' /\ NodeOK'
    BY <1>1, <1>3, <2>1, <2>2, DoType, NodeKept
  <2>4. QED BY <2>1, <2>3 DEF SyncInv
<1>10. CASE InvalidBatches(t)
  <2> DEFINE m == [abort(mgr) EXCEPT !.last_sync_cursor = Monus(t.cursor, 1)]
  <2>1. /\ Do(Ignore(m), {r \in net : r.peer # t.peer}, tasks \ {t})
        /\ connected' = connected \ {t.peer} /\ UNCHANGED <<node, events>> /\ t.kind = "batches"
    BY <1>10 DEF InvalidBatches
  <2>2. t.cursor \in Nat
    BY <1>3, <2>1, Kinds, ApplyingParts
  <2>3. Ignore(m) \in Done
    BY <1>1, <2>2, CursorBelow, Aborts, Ignored
  <2>4. {r \in net : r.peer # t.peer} \in SUBSET Request
    BY <1>1
  <2> HIDE DEF m
  <2>5. FlowOK' /\ NodeOK'
    BY <1>1, <1>3, <2>1, <2>3, <2>4, DoType, NodeKept
  <2>6. QED BY <2>1, <2>5 DEF SyncInv
<1>11. CASE BatchesDone(t)
  BY <1>11, DoneKeeps DEF SyncInv
<1>12. CASE MoreBatches(t)
  BY <1>12, MoreKeeps DEF SyncInv
<1>13. QED BY <1>2, <1>5, <1>6, <1>7, <1>8, <1>9, <1>10, <1>11, <1>12

\* One more of the counted events.
LEMMA Counted ==
    ASSUME SyncInv, events < MaxEvents, events' = events + 1
    PROVE  events' \in 0..MaxEvents
BY Limits DEF SyncInv

\* Failures, and whatever else happens around the session.
LEMMA FailureKeeps ==
    ASSUME SyncInv,
           \/ BadPeer
           \/ \E p \in Peer : PeerDisconnected(p) \/ PeerConnected(p)
           \/ \E r \in net : RequestFailed(r) \/ Unanswered(r)
           \/ sync_timeout \/ sync_poll \/ Restart
    PROVE  SyncInv'
<1>1. mgr \in Manager /\ net \in SUBSET Request /\ tasks \in SUBSET Task /\ NodeOK
  BY DEF SyncInv, FlowOK
<1>2. connected \subseteq Peer
  BY DEF SyncInv
<1>3. \A p : {r \in net : r.peer # p} \in SUBSET Request
  BY <1>1
<1>4. \A p \in Peer : GetState(p) \in Request
  BY Heights, Requests
<1>5. ASSUME NodeOK', FlowOK', connected' \subseteq Peer, UNCHANGED peers, events' \in 0..MaxEvents
      PROVE  SyncInv'
  BY <1>5 DEF SyncInv
<1>6. CASE BadPeer
  <2>1. PICK t \in tasks : Rejected(t)
    BY <1>6 DEF BadPeer
  <2>2. /\ events < MaxEvents /\ events' = events + 1 /\ tasks' = tasks \ {t}
        /\ connected' = connected \ {t.peer} /\ net' = {r \in net : r.peer # t.peer}
        /\ UNCHANGED node
        /\ \/ mgr' = abort(mgr)
           \/ mgr' = [abort(clear_backup(mgr)) EXCEPT !.last_sync_cursor = NoCursor]
    BY <2>1 DEF Rejected
  <2>3. mgr' \in Manager
    BY <1>1, <2>2, Aborts, NoCursorType
  <2>4. FlowOK'
    BY <1>1, <1>3, <2>2, <2>3 DEF FlowOK
  <2>5. QED BY <1>1, <1>2, <1>5, <1>6, <2>2, <2>4, NodeKept, Counted DEF BadPeer
<1>7. ASSUME NEW p \in Peer, PeerDisconnected(p) PROVE SyncInv'
  <2> DEFINE o == IF IsSyncPeer(mgr, p) THEN Ignore(abort(mgr)) ELSE fire_batch_lookahead(mgr)
  <2>1. /\ events < MaxEvents /\ events' = events + 1 /\ connected' = connected \ {p}
        /\ Do(o, {r \in net : r.peer # p}, tasks) /\ UNCHANGED <<node, peers>>
    BY <1>7 DEF PeerDisconnected
  <2>2. o \in Done
    BY <1>1, Aborts, Ignored, LookaheadType
  <2> HIDE DEF o
  <2>3. FlowOK'
    BY <1>1, <1>3, <2>1, <2>2, DoType
  <2>4. QED BY <1>1, <1>2, <1>5, <2>1, <2>3, NodeKept, Counted
<1>8. ASSUME NEW p \in Peer, PeerConnected(p) PROVE SyncInv'
  <2>1. /\ connected' = connected \cup {p} /\ net' = net \cup {GetState(p)}
        /\ UNCHANGED <<node, peers, mgr, tasks, events>>
    BY <1>8 DEF PeerConnected
  <2>2. FlowOK'
    BY <1>1, <1>4, <2>1 DEF FlowOK
  <2>3. QED BY <1>1, <1>2, <1>5, <2>1, <2>2, NodeKept DEF SyncInv
<1>9. ASSUME NEW r \in net, RequestFailed(r) PROVE SyncInv'
  <2> DEFINE m == IF IsSyncPeer(mgr, r.peer) THEN abort(mgr) ELSE mgr
  <2>1. /\ events < MaxEvents /\ events' = events + 1
        /\ Do(Ignore(m), net \ {r}, tasks) /\ UNCHANGED <<node, peers, connected>>
    BY <1>9 DEF RequestFailed
  <2>2. Ignore(m) \in Done /\ net \ {r} \in SUBSET Request
    BY <1>1, Aborts, Ignored
  <2> HIDE DEF m
  <2>3. FlowOK'
    BY <1>1, <2>1, <2>2, DoType
  <2>4. QED BY <1>1, <1>2, <1>5, <2>1, <2>3, NodeKept, Counted
<1>10. ASSUME NEW r \in net, Unanswered(r) PROVE SyncInv'
  <2>1. /\ events < MaxEvents /\ events' = events + 1 /\ net' = net \ {r}
        /\ UNCHANGED <<node, peers, connected, mgr, tasks>>
    BY <1>10 DEF Unanswered
  <2>2. FlowOK'
    BY <1>1, <2>1 DEF FlowOK
  <2>3. QED BY <1>1, <1>2, <1>5, <2>1, <2>2, NodeKept, Counted
<1>11. CASE sync_timeout
  <2>1. /\ Stalled \/ events < MaxEvents
        /\ events' = IF Stalled THEN events ELSE events + 1
        /\ connected' = connected \ {mgr.session.peer}
        /\ net' = {r \in net : r.peer # mgr.session.peer} /\ mgr' = abort(mgr)
        /\ UNCHANGED <<node, peers, tasks>>
    BY <1>11 DEF sync_timeout
  <2>2. FlowOK'
    BY <1>1, <1>3, <2>1, Aborts DEF FlowOK
  <2>3. events' \in 0..MaxEvents
    <3>1. CASE Stalled
      BY <2>1, <3>1 DEF SyncInv
    <3>2. CASE ~Stalled
      BY <2>1, <3>2, Counted
    <3>3. QED BY <3>1, <3>2
  <2>4. QED BY <1>1, <1>2, <1>5, <2>1, <2>2, <2>3, NodeKept
<1>12. CASE sync_poll
  <2>1. /\ net' = net \cup {GetState(p) : p \in connected}
        /\ UNCHANGED <<node, peers, connected, mgr, tasks, events>>
    BY <1>12 DEF sync_poll
  <2>2. net' \in SUBSET Request
    BY <1>1, <1>2, <1>4, <2>1
  <2>3. FlowOK'
    BY <1>1, <2>1, <2>2 DEF FlowOK
  <2>4. QED BY <1>1, <1>2, <1>5, <2>1, <2>3, NodeKept DEF SyncInv
<1>13. CASE Restart
  <2>1. /\ events < MaxEvents /\ events' = events + 1
        /\ mgr' = [mgr EXCEPT !.session = NoSession, !.in_progress = FALSE,
                              !.last_sync_cursor = NoCursor]
        /\ net' = {} /\ tasks' = {} /\ connected' = {} /\ UNCHANGED <<node, peers>>
    BY <1>13 DEF Restart
  <2>2. mgr' \in Manager
    BY <1>1, <2>1, NoCursorType DEF Manager
  <2>3. FlowOK'
    BY <2>1, <2>2 DEF FlowOK
  <2>4. QED BY <1>1, <1>5, <2>1, <2>3, NodeKept, Counted
<1>14. QED BY <1>6, <1>7, <1>8, <1>9, <1>10, <1>11, <1>12, <1>13

\* Blocks from elsewhere, here and at the peers.
LEMMA BlockKeeps ==
    ASSUME SyncInv,
           \/ \E q \in Tree : NewBatch(q)
           \/ \E p \in Peer, q \in PeerChains : PeerMoves(p, q)
    PROVE  SyncInv'
<1>1. NodeOK /\ FlowOK
  BY DEF SyncInv
<1>2. ASSUME UNCHANGED <<mgr, net, tasks>> PROVE FlowOK'
  BY <1>1, <1>2 DEF FlowOK
<1>3. ASSUME NEW q \in Tree, NewBatch(q) PROVE SyncInv'
  <2>1. /\ events < MaxEvents /\ events' = events + 1 /\ Adopt(q, Len(chain))
        /\ UNCHANGED <<peers, connected, mgr, net, tasks>>
    BY <1>3 DEF NewBatch
  <2>2. NodeOK'
    <3>1. q \in State /\ Len(chain) < Len(q)
      BY <1>3, Extended
    <3>2. QED BY <1>1, <2>1, <3>1, AdoptType
  <2>3. QED BY <1>2, <2>1, <2>2, Counted DEF SyncInv
<1>4. ASSUME NEW p \in Peer, NEW q \in PeerChains, PeerMoves(p, q) PROVE SyncInv'
  <2>1. /\ events < MaxEvents /\ events' = events + 1 /\ peers' = [peers EXCEPT ![p] = q]
        /\ UNCHANGED <<node, connected, mgr, net, tasks>>
    BY <1>4 DEF PeerMoves
  <2>2. peers' \in [Peer -> Tree]
    BY <2>1, SyncAssumption DEF SyncInv
  <2>3. QED BY <1>1, <1>2, <2>1, <2>2, NodeKept, Counted DEF SyncInv
<1>5. QED BY <1>3, <1>4

LEMMA SyncInit ==
    ASSUME Init
    PROVE  SyncInv
<1>1. NodeOK
  <2>1. PICK c \in OwnChains : chain = c[1] /\ store = c[2]
    BY DEF Init
  <2>2. /\ c[1] \in Tree /\ c[2] \in Seq(Tree) /\ Len(c[2]) = Len(c[1])
        /\ c[2][Len(c[2])] = c[1]
    BY SyncAssumption DEF Last
  <2>3. c[2] \in Seq(State)
    BY <2>2 DEF State
  <2>4. Len(c[1]) \in Nat
    BY <2>2, Heights DEF State
  <2>5. QED BY <2>1, <2>2, <2>3, <2>4 DEF NodeOK, State
<1>2. mgr \in Manager
  BY NoCursorType DEF Init, Manager
<1>3. peers \in [Peer -> Tree]
  BY SyncAssumption DEF Init
<1>4. events \in 0..MaxEvents
  BY Limits DEF Init
<1>5. QED BY <1>1, <1>2, <1>3, <1>4 DEF Init, SyncInv, FlowOK

LEMMA SyncSound ==
    ASSUME SyncInv
    PROVE  SessionSound
<1>1. mgr \in Manager /\ net \in SUBSET Request /\ tasks \in SUBSET Task
  BY DEF SyncInv, FlowOK
<1>2. Held \subseteq Session
  <2>1. ASSUME NEW s \in Held PROVE s \in Session
    <3>1. s.pipe \in Seq(Chunk) /\ s.buffer \in SUBSET Chunk
      BY DEF Held
    <3>2. s.pipe \in Seq(Runs) /\ s.buffer \in SUBSET Runs
      BY <3>1 DEF Chunk
    <3>3. QED BY <3>2 DEF Held, Session
  <2>2. QED BY <2>1
<1>3. /\ mgr.session = NoSession \/ mgr.session \in Session
      /\ mgr.in_progress \in BOOLEAN /\ mgr.last_sync_cursor \in Nat \cup {NoCursor}
      /\ mgr.backup.headers \in Runs
  BY <1>1, <1>2, ManagerParts DEF Cursor
<1>4. mgr.backup.cursor \in Nat \cup {NoCursor}
  BY <1>1, ManagerParts DEF NoBackup
<1>5. \A r \in net : /\ r.peer \in Peer /\ r.start \in Height /\ r.count \in Nat
                     /\ r.count <= IF r.kind = "headers" THEN MAX_GETHEADERS_COUNT
                                   ELSE MAX_GETBATCHES_COUNT
  BY <1>1 DEF Request, Limit
<1>6. TypeOK
  BY <1>3, <1>4, <1>5 DEF TypeOK, SyncInv, NodeOK
<1>7. AppliedFollowsHeaders
  <2>1. ASSUME NEW t \in tasks, t.kind = "batches", t.valid
        PROVE  t.cursor <= Len(t.headers.to) /\ t.cand = StateAt(t.headers.to, t.cursor)
    <3>1. Follows(t)
      BY <1>1, <2>1, Kinds DEF Applying
    <3>2. QED BY <2>1, <3>1 DEF Follows
  <2>2. QED BY <2>1 DEF AppliedFollowsHeaders
<1>8. QED BY <1>6, <1>7 DEF SessionSound

-----------------------------------------------------------------------------
(***************************************************************************)
(* What replaces the State.                                                *)
(***************************************************************************)
\* The State that LocalCorruption rolls back to: the disk cannot produce more, and if it
\* can produce the State that is there, it produces it on the way to this one.
LEMMA RolledBack ==
    ASSUME SyncInv, NEW t \in tasks, LocalCorruption(t), chain' # chain, Replays(store, Len(chain))
    PROVE  Heavier(chain', chain)
<1>1. tasks \in SUBSET Task /\ store \in Seq(State) /\ chain \in State
  BY DEF SyncInv, FlowOK, NodeOK
<1>2. t.fork \in Nat
  BY <1>1, Kinds, RebuildParts DEF LocalCorruption
<1>3. PICK n \in 1..t.fork : Replays(store, n) /\ ~Replays(store, n + 1) /\ chain' = store[n]
  BY DEF LocalCorruption
<1>4. n \in Nat /\ n > 0 /\ n <= Len(store) /\ Len(chain) \in Nat
  BY <1>1, <1>2, <1>3, Heights DEF Replays
<1>5. store[n] \in State /\ Len(store[n]) = n
  BY <1>1, <1>3, <1>4 DEF Replays
<1>6. Len(chain) <= n
  <2>1. n + 1 \in Nat /\ (n + 1 <= Len(chain) \/ Len(chain) <= n)
    BY <1>4
  <2>2. QED BY <1>1, <1>3, <1>4, <2>1, ReplaysBelow
<1>7. chain = StateAt(store[n], Len(chain))
  <2>1. CASE chain = <<>>
    <3>1. Len(chain) = 0
      BY <2>1
    <3>2. StateAt(store[n], 0) = <<>>
      BY SubSeqEmpty DEF StateAt
    <3>3. QED BY <2>1, <3>1, <3>2
  <2>2. CASE chain # <<>>
    <3>1. store[Len(chain)] = chain
      BY <2>2 DEF SyncInv, NodeOK
    <3>2. chain \in Seq(Nat)
      BY <1>1, Heights
    <3>3. Len(chain) \in 1..n
      BY <1>4, <1>6, <2>2, <3>2
    <3>4. store[Len(chain)] = StateAt(store[n], Len(chain))
      BY <1>3, <3>3 DEF Replays
    <3>5. QED BY <3>1, <3>4
  <2>3. QED BY <2>1, <2>2
<1>8. Len(chain) # n
  BY <1>3, <1>5, <1>7, WholePath
<1>9. Len(chain) < Len(store[n])
  BY <1>4, <1>5, <1>6, <1>8
<1>10. Heavier(store[n], StateAt(store[n], Len(chain)))
  BY <1>4, <1>5, <1>9, HeavierExtends
<1>11. QED BY <1>3, <1>7, <1>10

LEMMA AdoptionStep ==
    ASSUME SyncInv, Next, chain' # chain
    PROVE  Heavier(chain', chain) \/ ~Replays(store, Len(chain))
<1>1. chain \in State
  BY DEF SyncInv, NodeOK
<1>2. ASSUME UNCHANGED node PROVE FALSE
  BY <1>2 DEF node
<1>3. CASE Deliver
  <2>1. PICK r \in net :
            \/ StateInfo(r) \/ Headers(r) \/ SyncBatches(r) \/ handle_batches_response(r)
            \/ SendFails(r)
    BY <1>3 DEF Deliver
  <2>2. handle_batches_response(r)
    BY <1>2, <2>1 DEF StateInfo, Headers, SyncBatches, SendFails
  <2>3. \/ UNCHANGED node
        \/ Heavier(Served(r).to, chain) /\ chain' = Served(r).to
    BY <2>2 DEF handle_batches_response, Adopt
  <2>4. QED BY <1>2, <2>3
<1>4. CASE Report
  <2>1. PICK t \in tasks :
            \/ FinishSyncHeadersChunk(t)
            \/ SearchFork(t) \/ AnnounceFork(t) \/ RebuildState(t) \/ LocalCorruption(t)
            \/ FinishStateRebuild(t)
            \/ InvalidBatches(t) \/ BatchesDone(t) \/ MoreBatches(t)
    BY <1>4 DEF Report
  <2>2. CASE \/ FinishSyncHeadersChunk(t) \/ SearchFork(t) \/ AnnounceFork(t) \/ RebuildState(t)
             \/ FinishStateRebuild(t) \/ InvalidBatches(t)
    BY <1>2, <2>2 DEF FinishSyncHeadersChunk, SearchFork, AnnounceFork, RebuildState,
                      FinishStateRebuild, InvalidBatches
  <2>3. CASE LocalCorruption(t)
    BY <2>3, RolledBack
  <2>4. CASE BatchesDone(t)
    <3>1. UNCHANGED node \/ (Heavier(t.cand, chain) /\ chain' = t.cand)
      BY <2>4 DEF BatchesDone, Adopt
    <3>2. QED BY <1>2, <3>1
  <2>5. CASE MoreBatches(t)
    <3>1. UNCHANGED node \/ (Depth(t.cand) > Depth(chain) /\ chain' = t.cand)
      BY <2>5 DEF MoreBatches, Adopt
    <3>2. QED BY <1>2, <3>1 DEF Heavier
  <2>6. QED BY <2>1, <2>2, <2>3, <2>4, <2>5
<1>5. CASE \/ BadPeer
           \/ \E p \in Peer : PeerDisconnected(p) \/ PeerConnected(p)
           \/ \E r \in net : RequestFailed(r) \/ Unanswered(r)
           \/ sync_timeout \/ sync_poll \/ Restart
           \/ \E p \in Peer, q \in PeerChains : PeerMoves(p, q)
  BY <1>2, <1>5 DEF BadPeer, Rejected, PeerDisconnected, PeerConnected, RequestFailed, Unanswered,
                    sync_timeout, sync_poll, Restart, PeerMoves
<1>6. ASSUME NEW q \in Tree, NewBatch(q) PROVE Heavier(chain', chain)
  <2>1. chain' = q
    BY <1>6 DEF NewBatch, Adopt
  <2>2. /\ q \in State /\ Len(chain) < Len(q) /\ Len(chain) \in Nat /\ Len(q) \in Nat
        /\ chain = StateAt(q, Len(chain))
    BY <1>6, Extended, Heights
  <2>3. Heavier(q, StateAt(q, Len(chain)))
    BY <2>2, HeavierExtends
  <2>4. QED BY <2>1, <2>2, <2>3
<1>7. QED BY <1>3, <1>4, <1>5, <1>6 DEF Next

LEMMA SyncStep ==
    ASSUME SyncInv, [Next]_vars
    PROVE  SyncInv'
<1>1. CASE Deliver
  BY <1>1, DeliverKeeps
<1>2. CASE Report
  BY <1>2, ReportKeeps
<1>3. CASE \/ BadPeer
           \/ \E p \in Peer : PeerDisconnected(p) \/ PeerConnected(p)
           \/ \E r \in net : RequestFailed(r) \/ Unanswered(r)
           \/ sync_timeout \/ sync_poll \/ Restart
  BY <1>3, FailureKeeps
<1>4. CASE \/ \E q \in Tree : NewBatch(q)
           \/ \E p \in Peer, q \in PeerChains : PeerMoves(p, q)
  BY <1>4, BlockKeeps
<1>5. CASE UNCHANGED vars
  BY <1>5 DEF vars, SyncInv, NodeOK, FlowOK
<1>6. QED BY <1>1, <1>2, <1>3, <1>4, <1>5 DEF Next

\* Whatever answers and reports come late, out of order, twice or not at all, and whatever
\* sessions they find, the sync manager stays well formed, no request exceeds a message, and
\* a candidate that process_verified_batches_chunk may adopt is the path its own verified
\* headers announce, up to its cursor (SessionSound).
THEOREM SessionCorrect == Spec => []SessionSound
<1>1. Init => SyncInv
  BY SyncInit
<1>2. SyncInv /\ [Next]_vars => SyncInv'
  BY SyncStep
<1>3. SyncInv => SessionSound
  BY SyncSound
<1>4. QED BY <1>1, <1>2, <1>3, PTL DEF Spec

\* However old the State was that a candidate was started from, and whichever handler puts it
\* in place (process_verified_batches_chunk, its checkpoint flush, handle_batches_response, a
\* new batch, the roll-back after local corruption), the State is replaced only by one with
\* more work, unless the disk cannot produce it any more (OnlyHeavierAdopted).
THEOREM AdoptionCorrect == Spec => OnlyHeavierAdopted
<1>1. Init => SyncInv
  BY SyncInit
<1>2. SyncInv /\ [Next]_vars => SyncInv'
  BY SyncStep
<1>3. SyncInv /\ [Next]_vars => [chain' # chain => Heavier(chain', chain) \/ ~Replays(store, Len(chain))]_vars
  BY AdoptionStep
<1>4. QED BY <1>1, <1>2, <1>3, PTL DEF Spec, OnlyHeavierAdopted

=============================================================================
