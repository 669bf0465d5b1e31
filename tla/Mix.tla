-------------------------------- MODULE Mix --------------------------------
(***************************************************************************)
(* CoinJoin mixing: the session table every node keeps (mix.rs over        *)
(* wallet/coinjoin.rs), the messages between a coordinator and its joiners *)
(* (node.rs), and the command-line wallet that drives one node through RPC *)
(* (main.rs wallet_mix and wallet_automix).                                *)
(*                                                                         *)
(* Every node has one command-line wallet and may have a fee donor, an RPC *)
(* client that offers a coin and signs for it.  A commitment stands for    *)
(* the mix it belongs to (the coordinator's random salt), its inputs and   *)
(* its outputs.  Time is counted per session, in units the constants fix.  *)
(***************************************************************************)
EXTENDS Naturals, FiniteSets

CONSTANTS
    Nodes, Mixes,
    MaxSessions,      \* MAX_MIX_SESSIONS
    MinParticipants,  \* MIN_MIX_PARTICIPANTS
    MaxParticipants,  \* MAX_MIX_PARTICIPANTS
    FeeWorth,         \* participants a donor's coin pays for
    SignLimit,        \* 60 s in the Signing phase
    KeepFor,          \* 30 s an ended session is still shown
    SessionLimit,     \* MIX_SESSION_TIMEOUT
    Scenes,           \* who takes part, and how often each event may happen
    NoOne

VARIABLES
    sess,      \* MixManager.sessions, one table per node
    banned,    \* MixManager.banned_peers
    msgs,      \* mix messages on their way
    job,       \* the wallet_mix call of each node's command line
    purse,     \* coins each wallet file holds
    marked,    \* coins whose wots_signed flag is saved
    signed,    \* every signature ever made, with what it signs
    pending,   \* pending_mix_reveals of each node
    pool,      \* commitments and reveals the mempool holds
    chain,     \* commitments and reveals mined
    scene, count

vars == <<sess, banned, msgs, job, purse, marked, signed, pending, pool, chain, scene, count>>

-----------------------------------------------------------------------------
(* Coins, outputs, commitments *)

MixCoin(n) == <<n, "mix">>
FeeCoin(n) == <<n, "fee">>        \* the value-1 coin a wallet offers
DonorCoin(n) == <<n, "donor">>    \* a donor's larger coin
Coins == Nodes \X {"mix", "fee", "donor"}
Output(n, m) == <<n, m>>

\* recommended_fee_for_mix: what a fee coin is worth against what n
\* participants need.  A value-1 coin never pays for the smallest mix.
PaysFor(coin, n) == coin[2] = "donor" /\ n <= FeeWorth

Spent == UNION {c.inputs : c \in chain.reveals}
Live(coin) == coin \notin Spent

-----------------------------------------------------------------------------
(* MixSession and NodeMixSession *)

NoSession == [phase |-> "none"]
NoProposal == [mix |-> NoOne]

NewSession(coordinator) ==
    [phase |-> "Collecting", coordinator |-> coordinator, regs |-> {}, fee |-> {},
     proposal |-> NoProposal, sigs |-> {}, age |-> 0, phaseAge |-> 0]

Exists(n, m) == sess[n][m] # NoSession
Coordinates(n, m) == Exists(n, m) /\ sess[n][m].coordinator = n
HasRoom(n) == Cardinality({m \in Mixes : Exists(n, m)}) < MaxSessions

\* create_session, create_joining_session: the session's clock starts here,
\* and so does the clock of its phase.
SessionsWith(n, m, coordinator) == [sess EXCEPT ![n][m] = NewSession(coordinator)]

\* MixManager::register over MixSession::register; peer is the node itself
\* for a registration that came by RPC.
CanRegister(n, m, coin, peer) ==
    /\ peer \notin banned[n]
    /\ Exists(n, m)
    /\ sess[n][m].phase = "Collecting"
    /\ Cardinality(sess[n][m].regs) < MaxParticipants
    /\ \A r \in sess[n][m].regs : r.coin # coin

WithReg(s, coin, out, peer) ==
    [s EXCEPT !.regs = @ \cup {[coin |-> coin, out |-> out, peer |-> peer]}]

\* MixManager::set_fee_input over MixSession::set_fee_input.
CanSetFee(n, m, coin, peer) ==
    /\ peer \notin banned[n]
    /\ Exists(n, m)
    /\ sess[n][m].phase = "Collecting"
    /\ sess[n][m].fee = {}
    /\ \A r \in sess[n][m].regs : r.coin # coin
    /\ PaysFor(coin, Cardinality(sess[n][m].regs))

WithFee(s, coin, peer) == [s EXCEPT !.fee = {[coin |-> coin, peer |-> peer]}]

\* MixSession::is_ready.
IsReady(s) == Cardinality(s.regs) >= MinParticipants /\ s.fee # {}

\* MixSession::proposal: the fee is checked again, against the final number.
FeeSuffices(s) == \A f \in s.fee : PaysFor(f.coin, Cardinality(s.regs))
ProposalOf(m, s) ==
    [mix |-> m, inputs |-> {r.coin : r \in s.regs} \cup {f.coin : f \in s.fee},
     outs |-> {r.out : r \in s.regs}]

\* MixManager::try_finalize.
Finalizes(s) == s.phase = "Collecting" /\ IsReady(s) /\ FeeSuffices(s)
Finalized(m, s) ==
    IF Finalizes(s)
    THEN [s EXCEPT !.proposal = ProposalOf(m, s), !.phase = "Signing", !.phaseAge = 0]
    ELSE s

\* remote_participants, and the proposal each of them is sent.
RemoteParticipants(n, s) == ({r.peer : r \in s.regs} \cup {f.peer : f \in s.fee}) \ {n}
Proposals(n, m, s) ==
    IF Finalizes(s)
    THEN {[t |-> "proposal", from |-> n, to |-> p, mix |-> m, com |-> ProposalOf(m, s)] :
              p \in RemoteParticipants(n, s)}
    ELSE {}

\* The node takes s for session m and, as its coordinator, tries to finalize.
Advance(n, m, s, sent, got) ==
    /\ sess' = [sess EXCEPT ![n][m] = IF s.coordinator = n THEN Finalized(m, s) ELSE s]
    /\ msgs' = (msgs \ got) \cup sent \cup
                   (IF s.coordinator = n THEN Proposals(n, m, s) ELSE {})

\* What mix_register and mix_set_fee send when this node only joins: the
\* coordinator hears of it once the proof of work is found.
JoinSent(n, m) ==
    {[t |-> "join", from |-> n, to |-> p, mix |-> m, coin |-> MixCoin(n), out |-> Output(n, m)] :
        p \in {sess[n][m].coordinator} \ {n}}
FeeSent(n, m, coin) ==
    {[t |-> "fee", from |-> n, to |-> p, mix |-> m, coin |-> coin] :
        p \in {sess[n][m].coordinator} \ {n}}

\* MixManager::add_signature: the index is in range and the script accepts
\* the signature, that is, it signs this proposal.
CanSign(n, m, coin, com) ==
    /\ Exists(n, m)
    /\ sess[n][m].phase = "Signing"
    /\ coin \in sess[n][m].proposal.inputs
    /\ com = sess[n][m].proposal

WithSig(s, coin) == [s EXCEPT !.sigs = @ \cup {coin}]

\* try_build_transaction, build_reveal: every input is signed.
Complete(s) == s.phase = "Signing" /\ s.sigs = s.proposal.inputs

-----------------------------------------------------------------------------
(* Initial state *)

NoJob == [stage |-> "idle"]

Init ==
    /\ scene \in Scenes
    /\ count = [e \in DOMAIN scene.bound |-> 0]
    /\ sess = [n \in Nodes |-> [m \in Mixes |-> NoSession]]
    /\ banned = [n \in Nodes |-> {}]
    /\ msgs = {}
    /\ job = [n \in Nodes |-> NoJob]
    /\ purse = [n \in Nodes |-> {MixCoin(n), FeeCoin(n)}]
    /\ marked = {}
    /\ signed = {}
    /\ pending = [n \in Nodes |-> {}]
    /\ pool = [commits |-> {}, reveals |-> {}]
    /\ chain = [commits |-> {}, reveals |-> {}]

\* The event is allowed by the scene once more.
Happens(e) == count[e] < scene.bound[e] /\ count' = [count EXCEPT ![e] = @ + 1]

-----------------------------------------------------------------------------
(* The command line: wallet_mix, one RPC call at a time *)

Stage(n, stage) == job[n].stage = stage
To(n, stage) == job' = [job EXCEPT ![n].stage = stage]
GiveUp(n) == job' = [job EXCEPT ![n] = NoJob]

\* Mutant: coins that have signed are picked again.
Selectable_signed(n) == MixCoin(n) \in purse[n] /\ Live(MixCoin(n))

Selectable(n) ==
    /\ MixCoin(n) \in purse[n]
    /\ Live(MixCoin(n))
    /\ scene.auto => MixCoin(n) \notin marked
Fresh(m) ==
    /\ \A n \in Nodes : ~Exists(n, m) /\ ("mix" \in DOMAIN job[n] => job[n].mix # m)
    /\ \A x \in msgs : x.mix # m
    /\ \A s \in signed : s.com.mix # m

\* A new session: mix_create announces it to every connected peer.
StartNew(n, m) ==
    /\ n \in scene.creators /\ m \in scene.mixes /\ Stage(n, "idle") /\ Selectable(n)
    /\ Fresh(m) /\ HasRoom(n)
    /\ Happens("start")
    /\ sess' = SessionsWith(n, m, n)
    /\ msgs' = msgs \cup {[t |-> "announce", from |-> n, to |-> p, mix |-> m] : p \in scene.nodes \ {n}}
    /\ job' = [job EXCEPT ![n] = [stage |-> "register", mix |-> m]]
    /\ UNCHANGED <<banned, purse, marked, signed, pending, pool, chain, scene>>

\* A session of the node's list, still collecting when it was listed
\* (automix) or named by the user; registering comes later.
StartJoin(n, m) ==
    /\ Stage(n, "idle") /\ Selectable(n)
    /\ Exists(n, m) /\ ~Coordinates(n, m)
    /\ sess[n][m].phase = "Collecting"
    /\ Happens("start")
    /\ job' = [job EXCEPT ![n] = [stage |-> "register", mix |-> m]]
    /\ UNCHANGED <<sess, banned, msgs, purse, marked, signed, pending, pool, chain, scene>>

\* prepare_mix_registration takes a fresh output key that lives in this
\* process only; mix_register records the pair and, on a joining node, sends
\* it to the coordinator once the proof of work is found.
Register(n) ==
    LET m == job[n].mix IN
    /\ Stage(n, "register")
    /\ \/ /\ CanRegister(n, m, MixCoin(n), n) /\ Live(MixCoin(n))
          /\ Advance(n, m, WithReg(sess[n][m], MixCoin(n), Output(n, m), n),
                     JoinSent(n, m), {})
          /\ To(n, IF n \in scene.payers THEN "fee" ELSE "waiting")
       \/ /\ ~(CanRegister(n, m, MixCoin(n), n) /\ Live(MixCoin(n)))
          /\ GiveUp(n)
          /\ UNCHANGED <<sess, msgs>>
    /\ UNCHANGED <<banned, purse, marked, signed, pending, pool, chain, scene, count>>

\* prepare_mix_fee offers a value-1 coin, which set_fee_input refuses for
\* its value; the call ends and the registration stays behind.
PayFee(n) ==
    LET m == job[n].mix IN
    /\ Stage(n, "fee")
    /\ IF CanSetFee(n, m, FeeCoin(n), n)
       THEN /\ Advance(n, m, WithFee(sess[n][m], FeeCoin(n), n),
                       FeeSent(n, m, FeeCoin(n)), {})
            /\ To(n, "waiting")
       ELSE GiveUp(n) /\ UNCHANGED <<sess, msgs>>
    /\ UNCHANGED <<banned, purse, marked, signed, pending, pool, chain, scene, count>>

\* The status poll before signing: the commitment of the snapshot is kept.
AwaitSigning(n) ==
    LET m == job[n].mix IN
    /\ Stage(n, "waiting")
    /\ \/ /\ Exists(n, m) /\ sess[n][m].phase \notin {"Collecting", "Failed"}
          /\ job' = [job EXCEPT ![n] = [stage |-> "sign", mix |-> m, com |-> sess[n][m].proposal]]
       \/ /\ ~Exists(n, m) \/ sess[n][m].phase = "Failed"
          /\ GiveUp(n)
    /\ UNCHANGED <<sess, banned, msgs, purse, marked, signed, pending, pool, chain, scene, count>>

\* The coordinator's last signature submits the commitment; the session is
\* CommitSubmitted first, and Failed again if the mempool refuses it.
Submit(n, m, s) ==
    \/ /\ pool' = [pool EXCEPT !.commits = @ \cup {s.proposal}]
       /\ pending' = [pending EXCEPT ![n] = @ \cup {s.proposal}]
       /\ sess' = [sess EXCEPT ![n][m] = [s EXCEPT !.phase = "CommitSubmitted"]]
       /\ UNCHANGED count
    \/ /\ Happens("refusal")
       /\ sess' = [sess EXCEPT ![n][m] = [s EXCEPT !.phase = "Failed"]]
       /\ UNCHANGED <<pool, pending>>

\* mix_sign: the signature is recorded here, and sent on by a joiner.
RecordSign(n, m, coin, com, got) ==
    LET s == WithSig(sess[n][m], coin) IN
    /\ msgs' = (msgs \ got) \cup
               {[t |-> "sign", from |-> n, to |-> p, mix |-> m, coin |-> coin, com |-> com] :
                    p \in {s.coordinator} \ {n}}
    /\ IF s.coordinator = n /\ Complete(s)
       THEN Submit(n, m, s)
       ELSE sess' = [sess EXCEPT ![n][m] = s] /\ UNCHANGED <<pool, pending, count>>

\* sign_mix_input: the key signs and the mark is saved before the node is
\* asked whether the coin is in the proposal.
SignMix(n) ==
    LET m == job[n].mix
        com == job[n].com IN
    /\ Stage(n, "sign")
    /\ signed' = signed \cup {[by |-> n, coin |-> MixCoin(n), com |-> com]}
    /\ marked' = marked \cup {MixCoin(n)}
    /\ IF CanSign(n, m, MixCoin(n), com)
       THEN RecordSign(n, m, MixCoin(n), com, {}) /\ To(n, "confirming")
       ELSE GiveUp(n) /\ UNCHANGED <<sess, msgs, pool, pending, count>>
    /\ UNCHANGED <<banned, purse, chain, scene>>

\* The status poll after signing; complete_mix runs on "complete" only.
AwaitComplete(n) ==
    LET m == job[n].mix IN
    /\ Stage(n, "confirming")
    /\ \/ /\ Exists(n, m) /\ sess[n][m].phase = "Complete"
          /\ purse' = [purse EXCEPT ![n] = (@ \ {MixCoin(n)}) \cup {Output(n, m)}]
       \/ /\ ~Exists(n, m) \/ sess[n][m].phase = "Failed"
          /\ UNCHANGED purse
    /\ GiveUp(n)
    /\ UNCHANGED <<sess, banned, msgs, marked, signed, pending, pool, chain, scene, count>>

\* --timeout, in either waiting loop.
Deadline(n) ==
    /\ scene.clock
    /\ job[n].stage \in {"waiting", "confirming"}
    /\ GiveUp(n)
    /\ UNCHANGED <<sess, banned, msgs, purse, marked, signed, pending, pool, chain, scene, count>>

-----------------------------------------------------------------------------
(* The fee donor, another RPC client of the node *)

DonorPays(n, m) ==
    /\ n \in scene.donors
    /\ CanSetFee(n, m, DonorCoin(n), n) /\ Live(DonorCoin(n))
    /\ Advance(n, m, WithFee(sess[n][m], DonorCoin(n), n),
               FeeSent(n, m, DonorCoin(n)), {})
    /\ UNCHANGED <<banned, job, purse, marked, signed, pending, pool, chain, scene, count>>

DonorSigns(n, m) ==
    /\ n \in scene.donors
    /\ CanSign(n, m, DonorCoin(n), sess[n][m].proposal)
    /\ DonorCoin(n) \notin sess[n][m].sigs
    /\ \A s \in signed : s.coin = DonorCoin(n) => s.com = sess[n][m].proposal
    /\ signed' = signed \cup {[by |-> n, coin |-> DonorCoin(n), com |-> sess[n][m].proposal]}
    /\ RecordSign(n, m, DonorCoin(n), sess[n][m].proposal, {})
    /\ UNCHANGED <<banned, job, purse, marked, chain, scene>>

-----------------------------------------------------------------------------
(* Messages *)

\* MixAnnounce: refused when the session is known or the table is full.
OnAnnounce(x) ==
    /\ x.t = "announce"
    /\ msgs' = msgs \ {x}
    /\ sess' = IF ~Exists(x.to, x.mix) /\ HasRoom(x.to)
               THEN SessionsWith(x.to, x.mix, x.from) ELSE sess
    /\ UNCHANGED <<banned, job, purse, marked, signed, pending, pool, chain, scene, count>>

\* MixJoin.
OnJoin(x) ==
    /\ x.t = "join"
    /\ IF Live(x.coin) /\ CanRegister(x.to, x.mix, x.coin, x.from)
       THEN Advance(x.to, x.mix, WithReg(sess[x.to][x.mix], x.coin, x.out, x.from), {}, {x})
       ELSE msgs' = msgs \ {x} /\ UNCHANGED sess
    /\ UNCHANGED <<banned, job, purse, marked, signed, pending, pool, chain, scene, count>>

\* MixFee.
OnFee(x) ==
    /\ x.t = "fee"
    /\ IF Live(x.coin) /\ CanSetFee(x.to, x.mix, x.coin, x.from)
       THEN Advance(x.to, x.mix, WithFee(sess[x.to][x.mix], x.coin, x.from), {}, {x})
       ELSE msgs' = msgs \ {x} /\ UNCHANGED sess
    /\ UNCHANGED <<banned, job, purse, marked, signed, pending, pool, chain, scene, count>>

\* apply_remote_proposal: every output registered by this node's own wallet
\* must be among the outputs.  The phase's clock is not restarted.
OwnOutputs(n, m) == {r.out : r \in {r \in sess[n][m].regs : r.peer = n}}
AcceptsProposal(n, m, com) == Exists(n, m) /\ OwnOutputs(n, m) \subseteq com.outs

OnProposal(x) ==
    /\ x.t = "proposal"
    /\ msgs' = msgs \ {x}
    /\ sess' = IF AcceptsProposal(x.to, x.mix, x.com)
               THEN [sess EXCEPT ![x.to][x.mix].proposal = x.com,
                                 ![x.to][x.mix].phase = "Signing"]
               ELSE sess
    /\ UNCHANGED <<banned, job, purse, marked, signed, pending, pool, chain, scene, count>>

\* MixSign: a signature that does not verify bans its sender.
OnSign(x) ==
    /\ x.t = "sign"
    /\ IF CanSign(x.to, x.mix, x.coin, x.com)
       THEN RecordSign(x.to, x.mix, x.coin, x.com, {x}) /\ UNCHANGED banned
       ELSE /\ msgs' = msgs \ {x}
            /\ banned' = IF /\ Exists(x.to, x.mix) /\ sess[x.to][x.mix].phase = "Signing"
                            /\ x.coin \in sess[x.to][x.mix].proposal.inputs
                         THEN [banned EXCEPT ![x.to] = @ \cup {x.from}] ELSE banned
            /\ UNCHANGED <<sess, pool, pending, count>>
    /\ UNCHANGED <<job, purse, marked, signed, chain, scene>>

Lose(x) ==
    /\ Happens("loss")
    /\ msgs' = msgs \ {x}
    /\ UNCHANGED <<sess, banned, job, purse, marked, signed, pending, pool, chain, scene>>

\* handle_peer_disconnect, on both ends of a lost connection.
Involved(s, p) ==
    \/ s.coordinator = p
    \/ \E r \in s.regs : r.peer = p
    \/ \E f \in s.fee : f.peer = p
Ended(s) == s.phase \in {"Complete", "Failed"}
AfterDisconnect(n, p) ==
    [m \in Mixes |->
        IF Exists(n, m) /\ ~Ended(sess[n][m]) /\ Involved(sess[n][m], p)
        THEN [sess[n][m] EXCEPT !.phase = "Failed"] ELSE sess[n][m]]

Disconnect(n, p) ==
    /\ n # p
    /\ Happens("disconnect")
    /\ sess' = [sess EXCEPT ![n] = AfterDisconnect(n, p), ![p] = AfterDisconnect(p, n)]
    /\ msgs' = {x \in msgs : {x.from, x.to} # {n, p}}
    /\ UNCHANGED <<banned, job, purse, marked, signed, pending, pool, chain, scene>>

-----------------------------------------------------------------------------
(* Time, cleanup, restart *)

Older(k, cap) == IF k < cap THEN k + 1 ELSE k
Tick ==
    /\ scene.clock
    /\ \E n \in Nodes, m \in Mixes : Exists(n, m)
    /\ sess' = [n \in Nodes |-> [m \in Mixes |->
                  IF Exists(n, m)
                  THEN [sess[n][m] EXCEPT !.age = Older(@, SessionLimit),
                                          !.phaseAge = Older(@, SignLimit + 1)]
                  ELSE NoSession]]
    /\ UNCHANGED <<banned, msgs, job, purse, marked, signed, pending, pool, chain, scene, count>>

\* MixManager::cleanup: a signing session out of time fails and names its
\* stallers; then ended sessions and sessions too old are dropped.
TimedOut(s) == s # NoSession /\ s.phase = "Signing" /\ s.phaseAge > SignLimit
Stallers(n, s) ==
    {r.peer : r \in {r \in s.regs \cup s.fee : r.coin \in s.proposal.inputs \ s.sigs}} \ {n}
Failing(s) == IF TimedOut(s) THEN [s EXCEPT !.phase = "Failed", !.phaseAge = 0] ELSE s
Kept(s) ==
    /\ s # NoSession
    /\ IF Ended(s) THEN s.phaseAge < KeepFor ELSE s.age < SessionLimit

Cleanup(n) ==
    /\ \E m \in Mixes : Exists(n, m) /\ (TimedOut(sess[n][m]) \/ ~Kept(sess[n][m]))
    /\ sess' = [sess EXCEPT ![n] = [m \in Mixes |->
                  IF Kept(Failing(sess[n][m])) THEN Failing(sess[n][m]) ELSE NoSession]]
    /\ banned' = [banned EXCEPT ![n] = @ \cup
                  UNION {Stallers(n, sess[n][m]) : m \in {m \in Mixes : TimedOut(sess[n][m])}}]
    /\ UNCHANGED <<msgs, job, purse, marked, signed, pending, pool, chain, scene, count>>

\* One cleanup in 720 forgives everybody.
Forgive(n) ==
    /\ Happens("forgive")
    /\ banned' = [banned EXCEPT ![n] = {}]
    /\ UNCHANGED <<sess, msgs, job, purse, marked, signed, pending, pool, chain, scene>>

\* Sessions, bans and reveals waiting for their commitment are in memory only.
Restart(n) ==
    /\ Happens("restart")
    /\ sess' = [sess EXCEPT ![n] = [m \in Mixes |-> NoSession]]
    /\ banned' = [banned EXCEPT ![n] = {}]
    /\ pending' = [pending EXCEPT ![n] = {}]
    /\ msgs' = {x \in msgs : n \notin {x.from, x.to}}
    /\ UNCHANGED <<job, purse, marked, signed, pool, chain, scene>>

-----------------------------------------------------------------------------
(* The chain *)

MineCommit(com) ==
    /\ com \in pool.commits
    /\ pool' = [pool EXCEPT !.commits = @ \ {com}]
    /\ chain' = [chain EXCEPT !.commits = @ \cup {com}]
    /\ UNCHANGED <<sess, banned, msgs, job, purse, marked, signed, pending, scene, count>>

\* check_pending_mix_reveals, after a block: the reveal leaves the queue and
\* is submitted; the mempool refuses it when an input is gone or claimed.
Acceptable(com) == \A c \in com.inputs : Live(c) /\ ~\E r \in pool.reveals : c \in r.inputs
RevealPhase(com) == IF Acceptable(com) THEN "Complete" ELSE "Failed"

RevealMix(n, com) ==
    /\ com \in pending[n] \cap chain.commits
    /\ pending' = [pending EXCEPT ![n] = @ \ {com}]
    /\ pool' = IF Acceptable(com) THEN [pool EXCEPT !.reveals = @ \cup {com}] ELSE pool
    /\ sess' = IF Exists(n, com.mix)
               THEN [sess EXCEPT ![n][com.mix].phase = RevealPhase(com)] ELSE sess
    /\ UNCHANGED <<banned, msgs, job, purse, marked, signed, chain, scene, count>>

MineReveal(com) ==
    /\ com \in pool.reveals
    /\ pool' = [pool EXCEPT !.reveals = @ \ {com}]
    /\ chain' = [commits |-> chain.commits \ {com}, reveals |-> chain.reveals \cup {com}]
    /\ UNCHANGED <<sess, banned, msgs, job, purse, marked, signed, pending, scene, count>>

-----------------------------------------------------------------------------

Command(n) ==
    \/ Register(n) \/ PayFee(n) \/ AwaitSigning(n) \/ SignMix(n) \/ AwaitComplete(n)
    \/ Deadline(n)

Receive(x) == OnAnnounce(x) \/ OnJoin(x) \/ OnFee(x) \/ OnProposal(x) \/ OnSign(x)

Next ==
    \/ \E n \in Nodes, m \in Mixes :
          StartNew(n, m) \/ StartJoin(n, m) \/ DonorPays(n, m) \/ DonorSigns(n, m)
    \/ \E n \in Nodes : Command(n) \/ Cleanup(n) \/ Forgive(n) \/ Restart(n)
    \/ \E x \in msgs : Receive(x) \/ Lose(x)
    \/ \E n \in Nodes, p \in Nodes : Disconnect(n, p)
    \/ Tick
    \/ \E com \in pool.commits : MineCommit(com)
    \/ \E n \in Nodes : \E com \in pending[n] : RevealMix(n, com)
    \/ \E com \in pool.reveals : MineReveal(com)

Spec == Init /\ [][Next]_vars

\* Clocks run, the cleanup timer fires, a command line that waits is woken.
FairSpec ==
    /\ Spec
    /\ WF_vars(Tick)
    /\ \A n \in Nodes : WF_vars(Cleanup(n)) /\ WF_vars(Command(n))

-----------------------------------------------------------------------------
(* Properties *)

Phases == {"Collecting", "Signing", "CommitSubmitted", "Complete", "Failed"}

\* Sessions hold the registrations their phase allows: a session that is past
\* collecting has a proposal, its signatures are of that proposal's inputs,
\* and a coordinator's proposal is built from its own registrations.
TypeOK ==
    /\ \A n \in Nodes, m \in Mixes : Exists(n, m) =>
          LET s == sess[n][m] IN
          /\ s.phase \in Phases
          /\ s.phase \in {"Signing", "CommitSubmitted", "Complete"} => s.proposal.mix = m
          /\ s.sigs # {} => s.sigs \subseteq s.proposal.inputs
          /\ Coordinates(n, m) /\ s.proposal # NoProposal => s.proposal = ProposalOf(m, s)
          /\ s.age <= SessionLimit /\ s.phaseAge <= SignLimit + 1
    /\ \A n \in Nodes : banned[n] \subseteq Nodes \ {n}
    /\ \A n \in Nodes : purse[n] \subseteq Coins \cup {Output(n, m) : m \in Mixes}

\* A wallet signs a mix only if the mix spends the coin it signs for and pays
\* its own output: a joiner whose registration was lost, while its fee
\* arrived, is sent a proposal it must not sign (mix.rs local_outputs).
SignedPays ==
    \A s \in signed :
        /\ s.coin \in s.com.inputs
        /\ s.coin = MixCoin(s.by) => Output(s.by, s.com.mix) \in s.com.outs

\* A one-time key signs one commitment, however often mixes fail and are
\* tried again (main.rs: the drip phase passes over coins already signed).
KeySignsOnce == \A s, t \in signed : s.coin = t.coin => s.com = t.com

\* Whatever the coordinator publishes, every owner of an input has signed
\* exactly that.
PublishedSigned ==
    \A com \in pool.commits \cup pool.reveals \cup chain.reveals :
        \A c \in com.inputs : \E s \in signed : s.coin = c /\ s.com = com

\* A wallet that swapped its coin for the mixed one did so for a reveal the
\* network took (main.rs complete_mix on "complete").
CompletedReal ==
    \A n \in Nodes, m \in Mixes : Output(n, m) \in purse[n] =>
        \E com \in pool.reveals \cup chain.reveals :
            com.mix = m /\ MixCoin(n) \in com.inputs /\ Output(n, m) \in com.outs

\* When the clock runs and no more mixes are started, every session is dropped and every command
\* line returns, whoever stops answering (mix.rs cleanup, main.rs --timeout).
Quiet == \A n \in Nodes : Stage(n, "idle") /\ \A m \in Mixes : ~Exists(n, m)
MixEnds == <>[](scene.clock => Quiet)

\* mix.rs: "60 seconds in Signing phase without finishing".  A joiner does not
\* give a proposal up while its coordinator still waits for the signature.
JoinerWaitsAsLong ==
    [][\A n \in Nodes, m \in Mixes :
          LET c == sess[n][m].coordinator IN
          (/\ Exists(n, m) /\ ~Coordinates(n, m) /\ TimedOut(sess[n][m])
           /\ sess'[n][m] # sess[n][m] /\ Exists(c, m) /\ sess[c][m].phase = "Signing")
              => sess[c][m].phaseAge > SignLimit]_vars

\* A mix reported as failed is not published afterwards.
FailedIsFinal ==
    [][\A n \in Nodes, m \in Mixes :
          (Exists(n, m) /\ sess[n][m].phase = "Failed" /\ sess'[n][m] # NoSession)
              => sess'[n][m].phase = "Failed"]_vars
=============================================================================
