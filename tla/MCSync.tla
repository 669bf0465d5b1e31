------------------------------- MODULE MCSync -------------------------------
EXTENDS Sync

\* Two branches above genesis, all blocks with the same work.
MCTree == {<<1>>, <<1, 1>>, <<1, 1, 1>>, <<1, 1, 1, 1>>, <<1, 2>>, <<1, 2, 1>>}
MCWork(p) == 1

\* The node on the first branch, or on the second; or on the first with a block of the
\* second on disk below its tip (what SharedBelowFork's counterexample leaves).
MCOwn == {<< <<1, 1>>, << <<1>>, <<1, 1>> >> >>}
MCDamaged ==
    {<< <<1, 2>>, << <<1>>, <<1, 2>> >> >>,
     << <<1, 1, 1>>, << <<1>>, <<1, 2>>, <<1, 1, 1>> >> >>}

\* Peers' chains: a longer one on each branch, or one of length three on each.
MCPeers == {<<1, 1, 1, 1>>, <<1, 2, 1>>}
MCTwigs == {<<1, 1, 1>>, <<1, 2, 1>>}
=============================================================================
