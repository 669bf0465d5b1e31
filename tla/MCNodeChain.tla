---------------------------- MODULE MCNodeChain ----------------------------
(***************************************************************************)
(* A small block tree for NodeChain.  A path is a sequence of branch       *)
(* numbers; branches leave the main one after genesis and after the second *)
(* block.                                                                  *)
(***************************************************************************)
EXTENDS NodeChain, TLC

CONSTANTS k1, k2, k3

\* Prefixes of the given paths.
Prefixes(paths) == UNION {{SubSeq(p, 1, n) : n \in 1..Len(p)} : p \in paths}

Forks == Prefixes({<<0, 1, 1, 1, 1>>, <<0, 1, 2, 2, 2, 2>>, <<0, 3, 3, 3, 3>>})

\* All blocks weigh the same.
EqualWork(p) == 1

\* k1 is spent by the same transaction on both branches, k2 by the main
\* branch only, k3 by branch 2 only.
MCKeysOf(p) ==
    CASE p \in {<<0, 1, 1>>, <<0, 1, 2, 2>>} -> {k1}
      [] p = <<0, 1, 1, 1>> -> {k2}
      [] p = <<0, 1, 2>>    -> {k3}
      [] OTHER -> {}
=============================================================================
