----------------------------- MODULE MCConsensus -----------------------------
(* A tree of blocks for Consensus: two chains that compete at every height. *)
EXTENDS Consensus

B(id, parent, height, prevoted, precommitted) ==
    [id |-> id, previousBlockID |-> parent, height |-> height, slot |-> height,
     maxHeightPrevoted |-> prevoted, precommitted |-> precommitted,
     generatorAddress |-> id, receivedAt |-> Never,
     validates |-> TRUE, executes |-> TRUE]

MCGenesis == B("g", "", 0, 0, 0)

a1 == B("a1", "g", 1, 0, 0)
a2 == B("a2", "a1", 2, 0, 0)
b1 == B("b1", "g", 1, 0, 0)
b2 == B("b2", "b1", 2, 0, 1)        \* finalizes b1
b3 == B("b3", "b2", 3, 1, 1)

\* A block that fails in its execution, and one that is malformed.
bad == [B("bad", "a1", 2, 1, 0) EXCEPT !.executes = FALSE]
mal == [B("mal", "b1", 2, 1, 0) EXCEPT !.validates = FALSE]

Tree       == {a1, a2, b1, b2, b3, bad, mal}
\* The same blocks before anything becomes final.
NoFinality == {[b EXCEPT !.precommitted = 0] : b \in Tree}
Own  == {a2}
=============================================================================
