--------------------------- MODULE FinalizedChain ---------------------------
(***************************************************************************)
(* What the consensus component promises to whoever reads the chain: the   *)
(* chain is a finalized part, to which blocks are only ever added, and a   *)
(* tail.  One step adds one block on top, and may move the oldest blocks   *)
(* of the tail to the finalized part; or it takes the last block of the    *)
(* tail away.  How blocks arrive, which chain is preferred, the backup of  *)
(* a switch, the application, stops and crashes are not seen from here.    *)
(***************************************************************************)
EXTENDS Naturals, Sequences

CONSTANTS
    Block,          \* the blocks above genesis
    Genesis         \* the genesis block

VARIABLES
    final,          \* the finalized blocks above genesis
    tail            \* the blocks after them

Top == IF tail # << >> THEN tail[Len(tail)]
       ELSE IF final # << >> THEN final[Len(final)] ELSE Genesis

Init == final = << >> /\ tail = << >>

\* b is put on top, and the first n blocks of the tail, never b, become final.
Extend(b, n) ==
    /\ b.previousBlockID = Top.id
    /\ b.height = Len(final) + Len(tail) + 1
    /\ final' = final \o SubSeq(tail, 1, n)
    /\ tail' = Append(SubSeq(tail, n + 1, Len(tail)), b)

Retract ==
    /\ tail # << >>
    /\ tail' = SubSeq(tail, 1, Len(tail) - 1)
    /\ UNCHANGED final

Next ==
    \/ \E b \in Block : \E n \in 0 .. Len(tail) : Extend(b, n)
    \/ Retract

Spec == Init /\ [][Next]_<<final, tail>>
=============================================================================
