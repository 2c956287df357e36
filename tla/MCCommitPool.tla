---------------------------- MODULE MCCommitPool ----------------------------
(* Instances of CommitPool for TLC. *)
EXTENDS CommitPool, TLC

CONSTANTS self, honest, p1

\* The honest validator leaves at height 2 and the parameters change again at height 3:
\* the limit of the gossip is then two commits, and three commits can be old.
ChangeTwice ==
    1 :> [weights |-> self :> 1 @@ honest :> 1, certificateThreshold |-> 2] @@
    2 :> [weights |-> self :> 2, certificateThreshold |-> 2] @@
    3 :> [weights |-> self :> 2, certificateThreshold |-> 2]
=============================================================================
