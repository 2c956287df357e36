------------------------- MODULE MCExecutionContext -------------------------
(* The received blocks of the runs of ExecutionContext. *)
EXTENDS ExecutionContext

Good     == [name |-> "good", assetsOK |-> TRUE, executes |-> TRUE, rootsOK |-> TRUE,
             stateRoot |-> "after"]
BadAssets    == [Good EXCEPT !.name = "badAssets", !.assetsOK = FALSE]
BadExecution == [Good EXCEPT !.name = "badExecution", !.executes = FALSE]
BadRoots     == [Good EXCEPT !.name = "badRoots", !.rootsOK = FALSE]
BadState     == [Good EXCEPT !.name = "badState", !.stateRoot = "wrong"]
OldState     == [Good EXCEPT !.name = "oldState", !.stateRoot = "before"]
EveryFailure == {Good, BadAssets, BadExecution, BadRoots, BadState, OldState}
=============================================================================
