------------------------------ MODULE Consensus ------------------------------
(***************************************************************************)
(* The consensus component of one node: blocks received or generated are   *)
(* executed one at a time under a mutex; a block of a preferred chain      *)
(* starts the synchronizer, whose two mechanisms delete blocks (with a     *)
(* backup in the temp table), apply the blocks of a peer and, when that    *)
(* fails, restore the backup.                                              *)
(*                                                                         *)
(* The blocks are a fixed finite tree of records: the header fields of     *)
(* the fork choice rule, and                                               *)
(*   validates     chain.validateBlock accepts the block on its own,       *)
(*   executes      its verification and execution succeed on its parent,   *)
(*   precommitted  maxHeightPrecommitted of its chain once it is executed. *)
(* The genesis block has height 0 and is not an element of chain.          *)
(*                                                                         *)
(* The engine's database (chain, finalizedHeight, temp) and the state      *)
(* database of the application (app: the blocks its state includes) are    *)
(* written one after the other, so the node may crash in between.          *)
(***************************************************************************)
EXTENDS ForkChoice, Sequences, FiniteSetsExt

CONSTANTS
    Block,          \* the blocks above genesis that may ever be seen
    Genesis,        \* the genesis block
    Generated,      \* the blocks this node's own generator may produce
    TwoRounds,      \* twice the number of active validators
    QueueBound,     \* bound on the callers that wait for the mutex
    PeersRunOut,    \* may a peer return no more blocks before the one asked for,
                    \* because it does not have it or does not answer?
    Stops,          \* may the node be asked to stop?
    Crashes         \* may the process die?

BlockType == [id : STRING, previousBlockID : STRING, height : Nat, slot : Nat,
              maxHeightPrevoted : Nat, generatorAddress : STRING,
              receivedAt : {Never}, precommitted : Nat,
              validates : BOOLEAN, executes : BOOLEAN]

ASSUME BlockAssumption ==
    /\ Block \subseteq BlockType /\ Genesis \in BlockType /\ Genesis \notin Block
    /\ Genesis.height = 0
    /\ \A b \in Block : b.height > 0 /\ b.precommitted < b.height
    /\ Generated \subseteq Block

ASSUME BoundAssumption ==
    /\ TwoRounds \in Nat /\ QueueBound \in Nat
    /\ PeersRunOut \in BOOLEAN /\ Stops \in BOOLEAN /\ Crashes \in BOOLEAN

VARIABLES
    chain,              \* engine database: the blocks above genesis, in order
    finalizedHeight,    \* engine database: chain.finalizedHeight
    temp,               \* engine database: the temp table, height -> block
    app,                \* state database: the blocks the state includes
    up,                 \* is the process running?
    stopping,           \* consensus._stop
    queue,              \* the callers that wait for consensus._mutex
    job,                \* what the holder of the mutex is doing
    op                  \* a block half saved or half removed, see SaveBlock

vars     == <<chain, finalizedHeight, temp, app, up, stopping, queue, job, op>>
engineDB == <<chain, finalizedHeight, temp>>

StopTicket == [id |-> "stop()"]     \* stop() waiting for the mutex

Mechanisms == {"blockSync", "fastChainSwitch"}

\* Where the holder of the mutex is: executing a block that extends the chain;
\* or, in the synchronizer, choosing a mechanism, choosing a peer, asking for
\* the common block, deleting with a backup, applying the peer's blocks,
\* deleting them again, restoring the backup, clearing the temp table.
SyncSteps == {"bestPeer", "common", "reverting", "applying", "undoing",
              "restoring", "clearing"}

Idle  == [at |-> "idle"]
Executing == [at |-> "executing"]
NoOp  == [kind |-> "none"]
Empty == << >>              \* the empty temp table

SyncJob  == [at : SyncSteps \cup {"sync"}, mechanism : Mechanisms, received : Block,
             common : Nat, outcome : {"finish", "restart"}, tipBefore : Block \cup {Genesis}]
SaveOp   == [kind : {"save"}, block : Block, removeFromTempTable : BOOLEAN]
RemoveOp == [kind : {"remove"}, saveTempBlock : BOOLEAN]

Tip      == IF chain = << >> THEN Genesis ELSE chain[Len(chain)]
Preferred(b, over) == isDifferentChain(over, b)

syncing  == job.at \in SyncSteps

\* Mutant: a restart does not look at _stop.
RestartAlways(outcome) == IF outcome = "restart" THEN [job EXCEPT !.at = "sync"] ELSE Idle

DoneWith(outcome) == IF outcome = "restart" /\ ~stopping
                     THEN [job EXCEPT !.at = "sync"] ELSE Idle

(* ------------------------- one block in, one out ----------------------- *)

\* Mutant: the parent is not compared.
CanExecuteAnywhere(b) == b.height = Tip.height + 1 /\ b.executes

\* What _verify and the execution demand of a block on the current chain.
CanExecute(b) == /\ b.previousBlockID = Tip.id
                 /\ b.height = Tip.height + 1
                 /\ b.executes

\* _executeValidated up to the commit of the application's state ...
BeginExecute(b, removeFromTempTable) ==
    /\ op = NoOp
    /\ CanExecute(b)
    /\ app' = Append(app, b)
    /\ op' = [kind |-> "save", block |-> b, removeFromTempTable |-> removeFromTempTable]

\* ... and chain.saveBlock: one batch with the block, the finalized height and
\* the removal from the temp table.
SaveBlock ==
    /\ op.kind = "save"
    /\ chain' = Append(chain, op.block)
    /\ finalizedHeight' = Max({finalizedHeight, op.block.precommitted})
    /\ temp' = IF op.removeFromTempTable
               THEN [h \in DOMAIN temp \ {op.block.height} |-> temp[h]] ELSE temp
    /\ op' = NoOp
    /\ job' = IF job = Executing THEN Idle ELSE job
    /\ UNCHANGED <<app, up, stopping, queue>>

\* Mutants: the application is not reverted; finality is not checked.
DeleteWithoutRevert(saveTempBlock) ==
    /\ op = NoOp /\ ~stopping
    /\ Len(chain) > finalizedHeight
    /\ app' = app
    /\ op' = [kind |-> "remove", saveTempBlock |-> saveTempBlock]
DeleteFinalized(saveTempBlock) ==
    /\ op = NoOp /\ ~stopping
    /\ app' = SubSeq(app, 1, Len(app) - 1)
    /\ op' = [kind |-> "remove", saveTempBlock |-> saveTempBlock]

\* _deleteBlock of the last block, up to the revert of the application's state.
\* _deleteLastBlock does nothing once the node is stopping.
BeginDelete(saveTempBlock) ==
    /\ op = NoOp
    /\ ~stopping
    /\ Len(chain) > finalizedHeight
    /\ app' = SubSeq(app, 1, Len(app) - 1)
    /\ op' = [kind |-> "remove", saveTempBlock |-> saveTempBlock]

\* chain.removeBlock: one batch with the removal and the copy in the temp table.
RemoveBlock ==
    /\ op.kind = "remove"
    /\ chain' = SubSeq(chain, 1, Len(chain) - 1)
    /\ temp' = IF op.saveTempBlock
               THEN [h \in DOMAIN temp \cup {Len(chain)} |->
                        IF h = Len(chain) THEN Tip ELSE temp[h]] ELSE temp
    /\ op' = NoOp
    /\ UNCHANGED <<finalizedHeight, app, up, stopping, queue, job>>

(* ----------------------- receiving and executing ----------------------- *)

\* onBlockReceive: ignored while the synchronizer is active.
ReceiveBlock(b) ==
    /\ up /\ ~stopping /\ ~syncing
    /\ Len(queue) < QueueBound
    /\ queue' = Append(queue, b)
    /\ UNCHANGED <<engineDB, app, up, stopping, job, op>>

\* execute: a block this node generated on its tip.
ExecuteGenerated(b) ==
    /\ up /\ ~stopping
    /\ Len(queue) < QueueBound
    /\ b \in Generated /\ isValidBlock(Tip, b)
    /\ queue' = Append(queue, b)
    /\ UNCHANGED <<engineDB, app, up, stopping, job, op>>

HeadIsBlock == up /\ job = Idle /\ queue # << >> /\ Head(queue) # StopTicket
HeadStatus  == forkChoice(Head(queue), Tip, Head(queue).slot)

\* VALID_BLOCK: the block is executed on the tip.
ExecuteReceived ==
    /\ HeadIsBlock /\ HeadStatus = "VALID_BLOCK"
    /\ Head(queue).validates
    /\ BeginExecute(Head(queue), FALSE)
    /\ job' = Executing
    /\ queue' = Tail(queue)
    /\ UNCHANGED <<engineDB, up, stopping>>

\* A block that fails, and IDENTICAL_BLOCK, DOUBLE_FORGING and DISCARD.
DropReceived ==
    /\ HeadIsBlock
    /\ IF HeadStatus = "VALID_BLOCK"
       THEN ~(Head(queue).validates /\ CanExecute(Head(queue)))
       ELSE HeadStatus \in {"IDENTICAL_BLOCK", "DOUBLE_FORGING", "DISCARD"} \/
            (HeadStatus = "DIFFERENT_CHAIN" /\ stopping)
    /\ queue' = Tail(queue)
    /\ UNCHANGED <<engineDB, app, up, stopping, job, op>>

\* DIFFERENT_CHAIN: _sync with the received block.  tipBefore is only there
\* for TipNeverWorse.
StartSync ==
    /\ HeadIsBlock /\ HeadStatus = "DIFFERENT_CHAIN"
    /\ ~stopping
    /\ job' = [at |-> "sync", mechanism |-> "blockSync", received |-> Head(queue),
               common |-> 0, outcome |-> "finish", tipBefore |-> Tip]
    /\ queue' = Tail(queue)
    /\ UNCHANGED <<engineDB, app, up, stopping, op>>

(* ---------------------------- synchronizer ----------------------------- *)

\* A step of the synchronizer that only moves on.
Goto(record) ==
    /\ job' = record
    /\ UNCHANGED <<engineDB, app, up, stopping, queue, op>>

At(step) == up /\ job.at = step /\ op = NoOp

\* Synchronizer.run: the received block is validated, and block synchronization
\* is tried first; whether the finalized block is old enough for it is a matter
\* of time.  Fast chain switching needs a tip within two rounds, and an active
\* validator as the generator; else neither is used.
DetermineSyncMechanism ==
    /\ At("sync")
    /\ \/ Goto(Idle)
       \/ /\ job.received.validates
          /\ \/ Goto([job EXCEPT !.at = "bestPeer", !.mechanism = "blockSync"])
             \/ /\ job.received.height - Tip.height \in (-TwoRounds) .. TwoRounds
                /\ Goto([job EXCEPT !.at = "common", !.mechanism = "fastChainSwitch"])

\* _computeBestPeer and _requestAndValidateLastBlock: there may be no peer with a
\* preferred tip, or its tip is invalid or not preferred; else the peer is used.
ComputeBestPeer ==
    /\ At("bestPeer")
    /\ \/ Goto(Idle)
       \/ \E tip \in Block \cup {Genesis} :
             Goto(IF tip.validates /\ (Preferred(tip, Tip) \/ tip = Tip)
                  THEN [job EXCEPT !.at = "common"] ELSE DoneWith("restart"))

\* Mutant: a common block just below the finalized one is accepted.
CommonBlockBelowFinalized ==
    /\ At("common") /\ job.mechanism = "blockSync"
    /\ \E height \in (finalizedHeight - 1) .. Len(chain) :
          Goto([job EXCEPT !.at = "reverting", !.common = height])

\* _revertToLastCommonBlock: the peer names a block of this chain, or none.
BlockSyncCommonBlock ==
    /\ At("common") /\ job.mechanism = "blockSync"
    /\ \/ Goto(DoneWith("restart"))
       \/ \E height \in finalizedHeight .. Len(chain) :
             Goto([job EXCEPT !.at = "reverting", !.common = height])

\* _requestLastCommonBlock and _queryBlocks of the fast chain switch.
FastSwitchCommonBlock ==
    /\ At("common") /\ job.mechanism = "fastChainSwitch"
    /\ \/ Goto(Idle)
       \/ \E height \in finalizedHeight .. Len(chain) :
             /\ Len(chain) - height <= TwoRounds
             /\ job.received.height - height <= TwoRounds
             /\ Goto([job EXCEPT !.at = "reverting", !.common = height])

\* deleteBlocksAfterHeight with a backup.
RevertBlock ==
    /\ At("reverting") /\ Len(chain) > job.common
    /\ BeginDelete(TRUE)
    /\ UNCHANGED <<engineDB, up, stopping, queue, job>>

Reverted ==
    /\ At("reverting") /\ Len(chain) <= job.common
    /\ Goto([job EXCEPT !.at = "applying"])

\* A block of the peer is applied.
ApplyBlock(b) ==
    /\ At("applying") /\ Tip # job.received
    /\ b.validates
    /\ BeginExecute(b, FALSE)
    /\ UNCHANGED <<engineDB, up, stopping, queue, job>>

\* The block that started the synchronization is applied.
AppliedAll ==
    /\ At("applying") /\ Tip = job.received
    /\ Goto([job EXCEPT !.at = "clearing", !.outcome = "finish"])

TempTip == temp[Max(DOMAIN temp)]

\* _handleBlockProcessingError: a block of the peer is invalid.
BlockSyncProcessingError ==
    /\ At("applying") /\ Tip # job.received /\ job.mechanism = "blockSync"
    /\ Goto(IF DOMAIN temp = {} THEN DoneWith("restart")
            ELSE IF Preferred(Tip, TempTip)
            THEN [job EXCEPT !.at = "clearing", !.outcome = "restart"]
            ELSE [job EXCEPT !.at = "undoing", !.outcome = "restart"])

\* Mutant: the blocks applied so far are kept.
FastSwitchGivesUp ==
    /\ At("applying") /\ Tip # job.received /\ job.mechanism = "fastChainSwitch"
    /\ Goto([job EXCEPT !.at = "clearing", !.outcome = "finish"])

\* _handleBlockProcessingFailure of the fast chain switch.
FastSwitchProcessingError ==
    /\ At("applying") /\ Tip # job.received /\ job.mechanism = "fastChainSwitch"
    /\ Goto([job EXCEPT !.at = "undoing", !.outcome = "finish"])

\* The peer returns no more blocks: block synchronization restarts after ten attempts,
\* the fast chain switch goes on with the blocks it has got by then.
BlockSyncNoAnswer ==
    /\ At("applying") /\ Tip # job.received /\ job.mechanism = "blockSync"
    /\ PeersRunOut
    /\ Goto(DoneWith("restart"))

FastSwitchNoAnswer ==
    /\ At("applying") /\ Tip # job.received /\ job.mechanism = "fastChainSwitch"
    /\ PeersRunOut /\ Len(chain) > job.common
    /\ Goto([job EXCEPT !.at = "clearing", !.outcome = "finish"])

\* deleteBlocksAfterHeight without a backup.
UndoBlock ==
    /\ At("undoing") /\ Len(chain) > job.common
    /\ BeginDelete(FALSE)
    /\ UNCHANGED <<engineDB, up, stopping, queue, job>>

Undone ==
    /\ At("undoing") /\ Len(chain) <= job.common
    /\ Goto([job EXCEPT !.at = "restoring"])

\* When deleting or restoring fails, block synchronization logs it and restarts;
\* the fast chain switch clears the temp table and throws.
RecoveryFailed ==
    Goto(IF job.mechanism = "blockSync" THEN DoneWith("restart")
         ELSE [job EXCEPT !.at = "clearing"])

\* 'Can not delete block below or same as finalized height'
UndoFailed ==
    /\ At("undoing") /\ Len(chain) > job.common /\ ~stopping
    /\ Len(chain) <= finalizedHeight
    /\ RecoveryFailed

NextTempBlock == temp[Min(DOMAIN temp)]

\* restoreBlocks: the blocks of the temp table from the lowest to the highest.
RestoreBlock ==
    /\ At("restoring") /\ DOMAIN temp # {}
    /\ BeginExecute(NextTempBlock, TRUE)
    /\ UNCHANGED <<engineDB, up, stopping, queue, job>>

RestoreFailed ==
    /\ At("restoring") /\ DOMAIN temp # {}
    /\ ~CanExecute(NextTempBlock)
    /\ RecoveryFailed

Restored ==
    /\ At("restoring") /\ DOMAIN temp = {}
    /\ Goto([job EXCEPT !.at = "clearing"])

\* Mutant: the temp table is not cleared.
KeepTempTable ==
    /\ At("clearing")
    /\ job' = DoneWith(job.outcome)
    /\ UNCHANGED <<engineDB, app, up, stopping, queue, op>>

\* clearBlocksTempTable, the last step of every way through a mechanism.
ClearTempTable ==
    /\ At("clearing")
    /\ temp' = Empty
    /\ job' = DoneWith(job.outcome)
    /\ UNCHANGED <<chain, finalizedHeight, app, up, stopping, queue, op>>

(* ------------------------ stop, crash and restart ---------------------- *)

\* stop: no new work is taken, and the mutex is waited for.
Stop ==
    /\ Stops /\ up /\ ~stopping
    /\ stopping' = TRUE
    /\ queue' = Append(queue, StopTicket)
    /\ UNCHANGED <<engineDB, app, up, job, op>>

\* Only the databases survive the end of the process.
EndProcess ==
    /\ up' = FALSE
    /\ stopping' = FALSE
    /\ queue' = << >>
    /\ job' = Idle
    /\ op' = NoOp
    /\ UNCHANGED <<engineDB, app>>

Stopped ==
    /\ up /\ job = Idle /\ queue # << >> /\ Head(queue) = StopTicket
    /\ EndProcess

Crash == Crashes /\ up /\ EndProcess

\* The application can be brought to the engine's last block by reverting.
Recoverable ==
    /\ Len(app) >= Len(chain)
    /\ SubSeq(app, 1, Len(chain)) = chain

\* Engine.start with ABIHandler.init, which throws unless Recoverable.
Start ==
    /\ ~up
    /\ Recoverable
    /\ app' = SubSeq(app, 1, Len(chain))
    /\ up' = TRUE
    /\ UNCHANGED <<engineDB, stopping, queue, job, op>>

(* ---------------------------- specification ---------------------------- *)

Init ==
    /\ chain = << >> /\ finalizedHeight = 0 /\ temp = Empty
    /\ app = << >>
    /\ up = TRUE /\ stopping = FALSE /\ queue = << >> /\ job = Idle /\ op = NoOp

\* The steps of the holder of the mutex, which it takes without waiting for
\* anything but an answer that a timeout replaces.
MutexHolder ==
    \/ ExecuteReceived \/ DropReceived \/ StartSync
    \/ SaveBlock \/ RemoveBlock
    \/ DetermineSyncMechanism \/ ComputeBestPeer
    \/ BlockSyncCommonBlock \/ FastSwitchCommonBlock
    \/ RevertBlock \/ Reverted
    \/ (\E b \in Block : ApplyBlock(b)) \/ AppliedAll
    \/ BlockSyncProcessingError \/ FastSwitchProcessingError
    \/ BlockSyncNoAnswer \/ FastSwitchNoAnswer
    \/ UndoBlock \/ Undone \/ UndoFailed
    \/ RestoreBlock \/ RestoreFailed \/ Restored
    \/ ClearTempTable
    \/ Stopped

Next ==
    \/ \E b \in Block : ReceiveBlock(b) \/ ExecuteGenerated(b)
    \/ MutexHolder
    \/ Stop \/ Crash \/ Start

Spec == Init /\ [][Next]_vars

\* The holder of the mutex keeps running: every await in it is a database
\* call or a request with a timeout.
FairSpec == Spec /\ WF_vars(MutexHolder)

(* ------------------------------ properties ----------------------------- *)

\* The tables hold blocks, and the control state is one of those the code has.
TypeOK ==
    /\ chain \in Seq(Block) /\ app \in Seq(Block)
    /\ finalizedHeight \in Nat
    /\ DOMAIN temp \subseteq Nat /\ \A h \in DOMAIN temp : temp[h] \in Block
    /\ up \in BOOLEAN /\ stopping \in BOOLEAN
    /\ queue \in Seq(Block \cup {StopTicket})
    /\ job \in {Idle, Executing} \cup SyncJob
    /\ op \in {NoOp} \cup SaveOp \cup RemoveOp

\* The chain is always a chain: each block follows the one before it, whatever
\* was deleted, applied and restored.
ChainLinked ==
    \A i \in DOMAIN chain :
        /\ chain[i].height = i
        /\ chain[i].previousBlockID = (IF i = 1 THEN Genesis ELSE chain[i - 1]).id

\* A finalized block is never deleted or replaced, by a switch of chains, a
\* restore or a crash, and the finalized height never decreases.
FinalizedKept ==
    [][/\ finalizedHeight' >= finalizedHeight
       /\ Len(chain') >= finalizedHeight
       /\ \A i \in 1 .. finalizedHeight : chain'[i] = chain[i]]_vars

\* The chain as its readers see it, cut at the finalized height.
Promised == INSTANCE FinalizedChain
            WITH final <- SubSeq(chain, 1, finalizedHeight),
                 tail  <- SubSeq(chain, finalizedHeight + 1, Len(chain))

\* Seen from outside, the node is a FinalizedChain: whatever the synchronizer,
\* stops and crashes do, the chain changes by one linked block at a time, only
\* in its tail, and blocks become final oldest first.
ImplementsFinalizedChain == Promised!Spec

\* What abi.commit and abi.revert leave in the application agrees with the
\* engine whenever a block is neither half saved nor half removed.
ApplicationFollowsEngine ==
    up => CASE op.kind = "none"   -> app = chain
            [] op.kind = "save"   -> app = Append(chain, op.block)
            [] op.kind = "remove" -> app = SubSeq(chain, 1, Len(chain) - 1)

\* What was checked before the application was called still holds when the call
\* has returned and the engine's database is written: a block being saved extends
\* the tip, a block being removed is not final.  A stop does not change that.
WorkInProgressSafe ==
    /\ finalizedHeight <= Len(chain)
    /\ op.kind = "save" => CanExecute(op.block)
    /\ op.kind = "remove" => Len(chain) > finalizedHeight
    /\ ~up => op = NoOp /\ job = Idle

\* The inductive invariant.
Inv ==
    /\ TypeOK
    /\ ChainLinked
    /\ ApplicationFollowsEngine
    /\ WorkInProgressSafe

\* When the synchronizer ends, the tip is at least as good as when it began: a
\* switch of chains that does not succeed is undone.
TipNeverWorse ==
    [][up' /\ job' = Idle /\ job \notin {Idle, Executing} =>
            ~Preferred(job.tipBefore, Tip')]_vars

\* The chain before a failed switch can be put back: the backup in the temp table
\* is always a continuation of the blocks that deleting has left.
RestoreSucceeds ==
    At("restoring") /\ DOMAIN temp # {} => CanExecute(NextTempBlock)

\* A backup is restored or dropped before other work starts.
NoBackupLeftBehind == up /\ job = Idle => DOMAIN temp = {}

\* The temp table holds exactly what the running switch of chains may have to
\* put back, and putting it back works.
BackupSound == RestoreSucceeds /\ NoBackupLeftBehind

\* deleteBlocksAfterHeight is the only place where stop() can be kept waiting.
DeletingForNothing ==
    /\ stopping /\ job.at \in {"reverting", "undoing"}
    /\ op = NoOp /\ Len(chain) > job.common

\* The mutex always gets free after a request to stop, unless the loop of
\* deleteBlocksAfterHeight waits for deletions that no longer happen.
StopHangsOnlyInDeletion == stopping ~> (~up \/ DeletingForNothing)
=============================================================================
