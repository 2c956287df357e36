--------------------------- MODULE ConsensusProofs ---------------------------
(* Theorems about Consensus, for every tree of blocks and every bound. *)
EXTENDS Consensus, TLAPS, WellFoundedInduction, SequenceTheorems

(* ------------------------------- lemmas -------------------------------- *)

\* A nonempty set of naturals has a least element, and Min denotes it.
LEMMA MinOfNaturals ==
    ASSUME NEW S \in SUBSET Nat, S # {}
    PROVE  Min(S) \in S /\ \A n \in S : Min(S) <= n
<1> DEFINE R == {ss \in Nat \X Nat : ss[1] < ss[2]}
<1>1. IsWellFoundedOn(R, Nat)
  BY NatLessThanWellFounded, Zenon DEF OpToRel
<1> HIDE DEF R
<1>2. \E x \in S : \A y \in S : <<y, x>> \notin R
  BY <1>1, WFMin, Zenon
<1>3. \A x \in Nat, y \in Nat : <<y, x>> \notin R => x <= y
  BY DEF R
<1>4. \E x \in S : \A y \in S : x <= y
  BY <1>2, <1>3
<1> QED
  BY <1>4 DEF Min

\* The larger of two naturals.
LEMMA MaxOfTwo ==
    ASSUME NEW m \in Nat, NEW n \in Nat
    PROVE  Max({m, n}) \in Nat /\ Max({m, n}) >= m /\ Max({m, n}) >= n
           /\ (Max({m, n}) = m \/ Max({m, n}) = n)
<1>1. \E x \in {m, n} : \A y \in {m, n} : x >= y
  OBVIOUS
<1> QED
  BY <1>1 DEF Max

\* The first n elements of a sequence.
LEMMA Prefix ==
    ASSUME NEW S, NEW s \in Seq(S), NEW n \in 0 .. Len(s)
    PROVE  /\ SubSeq(s, 1, n) \in Seq(S) /\ Len(SubSeq(s, 1, n)) = n
           /\ \A i \in 1 .. n : SubSeq(s, 1, n)[i] = s[i]
  OBVIOUS

\* The height of the tip is the length of the chain.
LEMMA TipHeight ==
    ASSUME TypeOK, ChainLinked
    PROVE  Tip.height = Len(chain) /\ Tip \in Block \cup {Genesis}
<1>1. CASE chain = << >>
  BY <1>1, BlockAssumption DEF Tip
<1>2. CASE chain # << >>
  <2>1. Len(chain) \in DOMAIN chain /\ Tip = chain[Len(chain)]
    BY <1>2 DEF TypeOK, Tip
  <2> QED
    BY <2>1 DEF TypeOK, ChainLinked
<1> QED
  BY <1>1, <1>2

(* --------------------- what each kind of step keeps -------------------- *)

JobType   == {Idle, Executing} \cup SyncJob
QueueType == Seq(Block \cup {StopTicket})

\* A step that touches no table and no half-done operation: a caller that
\* queues up, and every step of the synchronizer that only moves on.
LEMMA ControlStep ==
    ASSUME Inv, up, up' = up, UNCHANGED <<engineDB, app, op>>,
           stopping' \in BOOLEAN, queue' \in QueueType, job' \in JobType
    PROVE  Inv'
<1> USE DEF engineDB
<1>1. TypeOK'
  BY DEF Inv, TypeOK, JobType, QueueType
<1>2. ChainLinked'
  BY DEF Inv, ChainLinked
<1>3. ApplicationFollowsEngine'
  BY DEF Inv, ApplicationFollowsEngine
<1>4. WorkInProgressSafe'
  BY DEF Inv, WorkInProgressSafe, CanExecute, Tip
<1> QED
  BY <1>1, <1>2, <1>3, <1>4 DEF Inv

\* The first half of the execution of a block.
LEMMA BeginExecuteStep ==
    ASSUME Inv, up, NEW b \in Block, NEW r \in BOOLEAN, BeginExecute(b, r),
           UNCHANGED <<engineDB, up, stopping>>, queue' \in QueueType, job' \in JobType
    PROVE  Inv'
<1> USE DEF engineDB
<1>1. app = chain
  BY DEF Inv, ApplicationFollowsEngine, BeginExecute, NoOp
<1>2. op' = [kind |-> "save", block |-> b, removeFromTempTable |-> r] /\ op' \in SaveOp
  BY DEF BeginExecute, SaveOp
<1>3. TypeOK'
  BY <1>2 DEF Inv, TypeOK, JobType, QueueType, BeginExecute
<1>4. ChainLinked'
  BY DEF Inv, ChainLinked
<1>5. ApplicationFollowsEngine'
  BY <1>1, <1>2 DEF ApplicationFollowsEngine, BeginExecute
<1>6. WorkInProgressSafe'
  BY <1>2 DEF Inv, WorkInProgressSafe, BeginExecute, CanExecute, Tip
<1> QED
  BY <1>3, <1>4, <1>5, <1>6 DEF Inv

\* The first half of a deletion.
LEMMA BeginDeleteStep ==
    ASSUME Inv, up, NEW s \in BOOLEAN, BeginDelete(s),
           UNCHANGED <<engineDB, up, stopping, queue, job>>
    PROVE  Inv'
<1> USE DEF engineDB
<1>1. app = chain /\ Len(chain) > finalizedHeight
  BY DEF Inv, ApplicationFollowsEngine, BeginDelete, NoOp
<1>2. op' = [kind |-> "remove", saveTempBlock |-> s] /\ op' \in RemoveOp
  BY DEF BeginDelete, RemoveOp
<1>3. app' = SubSeq(chain, 1, Len(chain) - 1) /\ app' \in Seq(Block)
  BY <1>1 DEF BeginDelete, Inv, TypeOK
<1>4. TypeOK'
  BY <1>2, <1>3 DEF Inv, TypeOK
<1>5. ChainLinked'
  BY DEF Inv, ChainLinked
<1>6. ApplicationFollowsEngine'
  BY <1>2, <1>3 DEF ApplicationFollowsEngine
<1>7. WorkInProgressSafe'
  BY <1>1, <1>2 DEF Inv, WorkInProgressSafe
<1> QED
  BY <1>4, <1>5, <1>6, <1>7 DEF Inv

\* The end of a process keeps the databases, and the promise about the
\* application is only made for a running one.
LEMMA EndProcessStep ==
    ASSUME Inv, EndProcess
    PROVE  Inv'
<1> USE DEF EndProcess, engineDB
<1>1. TypeOK'
  <2>1. up' \in BOOLEAN /\ stopping' \in BOOLEAN /\ queue' \in QueueType /\ job' \in JobType
    <3>1. up' \in BOOLEAN /\ stopping' \in BOOLEAN
      BY Zenon
    <3>2. << >> \in QueueType
      BY DEF QueueType
    <3> QED
      BY <3>1, <3>2 DEF JobType
  <2> QED
    BY <2>1 DEF Inv, TypeOK, QueueType, JobType
<1>2. ChainLinked'
  BY DEF Inv, ChainLinked
<1>3. ApplicationFollowsEngine'
  BY DEF ApplicationFollowsEngine
<1>4. WorkInProgressSafe'
  BY DEF Inv, WorkInProgressSafe, NoOp
<1> QED
  BY <1>1, <1>2, <1>3, <1>4 DEF Inv

\* A restart brings the application to the engine's last block.
LEMMA StartStep ==
    ASSUME Inv, Start
    PROVE  Inv'
<1> USE DEF engineDB
<1>1. op = NoOp /\ op' = NoOp /\ app' = chain /\ chain' = chain
  BY DEF Inv, WorkInProgressSafe, Start, Recoverable
<1>2. TypeOK'
  BY <1>1 DEF Inv, TypeOK, Start
<1>3. ChainLinked'
  BY DEF Inv, ChainLinked, Start
<1>4. ApplicationFollowsEngine'
  BY <1>1 DEF ApplicationFollowsEngine, NoOp
<1>5. WorkInProgressSafe'
  BY <1>1 DEF Inv, WorkInProgressSafe, Start, NoOp
<1> QED
  BY <1>2, <1>3, <1>4, <1>5 DEF Inv

\* The second half of the execution of a block: the chain grows by a block that
\* extends its tip, and what becomes final is below that block.
LEMMA SaveBlockStep ==
    ASSUME Inv, SaveBlock
    PROVE  Inv' /\ finalizedHeight' >= finalizedHeight
<1> DEFINE b == op.block
<1>1. /\ up /\ up' /\ op' = NoOp
      /\ b \in Block /\ op.kind = "save" /\ CanExecute(b) /\ app = Append(chain, b)
      /\ chain \in Seq(Block) /\ chain' = Append(chain, b) /\ app' = app
  BY DEF Inv, WorkInProgressSafe, ApplicationFollowsEngine, SaveBlock, NoOp, TypeOK,
         SaveOp, RemoveOp
<1>2. /\ Len(chain') = Len(chain) + 1 /\ chain' \in Seq(Block)
      /\ \A i \in 1 .. Len(chain) : chain'[i] = chain[i]
      /\ chain'[Len(chain) + 1] = b
  BY <1>1
<1>3. b.height = Len(chain) + 1 /\ b.previousBlockID = Tip.id
  BY <1>1, TipHeight DEF Inv, CanExecute
<1>4. b.precommitted \in Nat /\ b.precommitted <= Len(chain)
  BY <1>1, <1>3, BlockAssumption DEF BlockType
<1>5. finalizedHeight' \in Nat /\ finalizedHeight' >= finalizedHeight
      /\ finalizedHeight' <= Len(chain)
  BY <1>1, <1>4, MaxOfTwo DEF Inv, TypeOK, WorkInProgressSafe, SaveBlock
<1>6. DOMAIN temp' \subseteq Nat /\ \A h \in DOMAIN temp' : temp'[h] \in Block
  BY DEF SaveBlock, Inv, TypeOK
<1>7. TypeOK'
  BY <1>1, <1>2, <1>5, <1>6 DEF Inv, TypeOK, SaveBlock
<1>8. ChainLinked'
  <2> SUFFICES ASSUME NEW i \in DOMAIN chain'
               PROVE  /\ chain'[i].height = i
                      /\ chain'[i].previousBlockID
                            = (IF i = 1 THEN Genesis ELSE chain'[i - 1]).id
    BY DEF ChainLinked
  <2>1. CASE i \in 1 .. Len(chain)
    <3>1. /\ i \in DOMAIN chain /\ chain'[i] = chain[i]
          /\ i # 1 => chain'[i - 1] = chain[i - 1]
      BY <1>1, <1>2, <2>1
    <3> QED
      BY <3>1 DEF Inv, ChainLinked
  <2>2. CASE i = Len(chain) + 1
    <3>1. Tip = (IF i = 1 THEN Genesis ELSE chain'[i - 1])
      BY <1>1, <1>2, <2>2 DEF Tip
    <3> QED
      <4>1. chain'[i].height = i /\ chain'[i].previousBlockID = Tip.id
        BY <1>2, <1>3, <2>2
      <4> QED
        BY <3>1, <4>1
  <2> QED
    BY <1>1, <1>2, <2>1, <2>2
<1>9. ApplicationFollowsEngine'
  BY <1>1 DEF ApplicationFollowsEngine, NoOp
<1>10. WorkInProgressSafe'
  BY <1>1, <1>2, <1>5 DEF WorkInProgressSafe, NoOp, Inv, TypeOK
<1> QED
  BY <1>5, <1>7, <1>8, <1>9, <1>10 DEF Inv

\* The second half of a deletion: the chain loses its last block, which is not
\* final.
LEMMA RemoveBlockStep ==
    ASSUME Inv, RemoveBlock
    PROVE  Inv' /\ finalizedHeight' = finalizedHeight
<1>1. /\ up /\ up' /\ op' = NoOp /\ op.kind = "remove"
      /\ finalizedHeight \in Nat /\ finalizedHeight' = finalizedHeight
      /\ Len(chain) > finalizedHeight /\ app = SubSeq(chain, 1, Len(chain) - 1)
      /\ chain \in Seq(Block) /\ chain' = SubSeq(chain, 1, Len(chain) - 1) /\ app' = app
  BY DEF Inv, WorkInProgressSafe, ApplicationFollowsEngine, RemoveBlock, NoOp, TypeOK
<1>2. Len(chain') = Len(chain) - 1 /\ chain' \in Seq(Block)
      /\ \A i \in 1 .. Len(chain') : chain'[i] = chain[i]
  <2>1. Len(chain) - 1 \in 0 .. Len(chain)
    BY <1>1
  <2> QED
    BY <1>1, <2>1, Prefix
<1>3. Tip \in Block
  BY <1>1 DEF Tip
<1>4. DOMAIN temp' \subseteq Nat /\ \A h \in DOMAIN temp' : temp'[h] \in Block
  BY <1>1, <1>3 DEF RemoveBlock, Inv, TypeOK
<1>5. TypeOK'
  BY <1>1, <1>2, <1>4 DEF Inv, TypeOK, RemoveBlock
<1>6. ChainLinked'
  <2> SUFFICES ASSUME NEW i \in DOMAIN chain'
               PROVE  /\ chain'[i].height = i
                      /\ chain'[i].previousBlockID
                            = (IF i = 1 THEN Genesis ELSE chain'[i - 1]).id
    BY DEF ChainLinked
  <2>1. /\ i \in DOMAIN chain /\ chain'[i] = chain[i]
        /\ i # 1 => chain'[i - 1] = chain[i - 1]
    <3>1. i \in 1 .. Len(chain') /\ Len(chain') \in Nat
      BY <1>2
    <3>2. i # 1 => i - 1 \in 1 .. Len(chain')
      BY <3>1
    <3> QED
      BY <1>1, <1>2, <3>1, <3>2
  <2> QED
    BY <2>1 DEF Inv, ChainLinked
<1>7. ApplicationFollowsEngine'
  BY <1>1 DEF ApplicationFollowsEngine, NoOp
<1>8. WorkInProgressSafe'
  BY <1>1, <1>2 DEF WorkInProgressSafe, NoOp
<1> QED
  BY <1>1, <1>5, <1>6, <1>7, <1>8 DEF Inv

(* ------------------------------- theorems ------------------------------ *)

\* The initial state is empty.
LEMMA InitInv == Init => Inv
<1> SUFFICES ASSUME Init PROVE Inv
  OBVIOUS
<1>1. up \in BOOLEAN /\ stopping \in BOOLEAN
  BY Zenon DEF Init
<1>2. /\ << >> \in Seq(Block) /\ << >> \in Seq(Block \cup {StopTicket})
      /\ Len(<< >>) = 0 /\ DOMAIN << >> = {}
  OBVIOUS
<1>3. TypeOK
  BY <1>1, <1>2 DEF Init, TypeOK, Empty
<1>4. ChainLinked /\ ApplicationFollowsEngine /\ WorkInProgressSafe
  BY <1>2 DEF Init, ChainLinked, ApplicationFollowsEngine, WorkInProgressSafe, NoOp
<1> QED
  BY <1>3, <1>4 DEF Inv

\* What the control steps make of the job: they stay with a job of the right shape.
LEMMA MovesOn ==
    ASSUME Inv, NEW step \in SyncSteps \cup {"sync"}, At(step)
    PROVE  /\ up /\ op = NoOp /\ job \in SyncJob
           /\ \A to \in SyncSteps \cup {"sync"} : [job EXCEPT !.at = to] \in SyncJob
           /\ \A outcome : DoneWith(outcome) \in JobType
<1>1. up /\ op = NoOp /\ job \in JobType /\ job.at = step
  BY DEF At, Inv, TypeOK, JobType
<1>2. job \in SyncJob
  BY <1>1 DEF JobType, Idle, Executing, SyncSteps
<1>3. \A to \in SyncSteps \cup {"sync"} : [job EXCEPT !.at = to] \in SyncJob
  BY <1>2 DEF SyncJob
<1>4. \A outcome : DoneWith(outcome) \in JobType
  BY <1>3 DEF DoneWith, JobType
<1> QED
  BY <1>1, <1>2, <1>3, <1>4

\* A step of the synchronizer to another job of the right shape.
LEMMA GotoStep ==
    ASSUME Inv, up, NEW to \in JobType, Goto(to)
    PROVE  Inv'
  BY ControlStep DEF Goto, Inv, TypeOK, QueueType

\* The callers in the queue of the mutex.
LEMMA QueueSteps ==
    ASSUME Inv
    PROVE  /\ \A b \in Block \cup {StopTicket} : Append(queue, b) \in QueueType
           /\ HeadIsBlock => Head(queue) \in Block /\ Tail(queue) \in QueueType
  BY DEF Inv, TypeOK, QueueType, HeadIsBlock

\* Blocks that arrive, and the mutex passed on to the next caller.
LEMMA ReceivingSteps ==
    ASSUME Inv,
           \/ \E b \in Block : ReceiveBlock(b) \/ ExecuteGenerated(b)
           \/ ExecuteReceived \/ DropReceived \/ StartSync \/ Stop
    PROVE  Inv'
<1>1. job \in JobType /\ queue \in QueueType /\ stopping \in BOOLEAN
  BY DEF Inv, TypeOK, JobType, QueueType
<1>2. ASSUME NEW b \in Block, ReceiveBlock(b) PROVE Inv'
  BY <1>1, <1>2, ControlStep, QueueSteps DEF ReceiveBlock
<1>3. ASSUME NEW b \in Block, ExecuteGenerated(b) PROVE Inv'
  BY <1>1, <1>3, ControlStep, QueueSteps DEF ExecuteGenerated
<1>4. CASE ExecuteReceived
  <2>1. up /\ Executing \in JobType
    BY <1>4 DEF ExecuteReceived, HeadIsBlock, JobType
  <2> QED
    BY <1>4, <2>1, BeginExecuteStep, QueueSteps DEF ExecuteReceived
<1>5. CASE DropReceived
  BY <1>1, <1>5, ControlStep, QueueSteps DEF DropReceived, HeadIsBlock
<1>6. CASE StartSync
  <2>1. up /\ job' \in SyncJob
    BY <1>6, QueueSteps, TipHeight
       DEF StartSync, HeadIsBlock, SyncJob, Mechanisms, Inv
  <2> QED
    BY <1>1, <1>6, <2>1, ControlStep, QueueSteps DEF StartSync, JobType
<1>7. CASE Stop
  <2>1. stopping' \in BOOLEAN
    BY <1>7, Zenon DEF Stop
  <2> QED
    BY <1>1, <1>7, <2>1, ControlStep, QueueSteps DEF Stop
<1> QED
  BY <1>2, <1>3, <1>4, <1>5, <1>6, <1>7

\* Choosing the mechanism, the peer and the common block.
LEMMA PreparationSteps ==
    ASSUME Inv,
           \/ DetermineSyncMechanism \/ ComputeBestPeer
           \/ BlockSyncCommonBlock \/ FastSwitchCommonBlock
    PROVE  Inv'
<1>1. Idle \in JobType
  BY DEF JobType
<1>2. CASE DetermineSyncMechanism
  <2>1. up /\ job \in SyncJob
    BY <1>2, MovesOn DEF DetermineSyncMechanism
  <2>2. /\ [job EXCEPT !.at = "bestPeer", !.mechanism = "blockSync"] \in JobType
        /\ [job EXCEPT !.at = "common", !.mechanism = "fastChainSwitch"] \in JobType
    BY <2>1 DEF JobType, SyncJob, SyncSteps, Mechanisms
  <2> QED
    BY <1>1, <1>2, <2>1, <2>2, GotoStep DEF DetermineSyncMechanism
<1>3. CASE ComputeBestPeer
  <2>1. up /\ [job EXCEPT !.at = "common"] \in JobType /\ DoneWith("restart") \in JobType
    BY <1>3, MovesOn DEF ComputeBestPeer, SyncSteps, JobType
  <2> QED
    BY <1>1, <1>3, <2>1, GotoStep DEF ComputeBestPeer
<1>4. ASSUME At("common")
      PROVE  /\ up /\ DoneWith("restart") \in JobType
             /\ \A height \in finalizedHeight .. Len(chain) :
                   [job EXCEPT !.at = "reverting", !.common = height] \in JobType
  <2>1. up /\ job \in SyncJob /\ DoneWith("restart") \in JobType
    BY <1>4, MovesOn DEF SyncSteps
  <2>2. finalizedHeight .. Len(chain) \subseteq Nat
    BY DEF Inv, TypeOK
  <2> QED
    BY <2>1, <2>2 DEF JobType, SyncJob, SyncSteps
<1>5. CASE BlockSyncCommonBlock
  BY <1>4, <1>5, GotoStep DEF BlockSyncCommonBlock
<1>6. CASE FastSwitchCommonBlock
  BY <1>1, <1>4, <1>6, GotoStep DEF FastSwitchCommonBlock
<1> QED
  BY <1>2, <1>3, <1>5, <1>6

\* Deleting with a backup, and applying the blocks of a peer.
LEMMA ApplyingSteps ==
    ASSUME Inv,
           \/ RevertBlock \/ Reverted \/ (\E b \in Block : ApplyBlock(b)) \/ AppliedAll
           \/ BlockSyncProcessingError \/ FastSwitchProcessingError
           \/ BlockSyncNoAnswer \/ FastSwitchNoAnswer
    PROVE  Inv'
<1>1. ASSUME NEW step \in {"reverting", "applying"}, At(step)
      PROVE  /\ up /\ job \in JobType /\ queue \in QueueType
             /\ DoneWith("restart") \in JobType
             /\ [job EXCEPT !.at = "applying"] \in JobType
             /\ \A to \in {"clearing", "undoing"}, outcome \in {"finish", "restart"} :
                   [job EXCEPT !.at = to, !.outcome = outcome] \in JobType
  <2>1. up /\ job \in SyncJob /\ DoneWith("restart") \in JobType
    BY <1>1, MovesOn DEF SyncSteps
  <2> QED
    BY <2>1 DEF JobType, QueueType, SyncJob, SyncSteps, Inv, TypeOK
<1>2. CASE RevertBlock
  BY <1>1, <1>2, BeginDeleteStep DEF RevertBlock
<1>3. CASE Reverted
  BY <1>1, <1>3, GotoStep DEF Reverted
<1>4. ASSUME NEW b \in Block, ApplyBlock(b) PROVE Inv'
  BY <1>1, <1>4, BeginExecuteStep DEF ApplyBlock
<1>5. CASE AppliedAll
  BY <1>1, <1>5, GotoStep DEF AppliedAll
<1>6. CASE BlockSyncProcessingError
  BY <1>1, <1>6, GotoStep DEF BlockSyncProcessingError
<1>7. CASE FastSwitchProcessingError
  BY <1>1, <1>7, GotoStep DEF FastSwitchProcessingError
<1>8. CASE BlockSyncNoAnswer
  BY <1>1, <1>8, GotoStep DEF BlockSyncNoAnswer
<1>9. CASE FastSwitchNoAnswer
  BY <1>1, <1>9, GotoStep DEF FastSwitchNoAnswer
<1> QED
  BY <1>2, <1>3, <1>4, <1>5, <1>6, <1>7, <1>8, <1>9

\* Undoing a switch and restoring the backup.
LEMMA RecoverySteps ==
    ASSUME Inv,
           \/ UndoBlock \/ Undone \/ UndoFailed
           \/ RestoreBlock \/ RestoreFailed \/ Restored
           \/ ClearTempTable
    PROVE  Inv'
<1>1. ASSUME NEW step \in {"undoing", "restoring", "clearing"}, At(step)
      PROVE  /\ up /\ op = NoOp /\ job \in JobType /\ queue \in QueueType
             /\ \A outcome : DoneWith(outcome) \in JobType
             /\ [job EXCEPT !.at = "restoring"] \in JobType
             /\ [job EXCEPT !.at = "clearing"] \in JobType
  <2>1. /\ up /\ op = NoOp /\ job \in SyncJob
        /\ \A to \in SyncSteps \cup {"sync"} : [job EXCEPT !.at = to] \in SyncJob
        /\ \A outcome : DoneWith(outcome) \in JobType
    BY <1>1, MovesOn DEF SyncSteps
  <2> QED
    BY <2>1 DEF JobType, QueueType, SyncSteps, Inv, TypeOK
<1>2. CASE UndoBlock
  BY <1>1, <1>2, BeginDeleteStep DEF UndoBlock
<1>3. CASE Undone
  BY <1>1, <1>3, GotoStep DEF Undone
<1>4. CASE UndoFailed
  BY <1>1, <1>4, GotoStep DEF UndoFailed, RecoveryFailed
<1>5. CASE RestoreBlock
  <2>1. NextTempBlock \in Block
    BY <1>5, MinOfNaturals DEF RestoreBlock, NextTempBlock, Inv, TypeOK
  <2> QED
    BY <1>1, <1>5, <2>1, BeginExecuteStep DEF RestoreBlock
<1>6. CASE RestoreFailed
  BY <1>1, <1>6, GotoStep DEF RestoreFailed, RecoveryFailed
<1>7. CASE Restored
  BY <1>1, <1>7, GotoStep DEF Restored
<1>8. CASE ClearTempTable
  <2>1. up /\ up' /\ op' = op /\ job' \in JobType
    BY <1>1, <1>8 DEF ClearTempTable
  <2>2. DOMAIN temp' = {}
    BY <1>8 DEF ClearTempTable, Empty
  <2>3. TypeOK'
    BY <1>8, <2>1, <2>2 DEF ClearTempTable, Inv, TypeOK, JobType
  <2>4. ChainLinked' /\ ApplicationFollowsEngine' /\ WorkInProgressSafe'
    BY <1>8, <2>1
       DEF ClearTempTable, Inv, ChainLinked, ApplicationFollowsEngine, WorkInProgressSafe,
           CanExecute, Tip
  <2> QED
    BY <2>3, <2>4 DEF Inv
<1> QED
  BY <1>2, <1>3, <1>4, <1>5, <1>6, <1>7, <1>8

\* Every step keeps the invariant.
LEMMA NextInv == Inv /\ [Next]_vars => Inv'
<1> SUFFICES ASSUME Inv, [Next]_vars PROVE Inv'
  OBVIOUS
<1>1. CASE UNCHANGED vars
  BY <1>1 DEF vars, Inv, TypeOK, ChainLinked, ApplicationFollowsEngine, WorkInProgressSafe,
              CanExecute, Tip
<1>2. CASE MutexHolder
  BY <1>2, ReceivingSteps, SaveBlockStep, RemoveBlockStep, PreparationSteps, ApplyingSteps,
     RecoverySteps, EndProcessStep DEF MutexHolder, Stopped
<1>3. CASE \E b \in Block : ReceiveBlock(b) \/ ExecuteGenerated(b)
  BY <1>3, ReceivingSteps
<1>4. CASE Stop \/ Crash \/ Start
  BY <1>4, ReceivingSteps, EndProcessStep, StartStep DEF Crash
<1> QED
  BY <1>1, <1>2, <1>3, <1>4 DEF Next

\* The invariant holds in every behaviour.
THEOREM Invariance == Spec => []Inv
<1>1. Init => Inv
  BY InitInv
<1>2. Inv /\ [Next]_vars => Inv'
  BY NextInv
<1> QED
  BY <1>1, <1>2, PTL DEF Spec

\* The tables and the control state are well formed, whatever the tree of
\* blocks, the peers' answers, the stops and the crashes.
THEOREM TypeCorrect == Spec => []TypeOK
  BY Invariance, PTL DEF Inv

\* The blocks in the engine's database always form a chain from genesis.
THEOREM AlwaysAChain == Spec => []ChainLinked
  BY Invariance, PTL DEF Inv

\* A running node's application and engine are at most one half-done block
\* apart, in the direction of that operation.
THEOREM AlwaysTogether == Spec => []ApplicationFollowsEngine
  BY Invariance, PTL DEF Inv

\* What _execute and _deleteBlock checked is still true when they write.
THEOREM ChecksStayTrue == Spec => []WorkInProgressSafe
  BY Invariance, PTL DEF Inv

\* The chain only changes where a block is saved or removed.
LEMMA OtherStepsKeepChain ==
    ASSUME Next, ~SaveBlock, ~RemoveBlock
    PROVE  UNCHANGED <<chain, finalizedHeight>>
<1>1. MutexHolder => UNCHANGED <<chain, finalizedHeight>>
  BY DEF MutexHolder, engineDB, Goto, ExecuteReceived, DropReceived, StartSync,
         DetermineSyncMechanism, ComputeBestPeer, BlockSyncCommonBlock,
         FastSwitchCommonBlock, RevertBlock, Reverted, ApplyBlock, AppliedAll,
         BlockSyncProcessingError, FastSwitchProcessingError, BlockSyncNoAnswer,
         FastSwitchNoAnswer, UndoBlock, Undone, UndoFailed, RecoveryFailed, RestoreBlock,
         RestoreFailed, Restored, ClearTempTable, Stopped, EndProcess
<1> QED
  BY <1>1, SMTT(60) DEF Next, engineDB, ReceiveBlock, ExecuteGenerated, Stop, Crash, EndProcess, Start

\* Finality is irreversible on this node: no switch of chains, failed switch,
\* restore, stop or crash removes or replaces a block at or below the
\* finalized height, and that height never decreases.
THEOREM FinalityIrreversible == Spec => FinalizedKept
<1> DEFINE Keeps == /\ finalizedHeight' >= finalizedHeight
                    /\ Len(chain') >= finalizedHeight
                    /\ \A i \in 1 .. finalizedHeight : chain'[i] = chain[i]
<1>1. ASSUME Inv, [Next]_vars PROVE [Keeps]_vars
  <2>1. /\ chain \in Seq(Block) /\ Len(chain) \in Nat /\ finalizedHeight \in Nat
        /\ finalizedHeight <= Len(chain)
    BY <1>1 DEF Inv, TypeOK, WorkInProgressSafe
  <2>2. CASE SaveBlock
    <3>1. op.block \in Block /\ chain' = Append(chain, op.block)
      BY <1>1, <2>2 DEF SaveBlock, Inv, TypeOK, SaveOp, RemoveOp, NoOp
    <3> QED
      BY <1>1, <2>1, <2>2, <3>1, SaveBlockStep
  <2>3. CASE RemoveBlock
    <3>1. chain' = SubSeq(chain, 1, Len(chain) - 1) /\ Len(chain) > finalizedHeight
      BY <1>1, <2>3 DEF RemoveBlock, Inv, WorkInProgressSafe
    <3>2. Len(chain) - 1 \in 0 .. Len(chain)
      BY <2>1, <3>1
    <3>3. Len(chain') = Len(chain) - 1 /\ \A i \in 1 .. Len(chain) - 1 : chain'[i] = chain[i]
      BY <2>1, <3>1, <3>2, Prefix
    <3> QED
      BY <1>1, <2>1, <2>3, <3>1, <3>3, RemoveBlockStep
  <2>4. CASE Next /\ ~SaveBlock /\ ~RemoveBlock
    BY <2>1, <2>4, OtherStepsKeepChain
  <2> QED
    BY <1>1, <2>2, <2>3, <2>4
<1> QED
  BY <1>1, Invariance, PTL DEF Spec, FinalizedKept

(* --------------------- the chain that was promised --------------------- *)

\* Two ends of a sequence, cut after its first m elements.
LEMMA Cut ==
    ASSUME NEW S, NEW s \in Seq(S), NEW m \in 0 .. Len(s)
    PROVE  /\ SubSeq(s, 1, m) \in Seq(S) /\ Len(SubSeq(s, 1, m)) = m
           /\ \A i \in 1 .. m : SubSeq(s, 1, m)[i] = s[i]
           /\ SubSeq(s, m + 1, Len(s)) \in Seq(S)
           /\ Len(SubSeq(s, m + 1, Len(s))) = Len(s) - m
           /\ \A i \in 1 .. Len(s) - m : SubSeq(s, m + 1, Len(s))[i] = s[m + i]
<1>1. \A i \in 1 .. Len(s) : s[i] \in S
  OBVIOUS
<1>2. Len(s) \in Nat
  OBVIOUS
<1> QED
  BY <1>1, <1>2, SubSeqProperties

\* A sequence with one more element.
LEMMA OneMore ==
    ASSUME NEW S, NEW s \in Seq(S), NEW b \in S
    PROVE  /\ Append(s, b) \in Seq(S) /\ Len(Append(s, b)) = Len(s) + 1
           /\ Append(s, b)[Len(s) + 1] = b
           /\ \A i \in 1 .. Len(s) : Append(s, b)[i] = s[i]
  OBVIOUS

\* Appending to a sequence and moving its cut from f up to g.
LEMMA AppendMovesCut ==
    ASSUME NEW S, NEW s \in Seq(S), NEW b \in S, NEW f \in 0 .. Len(s), NEW g \in f .. Len(s)
    PROVE  LET t == SubSeq(s, f + 1, Len(s))
           IN  /\ SubSeq(Append(s, b), 1, g) = SubSeq(s, 1, f) \o SubSeq(t, 1, g - f)
               /\ SubSeq(Append(s, b), g + 1, Len(Append(s, b))) =
                      Append(SubSeq(t, (g - f) + 1, Len(t)), b)
<1> DEFINE t == SubSeq(s, f + 1, Len(s))
           u == Append(s, b)
           left == SubSeq(s, 1, f) \o SubSeq(t, 1, g - f)
           right == Append(SubSeq(t, (g - f) + 1, Len(t)), b)
<1>1. /\ u \in Seq(S) /\ Len(u) = Len(s) + 1 /\ u[Len(s) + 1] = b
      /\ \A i \in 1 .. Len(s) : u[i] = s[i]
  BY OneMore
<1>2. /\ SubSeq(s, 1, f) \in Seq(S) /\ Len(SubSeq(s, 1, f)) = f
      /\ \A i \in 1 .. f : SubSeq(s, 1, f)[i] = s[i]
      /\ t \in Seq(S) /\ Len(t) = Len(s) - f
      /\ \A i \in 1 .. Len(s) - f : t[i] = s[f + i]
  BY Cut
<1>3. g - f \in 0 .. Len(t) /\ g \in 0 .. Len(u)
  BY <1>1, <1>2
<1> HIDE DEF t, u
<1>4. /\ SubSeq(t, 1, g - f) \in Seq(S) /\ Len(SubSeq(t, 1, g - f)) = g - f
      /\ \A i \in 1 .. g - f : SubSeq(t, 1, g - f)[i] = t[i]
      /\ SubSeq(t, (g - f) + 1, Len(t)) \in Seq(S)
      /\ Len(SubSeq(t, (g - f) + 1, Len(t))) = Len(t) - (g - f)
      /\ \A i \in 1 .. Len(t) - (g - f) : SubSeq(t, (g - f) + 1, Len(t))[i] = t[(g - f) + i]
  BY <1>2, <1>3, Cut
<1>5. /\ SubSeq(u, 1, g) \in Seq(S) /\ Len(SubSeq(u, 1, g)) = g
      /\ \A i \in 1 .. g : SubSeq(u, 1, g)[i] = u[i]
      /\ SubSeq(u, g + 1, Len(u)) \in Seq(S)
      /\ Len(SubSeq(u, g + 1, Len(u))) = Len(u) - g
      /\ \A i \in 1 .. Len(u) - g : SubSeq(u, g + 1, Len(u))[i] = u[g + i]
  BY <1>1, <1>3, Cut
<1>6. SubSeq(u, 1, g) = left
  <2>1. /\ left \in Seq(S) /\ Len(left) = f + (g - f)
        /\ \A i \in 1 .. f + (g - f) :
              left[i] = IF i <= f THEN SubSeq(s, 1, f)[i] ELSE SubSeq(t, 1, g - f)[i - f]
    BY <1>2, <1>4, ConcatProperties
  <2>2. f + (g - f) = g
    OBVIOUS
  <2>3. ASSUME NEW i \in 1 .. g PROVE left[i] = s[i]
    <3>1. CASE i <= f
      BY <1>2, <2>1, <2>2, <3>1, SMTT(60)
    <3>2. CASE i > f
      <4>1. i - f \in 1 .. g - f /\ i - f \in 1 .. Len(s) - f /\ f + (i - f) = i
        BY <3>2
      <4> QED
        BY <1>2, <1>4, <2>1, <2>2, <3>2, <4>1
    <3> QED
      BY <3>1, <3>2
  <2>4. ASSUME NEW i \in 1 .. g PROVE SubSeq(u, 1, g)[i] = s[i]
    BY <1>1, <1>5
  <2> HIDE DEF left
  <2> QED
    BY <1>5, <2>1, <2>2, <2>3, <2>4, SeqEqual
<1>7. SubSeq(u, g + 1, Len(u)) = right
  <2> DEFINE rest == SubSeq(t, (g - f) + 1, Len(t))
             n == Len(s) - g
  <2>1. n \in Nat /\ Len(t) - (g - f) = n /\ Len(u) - g = n + 1
    BY <1>1, <1>2
  <2>2. rest \in Seq(S) /\ Len(rest) = n /\ \A i \in 1 .. n : rest[i] = s[g + i]
    <3>1. ASSUME NEW i \in 1 .. n
          PROVE (g - f) + i \in 1 .. Len(s) - f /\ f + ((g - f) + i) = g + i
      OBVIOUS
    <3> QED
      BY <1>2, <1>4, <2>1, <3>1
  <2>3. /\ right \in Seq(S) /\ Len(right) = n + 1 /\ right[n + 1] = b
        /\ \A i \in 1 .. n : right[i] = rest[i]
    <3> HIDE DEF rest
    <3>1. Append(rest, b) \in Seq(S) /\ Len(Append(rest, b)) = Len(rest) + 1
          /\ Append(rest, b)[Len(rest) + 1] = b
          /\ \A i \in 1 .. Len(rest) : Append(rest, b)[i] = rest[i]
      BY <2>2, OneMore
    <3> QED
      BY <2>2, <3>1 DEF rest
  <2> HIDE DEF right, rest
  <2>4. ASSUME NEW i \in 1 .. n + 1 PROVE SubSeq(u, g + 1, Len(u))[i] = right[i]
    <3>1. CASE i = n + 1
      <4>1. g + i = Len(s) + 1 /\ i \in 1 .. Len(u) - g
        BY <2>1, <3>1
      <4>2. SubSeq(u, g + 1, Len(u))[i] = u[Len(s) + 1]
        BY <1>5, <4>1
      <4> QED
        BY <1>1, <2>3, <3>1, <4>2
    <3>2. CASE i # n + 1
      <4>1. i \in 1 .. n /\ g + i \in 1 .. Len(s)
        BY <2>1, <3>2
      <4> QED
        BY <1>1, <1>5, <2>1, <2>2, <2>3, <4>1
    <3> QED
      BY <3>1, <3>2
  <2> QED
    BY <1>5, <2>1, <2>3, <2>4, SeqEqual
<1> QED
  BY <1>6, <1>7 DEF t, u

\* Removing the last element above the cut.
LEMMA FrontKeepsCut ==
    ASSUME NEW S, NEW s \in Seq(S), NEW f \in 0 .. Len(s), f < Len(s)
    PROVE  LET t == SubSeq(s, f + 1, Len(s))
               u == SubSeq(s, 1, Len(s) - 1)
           IN  /\ SubSeq(u, 1, f) = SubSeq(s, 1, f)
               /\ SubSeq(u, f + 1, Len(u)) = SubSeq(t, 1, Len(t) - 1)
               /\ t # << >>
<1> DEFINE t == SubSeq(s, f + 1, Len(s))
           u == SubSeq(s, 1, Len(s) - 1)
<1>1. Len(s) - 1 \in 0 .. Len(s)
  OBVIOUS
<1>2. /\ u \in Seq(S) /\ Len(u) = Len(s) - 1
      /\ \A i \in 1 .. Len(s) - 1 : u[i] = s[i]
  BY <1>1, Cut, ZenonT(60)
<1>3. /\ SubSeq(s, 1, f) \in Seq(S) /\ Len(SubSeq(s, 1, f)) = f
      /\ \A i \in 1 .. f : SubSeq(s, 1, f)[i] = s[i]
      /\ t \in Seq(S) /\ Len(t) = Len(s) - f
      /\ \A i \in 1 .. Len(s) - f : t[i] = s[f + i]
  BY Cut
<1> HIDE DEF t, u
<1>4. f \in 0 .. Len(u) /\ Len(t) - 1 \in 0 .. Len(t)
  BY <1>2, <1>3
<1>5. /\ SubSeq(u, 1, f) \in Seq(S) /\ Len(SubSeq(u, 1, f)) = f
      /\ \A i \in 1 .. f : SubSeq(u, 1, f)[i] = u[i]
      /\ SubSeq(u, f + 1, Len(u)) \in Seq(S)
      /\ Len(SubSeq(u, f + 1, Len(u))) = Len(u) - f
      /\ \A i \in 1 .. Len(u) - f : SubSeq(u, f + 1, Len(u))[i] = u[f + i]
  BY <1>2, <1>4, Cut
<1>6. /\ SubSeq(t, 1, Len(t) - 1) \in Seq(S) /\ Len(SubSeq(t, 1, Len(t) - 1)) = Len(t) - 1
      /\ \A i \in 1 .. Len(t) - 1 : SubSeq(t, 1, Len(t) - 1)[i] = t[i]
  BY <1>3, <1>4, Cut
<1>7. SubSeq(u, 1, f) = SubSeq(s, 1, f)
  BY <1>2, <1>3, <1>4, <1>5, SeqEqual
<1>8. SubSeq(u, f + 1, Len(u)) = SubSeq(t, 1, Len(t) - 1)
  <2>1. Len(u) - f = Len(t) - 1
    BY <1>2, <1>3
  <2>2. ASSUME NEW i \in 1 .. Len(t) - 1
        PROVE  SubSeq(u, f + 1, Len(u))[i] = SubSeq(t, 1, Len(t) - 1)[i]
    <3>1. f + i \in 1 .. Len(s) - 1 /\ i \in 1 .. Len(s) - f
      BY <1>3
    <3> QED
      BY <1>2, <1>3, <1>5, <1>6, <2>1, <3>1
  <2> QED
    BY <1>5, <1>6, <2>1, <2>2, SeqEqual
<1>9. t # << >>
  BY <1>3
<1> QED
  BY <1>7, <1>8, <1>9 DEF t, u

\* A saved block is put on top of the promised chain, and the tail's oldest
\* blocks up to the new finalized height become final.
LEMMA SaveBlockExtends ==
    ASSUME Inv, SaveBlock
    PROVE  Promised!Next
<1> DEFINE b == op.block
           f == finalizedHeight
           g == finalizedHeight'
           tail == SubSeq(chain, f + 1, Len(chain))
<1>1. /\ b \in Block /\ op.kind = "save" /\ CanExecute(b)
      /\ chain \in Seq(Block) /\ chain' = Append(chain, b)
      /\ f \in Nat /\ f <= Len(chain) /\ g = Max({f, b.precommitted})
  BY DEF SaveBlock, Inv, TypeOK, WorkInProgressSafe, SaveOp, RemoveOp, NoOp
<1>2. /\ b.height = Len(chain) + 1 /\ b.precommitted \in Nat /\ b.precommitted < b.height
      /\ b.previousBlockID = Tip.id
  BY <1>1, TipHeight, BlockAssumption DEF Inv, CanExecute, BlockType
<1>3. f \in 0 .. Len(chain) /\ g \in f .. Len(chain)
  BY <1>1, <1>2, MaxOfTwo
<1>4. /\ SubSeq(chain', 1, g) = SubSeq(chain, 1, f) \o SubSeq(tail, 1, g - f)
      /\ SubSeq(chain', g + 1, Len(chain')) = Append(SubSeq(tail, (g - f) + 1, Len(tail)), b)
  BY <1>1, <1>3, AppendMovesCut, ZenonT(60)
<1>5. /\ Len(SubSeq(chain, 1, f)) = f /\ Len(tail) = Len(chain) - f
      /\ \A i \in 1 .. f : SubSeq(chain, 1, f)[i] = chain[i]
      /\ \A i \in 1 .. Len(chain) - f : tail[i] = chain[f + i]
      /\ SubSeq(chain, 1, f) \in Seq(Block) /\ tail \in Seq(Block)
  BY <1>1, <1>3, Cut
<1>6. Promised!Top = Tip
  <2>1. CASE Len(chain) > f
    <3>1. Len(tail) \in 1 .. Len(chain) - f /\ f + Len(tail) = Len(chain)
      BY <1>1, <1>5, <2>1
    <3>2. tail # << >> /\ tail[Len(tail)] = chain[Len(chain)] /\ chain # << >>
      <4>1. tail[Len(tail)] = chain[Len(chain)]
        BY <1>5, <3>1
      <4> HIDE DEF tail
      <4>2. tail # << >>
        BY <1>5, <3>1
      <4> QED
        BY <1>1, <2>1, <4>1, <4>2
    <3> QED
      BY <3>2 DEF Promised!Top, Tip
  <2>2. CASE Len(chain) = f /\ f > 0
    <3>1. tail = << >>
      BY <1>1, <1>5, <2>2
    <3>2. SubSeq(chain, 1, f) # << >> /\ chain # << >>
      <4> DEFINE final == SubSeq(chain, 1, f)
      <4>1. final \in Seq(Block) /\ Len(final) > 0
        BY <1>5, <2>2
      <4> HIDE DEF final
      <4>2. final # << >>
        BY <4>1
      <4> QED
        BY <1>1, <2>2, <4>2 DEF final
    <3>3. SubSeq(chain, 1, f)[Len(SubSeq(chain, 1, f))] = chain[Len(chain)]
      BY <1>1, <1>5, <2>2
    <3> QED
      BY <3>1, <3>2, <3>3 DEF Promised!Top, Tip
  <2>3. CASE Len(chain) = 0
    <3>1. tail = << >> /\ SubSeq(chain, 1, f) = << >> /\ chain = << >>
      BY <1>1, <1>3, <1>5, <2>3
    <3> QED
      BY <3>1 DEF Promised!Top, Tip
  <2> QED
    BY <1>1, <2>1, <2>2, <2>3
<1>7. g - f \in 0 .. Len(tail) /\ b.height = Len(SubSeq(chain, 1, f)) + Len(tail) + 1
  BY <1>1, <1>2, <1>3, <1>5, SMTT(60)
<1>8. Promised!Extend(b, g - f)
  <2> HIDE DEF b, f, g, tail
  <2>1. b.previousBlockID = Promised!Top.id
    BY <1>2, <1>6
  <2> QED
    BY <2>1, <1>4, <1>7 DEF Promised!Extend, b, f, g, tail
<1> QED
  BY <1>1, <1>7, <1>8 DEF Promised!Next

\* A removed block is the last one of the promised tail.
LEMMA RemoveBlockRetracts ==
    ASSUME Inv, RemoveBlock
    PROVE  Promised!Next
<1>1. /\ chain \in Seq(Block) /\ chain' = SubSeq(chain, 1, Len(chain) - 1)
      /\ finalizedHeight \in 0 .. Len(chain) /\ finalizedHeight < Len(chain)
      /\ finalizedHeight' = finalizedHeight
  BY DEF RemoveBlock, Inv, TypeOK, WorkInProgressSafe
<1>2. Promised!Retract
  BY <1>1, FrontKeepsCut DEF Promised!Retract
<1> QED
  BY <1>2 DEF Promised!Next

\* The node with its synchronizer, stops and crashes implements the chain with a
\* finalized part that only grows, for every tree of blocks.
THEOREM Implementation == Spec => ImplementsFinalizedChain
<1>1. Init => Promised!Init
  BY DEF Init, Promised!Init
<1>2. ASSUME Inv, [Next]_vars
      PROVE  [Promised!Next]_<<SubSeq(chain, 1, finalizedHeight),
                               SubSeq(chain, finalizedHeight + 1, Len(chain))>>
  <2>1. CASE SaveBlock
    BY <1>2, <2>1, SaveBlockExtends
  <2>2. CASE RemoveBlock
    BY <1>2, <2>2, RemoveBlockRetracts
  <2>3. CASE Next /\ ~SaveBlock /\ ~RemoveBlock
    BY <2>3, OtherStepsKeepChain
  <2> QED
    BY <1>2, <2>1, <2>2, <2>3 DEF vars
<1> QED
  BY <1>1, <1>2, Invariance, PTL DEF Spec, ImplementsFinalizedChain, Promised!Spec

(* ----------------------------- the backup ------------------------------ *)

\* The block at height k of a chain with genesis.
BlockAt(c, k) == IF k = 0 THEN Genesis ELSE c[k]

\* The blocks of a temp table t continue the first k blocks of the chain c,
\* without a gap and each one executable.
Continues(c, t, k) ==
    \A h \in DOMAIN t :
        /\ h > k /\ (h # k + 1 => h - 1 \in DOMAIN t)
        /\ t[h].height = h /\ t[h].executes
        /\ t[h].previousBlockID = (IF h = k + 1 THEN BlockAt(c, k) ELSE t[h - 1]).id

\* What the temp table holds, and which half-done operation there may be, in each
\* of the steps of a job.
JobFits(j) ==
    /\ j.at \in {"idle", "sync", "bestPeer", "common"} => DOMAIN temp = {} /\ op = NoOp
    /\ j.at = "executing" => /\ DOMAIN temp = {}
                             /\ op.kind = "save" /\ ~op.removeFromTempTable
    /\ j.at = "reverting" =>
          /\ Continues(chain, temp, Len(chain)) /\ j.common <= Len(chain)
          /\ op = NoOp \/ (op.kind = "remove" /\ op.saveTempBlock /\ j.common < Len(chain))
    /\ j.at = "applying" =>
          /\ Continues(chain, temp, j.common) /\ j.common <= Len(chain)
          /\ op = NoOp \/ (op.kind = "save" /\ ~op.removeFromTempTable)
    /\ j.at = "undoing" =>
          /\ Continues(chain, temp, j.common) /\ j.common <= Len(chain)
          /\ op = NoOp \/ (op.kind = "remove" /\ ~op.saveTempBlock /\ j.common < Len(chain))
    /\ j.at = "restoring" =>
          /\ Continues(chain, temp, Len(chain))
          /\ op = NoOp \/ (/\ op.kind = "save" /\ op.removeFromTempTable
                           /\ op.block.height \in DOMAIN temp
                           /\ temp[op.block.height] = op.block)
    /\ j.at = "clearing" => op = NoOp

\* The inductive invariant behind BackupSound.
Backup ==
    /\ \A i \in DOMAIN chain : chain[i].executes
    /\ JobFits(job)

\* No block of the peer makes a block final above the common one: what the
\* switch of chains has applied can be deleted again.
SwitchNotFinal == job.at = "undoing" => finalizedHeight <= job.common

\* Only the synchronizer's own steps and the mutex determine what is demanded.
LEMMA GotoKeepsBackup ==
    ASSUME Backup, NEW j, Goto(j), JobFits(j)
    PROVE  Backup'
  BY DEF Backup, Goto, JobFits, engineDB

\* The lowest block of the temp table executes on the tip.
LEMMA LowestFits ==
    ASSUME Inv, Continues(chain, temp, Len(chain)), DOMAIN temp # {}
    PROVE  /\ CanExecute(NextTempBlock) /\ NextTempBlock \in Block
           /\ NextTempBlock.height \in DOMAIN temp
           /\ temp[NextTempBlock.height] = NextTempBlock
<1> DEFINE m == Min(DOMAIN temp)
<1>1. DOMAIN temp \subseteq Nat /\ chain \in Seq(Block) /\ Len(chain) \in Nat
  BY DEF Inv, TypeOK
<1>2. m \in DOMAIN temp /\ \A n \in DOMAIN temp : m <= n
  BY <1>1, MinOfNaturals
<1> HIDE DEF m
<1>3. m \in Nat /\ m = Len(chain) + 1
  <2>1. m \in Nat /\ m - 1 \notin DOMAIN temp
    BY <1>1, <1>2
  <2> QED
    BY <1>2, <2>1 DEF Continues
<1>4. /\ temp[m].height = Len(chain) + 1 /\ temp[m].executes
      /\ temp[m].previousBlockID = BlockAt(chain, Len(chain)).id
  BY <1>2, <1>3 DEF Continues
<1>5. BlockAt(chain, Len(chain)) = Tip /\ Tip.height = Len(chain)
  BY <1>1, TipHeight DEF BlockAt, Tip, Inv
<1>6. temp[m] \in Block /\ NextTempBlock = temp[m]
  BY <1>2 DEF Inv, TypeOK, NextTempBlock, m
<1> QED
  BY <1>2, <1>3, <1>4, <1>5, <1>6 DEF CanExecute

\* A block is saved: on the tip, from a peer, or from the temp table.
LEMMA SaveBlockKeepsBackup ==
    ASSUME Inv, Backup, SaveBlock
    PROVE  Backup'
<1> DEFINE b == op.block
           n == Len(chain)
<1>1. /\ b \in Block /\ op.kind = "save" /\ CanExecute(b)
      /\ chain \in Seq(Block) /\ n \in Nat /\ chain' = Append(chain, b) /\ op' = NoOp
      /\ DOMAIN temp \subseteq Nat /\ job \in JobType
      /\ job' = IF job = Executing THEN Idle ELSE job
  BY DEF SaveBlock, Inv, TypeOK, WorkInProgressSafe, SaveOp, RemoveOp, NoOp, JobType
<1>2. /\ Len(chain') = n + 1 /\ chain'[n + 1] = b /\ DOMAIN chain' = 1 .. n + 1
      /\ \A i \in 1 .. n : chain'[i] = chain[i]
  BY <1>1
<1>3. b.height = n + 1 /\ b.executes
  BY <1>1, TipHeight DEF Inv, CanExecute
<1>4. ASSUME NEW i \in DOMAIN chain' PROVE chain'[i].executes
  BY <1>1, <1>2, <1>3 DEF Backup
<1>5. job.at \in {"executing", "applying", "restoring"}
  BY <1>1 DEF Backup, JobFits, NoOp, JobType, Idle, Executing, SyncJob, SyncSteps
<1>6. CASE job.at = "executing"
  <2>1. job = Executing
    BY <1>1, <1>6 DEF JobType, Idle, Executing, SyncJob, SyncSteps
  <2>2. temp' = temp /\ DOMAIN temp = {}
    BY <1>6 DEF SaveBlock, Backup, JobFits
  <2> QED
    BY <1>1, <1>4, <2>1, <2>2 DEF Backup, JobFits, Idle
<1>7. CASE job.at = "applying"
  <2>1. job \in SyncJob /\ job' = job /\ job.common \in Nat
    BY <1>1, <1>7 DEF JobType, Idle, Executing, SyncJob
  <2>2. temp' = temp /\ Continues(chain, temp, job.common) /\ job.common <= n
    BY <1>1, <1>7 DEF SaveBlock, Backup, JobFits, NoOp
  <2>3. BlockAt(chain', job.common) = BlockAt(chain, job.common)
    BY <1>1, <1>2, <2>1, <2>2 DEF BlockAt
  <2>4. Continues(chain', temp', job.common)
    BY <2>2, <2>3 DEF Continues
  <2> QED
    BY <1>1, <1>2, <1>4, <1>7, <2>1, <2>2, <2>4 DEF Backup, JobFits
<1>8. CASE job.at = "restoring"
  <2>1. job' = job
    BY <1>1, <1>8 DEF Executing
  <2>2. /\ Continues(chain, temp, n) /\ n + 1 \in DOMAIN temp /\ temp[n + 1] = b
        /\ temp' = [h \in DOMAIN temp \ {n + 1} |-> temp[h]]
    BY <1>1, <1>3, <1>8 DEF SaveBlock, Backup, JobFits, NoOp
  <2> HIDE DEF b, n
  <2>3. Continues(chain', temp', n + 1)
    <3> SUFFICES ASSUME NEW h \in DOMAIN temp'
                 PROVE  /\ h > n + 1 /\ (h # (n + 1) + 1 => h - 1 \in DOMAIN temp')
                        /\ temp'[h].height = h /\ temp'[h].executes
                        /\ temp'[h].previousBlockID =
                              (IF h = (n + 1) + 1 THEN BlockAt(chain', n + 1)
                               ELSE temp'[h - 1]).id
      BY DEF Continues
    <3>1. /\ h \in DOMAIN temp /\ h \in Nat /\ h # n + 1 /\ temp'[h] = temp[h]
          /\ h > n /\ h - 1 \in DOMAIN temp /\ temp[h].height = h /\ temp[h].executes
          /\ temp[h].previousBlockID = temp[h - 1].id
      BY <1>1, <2>2 DEF Continues
    <3>2. CASE h = (n + 1) + 1
      <4>1. BlockAt(chain', n + 1) = temp[h - 1]
        BY <1>1, <1>2, <2>2, <3>2 DEF BlockAt
      <4> QED
        BY <1>1, <3>1, <3>2, <4>1
    <3>3. CASE h # (n + 1) + 1
      <4>1. h - 1 \in DOMAIN temp' /\ temp'[h - 1] = temp[h - 1]
        BY <1>1, <2>2, <3>1, <3>3
      <4> QED
        BY <1>1, <3>1, <3>3, <4>1
    <3> QED
      BY <3>2, <3>3
  <2> QED
    BY <1>1, <1>2, <1>4, <1>8, <2>1, <2>3 DEF Backup, JobFits
<1> QED
  BY <1>5, <1>6, <1>7, <1>8

\* A block is removed: into the temp table, or for good.
LEMMA RemoveBlockKeepsBackup ==
    ASSUME Inv, Backup, RemoveBlock
    PROVE  Backup'
<1> DEFINE n == Len(chain)
<1>1. /\ op.kind = "remove" /\ op' = NoOp /\ job' = job /\ n \in Nat /\ n > 0
      /\ chain \in Seq(Block) /\ chain' = SubSeq(chain, 1, n - 1)
      /\ DOMAIN temp \subseteq Nat /\ job \in JobType
  BY DEF RemoveBlock, Inv, TypeOK, WorkInProgressSafe, JobType
<1>2. /\ Len(chain') = n - 1 /\ DOMAIN chain' = 1 .. n - 1
      /\ \A i \in 1 .. n - 1 : chain'[i] = chain[i]
  <2>1. n - 1 \in 0 .. Len(chain)
    BY <1>1
  <2>2. /\ chain' \in Seq(Block) /\ Len(chain') = n - 1
        /\ \A i \in 1 .. n - 1 : chain'[i] = chain[i]
    BY <1>1, <2>1, Prefix
  <2> QED
    BY <2>2
<1>3. ASSUME NEW i \in DOMAIN chain' PROVE chain'[i].executes
  BY <1>1, <1>2 DEF Backup
<1>4. job.at \in {"reverting", "undoing"}
  BY <1>1 DEF Backup, JobFits, NoOp, JobType, Idle, Executing, SyncJob, SyncSteps
<1>5. job \in SyncJob /\ job.common \in Nat
  BY <1>1, <1>4 DEF JobType, Idle, Executing, SyncJob
<1>6. CASE job.at = "undoing"
  <2>1. temp' = temp /\ Continues(chain, temp, job.common) /\ job.common < n
    BY <1>1, <1>6 DEF RemoveBlock, Backup, JobFits, NoOp
  <2>2. BlockAt(chain', job.common) = BlockAt(chain, job.common)
    BY <1>1, <1>2, <1>5, <2>1 DEF BlockAt
  <2>3. Continues(chain', temp', job.common)
    BY <2>1, <2>2 DEF Continues
  <2>4. job.common <= Len(chain')
    BY <1>1, <1>2, <1>5, <2>1
  <2> QED
    BY <1>1, <1>3, <1>6, <2>3, <2>4 DEF Backup, JobFits
<1>7. CASE job.at = "reverting"
  <2>1. /\ Continues(chain, temp, n) /\ job.common < n
        /\ temp' = [h \in DOMAIN temp \cup {n} |-> IF h = n THEN Tip ELSE temp[h]]
    BY <1>1, <1>7 DEF RemoveBlock, Backup, JobFits, NoOp
  <2>2. /\ Tip = chain[n] /\ Tip.height = n /\ Tip.executes
        /\ Tip.previousBlockID = BlockAt(chain', n - 1).id
    <3>1. n \in DOMAIN chain /\ Tip = chain[n]
      BY <1>1 DEF Tip
    <3>2. (IF n = 1 THEN Genesis ELSE chain[n - 1]) = BlockAt(chain', n - 1)
      <4>1. CASE n = 1
        BY <4>1 DEF BlockAt
      <4>2. CASE n # 1
        <5> HIDE DEF n
        <5>1. n - 1 \in 1 .. n - 1 /\ n - 1 # 0
          BY <1>1, <4>2
        <5> QED
          BY <1>2, <4>2, <5>1 DEF BlockAt
      <4> QED
        BY <4>1, <4>2
    <3> QED
      BY <3>1, <3>2 DEF Inv, ChainLinked, Backup
  <2> HIDE DEF n
  <2>3. Continues(chain', temp', n - 1)
    <3> SUFFICES ASSUME NEW h \in DOMAIN temp'
                 PROVE  /\ h > n - 1 /\ (h # (n - 1) + 1 => h - 1 \in DOMAIN temp')
                        /\ temp'[h].height = h /\ temp'[h].executes
                        /\ temp'[h].previousBlockID =
                              (IF h = (n - 1) + 1 THEN BlockAt(chain', n - 1)
                               ELSE temp'[h - 1]).id
      BY DEF Continues
    <3>1. CASE h = n
      <4>1. temp'[h] = Tip /\ h > n - 1 /\ h = (n - 1) + 1
        BY <1>1, <2>1, <3>1
      <4> QED
        BY <2>2, <3>1, <4>1
    <3>2. CASE h # n
      <4>1. /\ h \in DOMAIN temp /\ h \in Nat /\ temp'[h] = temp[h]
            /\ h > n /\ (h # n + 1 => h - 1 \in DOMAIN temp)
            /\ temp[h].height = h /\ temp[h].executes
            /\ temp[h].previousBlockID =
                  (IF h = n + 1 THEN BlockAt(chain, n) ELSE temp[h - 1]).id
        BY <1>1, <2>1, <3>2 DEF Continues
      <4>2. BlockAt(chain, n) = Tip
        BY <1>1, <2>2 DEF BlockAt
      <4>3. CASE h = n + 1
        <5>1. h - 1 = n /\ h # (n - 1) + 1 /\ h > n - 1
          BY <1>1, <4>3
        <5>2. h - 1 \in DOMAIN temp' /\ temp'[h - 1] = Tip
          BY <2>1, <5>1
        <5> QED
          BY <4>1, <4>2, <4>3, <5>1, <5>2
      <4>4. CASE h # n + 1
        <5>1. h - 1 # n /\ h # (n - 1) + 1 /\ h > n - 1
          BY <1>1, <4>1, <4>4
        <5>2. h - 1 \in DOMAIN temp' /\ temp'[h - 1] = temp[h - 1]
          BY <2>1, <4>1, <4>4, <5>1
        <5> QED
          BY <4>1, <4>4, <5>1, <5>2
      <4> QED
        BY <4>3, <4>4
    <3> QED
      BY <3>1, <3>2
  <2>4. job.common <= Len(chain')
    BY <1>1, <1>2, <1>5, <2>1
  <2> QED
    BY <1>1, <1>2, <1>3, <1>7, <2>3, <2>4 DEF Backup, JobFits
<1> QED
  BY <1>4, <1>6, <1>7

\* Callers that queue up, the mutex passed on, and the end and start of a process.
LEMMA ReceivingKeepsBackup ==
    ASSUME Inv, Backup,
           \/ \E b \in Block : ReceiveBlock(b) \/ ExecuteGenerated(b)
           \/ ExecuteReceived \/ DropReceived \/ StartSync
           \/ Stop \/ Stopped \/ Start
    PROVE  Backup'
<1> USE DEF engineDB
<1>1. ASSUME UNCHANGED <<engineDB, job, op>> PROVE Backup'
  BY <1>1 DEF Backup, JobFits
<1>2. CASE \/ \E b \in Block : ReceiveBlock(b) \/ ExecuteGenerated(b)
           \/ DropReceived \/ Stop \/ Start
  BY <1>1, <1>2 DEF ReceiveBlock, ExecuteGenerated, DropReceived, Stop, Start
<1>3. ASSUME job = Idle PROVE DOMAIN temp = {} /\ op = NoOp
  BY <1>3 DEF Backup, JobFits, Idle
<1>4. CASE ExecuteReceived
  <2>1. /\ job = Idle /\ job' = Executing /\ op'.kind = "save" /\ ~op'.removeFromTempTable
        /\ UNCHANGED engineDB
    BY <1>4 DEF ExecuteReceived, HeadIsBlock, BeginExecute
  <2> QED
    BY <1>3, <2>1 DEF Backup, JobFits, Executing
<1>5. CASE StartSync
  <2>1. job = Idle /\ job'.at = "sync" /\ UNCHANGED <<engineDB, op>>
    BY <1>5 DEF StartSync, HeadIsBlock
  <2> QED
    BY <1>3, <2>1 DEF Backup, JobFits
<1>6. CASE Stopped
  <2>1. job = Idle /\ job' = Idle /\ op' = NoOp /\ UNCHANGED engineDB
    BY <1>6 DEF Stopped, EndProcess
  <2> QED
    BY <1>3, <2>1 DEF Backup, JobFits, Idle
<1> QED
  BY <1>2, <1>4, <1>5, <1>6

\* What the next job may be, in a step where the temp table is empty.
LEMMA EmptyFits ==
    ASSUME DOMAIN temp = {}, op = NoOp, NEW j,
           j.at \in {"idle", "sync", "bestPeer", "common"}
    PROVE  JobFits(j)
  BY DEF JobFits

\* A job that is done is idle or goes on with a synchronization.
LEMMA DoneAt ==
    ASSUME job \in SyncJob, NEW outcome
    PROVE  DoneWith(outcome).at \in {"idle", "sync"}
  BY DEF DoneWith, Idle, SyncJob

\* Choosing the mechanism, the peer and the common block.
LEMMA PreparationKeepsBackup ==
    ASSUME Inv, Backup,
           \/ DetermineSyncMechanism \/ ComputeBestPeer
           \/ BlockSyncCommonBlock \/ FastSwitchCommonBlock
    PROVE  Backup'
<1>1. job \in SyncJob /\ op = NoOp /\ DOMAIN temp = {}
  <2>1. PICK step \in {"sync", "bestPeer", "common"} : At(step)
    BY DEF DetermineSyncMechanism, ComputeBestPeer, BlockSyncCommonBlock, FastSwitchCommonBlock
  <2>2. job.at = step /\ job \in SyncJob /\ op = NoOp
    BY <2>1, MovesOn DEF At, SyncSteps
  <2> QED
    BY <2>2 DEF Backup, JobFits
<1>2. JobFits(Idle) /\ JobFits(DoneWith("restart"))
  BY <1>1, EmptyFits, DoneAt DEF Idle
<1>3. CASE DetermineSyncMechanism
  <2> DEFINE p == [job EXCEPT !.at = "bestPeer", !.mechanism = "blockSync"]
             c == [job EXCEPT !.at = "common", !.mechanism = "fastChainSwitch"]
  <2>1. p.at = "bestPeer" /\ c.at = "common"
    BY <1>1 DEF SyncJob
  <2>2. JobFits(p) /\ JobFits(c)
    <3> HIDE DEF p, c
    <3> QED
      BY <1>1, <2>1, EmptyFits
  <2> QED
    BY <1>2, <1>3, <2>2, GotoKeepsBackup DEF DetermineSyncMechanism
<1>4. CASE ComputeBestPeer
  <2>1. JobFits([job EXCEPT !.at = "common"])
    BY <1>1, EmptyFits DEF SyncJob
  <2> QED
    BY <1>2, <1>4, <2>1, GotoKeepsBackup DEF ComputeBestPeer
<1>5. ASSUME NEW height \in finalizedHeight .. Len(chain)
      PROVE  JobFits([job EXCEPT !.at = "reverting", !.common = height])
  <2> DEFINE j == [job EXCEPT !.at = "reverting", !.common = height]
  <2>1. j.at = "reverting" /\ j.common = height
    BY <1>1 DEF SyncJob
  <2>2. height <= Len(chain)
    BY DEF Inv, TypeOK
  <2>3. Continues(chain, temp, Len(chain))
    BY <1>1 DEF Continues
  <2> HIDE DEF j
  <2>4. JobFits(j)
    BY <1>1, <2>1, <2>2, <2>3 DEF JobFits
  <2> QED
    BY <2>4 DEF j
<1>6. CASE BlockSyncCommonBlock
  BY <1>2, <1>5, <1>6, GotoKeepsBackup DEF BlockSyncCommonBlock
<1>7. CASE FastSwitchCommonBlock
  BY <1>2, <1>5, <1>7, GotoKeepsBackup DEF FastSwitchCommonBlock
<1> QED
  BY <1>3, <1>4, <1>6, <1>7

\* A job that only changes its step keeps its common block.
LEMMA SameCommon ==
    ASSUME job \in SyncJob, NEW to, NEW outcome
    PROVE  LET j == [job EXCEPT !.at = to]
               k == [job EXCEPT !.at = to, !.outcome = outcome]
           IN  j.at = to /\ j.common = job.common /\ k.at = to /\ k.common = job.common
  BY DEF SyncJob

\* Nothing is half done when the temp table is cleared.
LEMMA ClearingFits ==
    ASSUME op = NoOp, NEW j, j.at = "clearing"
    PROVE  JobFits(j)
  BY DEF JobFits

\* Deleting with a backup and applying the blocks of a peer, of whom none runs out
\* of blocks.
LEMMA ApplyingKeepsBackup ==
    ASSUME ~PeersRunOut, Inv, Backup,
           \/ RevertBlock \/ Reverted \/ (\E b \in Block : ApplyBlock(b)) \/ AppliedAll
           \/ BlockSyncProcessingError \/ FastSwitchProcessingError
           \/ BlockSyncNoAnswer \/ FastSwitchNoAnswer
    PROVE  Backup'
<1> USE DEF engineDB
<1>1. PICK step \in {"reverting", "applying"} : At(step)
  BY DEF RevertBlock, Reverted, ApplyBlock, AppliedAll, BlockSyncProcessingError,
         FastSwitchProcessingError, BlockSyncNoAnswer, FastSwitchNoAnswer
<1>2. job.at = step /\ job \in SyncJob /\ op = NoOp /\ job.common \in Nat
  BY <1>1, MovesOn DEF At, SyncSteps, SyncJob
<1>3. Len(chain) \in Nat
  BY DEF Inv, TypeOK
<1>4. CASE RevertBlock
  <2>1. /\ job.at = "reverting" /\ job.common < Len(chain) /\ op'.kind = "remove"
        /\ op'.saveTempBlock /\ UNCHANGED <<engineDB, job>>
    BY <1>2, <1>3, <1>4 DEF RevertBlock, BeginDelete, At
  <2> QED
    BY <2>1 DEF Backup, JobFits
<1>5. CASE Reverted
  <2> DEFINE j == [job EXCEPT !.at = "applying"]
  <2>1. /\ job.at = "reverting" /\ Continues(chain, temp, Len(chain))
        /\ job.common = Len(chain)
    BY <1>2, <1>3, <1>5 DEF Reverted, At, Backup, JobFits
  <2>2. j.at = "applying" /\ j.common = job.common
    BY <1>2, SameCommon
  <2>3. Goto(j)
    BY <1>5 DEF Reverted
  <2> HIDE DEF j
  <2>4. JobFits(j)
    BY <1>2, <1>3, <2>1, <2>2 DEF JobFits
  <2> QED
    BY <2>3, <2>4, GotoKeepsBackup
<1>6. ASSUME NEW b \in Block, ApplyBlock(b) PROVE Backup'
  <2>1. /\ job.at = "applying" /\ op'.kind = "save"
        /\ ~op'.removeFromTempTable /\ UNCHANGED <<engineDB, job>>
    BY <1>6 DEF ApplyBlock, BeginExecute, At
  <2> QED
    BY <2>1 DEF Backup, JobFits
<1>7. ASSUME job.at = "applying", NEW outcome
      PROVE  /\ JobFits([job EXCEPT !.at = "clearing", !.outcome = outcome])
             /\ JobFits([job EXCEPT !.at = "undoing", !.outcome = outcome])
  <2> DEFINE u == [job EXCEPT !.at = "undoing", !.outcome = outcome]
             c == [job EXCEPT !.at = "clearing", !.outcome = outcome]
  <2>1. u.at = "undoing" /\ u.common = job.common /\ c.at = "clearing"
    BY <1>2, SameCommon
  <2>2. Continues(chain, temp, job.common) /\ job.common <= Len(chain)
    BY <1>7 DEF Backup, JobFits
  <2> HIDE DEF u, c
  <2>3. JobFits(u) /\ JobFits(c)
    BY <1>2, <2>1, <2>2, ClearingFits, SMTT(60) DEF JobFits
  <2> QED
    BY <2>3 DEF u, c
<1>8. CASE AppliedAll
  BY <1>7, <1>8, GotoKeepsBackup, ZenonT(60) DEF AppliedAll, At
<1>9. CASE BlockSyncProcessingError
  <2>1. DOMAIN temp = {} => JobFits(DoneWith("restart"))
    BY <1>2, EmptyFits, DoneAt, SMTT(60)
  <2> QED
    BY <1>7, <1>9, <2>1, GotoKeepsBackup DEF BlockSyncProcessingError, At
<1>10. CASE FastSwitchProcessingError
  BY <1>7, <1>10, GotoKeepsBackup DEF FastSwitchProcessingError, At
<1>11. ~BlockSyncNoAnswer /\ ~FastSwitchNoAnswer
  BY DEF BlockSyncNoAnswer, FastSwitchNoAnswer
<1> QED
  BY <1>4, <1>5, <1>6, <1>8, <1>9, <1>10, <1>11

\* Deleting the peer's blocks, restoring the backup, clearing the table.
LEMMA RecoveryKeepsBackup ==
    ASSUME SwitchNotFinal, Inv, Backup,
           \/ UndoBlock \/ Undone \/ UndoFailed
           \/ RestoreBlock \/ RestoreFailed \/ Restored \/ ClearTempTable
    PROVE  Backup'
<1> USE DEF engineDB
<1>1. PICK step \in {"undoing", "restoring", "clearing"} : At(step)
  BY DEF UndoBlock, Undone, UndoFailed, RestoreBlock, RestoreFailed, Restored, ClearTempTable
<1>2. job.at = step /\ job \in SyncJob /\ op = NoOp /\ job.common \in Nat
  BY <1>1, MovesOn DEF At, SyncSteps, SyncJob
<1>3. Len(chain) \in Nat /\ finalizedHeight \in Nat
  BY DEF Inv, TypeOK
<1>4. CASE UndoBlock
  <2>1. /\ job.at = "undoing" /\ job.common < Len(chain) /\ op'.kind = "remove"
        /\ ~op'.saveTempBlock /\ UNCHANGED <<engineDB, job>>
    BY <1>2, <1>3, <1>4 DEF UndoBlock, BeginDelete, At
  <2> QED
    BY <2>1 DEF Backup, JobFits
<1>5. CASE Undone
  <2> DEFINE j == [job EXCEPT !.at = "restoring"]
  <2>1. /\ job.at = "undoing" /\ Continues(chain, temp, job.common)
        /\ job.common = Len(chain)
    BY <1>2, <1>3, <1>5 DEF Undone, At, Backup, JobFits
  <2>2. j.at = "restoring"
    BY <1>2, SameCommon
  <2>3. Goto(j)
    BY <1>5 DEF Undone
  <2> HIDE DEF j
  <2>4. JobFits(j)
    BY <1>2, <2>1, <2>2 DEF JobFits
  <2> QED
    BY <2>3, <2>4, GotoKeepsBackup
<1>6. ~UndoFailed
  BY <1>2, <1>3 DEF UndoFailed, At, SwitchNotFinal
<1>7. ASSUME At("restoring"), DOMAIN temp # {}
      PROVE  /\ CanExecute(NextTempBlock) /\ NextTempBlock.height \in DOMAIN temp
             /\ temp[NextTempBlock.height] = NextTempBlock
  BY <1>7, LowestFits DEF At, Backup, JobFits
<1>8. CASE RestoreBlock
  <2>1. /\ job.at = "restoring" /\ op'.kind = "save" /\ op'.block = NextTempBlock
        /\ op'.removeFromTempTable /\ UNCHANGED <<engineDB, job>>
    BY <1>8 DEF RestoreBlock, BeginExecute, At
  <2>2. NextTempBlock.height \in DOMAIN temp /\ temp[NextTempBlock.height] = NextTempBlock
    BY <1>7, <1>8 DEF RestoreBlock
  <2> QED
    BY <2>1, <2>2 DEF Backup, JobFits
<1>9. ~RestoreFailed
  BY <1>7 DEF RestoreFailed
<1>10. CASE Restored
  <2>1. JobFits([job EXCEPT !.at = "clearing"])
    BY <1>2, SameCommon, ClearingFits
  <2> QED
    BY <1>10, <2>1, GotoKeepsBackup DEF Restored
<1>11. CASE ClearTempTable
  <2>1. /\ DOMAIN temp' = {} /\ chain' = chain /\ op' = NoOp
        /\ job' = DoneWith(job.outcome)
    BY <1>2, <1>11 DEF ClearTempTable, Empty
  <2>2. job'.at \in {"idle", "sync"}
    BY <1>2, <2>1, DoneAt
  <2> QED
    BY <2>1, <2>2 DEF Backup, JobFits
<1> QED
  BY <1>4, <1>5, <1>6, <1>8, <1>9, <1>10, <1>11

\* No step spoils the backup.
LEMMA BackupStep ==
    ASSUME ~PeersRunOut, ~Crashes, Inv, SwitchNotFinal, Backup, [Next]_vars
    PROVE  Backup'
<1>1. CASE UNCHANGED vars
  BY <1>1 DEF vars, Backup, JobFits
<1>2. CASE MutexHolder
  BY <1>2, SaveBlockKeepsBackup, RemoveBlockKeepsBackup, ReceivingKeepsBackup,
     PreparationKeepsBackup, ApplyingKeepsBackup, RecoveryKeepsBackup DEF MutexHolder
<1>3. CASE \E b \in Block : ReceiveBlock(b) \/ ExecuteGenerated(b)
  BY <1>3, ReceivingKeepsBackup
<1>4. CASE Stop \/ Crash \/ Start
  BY <1>4, ReceivingKeepsBackup DEF Crash
<1> QED
  BY <1>1, <1>2, <1>3, <1>4 DEF Next

\* The backup of a switch of chains is good whenever it is needed, and gone before
\* other work starts: for every tree of blocks and every stop, where peers answer,
\* the process does not die, and no block of the peer makes a block final above the
\* common one, the three cases in which the code gives the backup up.
THEOREM BackupIsSound ==
    ASSUME ~PeersRunOut, ~Crashes
    PROVE  Spec /\ []SwitchNotFinal => []BackupSound
<1>1. Init => Backup
  BY DEF Init, Backup, JobFits, Idle, Empty
<1>2. Inv /\ SwitchNotFinal /\ Backup /\ [Next]_vars => Backup'
  BY BackupStep
<1>3. Inv /\ Backup => BackupSound
  <2> SUFFICES ASSUME Inv, Backup PROVE BackupSound
    OBVIOUS
  <2>1. RestoreSucceeds
    BY LowestFits DEF RestoreSucceeds, At, Backup, JobFits
  <2>2. NoBackupLeftBehind
    BY DEF NoBackupLeftBehind, Backup, JobFits, Idle
  <2> QED
    BY <2>1, <2>2 DEF BackupSound
<1> QED
  BY <1>1, <1>2, <1>3, Invariance, PTL DEF Spec

(* ---------------------------- the tip's worth -------------------------- *)

\* The tip once the blocks of a temp table t are put back on the first k blocks of c.
PutBack(c, t, k) == IF DOMAIN t = {} THEN BlockAt(c, k) ELSE t[Max(DOMAIN t)]

NotWorse(b, than) == ~Preferred(than, b)

\* How good the tip is, or will be when the backup is put back, in each of the
\* steps of a switch of chains.
Worth(j) ==
    /\ Preferred(j.received, j.tipBefore)
    /\ j.at \in {"sync", "bestPeer", "common", "clearing"} => NotWorse(Tip, j.tipBefore)
    /\ j.at \in {"reverting", "restoring"} =>
          NotWorse(PutBack(chain, temp, Len(chain)), j.tipBefore)
    /\ j.at \in {"applying", "undoing"} =>
          NotWorse(PutBack(chain, temp, j.common), j.tipBefore)
    /\ j.at = "applying" /\ DOMAIN temp = {} => NotWorse(Tip, j.tipBefore)

TempBounded == \E m \in Nat : \A h \in DOMAIN temp : h <= m

\* The inductive invariant behind TipNeverWorse.
SwitchWorth ==
    /\ Backup /\ TempBounded
    /\ job \in SyncJob => Worth(job)

\* The height a block that executes says its chain has prevoted is no less than its
\* parent's: what the verification of the header against the BFT heights makes sure.
PrevotedHeightsGrow ==
    \A b \in Block \cup {Genesis}, c \in Block :
        c.executes /\ c.previousBlockID = b.id /\ c.height = b.height + 1
            => b.maxHeightPrevoted <= c.maxHeightPrevoted

\* What a step that ends the synchronizer must leave behind.
EndsNotWorse == up' /\ job' = Idle /\ job \notin {Idle, Executing} =>
                    ~Preferred(job.tipBefore, Tip')

\* What a job that follows the present one must satisfy.
Leads(j) == IF j.at = "idle" THEN NotWorse(Tip, job.tipBefore) ELSE Worth(j)

\* The preference is a strict weak order of the tips.
LEMMA PreferenceOrders ==
    ASSUME NEW a \in Block \cup {Genesis}, NEW b \in Block \cup {Genesis},
           NEW c \in Block \cup {Genesis}
    PROVE  /\ NotWorse(a, a)
           /\ Preferred(a, b) => NotWorse(a, b)
           /\ NotWorse(b, a) /\ Preferred(c, b) => NotWorse(c, a)
           /\ (/\ NotWorse(b, a) /\ b.maxHeightPrevoted <= c.maxHeightPrevoted
               /\ b.height <= c.height) => NotWorse(c, a)
<1>1. \A x \in Block \cup {Genesis} : x.maxHeightPrevoted \in Nat /\ x.height \in Nat
  BY BlockAssumption DEF BlockType
<1> QED
  BY <1>1 DEF NotWorse, Preferred, isDifferentChain

\* A nonempty bounded set of naturals has a greatest element, and Max denotes it.
LEMMA MaxOfBounded ==
    ASSUME NEW S \in SUBSET Nat, S # {}, NEW m \in Nat, \A n \in S : n <= m
    PROVE  Max(S) \in S /\ \A n \in S : n <= Max(S)
<1> DEFINE D == {m - n : n \in S}
<1>1. D \in SUBSET Nat /\ D # {}
  <2>1. \A n \in S : m - n \in Nat
    OBVIOUS
  <2>2. \A d \in D : d \in Nat
    BY <2>1
  <2> QED
    BY <2>2
<1>2. Min(D) \in D /\ \A d \in D : Min(D) <= d
  BY <1>1, MinOfNaturals
<1>3. PICK n \in S : Min(D) = m - n
  BY <1>2
<1>4. \A k \in S : m - n <= m - k
  BY <1>2, <1>3
<1>5. \E x \in S : \A y \in S : x >= y
  BY <1>4
<1> QED
  BY <1>5 DEF Max

\* The same greatest element makes the same Max.
LEMMA MaxIs ==
    ASSUME NEW S \in SUBSET Nat, NEW m \in S, \A n \in S : n <= m
    PROVE  Max(S) = m
<1>1. m \in Nat /\ S # {}
  OBVIOUS
<1>2. Max(S) \in S /\ \A n \in S : n <= Max(S)
  BY <1>1, MaxOfBounded
<1>3. Max(S) \in Nat /\ Max(S) <= m /\ m <= Max(S)
  BY <1>2
<1> QED
  BY <1>1, <1>3

\* The highest block of the temp table.
LEMMA TempTipIs ==
    ASSUME TypeOK, TempBounded, DOMAIN temp # {}
    PROVE  /\ Max(DOMAIN temp) \in DOMAIN temp /\ Max(DOMAIN temp) \in Nat
           /\ \A n \in DOMAIN temp : n <= Max(DOMAIN temp)
           /\ TempTip \in Block
<1>1. DOMAIN temp \in SUBSET Nat
  BY DEF TypeOK
<1>2. PICK m \in Nat : \A n \in DOMAIN temp : n <= m
  BY DEF TempBounded
<1>3. Max(DOMAIN temp) \in DOMAIN temp /\ \A n \in DOMAIN temp : n <= Max(DOMAIN temp)
  BY <1>1, <1>2, MaxOfBounded
<1> QED
  BY <1>1, <1>3 DEF TempTip, TypeOK

\* A step that only moves on to a job that fits.
LEMMA GotoKeepsWorth ==
    ASSUME TempBounded, NEW j, Goto(j), Leads(j)
    PROVE  TempBounded' /\ (job' \in SyncJob => (Worth(job))') /\ EndsNotWorse
<1>1. job' = j /\ chain' = chain /\ temp' = temp /\ Tip' = Tip
  BY DEF Goto, engineDB, Tip
<1>2. TempBounded'
  BY <1>1 DEF TempBounded
<1>3. ASSUME job' \in SyncJob PROVE (Worth(job))'
  <2>1. j.at # "idle"
    BY <1>1, <1>3 DEF SyncJob, SyncSteps
  <2> QED
    BY <1>1, <2>1 DEF Leads, Worth
<1>4. job' = Idle => NotWorse(Tip, job.tipBefore)
  BY <1>1 DEF Leads, Idle
<1>5. EndsNotWorse
  BY <1>1, <1>4 DEF EndsNotWorse, NotWorse
<1> QED
  BY <1>2, <1>3, <1>5

\* What a change of its step, or of other fields, leaves of a job.
LEMMA FieldsKept ==
    ASSUME job \in SyncJob, NEW to, NEW x
    PROVE  /\ [job EXCEPT !.at = to].at = to
           /\ [job EXCEPT !.at = to].common = job.common
           /\ [job EXCEPT !.at = to].received = job.received
           /\ [job EXCEPT !.at = to].tipBefore = job.tipBefore
           /\ [job EXCEPT !.at = to, !.outcome = x].at = to
           /\ [job EXCEPT !.at = to, !.outcome = x].common = job.common
           /\ [job EXCEPT !.at = to, !.outcome = x].received = job.received
           /\ [job EXCEPT !.at = to, !.outcome = x].tipBefore = job.tipBefore
           /\ [job EXCEPT !.at = to, !.mechanism = x].at = to
           /\ [job EXCEPT !.at = to, !.mechanism = x].received = job.received
           /\ [job EXCEPT !.at = to, !.mechanism = x].tipBefore = job.tipBefore
           /\ [job EXCEPT !.at = to, !.common = x].at = to
           /\ [job EXCEPT !.at = to, !.common = x].received = job.received
           /\ [job EXCEPT !.at = to, !.common = x].tipBefore = job.tipBefore
  BY DEF SyncJob

\* A job at a step where the tip itself counts.
LEMMA TipCounts ==
    ASSUME Preferred(job.received, job.tipBefore), NotWorse(Tip, job.tipBefore), NEW j,
           j.at \in {"sync", "bestPeer", "common", "clearing"},
           j.received = job.received, j.tipBefore = job.tipBefore
    PROVE  Leads(j)
  BY DEF Leads, Worth

\* The synchronizer ends or starts again with a tip that is good enough.
LEMMA DoneLeads ==
    ASSUME job \in SyncJob, Preferred(job.received, job.tipBefore),
           NotWorse(Tip, job.tipBefore), NEW outcome
    PROVE  Leads(DoneWith(outcome)) /\ Leads(Idle)
<1>1. Leads(Idle)
  BY DEF Leads, Idle
<1> DEFINE j == [job EXCEPT !.at = "sync"]
<1>2. j.at = "sync" /\ j.received = job.received /\ j.tipBefore = job.tipBefore
  BY FieldsKept
<1> HIDE DEF j
<1>3. Leads(j)
  BY <1>2, TipCounts
<1> QED
  BY <1>1, <1>3 DEF DoneWith, j

\* Callers that queue up, the mutex passed on, and the end and start of a process.
LEMMA ReceivingKeepsWorth ==
    ASSUME Inv, SwitchWorth,
           \/ \E b \in Block : ReceiveBlock(b) \/ ExecuteGenerated(b)
           \/ ExecuteReceived \/ DropReceived \/ StartSync
           \/ Stop \/ Stopped \/ Start
    PROVE  TempBounded' /\ (job' \in SyncJob => (Worth(job))') /\ EndsNotWorse
<1> USE DEF engineDB
<1>1. UNCHANGED <<chain, temp>> /\ Tip' = Tip
  BY DEF ReceiveBlock, ExecuteGenerated, ExecuteReceived, DropReceived, StartSync, Stop,
         Stopped, EndProcess, Start, Tip
<1>2. TempBounded'
  BY <1>1 DEF SwitchWorth, TempBounded
<1>3. ASSUME job' = job
      PROVE  (job' \in SyncJob => (Worth(job))') /\ EndsNotWorse
  BY <1>1, <1>3 DEF SwitchWorth, Worth, EndsNotWorse
<1>4. CASE job' = job
  BY <1>2, <1>3, <1>4
<1>5. CASE ExecuteReceived \/ Stopped
  <2>1. job = Idle /\ job'.at \in {"executing", "idle"}
    <3>1. job = Idle /\ (job' = Executing \/ job' = Idle)
      BY <1>5 DEF ExecuteReceived, HeadIsBlock, Stopped, EndProcess
    <3> QED
      BY <3>1 DEF Idle, Executing
  <2>2. job' \notin SyncJob
    BY <2>1 DEF SyncJob, SyncSteps
  <2> QED
    BY <1>2, <2>1, <2>2 DEF EndsNotWorse
<1>6. CASE StartSync
  <2>1. /\ job = Idle /\ HeadStatus = "DIFFERENT_CHAIN" /\ job'.at = "sync"
        /\ job'.received = Head(queue) /\ job'.tipBefore = Tip
    BY <1>6 DEF StartSync, HeadIsBlock
  <2>2. Preferred(Head(queue), Tip)
    BY <2>1 DEF HeadStatus, forkChoice, Preferred
  <2>3. NotWorse(Tip, Tip)
    BY TipHeight, PreferenceOrders DEF Inv
  <2>4. (Worth(job))'
    BY <1>1, <2>1, <2>2, <2>3 DEF Worth
  <2> QED
    BY <1>2, <2>1, <2>4 DEF EndsNotWorse
<1> QED
  BY <1>4, <1>5, <1>6
     DEF ReceiveBlock, ExecuteGenerated, DropReceived, Stop, Start

\* Choosing the mechanism, the peer and the common block.
LEMMA PreparationKeepsWorth ==
    ASSUME Inv, SwitchWorth,
           \/ DetermineSyncMechanism \/ ComputeBestPeer
           \/ BlockSyncCommonBlock \/ FastSwitchCommonBlock
    PROVE  TempBounded' /\ (job' \in SyncJob => (Worth(job))') /\ EndsNotWorse
<1>1. /\ job \in SyncJob /\ TempBounded /\ DOMAIN temp = {}
      /\ Preferred(job.received, job.tipBefore) /\ NotWorse(Tip, job.tipBefore)
  <2>1. PICK step \in {"sync", "bestPeer", "common"} : At(step)
    BY DEF DetermineSyncMechanism, ComputeBestPeer, BlockSyncCommonBlock, FastSwitchCommonBlock
  <2>2. job.at = step /\ job \in SyncJob
    BY <2>1, MovesOn DEF At, SyncSteps
  <2> QED
    BY <2>2 DEF SwitchWorth, Worth, Backup, JobFits
<1>2. Leads(Idle) /\ Leads(DoneWith("restart"))
  BY <1>1, DoneLeads
<1>3. CASE DetermineSyncMechanism
  <2> DEFINE p == [job EXCEPT !.at = "bestPeer", !.mechanism = "blockSync"]
             c == [job EXCEPT !.at = "common", !.mechanism = "fastChainSwitch"]
  <2>1. /\ p.at = "bestPeer" /\ p.received = job.received /\ p.tipBefore = job.tipBefore
        /\ c.at = "common" /\ c.received = job.received /\ c.tipBefore = job.tipBefore
    BY <1>1, FieldsKept
  <2>2. Leads(p) /\ Leads(c)
    <3> HIDE DEF p, c
    <3> QED
      BY <1>1, <2>1, TipCounts
  <2> QED
    BY <1>1, <1>2, <1>3, <2>2, GotoKeepsWorth DEF DetermineSyncMechanism
<1>4. CASE ComputeBestPeer
  <2> DEFINE c == [job EXCEPT !.at = "common"]
  <2>1. c.at = "common" /\ c.received = job.received /\ c.tipBefore = job.tipBefore
    BY <1>1, FieldsKept
  <2>2. Leads(c)
    <3> HIDE DEF c
    <3> QED
      BY <1>1, <2>1, TipCounts
  <2> QED
    BY <1>1, <1>2, <1>4, <2>2, GotoKeepsWorth DEF ComputeBestPeer
<1>5. ASSUME NEW height \in finalizedHeight .. Len(chain)
      PROVE  Leads([job EXCEPT !.at = "reverting", !.common = height])
  <2> DEFINE j == [job EXCEPT !.at = "reverting", !.common = height]
  <2>1. j.at = "reverting" /\ j.received = job.received /\ j.tipBefore = job.tipBefore
    BY <1>1, FieldsKept
  <2>2. PutBack(chain, temp, Len(chain)) = Tip
    BY <1>1 DEF PutBack, BlockAt, Tip, Inv, TypeOK
  <2> HIDE DEF j
  <2>3. Leads(j)
    BY <1>1, <2>1, <2>2 DEF Leads, Worth
  <2> QED
    BY <2>3 DEF j
<1>6. CASE BlockSyncCommonBlock
  BY <1>1, <1>2, <1>5, <1>6, GotoKeepsWorth DEF BlockSyncCommonBlock
<1>7. CASE FastSwitchCommonBlock
  BY <1>1, <1>2, <1>5, <1>7, GotoKeepsWorth DEF FastSwitchCommonBlock
<1> QED
  BY <1>3, <1>4, <1>6, <1>7

\* Deleting with a backup and applying the blocks of a peer.
LEMMA ApplyingKeepsWorth ==
    ASSUME ~PeersRunOut, Inv, SwitchWorth,
           \/ RevertBlock \/ Reverted \/ (\E b \in Block : ApplyBlock(b)) \/ AppliedAll
           \/ BlockSyncProcessingError \/ FastSwitchProcessingError
           \/ BlockSyncNoAnswer \/ FastSwitchNoAnswer
    PROVE  TempBounded' /\ (job' \in SyncJob => (Worth(job))') /\ EndsNotWorse
<1>1. PICK step \in {"reverting", "applying"} : At(step)
  BY DEF RevertBlock, Reverted, ApplyBlock, AppliedAll, BlockSyncProcessingError,
         FastSwitchProcessingError, BlockSyncNoAnswer, FastSwitchNoAnswer
<1>2. /\ job.at = step /\ job \in SyncJob /\ job.common \in Nat /\ Worth(job)
      /\ TempBounded /\ Preferred(job.received, job.tipBefore)
      /\ job.received \in Block /\ job.tipBefore \in Block \cup {Genesis}
  <2>1. job.at = step /\ job \in SyncJob
    BY <1>1, MovesOn DEF At, SyncSteps
  <2> QED
    BY <2>1 DEF SyncJob, SwitchWorth, Worth
<1>3. Len(chain) \in Nat /\ chain \in Seq(Block) /\ TypeOK /\ Tip \in Block \cup {Genesis}
  BY TipHeight DEF Inv, TypeOK
<1>4. ~BlockSyncNoAnswer /\ ~FastSwitchNoAnswer
  BY DEF BlockSyncNoAnswer, FastSwitchNoAnswer
<1>5. CASE RevertBlock \/ \E b \in Block : ApplyBlock(b)
  <2>1. job' = job /\ chain' = chain /\ temp' = temp /\ Tip' = Tip
    BY <1>5 DEF RevertBlock, ApplyBlock, engineDB, Tip
  <2>2. TempBounded' /\ (Worth(job))'
    BY <1>2, <2>1 DEF TempBounded, Worth
  <2> QED
    BY <1>2, <2>1, <2>2 DEF EndsNotWorse
<1>6. CASE Reverted
  <2> DEFINE j == [job EXCEPT !.at = "applying"]
  <2>1. /\ j.at = "applying" /\ j.common = job.common
        /\ j.received = job.received /\ j.tipBefore = job.tipBefore
    BY <1>2, FieldsKept
  <2>2. job.at = "reverting" /\ job.common = Len(chain)
    BY <1>2, <1>3, <1>6 DEF Reverted, At, SwitchWorth, Backup, JobFits
  <2>3. NotWorse(PutBack(chain, temp, Len(chain)), job.tipBefore)
    BY <1>2, <2>2 DEF Worth
  <2>4. DOMAIN temp = {} => PutBack(chain, temp, Len(chain)) = Tip
    BY <1>3 DEF PutBack, BlockAt, Tip
  <2>5. Goto(j)
    BY <1>6 DEF Reverted
  <2> HIDE DEF j
  <2>6. Leads(j)
    BY <1>2, <2>1, <2>2, <2>3, <2>4 DEF Leads, Worth
  <2> QED
    BY <1>2, <2>5, <2>6, GotoKeepsWorth
<1>7. ASSUME job.at = "applying", NEW outcome
      PROVE  /\ Leads([job EXCEPT !.at = "undoing", !.outcome = outcome])
             /\ NotWorse(Tip, job.tipBefore) =>
                   Leads([job EXCEPT !.at = "clearing", !.outcome = outcome])
  <2> DEFINE u == [job EXCEPT !.at = "undoing", !.outcome = outcome]
             c == [job EXCEPT !.at = "clearing", !.outcome = outcome]
  <2>1. /\ u.at = "undoing" /\ u.common = job.common
        /\ u.received = job.received /\ u.tipBefore = job.tipBefore
        /\ c.at = "clearing" /\ c.received = job.received /\ c.tipBefore = job.tipBefore
    BY <1>2, FieldsKept
  <2> HIDE DEF u, c
  <2>2. Leads(u)
    BY <1>2, <1>7, <2>1 DEF Leads, Worth
  <2>3. NotWorse(Tip, job.tipBefore) => Leads(c)
    BY <1>2, <2>1, TipCounts, SMTT(60)
  <2> QED
    BY <2>2, <2>3 DEF u, c
<1>8. CASE AppliedAll
  <2>1. job.at = "applying" /\ Tip = job.received
    BY <1>8 DEF AppliedAll, At
  <2>2. NotWorse(Tip, job.tipBefore)
    BY <1>2, <1>3, <2>1, PreferenceOrders
  <2> QED
    BY <1>2, <1>7, <1>8, <2>1, <2>2, GotoKeepsWorth DEF AppliedAll
<1>9. CASE BlockSyncProcessingError
  <2>1. job.at = "applying"
    BY <1>9 DEF BlockSyncProcessingError, At
  <2>2. CASE DOMAIN temp = {}
    <3>1. NotWorse(Tip, job.tipBefore)
      BY <1>2, <2>1, <2>2 DEF Worth
    <3>2. Leads(DoneWith("restart")) /\ Goto(DoneWith("restart"))
      BY <1>2, <1>9, <2>2, <3>1, DoneLeads, SMTT(60) DEF BlockSyncProcessingError
    <3> QED
      BY <1>2, <3>2, GotoKeepsWorth
  <2>3. CASE DOMAIN temp # {} /\ Preferred(Tip, TempTip)
    <3>1. TempTip \in Block /\ PutBack(chain, temp, job.common) = TempTip
      BY <1>2, <1>3, <2>3, TempTipIs DEF PutBack, TempTip
    <3>2. NotWorse(TempTip, job.tipBefore)
      BY <1>2, <2>1, <3>1 DEF Worth
    <3>3. NotWorse(Tip, job.tipBefore)
      BY <1>2, <1>3, <2>3, <3>1, <3>2, PreferenceOrders, SMTT(60)
    <3> QED
      BY <1>2, <1>7, <1>9, <2>1, <2>3, <3>3, GotoKeepsWorth DEF BlockSyncProcessingError
  <2>4. CASE DOMAIN temp # {} /\ ~Preferred(Tip, TempTip)
    BY <1>2, <1>7, <1>9, <2>1, <2>4, GotoKeepsWorth DEF BlockSyncProcessingError
  <2> QED
    BY <2>2, <2>3, <2>4
<1>10. CASE FastSwitchProcessingError
  BY <1>2, <1>7, <1>10, GotoKeepsWorth DEF FastSwitchProcessingError, At
<1> QED
  BY <1>4, <1>5, <1>6, <1>8, <1>9, <1>10

\* Deleting the peer's blocks, restoring the backup, clearing the table.
LEMMA RecoveryKeepsWorth ==
    ASSUME SwitchNotFinal, Inv, SwitchWorth,
           \/ UndoBlock \/ Undone \/ UndoFailed
           \/ RestoreBlock \/ RestoreFailed \/ Restored \/ ClearTempTable
    PROVE  TempBounded' /\ (job' \in SyncJob => (Worth(job))') /\ EndsNotWorse
<1>1. PICK step \in {"undoing", "restoring", "clearing"} : At(step)
  BY DEF UndoBlock, Undone, UndoFailed, RestoreBlock, RestoreFailed, Restored, ClearTempTable
<1>2. /\ job.at = step /\ job \in SyncJob /\ job.common \in Nat /\ Worth(job)
      /\ TempBounded /\ Preferred(job.received, job.tipBefore)
  <2>1. job.at = step /\ job \in SyncJob
    BY <1>1, MovesOn DEF At, SyncSteps
  <2> QED
    BY <2>1 DEF SyncJob, SwitchWorth, Worth
<1>3. Len(chain) \in Nat /\ chain \in Seq(Block) /\ finalizedHeight \in Nat
  BY DEF Inv, TypeOK
<1>4. CASE UndoBlock \/ RestoreBlock
  <2>1. job' = job /\ chain' = chain /\ temp' = temp /\ Tip' = Tip
    BY <1>4 DEF UndoBlock, RestoreBlock, engineDB, Tip
  <2>2. TempBounded' /\ (Worth(job))'
    BY <1>2, <2>1 DEF TempBounded, Worth
  <2> QED
    BY <1>2, <2>1, <2>2 DEF EndsNotWorse
<1>5. CASE Undone
  <2> DEFINE j == [job EXCEPT !.at = "restoring"]
  <2>1. j.at = "restoring" /\ j.received = job.received /\ j.tipBefore = job.tipBefore
    BY <1>2, FieldsKept
  <2>2. job.at = "undoing" /\ job.common = Len(chain)
    BY <1>2, <1>3, <1>5 DEF Undone, At, SwitchWorth, Backup, JobFits
  <2>3. Goto(j)
    BY <1>5 DEF Undone
  <2> HIDE DEF j
  <2>4. Leads(j)
    BY <1>2, <2>1, <2>2 DEF Leads, Worth
  <2> QED
    BY <1>2, <2>3, <2>4, GotoKeepsWorth
<1>6. ~UndoFailed
  BY <1>2, <1>3 DEF UndoFailed, At, SwitchNotFinal
<1>7. ~RestoreFailed
  BY LowestFits DEF RestoreFailed, At, SwitchWorth, Backup, JobFits
<1>8. CASE Restored
  <2> DEFINE j == [job EXCEPT !.at = "clearing"]
  <2>1. j.at = "clearing" /\ j.received = job.received /\ j.tipBefore = job.tipBefore
    BY <1>2, FieldsKept
  <2>2. job.at = "restoring" /\ DOMAIN temp = {} /\ Goto(j)
    BY <1>8 DEF Restored, At
  <2>3. PutBack(chain, temp, Len(chain)) = Tip
    BY <1>3, <2>2 DEF PutBack, BlockAt, Tip
  <2> HIDE DEF j
  <2>4. Leads(j)
    BY <1>2, <2>1, <2>2, <2>3, TipCounts DEF Worth
  <2> QED
    BY <1>2, <2>2, <2>4, GotoKeepsWorth
<1>9. CASE ClearTempTable
  <2>1. /\ DOMAIN temp' = {} /\ chain' = chain /\ Tip' = Tip
        /\ job' = DoneWith(job.outcome) /\ job.at = "clearing"
    BY <1>9 DEF ClearTempTable, Empty, At, Tip
  <2>2. NotWorse(Tip, job.tipBefore)
    BY <1>2, <2>1 DEF Worth
  <2>3. TempBounded'
    <3>1. 0 \in Nat /\ \A h \in DOMAIN temp' : h <= 0
      BY <2>1
    <3> QED
      BY <3>1 DEF TempBounded
  <2>4. EndsNotWorse
    BY <2>1, <2>2 DEF EndsNotWorse, NotWorse
  <2>5. ASSUME job' \in SyncJob PROVE (Worth(job))'
    <3>1. job' = [job EXCEPT !.at = "sync"]
      BY <2>1, <2>5 DEF DoneWith, SyncJob, Idle, SyncSteps
    <3>2. /\ job'.at = "sync" /\ job'.received = job.received
          /\ job'.tipBefore = job.tipBefore
      BY <1>2, <3>1, FieldsKept
    <3> QED
      BY <1>2, <2>1, <2>2, <3>2 DEF Worth
  <2> QED
    BY <2>3, <2>4, <2>5
<1> QED
  BY <1>4, <1>5, <1>6, <1>7, <1>8, <1>9

\* A block is saved: what is put back stays the same, and a block of a peer on top
\* of the common one only makes the tip better.
LEMMA SaveBlockKeepsWorth ==
    ASSUME PrevotedHeightsGrow, Inv, SwitchWorth, SaveBlock
    PROVE  TempBounded' /\ (job' \in SyncJob => (Worth(job))') /\ EndsNotWorse
<1> DEFINE b == op.block
           n == Len(chain)
<1>1. /\ b \in Block /\ op.kind = "save" /\ CanExecute(b)
      /\ chain \in Seq(Block) /\ n \in Nat /\ chain' = Append(chain, b) /\ op' = NoOp
      /\ DOMAIN temp \subseteq Nat /\ job \in JobType
      /\ job' = IF job = Executing THEN Idle ELSE job
  BY DEF SaveBlock, Inv, TypeOK, WorkInProgressSafe, SaveOp, RemoveOp, NoOp, JobType
<1>2. /\ Len(chain') = n + 1 /\ chain'[n + 1] = b
      /\ \A i \in 1 .. n : chain'[i] = chain[i]
  BY <1>1
<1>3. /\ b.height = n + 1 /\ b.executes /\ Tip.height = n /\ Tip \in Block \cup {Genesis}
      /\ b.previousBlockID = Tip.id
  BY <1>1, TipHeight DEF Inv, CanExecute
<1>4. Tip' = b
  <2>1. chain' # << >>
    BY <1>1
  <2> QED
    BY <1>2, <2>1 DEF Tip
<1>5. TempBounded'
  <2>1. PICK m \in Nat : \A h \in DOMAIN temp : h <= m
    BY DEF SwitchWorth, TempBounded
  <2>2. \A h \in DOMAIN temp' : h <= m
    BY <2>1 DEF SaveBlock
  <2> QED
    BY <2>2 DEF TempBounded
<1>6. CASE job \notin SyncJob
  <2>1. job \in {Idle, Executing} /\ job' \in {Idle, Executing}
    BY <1>1, <1>6 DEF JobType
  <2>2. job' \notin SyncJob
    BY <2>1 DEF Idle, Executing, SyncJob, SyncSteps
  <2> QED
    BY <1>5, <2>1, <2>2 DEF EndsNotWorse
<1>7. CASE job \in SyncJob
  <2>1. job' = job /\ job # Idle /\ job.common \in Nat
    BY <1>1, <1>7 DEF Idle, Executing, SyncJob, SyncSteps
  <2>2. job.at \in {"applying", "restoring"} /\ Worth(job)
    BY <1>1, <1>7 DEF SwitchWorth, Backup, JobFits, NoOp, SyncJob, SyncSteps
  <2>3. job.tipBefore \in Block \cup {Genesis}
    BY <1>7 DEF SyncJob
  <2>4. CASE job.at = "applying"
    <3>1. temp' = temp /\ job.common <= n
      BY <1>1, <2>4 DEF SaveBlock, SwitchWorth, Backup, JobFits, NoOp
    <3>2. BlockAt(chain', job.common) = BlockAt(chain, job.common)
      BY <1>1, <1>2, <2>1, <3>1 DEF BlockAt
    <3>3. PutBack(chain', temp', job.common) = PutBack(chain, temp, job.common)
      BY <3>1, <3>2 DEF PutBack
    <3>4. NotWorse(Tip, job.tipBefore) => NotWorse(b, job.tipBefore)
      <4>1. Tip.maxHeightPrevoted <= b.maxHeightPrevoted /\ Tip.height <= b.height
        BY <1>1, <1>3 DEF PrevotedHeightsGrow
      <4> HIDE DEF b
      <4> QED
        BY <1>1, <1>3, <2>3, <4>1, PreferenceOrders
    <3>5. (Worth(job))'
      BY <1>4, <2>1, <2>2, <2>4, <3>1, <3>3, <3>4 DEF Worth
    <3> QED
      BY <1>5, <2>1, <3>5 DEF EndsNotWorse
  <2>5. CASE job.at = "restoring"
    <3>1. /\ Continues(chain, temp, n) /\ n + 1 \in DOMAIN temp /\ temp[n + 1] = b
          /\ temp' = [h \in DOMAIN temp \ {n + 1} |-> temp[h]]
      BY <1>1, <1>3, <2>5 DEF SaveBlock, SwitchWorth, Backup, JobFits, NoOp
    <3>2. /\ Max(DOMAIN temp) \in DOMAIN temp /\ Max(DOMAIN temp) \in Nat
          /\ \A h \in DOMAIN temp : h <= Max(DOMAIN temp)
      BY <3>1, TempTipIs DEF SwitchWorth, Inv
    <3> HIDE DEF b, n
    <3>3. PutBack(chain', temp', n + 1) = PutBack(chain, temp, n)
      <4> DEFINE M == Max(DOMAIN temp)
      <4>1. PutBack(chain, temp, n) = temp[M] /\ M \in DOMAIN temp /\ M \in Nat
        BY <3>1, <3>2 DEF PutBack
      <4>2. CASE M = n + 1
        <5>1. \A h \in DOMAIN temp : h = n + 1
          <6> SUFFICES ASSUME NEW h \in DOMAIN temp PROVE h = n + 1
            OBVIOUS
          <6>1. h \in Nat /\ h > n /\ h <= n + 1
            BY <1>1, <3>1, <3>2, <4>2 DEF Continues
          <6> QED
            BY <1>1, <6>1
        <5>2. DOMAIN temp' = {}
          BY <3>1, <5>1
        <5>3. BlockAt(chain', n + 1) = b
          BY <1>1, <1>2 DEF BlockAt
        <5> QED
          BY <3>1, <4>1, <4>2, <5>2, <5>3 DEF PutBack
      <4>3. CASE M # n + 1
        <5>1. M \in DOMAIN temp' /\ temp'[M] = temp[M] /\ DOMAIN temp' \in SUBSET Nat
          BY <1>1, <3>1, <4>1, <4>3
        <5>2. \A h \in DOMAIN temp' : h <= M
          BY <3>1, <3>2
        <5> HIDE DEF M
        <5>3. Max(DOMAIN temp') = M
          BY <5>1, <5>2, MaxIs
        <5> QED
          BY <4>1, <5>1, <5>3 DEF PutBack
      <4> QED
        BY <4>2, <4>3
    <3>4. (Worth(job))'
      BY <1>2, <2>1, <2>2, <2>5, <3>3 DEF Worth, n
    <3> QED
      BY <1>5, <2>1, <3>4 DEF EndsNotWorse
  <2> QED
    BY <2>2, <2>4, <2>5
<1> QED
  BY <1>6, <1>7

\* A block is removed: into the temp table, below the blocks that are there, or above
\* the common block.
LEMMA RemoveBlockKeepsWorth ==
    ASSUME Inv, SwitchWorth, RemoveBlock
    PROVE  TempBounded' /\ (job' \in SyncJob => (Worth(job))') /\ EndsNotWorse
<1> DEFINE n == Len(chain)
<1>1. /\ op.kind = "remove" /\ op' = NoOp /\ job' = job /\ n \in Nat /\ n > 0
      /\ chain \in Seq(Block) /\ chain' = SubSeq(chain, 1, n - 1)
      /\ DOMAIN temp \subseteq Nat /\ job \in JobType
  BY DEF RemoveBlock, Inv, TypeOK, WorkInProgressSafe, JobType
<1>2. Len(chain') = n - 1 /\ \A i \in 1 .. n - 1 : chain'[i] = chain[i]
  <2>1. n - 1 \in 0 .. Len(chain)
    BY <1>1
  <2> QED
    BY <1>1, <2>1, Prefix
<1>3. job.at \in {"reverting", "undoing"}
  BY <1>1 DEF SwitchWorth, Backup, JobFits, NoOp, JobType, Idle, Executing, SyncJob, SyncSteps
<1>4. job \in SyncJob /\ job.common \in Nat /\ Worth(job) /\ job # Idle
  BY <1>1, <1>3 DEF JobType, Idle, Executing, SyncJob, SwitchWorth
<1>5. EndsNotWorse
  BY <1>1, <1>4 DEF EndsNotWorse
<1>6. PICK m \in Nat : \A h \in DOMAIN temp : h <= m
  BY DEF SwitchWorth, TempBounded
<1>7. CASE job.at = "undoing"
  <2>1. temp' = temp /\ job.common < n
    BY <1>1, <1>7 DEF RemoveBlock, SwitchWorth, Backup, JobFits, NoOp
  <2>2. BlockAt(chain', job.common) = BlockAt(chain, job.common)
    BY <1>1, <1>2, <1>4, <2>1 DEF BlockAt
  <2>3. PutBack(chain', temp', job.common) = PutBack(chain, temp, job.common)
    BY <2>1, <2>2 DEF PutBack
  <2>4. (Worth(job))' /\ TempBounded'
    BY <1>1, <1>4, <1>6, <1>7, <2>1, <2>3 DEF Worth, TempBounded
  <2> QED
    BY <1>5, <2>4
<1>8. CASE job.at = "reverting"
  <2>1. /\ Continues(chain, temp, n)
        /\ temp' = [h \in DOMAIN temp \cup {n} |-> IF h = n THEN Tip ELSE temp[h]]
    BY <1>1, <1>8 DEF RemoveBlock, SwitchWorth, Backup, JobFits, NoOp
  <2>2. \A h \in DOMAIN temp : h \in Nat /\ h > n
    BY <1>1, <2>1 DEF Continues
  <2>3. Tip = BlockAt(chain, n)
    BY <1>1 DEF Tip, BlockAt
  <2> HIDE DEF n
  <2>4. TempBounded'
    <3>1. m + n \in Nat /\ \A h \in DOMAIN temp' : h <= m + n
      BY <1>1, <1>6, <2>1, <2>2
    <3> QED
      BY <3>1 DEF TempBounded
  <2>5. PutBack(chain', temp', n - 1) = PutBack(chain, temp, n)
    <3>1. DOMAIN temp' \in SUBSET Nat /\ DOMAIN temp' = DOMAIN temp \cup {n}
      BY <1>1, <2>1
    <3>2. CASE DOMAIN temp = {}
      <4>1. n \in DOMAIN temp' /\ \A h \in DOMAIN temp' : h <= n
        BY <1>1, <3>1, <3>2
      <4>2. Max(DOMAIN temp') = n
        BY <3>1, <4>1, MaxIs
      <4> QED
        BY <2>1, <2>3, <3>2, <4>1, <4>2 DEF PutBack
    <3>3. CASE DOMAIN temp # {}
      <4> DEFINE M == Max(DOMAIN temp)
      <4>1. M \in DOMAIN temp /\ M \in Nat /\ \A h \in DOMAIN temp : h <= M
        BY <3>3, TempTipIs DEF SwitchWorth, Inv
      <4> HIDE DEF M
      <4>2. M > n /\ M # n
        BY <1>1, <2>2, <4>1
      <4>3. M \in DOMAIN temp' /\ temp'[M] = temp[M] /\ \A h \in DOMAIN temp' : h <= M
        BY <1>1, <2>1, <3>1, <4>1, <4>2
      <4>4. Max(DOMAIN temp') = M
        BY <3>1, <4>3, MaxIs
      <4> QED
        BY <3>3, <4>3, <4>4 DEF PutBack, M
    <3> QED
      BY <3>2, <3>3
  <2>6. (Worth(job))'
    BY <1>1, <1>2, <1>4, <1>8, <2>5 DEF Worth, n
  <2> QED
    BY <1>5, <2>4, <2>6
<1> QED
  BY <1>3, <1>7, <1>8

\* Whatever peers send, a switch of chains that ends leaves a tip at least as good
\* as the one it found: for every tree of blocks whose prevoted heights grow, under
\* the conditions of BackupIsSound.
THEOREM SwitchesNeverLose ==
    ASSUME ~PeersRunOut, ~Crashes, PrevotedHeightsGrow
    PROVE  Spec /\ []SwitchNotFinal => TipNeverWorse
<1>1. Init => SwitchWorth
  <2> SUFFICES ASSUME Init PROVE SwitchWorth
    OBVIOUS
  <2>1. Backup /\ DOMAIN temp = {} /\ job \notin SyncJob
    BY DEF Init, Backup, JobFits, Idle, Empty, SyncJob
  <2>2. TempBounded
    <3>1. 0 \in Nat /\ \A h \in DOMAIN temp : h <= 0
      BY <2>1
    <3> QED
      BY <3>1 DEF TempBounded
  <2> QED
    BY <2>1, <2>2 DEF SwitchWorth
<1>2. ASSUME Inv, SwitchNotFinal, SwitchWorth, [Next]_vars
      PROVE  SwitchWorth' /\ [EndsNotWorse]_vars
  <2>1. Backup'
    BY <1>2, BackupStep DEF SwitchWorth
  <2>2. CASE UNCHANGED vars
    BY <1>2, <2>1, <2>2 DEF vars, SwitchWorth, Worth, TempBounded, Tip
  <2>3. CASE Next
    <3>1. TempBounded' /\ (job' \in SyncJob => (Worth(job))') /\ EndsNotWorse
      <4>1. CASE MutexHolder
        BY <1>2, <4>1, SaveBlockKeepsWorth, RemoveBlockKeepsWorth, ReceivingKeepsWorth,
           PreparationKeepsWorth, ApplyingKeepsWorth, RecoveryKeepsWorth DEF MutexHolder
      <4>2. CASE \E b \in Block : ReceiveBlock(b) \/ ExecuteGenerated(b)
        BY <1>2, <4>2, ReceivingKeepsWorth
      <4>3. CASE Stop \/ Crash \/ Start
        BY <1>2, <4>3, ReceivingKeepsWorth DEF Crash
      <4> QED
        BY <2>3, <4>1, <4>2, <4>3 DEF Next
    <3> QED
      BY <2>1, <3>1 DEF SwitchWorth
  <2> QED
    BY <1>2, <2>2, <2>3
<1> QED
  BY <1>1, <1>2, Invariance, PTL DEF Spec, TipNeverWorse, EndsNotWorse
=============================================================================
