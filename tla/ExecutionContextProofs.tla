----------------------- MODULE ExecutionContextProofs -----------------------
(* Theorems about ExecutionContext, for every set of received blocks. *)
EXTENDS ExecutionContext, TLAPS

(* ------------------------- the inductive invariant --------------------- *)

OwnBlocks == {OwnBlock(TRUE), OwnBlock(FALSE)}

\* The block consensus works on is a received one, or the generator's: then the
\* generator's loop waits for it.
Roles ==
    consensus.at \in BlockSteps =>
        IF consensus.own THEN consensus.block \in OwnBlocks /\ generator.at = "handedOver"
                         ELSE consensus.block \in Received

\* The calls that have changed the state store when consensus is at a step.
PhasesAt(step) == CASE step \in {"verifyAssets", "before"} -> 0
                    [] step = "after" -> 1
                    [] OTHER -> AllPhases

\* A context with the id of the block consensus works on is the one consensus
\* opened for it, whoever has used the handler since.
BlockPhases ==
    consensus.at \in BlockSteps \ {"init"} /\ context.id = consensus.block.name =>
        context.phases = PhasesAt(consensus.at)

\* The same for the generator and its draft.
DraftPhases ==
    context.id = Draft => /\ generator.at \in {"insertAssets", "before"} => context.phases = 0
                          /\ generator.at = "after" => context.phases = 1

\* Between the two halves of a commit nobody can open another context: the
\* generator, which alone could, waits for the mutex once it has cleared this one.
WriteSafe ==
    consensus.at = "write" =>
        \/ context.id = consensus.block.name
        \/ context = NoContext /\ generator.at = "waiting"

CommittedSound ==
    committed.for # "none" => committed.id = committed.for /\ committed.phases = AllPhases

IInv == TypeOK /\ Roles /\ BlockPhases /\ DraftPhases /\ WriteSafe /\ CommittedSound

(* -------------------------------- lemmas ------------------------------- *)

ContextType   == [id : {"none", Draft, LastBlock} \cup BlockNames,
                  phases : 0 .. AllPhases, open : BOOLEAN]
ConsensusType == {Idle} \cup [at : {"deleteInit", "revert"}]
                    \cup [at : BlockSteps, block : BlockType, own : BOOLEAN]
GeneratorType == {Idle} \cup [at : {"insertAssets", "before", "after", "commit", "write",
                                    "clear", "waiting", "handedOver"}, ok : BOOLEAN]

\* What the types say of a record, by where its program is.
LEMMA Shapes ==
    ASSUME TypeOK
    PROVE  /\ consensus.at \in BlockSteps =>
                  consensus \in [at : BlockSteps, block : BlockType, own : BOOLEAN]
           /\ generator.at # "idle" =>
                  generator \in [at : {"insertAssets", "before", "after", "commit", "write",
                                       "clear", "waiting", "handedOver"}, ok : BOOLEAN]
           /\ context = [id |-> context.id, phases |-> context.phases, open |-> context.open]
  BY DEF TypeOK, Idle, BlockSteps

\* The names that blocks have, and those they do not have.
LEMMA Names ==
    ASSUME TypeOK, Roles, consensus.at \in BlockSteps
    PROVE  /\ consensus.block.name \in BlockNames
           /\ consensus.block.name \notin {Draft, "none"}
           /\ ~consensus.own => consensus.block \in Received
<1>1. CASE consensus.own
  BY <1>1 DEF Roles, OwnBlocks, OwnBlock, Draft, BlockNames
<1>2. CASE ~consensus.own
  BY <1>2, NamesAssumption DEF Roles, Draft, BlockNames
<1> QED
  BY <1>1, <1>2

\* Every way in which consensus lets go of a block, successful or not.
LEMMA FinishedStep ==
    ASSUME IInv, Finished, context' \in {NoContext, context},
           penalised' \subseteq Received, CommittedSound'
    PROVE  IInv'
<1>1. consensus' = Idle /\ generator' \in {Idle, generator}
  BY DEF Finished
<1>2. TypeOK'
  <2>1. context' \in ContextType
    <3>1. NoContext \in ContextType
      BY DEF NoContext, AllPhases, ContextType
    <3>2. context \in ContextType
      BY DEF IInv, TypeOK, ContextType
    <3> QED
      BY <3>1, <3>2
  <2>2. consensus' \in ConsensusType /\ generator' \in GeneratorType
    BY <1>1 DEF IInv, TypeOK, ConsensusType, GeneratorType
  <2> QED
    BY <2>1, <2>2 DEF TypeOK, ContextType, ConsensusType, GeneratorType
<1>3. Roles' /\ BlockPhases' /\ WriteSafe'
  BY <1>1 DEF Roles, BlockPhases, WriteSafe, Idle, BlockSteps
<1>4. DraftPhases'
  BY <1>1 DEF IInv, DraftPhases, NoContext, Draft, Idle
<1> QED
  BY <1>2, <1>3, <1>4 DEF IInv

\* The three kinds of failure.
LEMMA FailureStep ==
    ASSUME IInv, consensus.at \in BlockSteps,
           FailWithPenalty \/ FailAndClear \/ FailInBetween
    PROVE  IInv'
<1>1. Finished /\ context' \in {NoContext, context} /\ UNCHANGED committed
  BY DEF FailWithPenalty, FailAndClear, FailInBetween
<1>2. penalised' \subseteq Received
  <2>1. ~consensus.own => consensus.block \in Received
    BY Names DEF IInv
  <2> QED
    BY <2>1 DEF IInv, TypeOK, FailWithPenalty, FailAndClear, FailInBetween
<1>3. CommittedSound'
  BY <1>1 DEF IInv, CommittedSound
<1> QED
  BY <1>1, <1>2, <1>3, FinishedStep

\* A call of consensus in the context of its block, which may change the state.
LEMMA CallStep ==
    ASSUME IInv, NEW step \in BlockSteps, NEW next \in BlockSteps, Call(step, next),
           \/ context' = context /\ PhasesAt(next) = PhasesAt(step)
           \/ context' = PhaseDone /\ PhasesAt(next) = PhasesAt(step) + 1,
           step # "init", PhasesAt(next) \in 0 .. AllPhases
    PROVE  IInv'
<1> DEFINE block == consensus.block
<1>1. /\ consensus \in [at : BlockSteps, block : BlockType, own : BOOLEAN]
      /\ consensus.at = step /\ context.id = block.name /\ context.phases = PhasesAt(step)
  BY Shapes DEF IInv, Call, Usable, BlockPhases
<1>2. consensus' = [at |-> next, block |-> block, own |-> consensus.own]
  BY <1>1 DEF Call, Steps
<1>3. context' = [id |-> block.name, phases |-> PhasesAt(next), open |-> context.open]
  BY <1>1, Shapes DEF IInv, PhaseDone
<1>4. /\ block.name \in BlockNames /\ block.name # Draft
      /\ UNCHANGED <<generator, penalised, committed>>
  BY <1>1, Names DEF IInv, Call
<1> HIDE DEF block
<1>5. TypeOK'
  <2>1. context' \in ContextType
    BY <1>3, <1>4 DEF IInv, TypeOK, ContextType
  <2>2. consensus' \in ConsensusType
    BY <1>1, <1>2 DEF ConsensusType, block
  <2> QED
    BY <1>4, <2>1, <2>2 DEF IInv, TypeOK, ContextType, ConsensusType
<1>6. Roles'
  BY <1>1, <1>2, <1>4 DEF IInv, Roles, block
<1>7. BlockPhases' /\ WriteSafe'
  BY <1>2, <1>3 DEF BlockPhases, WriteSafe
<1>8. DraftPhases'
  BY <1>3, <1>4 DEF DraftPhases
<1>9. CommittedSound'
  BY <1>4 DEF IInv, CommittedSound
<1> QED
  BY <1>5, <1>6, <1>7, <1>8, <1>9 DEF IInv

\* A step of the generator: what it does to the context, it does to its draft,
\* or it takes the context away.
LEMMA GeneratorOnlyStep ==
    ASSUME IInv, GeneratorOnly, TypeOK', DraftPhases',
           generator.at = "handedOver" => generator' = generator,
           generator.at = "waiting" => context' = context /\ generator' = generator,
           \/ context' \in {context, [context EXCEPT !.open = FALSE]}
           \/ context' = NoContext /\ generator'.at = "waiting"
           \/ context.id \in {"none", Draft} /\ context'.id = Draft
    PROVE  IInv'
<1>1. Roles' /\ CommittedSound'
  BY DEF IInv, GeneratorOnly, Roles, CommittedSound
<1>2. BlockPhases' /\ WriteSafe'
  <2>1. CASE consensus.at \notin BlockSteps
    BY <2>1 DEF GeneratorOnly, BlockPhases, WriteSafe, BlockSteps
  <2>2. CASE consensus.at \in BlockSteps
    <3>1. consensus.block.name \notin {Draft, "none"}
      BY <2>2, Names DEF IInv
    <3>2. \/ context.id = context'.id /\ context.phases = context'.phases
          \/ context' = NoContext /\ generator'.at = "waiting"
          \/ context.id \in {"none", Draft} /\ context'.id = Draft
      BY Shapes DEF IInv
    <3>3. BlockPhases'
      BY <3>1, <3>2 DEF IInv, GeneratorOnly, BlockPhases, PhasesAt, NoContext
    <3>4. WriteSafe'
      BY <3>1, <3>2 DEF IInv, GeneratorOnly, WriteSafe
    <3> QED
      BY <3>3, <3>4
  <2> QED
    BY <2>1, <2>2
<1> QED
  BY <1>1, <1>2 DEF IInv

(* ------------------------- the steps of consensus ----------------------- *)

\* A block, or a deletion, takes the mutex.
LEMMA TakeMutexStep ==
    ASSUME IInv, DeleteBlock \/ \E b \in Received : ReceiveBlock(b)
    PROVE  IInv'
<1>1. CASE DeleteBlock
  BY <1>1 DEF DeleteBlock, IInv, TypeOK, Roles, BlockPhases, DraftPhases, WriteSafe,
              CommittedSound, BlockSteps
<1>2. ASSUME NEW b \in Received, ReceiveBlock(b) PROVE IInv'
  <2>1. consensus' = [at |-> "init", block |-> b, own |-> FALSE]
        /\ UNCHANGED <<context, generator, penalised, committed>>
    BY <1>2 DEF ReceiveBlock
  <2>2. consensus' \in ConsensusType
    BY <2>1, ReceivedAssumption DEF ConsensusType, BlockSteps
  <2>3. TypeOK'
    BY <2>1, <2>2 DEF IInv, TypeOK, ConsensusType
  <2> QED
    BY <2>1, <2>3 DEF IInv, Roles, BlockPhases, DraftPhases, WriteSafe, CommittedSound
<1> QED
  BY <1>1, <1>2

\* initStateMachine for a block, and for a deletion.
LEMMA InitStep ==
    ASSUME IInv, InitStateMachine
    PROVE  IInv'
<1>1. CASE context # NoContext
  BY <1>1, FailureStep DEF InitStateMachine, BlockSteps
<1>2. CASE context = NoContext
  <2> DEFINE block == consensus.block
  <2>1. consensus \in [at : BlockSteps, block : BlockType, own : BOOLEAN]
    BY Shapes DEF IInv, InitStateMachine, BlockSteps
  <2>2. /\ consensus' = [at |-> "verifyAssets", block |-> block, own |-> consensus.own]
        /\ context' = [id |-> block.name, phases |-> 0, open |-> TRUE]
        /\ UNCHANGED <<generator, penalised, committed>>
    BY <1>2, <2>1 DEF InitStateMachine, Steps, Fresh
  <2>3. block.name \in BlockNames /\ block.name # Draft
    BY <2>1, Names DEF IInv
  <2>4. context' \in ContextType
    BY <2>2, <2>3 DEF ContextType, AllPhases
  <2>5. consensus' \in ConsensusType
    BY <2>1, <2>2 DEF ConsensusType, BlockSteps
  <2>6. TypeOK'
    BY <2>2, <2>4, <2>5 DEF IInv, TypeOK, ContextType, ConsensusType
  <2>7. Roles'
    BY <2>1, <2>2 DEF IInv, Roles
  <2>8. BlockPhases' /\ DraftPhases' /\ WriteSafe' /\ CommittedSound'
    BY <2>2, <2>3 DEF IInv, BlockPhases, PhasesAt, DraftPhases, WriteSafe, CommittedSound
  <2> QED
    BY <2>6, <2>7, <2>8 DEF IInv
<1> QED
  BY <1>1, <1>2

\* The calls that execute a block.
LEMMA ExecuteStep ==
    ASSUME IInv, VerifyAssets \/ BeforeTransactionsExecute \/ ExecuteTransactions \/ Commit
    PROVE  IInv'
<1> USE DEF BlockSteps
<1>1. CASE FailWithPenalty \/ FailAndClear
  <2>1. consensus.at \in BlockSteps
    BY DEF VerifyAssets, BeforeTransactionsExecute, ExecuteTransactions, Commit, Call
  <2> QED
    BY <1>1, <2>1, FailureStep
<1>2. CASE Call("verifyAssets", "before") /\ UNCHANGED context
  BY <1>2, CallStep DEF PhasesAt, AllPhases
<1>3. CASE Call("before", "after") /\ context' = PhaseDone
  BY <1>3, CallStep DEF PhasesAt, AllPhases
<1>4. CASE Call("after", "roots") /\ context' = PhaseDone
  BY <1>4, CallStep DEF PhasesAt, AllPhases
<1>5. CASE Call("commit", "write") /\ UNCHANGED context
  BY <1>5, CallStep DEF PhasesAt, AllPhases
<1> QED
  BY <1>1, <1>2, <1>3, <1>4, <1>5
     DEF VerifyAssets, BeforeTransactionsExecute, ExecuteTransactions, Commit

\* The checks of the roots, in which the context is not named.
LEMMA VerifyRootsStep ==
    ASSUME IInv, VerifyRoots
    PROVE  IInv'
<1>1. CASE ~consensus.block.rootsOK
  BY <1>1, FailureStep DEF VerifyRoots, BlockSteps
<1>2. CASE consensus.block.rootsOK
  <2>1. consensus \in [at : BlockSteps, block : BlockType, own : BOOLEAN]
        /\ consensus.at = "roots"
    BY Shapes DEF IInv, VerifyRoots, BlockSteps
  <2>2. /\ consensus' = [at |-> "commit", block |-> consensus.block, own |-> consensus.own]
        /\ UNCHANGED <<context, generator, penalised, committed>>
    BY <1>2, <2>1 DEF VerifyRoots, Steps
  <2>3. consensus' \in ConsensusType
    BY <2>1, <2>2 DEF ConsensusType, BlockSteps
  <2>4. TypeOK'
    BY <2>2, <2>3 DEF IInv, TypeOK, ConsensusType
  <2>5. Roles' /\ BlockPhases' /\ DraftPhases' /\ WriteSafe' /\ CommittedSound'
    BY <2>1, <2>2 DEF IInv, Roles, BlockPhases, PhasesAt, DraftPhases, WriteSafe,
                      CommittedSound, BlockSteps
  <2> QED
    BY <2>4, <2>5 DEF IInv
<1> QED
  BY <1>1, <1>2

\* The second half of a commit.
LEMMA CommitWriteStep ==
    ASSUME IInv, CommitWrite
    PROVE  IInv'
<1>1. CASE FailAndClear
  BY <1>1, FailureStep DEF CommitWrite, BlockSteps
<1>2. CASE ~FailAndClear
  <2>1. /\ StateRootMatches(consensus.block) /\ context' = NoContext /\ Finished
        /\ committed' = [for |-> consensus.block.name, id |-> context.id,
                         phases |-> context.phases]
        /\ UNCHANGED penalised
    BY <1>2 DEF CommitWrite
  <2>2. CommittedSound'
    BY <2>1 DEF CommittedSound, StateRootMatches
  <2> QED
    BY <2>1, <2>2, FinishedStep DEF IInv, TypeOK
<1> QED
  BY <1>1, <1>2

\* The two steps of a deletion.
LEMMA DeletionStep ==
    ASSUME IInv, DeleteInit \/ Revert
    PROVE  IInv'
<1>1. /\ context' \in {NoContext, Fresh(LastBlock)} /\ consensus' \in {Idle, [at |-> "revert"]}
      /\ UNCHANGED <<generator, penalised, committed>>
  BY DEF DeleteInit, Revert
<1>2. context' \in ContextType
  <2>1. NoContext \in ContextType
    BY DEF NoContext, ContextType, AllPhases
  <2>2. Fresh(LastBlock) \in ContextType
    BY DEF Fresh, ContextType, AllPhases
  <2> QED
    BY <1>1, <2>1, <2>2
<1>3. consensus' \in ConsensusType
  BY <1>1 DEF ConsensusType
<1>4. TypeOK'
  BY <1>1, <1>2, <1>3 DEF IInv, TypeOK, ContextType, ConsensusType
<1>5. Roles' /\ BlockPhases' /\ WriteSafe'
  BY <1>1 DEF Roles, BlockPhases, WriteSafe, Idle, BlockSteps
<1>6. DraftPhases' /\ CommittedSound'
  BY <1>1 DEF IInv, DraftPhases, CommittedSound, NoContext, Fresh, Draft, LastBlock
<1> QED
  BY <1>4, <1>5, <1>6 DEF IInv

(* ------------------------- the steps of the generator ------------------- *)

\* A step of the generator that leaves the context alone.
LEMMA GoOnStep ==
    ASSUME IInv, GeneratorOnly, UNCHANGED context, generator' \in GeneratorType,
           generator.at \notin {"handedOver", "waiting"},
           \/ generator'.at \notin {"insertAssets", "before", "after"}
           \/ generator.at = "insertAssets" /\ generator'.at = "before"
    PROVE  IInv'
<1>1. TypeOK'
  BY DEF IInv, TypeOK, GeneratorOnly, GeneratorType
<1>2. DraftPhases'
  BY DEF IInv, DraftPhases
<1> QED
  BY <1>1, <1>2, GeneratorOnlyStep

\* The generator's initStateMachine.
LEMMA GenerateInitStep ==
    ASSUME IInv, GenerateInit
    PROVE  IInv'
<1>1. /\ context = NoContext /\ context' = [id |-> Draft, phases |-> 0, open |-> TRUE]
      /\ generator = Idle /\ generator' = [at |-> "insertAssets", ok |-> TRUE] /\ GeneratorOnly
  BY DEF GenerateInit, Fresh
<1>2. context' \in ContextType
  BY <1>1 DEF ContextType, AllPhases
<1>3. generator' \in GeneratorType
  BY <1>1 DEF GeneratorType
<1>4. TypeOK'
  BY <1>1, <1>2, <1>3 DEF IInv, TypeOK, GeneratorOnly, ContextType, GeneratorType
<1>5. DraftPhases'
  BY <1>1 DEF DraftPhases
<1> QED
  BY <1>1, <1>4, <1>5, GeneratorOnlyStep DEF NoContext, Idle

\* The generator's calls for its draft.
LEMMA GenerateCallStep ==
    ASSUME IInv, GenerateCall
    PROVE  IInv'
<1>1. PICK steps \in {<<"insertAssets", "before">>, <<"before", "after">>, <<"after", "commit">>} :
        /\ At(steps[1])
        /\ \/ /\ Usable(Draft)
              /\ context' = IF steps[1] = "insertAssets" THEN context ELSE PhaseDone
              /\ GoOn(steps[2])
              /\ GeneratorOnly
           \/ Abandon
  BY DEF GenerateCall
<1>2. generator.at = steps[1] /\ generator \in GeneratorType /\ generator # Idle
  BY <1>1 DEF At, IInv, TypeOK, GeneratorType, Idle
<1>3. CASE Abandon
  BY <1>2, <1>3, GoOnStep DEF Abandon, GeneratorType, Idle
<1>4. CASE ~Abandon
  <2>1. Usable(Draft) /\ GeneratorOnly
        /\ context' = IF steps[1] = "insertAssets" THEN context ELSE PhaseDone
    BY <1>1, <1>4
  <2>2. generator' = [at |-> steps[2], ok |-> generator.ok] /\ generator.ok \in BOOLEAN
    BY <1>1, <1>2, <1>4 DEF GoOn, GeneratorType
  <2>3. generator' \in GeneratorType
    BY <2>2 DEF GeneratorType
  <2>4. CASE steps[1] = "insertAssets"
    BY <1>2, <2>1, <2>2, <2>3, <2>4, GoOnStep
  <2>5. CASE steps[1] # "insertAssets"
    <3>1. context.id = Draft /\ context.phases = IF steps[1] = "before" THEN 0 ELSE 1
      BY <1>2, <2>1, <2>5 DEF IInv, DraftPhases, Usable
    <3>2. context' = [id |-> Draft, phases |-> IF steps[1] = "before" THEN 1 ELSE 2,
                      open |-> context.open]
      BY <2>1, <2>5, <3>1, Shapes DEF IInv, PhaseDone
    <3>3. context' \in ContextType
      BY <3>2 DEF IInv, TypeOK, ContextType, AllPhases
    <3>4. TypeOK'
      BY <2>1, <2>3, <3>3 DEF IInv, TypeOK, GeneratorOnly, ContextType, GeneratorType
    <3>5. DraftPhases'
      BY <2>2, <2>5, <3>2 DEF DraftPhases
    <3> QED
      BY <1>2, <2>1, <3>1, <3>2, <3>4, <3>5, GeneratorOnlyStep
  <2> QED
    BY <2>4, <2>5
<1> QED
  BY <1>3, <1>4

\* The generator's dry run of commit, before it waits.
LEMMA GenerateCommitStep ==
    ASSUME IInv, GenerateCommit
    PROVE  IInv'
<1>1. generator.at = "commit" /\ UNCHANGED context /\ GeneratorOnly
  BY DEF GenerateCommit, At, Abandon
<1>2. generator' = Idle \/ GoOn("write")
  BY DEF GenerateCommit, Abandon
<1>3. generator' \in GeneratorType /\ generator'.at \in {"idle", "write"}
  BY <1>1, <1>2, Shapes DEF IInv, GoOn, GeneratorType, Idle
<1> QED
  BY <1>1, <1>3, GoOnStep

\* The generator's dry run of commit, after it waited.
LEMMA GenerateWriteStep ==
    ASSUME IInv, GenerateWrite
    PROVE  IInv'
<1>1. generator.at = "write" /\ GeneratorOnly
  BY DEF GenerateWrite, At, Abandon
<1>2. CASE Abandon
  BY <1>1, <1>2, GoOnStep DEF Abandon, GeneratorType, Idle
<1>3. CASE ~Abandon
  <2>1. generator' = [at |-> "clear", ok |-> context.id = Draft]
        /\ context' = [context EXCEPT !.open = FALSE]
    BY <1>3 DEF GenerateWrite
  <2>2. generator' \in GeneratorType /\ generator'.at = "clear"
    <3>1. (context.id = Draft) \in BOOLEAN
      OBVIOUS
    <3> QED
      BY <2>1, <3>1 DEF GeneratorType
  <2>3. context' \in ContextType
    BY <2>1 DEF IInv, TypeOK, ContextType
  <2>4. TypeOK'
    BY <1>1, <2>2, <2>3 DEF IInv, TypeOK, GeneratorOnly, ContextType, GeneratorType
  <2>5. DraftPhases'
    BY <2>2 DEF DraftPhases
  <2> QED
    BY <1>1, <2>1, <2>4, <2>5, GeneratorOnlyStep
<1> QED
  BY <1>2, <1>3

\* The generator's clear.
LEMMA GenerateClearStep ==
    ASSUME IInv, GenerateClear
    PROVE  IInv'
<1>1. generator.at = "clear" /\ context' = NoContext /\ GeneratorOnly
      /\ generator' = [at |-> "waiting", ok |-> generator.ok] /\ generator.ok \in BOOLEAN
  BY Shapes DEF IInv, GenerateClear, At, GoOn
<1>2. context' \in ContextType
  BY <1>1 DEF NoContext, ContextType, AllPhases
<1>3. generator' \in GeneratorType
  BY <1>1 DEF GeneratorType
<1>4. TypeOK'
  BY <1>1, <1>2, <1>3 DEF IInv, TypeOK, GeneratorOnly, ContextType, GeneratorType
<1>5. DraftPhases'
  BY <1>1 DEF DraftPhases, NoContext, Draft
<1> QED
  BY <1>1, <1>4, <1>5, GeneratorOnlyStep

\* The generator hands its block over to consensus, or drops it.
LEMMA ExecuteOwnStep ==
    ASSUME IInv, ExecuteOwn
    PROVE  IInv'
<1>1. /\ generator.at = "waiting" /\ consensus = Idle /\ consensus.at = "idle"
      /\ UNCHANGED <<context, penalised, committed>>
      /\ generator.ok \in BOOLEAN
  BY Shapes DEF IInv, ExecuteOwn, At, Idle
<1>2. CASE generator' = Idle /\ UNCHANGED consensus
  <2>1. TypeOK'
    BY <1>1, <1>2 DEF IInv, TypeOK
  <2> QED
    BY <1>1, <1>2, <2>1 DEF IInv, Roles, BlockPhases, DraftPhases, WriteSafe, CommittedSound,
                            BlockSteps, Idle
<1>3. CASE ~(generator' = Idle /\ UNCHANGED consensus)
  <2>1. /\ generator' = [at |-> "handedOver", ok |-> generator.ok]
        /\ consensus' = [at |-> "init", block |-> OwnBlock(generator.ok), own |-> TRUE]
    BY <1>1, <1>3, Shapes DEF IInv, ExecuteOwn
  <2>2. OwnBlock(generator.ok) \in OwnBlocks /\ OwnBlock(generator.ok) \in BlockType
    <3>1. generator.ok = TRUE \/ generator.ok = FALSE
      BY <1>1, Zenon
    <3>2. OwnBlock(generator.ok) = OwnBlock(TRUE) \/ OwnBlock(generator.ok) = OwnBlock(FALSE)
      BY <3>1, Zenon
    <3>3. OwnBlock(TRUE) \in BlockType /\ OwnBlock(FALSE) \in BlockType
      <4>1. \A root \in {"after", "wrong"} :
              [name |-> "own", assetsOK |-> TRUE, executes |-> TRUE, rootsOK |-> TRUE,
               stateRoot |-> root] \in BlockType
        <5>1. "own" \in BlockNames /\ TRUE \in BOOLEAN
          BY DEF BlockNames
        <5> QED
          BY <5>1, Zenon DEF BlockType
      <4> QED
        BY <4>1 DEF OwnBlock
    <3> QED
      BY <3>2, <3>3, Zenon DEF OwnBlocks
  <2>3. consensus' \in ConsensusType
    BY <2>1, <2>2 DEF ConsensusType, BlockSteps
  <2>4. generator' \in GeneratorType
    BY <1>1, <2>1 DEF GeneratorType
  <2>5. TypeOK'
    BY <1>1, <2>3, <2>4 DEF IInv, TypeOK, ConsensusType, GeneratorType
  <2>6. Roles' /\ BlockPhases' /\ DraftPhases' /\ WriteSafe' /\ CommittedSound'
    BY <1>1, <2>1, <2>2 DEF IInv, Roles, BlockPhases, DraftPhases, WriteSafe, CommittedSound
  <2> QED
    BY <2>5, <2>6 DEF IInv
<1> QED
  BY <1>2, <1>3

(* ------------------------------- theorems ------------------------------ *)

\* The strengthened invariant holds in every reachable state.
THEOREM Invariance == Spec => []IInv
<1>1. Init => IInv
  <2> SUFFICES ASSUME Init PROVE IInv
    OBVIOUS
  <2>1. context \in ContextType
    BY DEF Init, NoContext, ContextType, AllPhases
  <2>2. TypeOK
    BY <2>1 DEF Init, TypeOK, ContextType
  <2> QED
    BY <2>2 DEF Init, IInv, Roles, BlockPhases, DraftPhases, WriteSafe, CommittedSound, Idle,
                NoContext, Draft, BlockSteps
<1>2. IInv /\ [Next]_vars => IInv'
  <2> SUFFICES ASSUME IInv, [Next]_vars PROVE IInv'
    OBVIOUS
  <2>1. CASE UNCHANGED vars
    BY <2>1 DEF vars, IInv, TypeOK, Roles, BlockPhases, PhasesAt, DraftPhases, WriteSafe,
                CommittedSound
  <2>2. CASE DeleteBlock \/ \E b \in Received : ReceiveBlock(b)
    BY <2>2, TakeMutexStep
  <2>3. CASE ConsensusStep
    BY <2>3, InitStep, ExecuteStep, VerifyRootsStep, CommitWriteStep, DeletionStep
       DEF ConsensusStep
  <2>4. CASE GenerateInit \/ GeneratorStep
    BY <2>4, GenerateInitStep, GenerateCallStep, GenerateCommitStep, GenerateWriteStep,
       GenerateClearStep, ExecuteOwnStep DEF GeneratorStep
  <2> QED
    BY <2>1, <2>2, <2>3, <2>4 DEF Next
<1> QED
  BY <1>1, <1>2, PTL DEF Spec

\* ABIHandler.commit checks the id of the context and waits before it writes: what
\* it writes was still computed by all the calls for that very block, although the
\* generator may use, close and clear the context at any time without a lock.
THEOREM CommitsAreComplete == Spec => []CommitComplete
<1>1. IInv => CommitComplete
  <2> SUFFICES ASSUME IInv PROVE CommitComplete
    OBVIOUS
  <2>1. ASSUME consensus.at = "write", context.open
        PROVE  context.id = consensus.block.name /\ context.phases = AllPhases
    BY <2>1 DEF IInv, WriteSafe, BlockPhases, PhasesAt, NoContext, BlockSteps
  <2> QED
    BY <2>1 DEF IInv, CommitComplete, CommittedSound
<1> QED
  BY <1>1, Invariance, PTL
=============================================================================
