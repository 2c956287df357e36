-------------------------- MODULE ExecutionContext --------------------------
(***************************************************************************)
(* ABIHandler keeps a single execution context, and two parts of the       *)
(* engine use it without a common lock: consensus, one block at a time     *)
(* under its mutex, and the generator's loop.  A context is opened by      *)
(* initStateMachine, named in every later call and dropped by clear, which *)
(* does not say whose context it drops.                                    *)
(*                                                                         *)
(* A received block has passed the checks of its header; it is a record    *)
(*   assetsOK      its assets verify,                                      *)
(*   executes      its transactions execute,                               *)
(*   rootsOK       its validators hash and event root are right,           *)
(*   stateRoot     its state root is the one "after" its execution, the    *)
(*                 one "before" it or a "wrong" one.                       *)
(***************************************************************************)
EXTENDS Naturals

CONSTANTS
    Received,           \* the blocks that peers may send
    Generates,          \* is block generation enabled on this node?
    HooksFail           \* may a hook of a module throw during generation?

\* The ids of the blocks: the generator's own and the received ones.
BlockNames == {"own"} \cup {b.name : b \in Received}
BlockType == [name : BlockNames, assetsOK : BOOLEAN, executes : BOOLEAN, rootsOK : BOOLEAN,
              stateRoot : {"after", "before", "wrong"}]

ASSUME ReceivedAssumption == Received \subseteq BlockType
\* The id of a signed block is the hash of its header: it is not that of a header
\* without a signature, and there is always one.
ASSUME NamesAssumption    == \A b \in Received : b.name \notin {"draft", "none"}
ASSUME FlagsAssumption    == Generates \in BOOLEAN /\ HooksFail \in BOOLEAN

VARIABLES
    context,            \* ABIHandler._executionContext
    consensus,          \* the block consensus executes or deletes, and where it is
    generator,          \* where the generator's loop is
    penalised,          \* the received blocks whose sender got a penalty
    committed           \* what the last commit wrote, and for which block

vars == <<context, consensus, generator, penalised, committed>>

\* id: whose context it is; phases: the calls that changed its state store so
\* far; open: the state store has not been closed.
NoContext   == [id |-> "none", phases |-> 0, open |-> FALSE]
Fresh(id)   == [id |-> id, phases |-> 0, open |-> TRUE]
AllPhases   == 2        \* beforeTransactionsExecute; transactions and afterTransactionsExecute

\* The ids of the contexts: a header's hash, and the hash of a header that the
\* generator has not completed yet.
Draft       == "draft"
OwnBlock(ok) == [name |-> "own", assetsOK |-> TRUE, executes |-> TRUE, rootsOK |-> TRUE,
                 stateRoot |-> IF ok THEN "after" ELSE "wrong"]
LastBlock   == "last"

\* Mutant: the calls do not compare the context's id.
AnyContext(id) == context.open

\* A call finds the context it names.
Usable(id)  == context.id = id /\ context.open
PhaseDone   == [context EXCEPT !.phases = @ + 1]

Idle        == [at |-> "idle"]
BlockSteps  == {"init", "verifyAssets", "before", "after", "roots", "commit", "write"}
Steps(step) == [consensus EXCEPT !.at = step]

(* ------------------------------ consensus ------------------------------ *)

\* Consensus is done with a block, and with it the call the generator waits for.
Finished ==
    /\ consensus' = Idle
    /\ generator' = IF generator.at = "handedOver" /\ consensus.at \in BlockSteps
                        /\ consensus.own
                    THEN Idle ELSE generator

\* Mutant: the context is kept when the assets fail.
PenaltyWithoutClear ==
    /\ penalised' = IF consensus.own THEN penalised ELSE penalised \cup {consensus.block}
    /\ Finished
    /\ UNCHANGED <<context, committed>>

\* The failures of _verifyAssets and before it: the context is cleared and the
\* error becomes a penalty for the sender.
FailWithPenalty ==
    /\ context' = NoContext
    /\ penalised' = IF consensus.own THEN penalised ELSE penalised \cup {consensus.block}
    /\ Finished
    /\ UNCHANGED committed

\* The failures of _executeBlock and _commitBlock.
FailAndClear ==
    /\ context' = NoContext
    /\ Finished
    /\ UNCHANGED <<penalised, committed>>

\* The failures in between: only Consensus.execute, for the generator's blocks,
\* clears the context.
FailInBetween ==
    /\ context' = IF consensus.own THEN NoContext ELSE context
    /\ Finished
    /\ UNCHANGED <<penalised, committed>>

\* A call in the context of the block consensus is executing.
Call(step, next) ==
    /\ consensus.at = step
    /\ Usable(consensus.block.name)
    /\ consensus' = Steps(next)
    /\ UNCHANGED <<generator, penalised, committed>>

\* onBlockReceive, when the mutex is free and the header is verified.
ReceiveBlock(b) ==
    /\ consensus = Idle
    /\ consensus' = [at |-> "init", block |-> b, own |-> FALSE]
    /\ UNCHANGED <<context, generator, penalised, committed>>

\* initStateMachine, called by _verifyAssets.
InitStateMachine ==
    /\ consensus.at = "init"
    /\ IF context = NoContext
       THEN /\ context' = Fresh(consensus.block.name)
            /\ consensus' = Steps("verifyAssets")
            /\ UNCHANGED <<generator, penalised, committed>>
       ELSE FailWithPenalty

VerifyAssets ==
    \/ /\ Call("verifyAssets", "before")
       /\ consensus.block.assetsOK
       /\ UNCHANGED context
    \/ /\ consensus.at = "verifyAssets"
       /\ ~(consensus.block.assetsOK /\ Usable(consensus.block.name))
       /\ FailWithPenalty

BeforeTransactionsExecute ==
    \/ Call("before", "after") /\ context' = PhaseDone
    \/ /\ consensus.at = "before"
       /\ ~Usable(consensus.block.name)
       /\ FailAndClear

\* The transactions of the block and afterTransactionsExecute.
ExecuteTransactions ==
    \/ /\ Call("after", "roots")
       /\ consensus.block.executes
       /\ context' = PhaseDone
    \/ /\ consensus.at = "after"
       /\ ~(consensus.block.executes /\ Usable(consensus.block.name))
       /\ FailAndClear

\* _verifyValidatorsHash and _verifyEventRoot.
VerifyRoots ==
    /\ consensus.at = "roots"
    /\ IF consensus.block.rootsOK
       THEN consensus' = Steps("commit") /\ UNCHANGED <<context, generator, penalised, committed>>
       ELSE FailInBetween

\* ABIHandler.commit names the context first ...
Commit ==
    \/ Call("commit", "write") /\ UNCHANGED context
    \/ /\ consensus.at = "commit"
       /\ ~Usable(consensus.block.name)
       /\ FailAndClear

\* What a commit of the context's state store for block b finds of its root.
StateRootMatches(b) ==
    /\ context.id = b.name /\ context.phases = AllPhases
    /\ b.stateRoot = "after"

\* ... and after it has read the current state, writes whatever context is
\* there by then, if its root is the one expected.  When the root expected is
\* the current one it writes nothing.
CommitWrite ==
    /\ consensus.at = "write"
    /\ IF context.open /\ consensus.block.stateRoot # "before" /\ StateRootMatches(consensus.block)
       THEN /\ committed' = [for |-> consensus.block.name, id |-> context.id,
                             phases |-> context.phases]
            /\ context' = NoContext
            /\ Finished
            /\ UNCHANGED penalised
       ELSE FailAndClear

\* _deleteBlock: the last block is reverted in a context of its own.
DeleteBlock ==
    /\ consensus = Idle
    /\ consensus' = [at |-> "deleteInit"]
    /\ UNCHANGED <<context, generator, penalised, committed>>

DeleteInit ==
    /\ consensus.at = "deleteInit"
    /\ IF context = NoContext
       THEN context' = Fresh(LastBlock) /\ consensus' = [at |-> "revert"]
       ELSE context' = NoContext /\ consensus' = Idle
    /\ UNCHANGED <<generator, penalised, committed>>

\* revert may throw when the context is not its own any more; clear follows anyway.
Revert ==
    /\ consensus.at = "revert"
    /\ context' = NoContext
    /\ consensus' = Idle
    /\ UNCHANGED <<generator, penalised, committed>>

(* ------------------------------ generator ------------------------------ *)

At(step)       == generator.at = step
GeneratorOnly  == UNCHANGED <<consensus, penalised, committed>>
GoOn(step)     == generator' = [generator EXCEPT !.at = step]

\* _generateLoop logs an error and leaves the context as it is.
Abandon ==
    /\ generator' = Idle
    /\ UNCHANGED context
    /\ GeneratorOnly

\* initStateMachine throws, without any effect, while there is another context.
GenerateInit ==
    /\ Generates /\ generator = Idle
    /\ context = NoContext
    /\ context' = Fresh(Draft)
    /\ generator' = [at |-> "insertAssets", ok |-> TRUE]
    /\ GeneratorOnly

\* insertAssets, the hooks before the transactions, the transactions and the
\* hooks after them.
GenerateCall ==
    \E steps \in {<<"insertAssets", "before">>, <<"before", "after">>, <<"after", "commit">>} :
        /\ At(steps[1])
        /\ \/ /\ Usable(Draft)
              /\ context' = IF steps[1] = "insertAssets" THEN context ELSE PhaseDone
              /\ GoOn(steps[2])
              /\ GeneratorOnly
           \/ (~Usable(Draft) \/ HooksFail) /\ Abandon

GenerateCommit ==
    /\ At("commit")
    /\ \/ Usable(Draft) /\ GoOn("write") /\ UNCHANGED context /\ GeneratorOnly
       \/ ~Usable(Draft) /\ Abandon

\* The dry run computes a root from the context that is there by now, and
\* closes its state store.
GenerateWrite ==
    /\ At("write")
    /\ IF context.open
       THEN /\ generator' = [at |-> "clear", ok |-> context.id = Draft]
            /\ context' = [context EXCEPT !.open = FALSE]
            /\ GeneratorOnly
       ELSE Abandon

\* setLastGeneratedInfo and clear; then consensus.execute waits for the mutex.
GenerateClear ==
    /\ At("clear")
    /\ context' = NoContext
    /\ GoOn("waiting")
    /\ GeneratorOnly

\* The own block no longer extends the tip, or it is executed.
ExecuteOwn ==
    /\ At("waiting") /\ consensus = Idle
    /\ \/ generator' = Idle /\ UNCHANGED consensus
       \/ /\ generator' = [generator EXCEPT !.at = "handedOver"]
          /\ consensus' = [at |-> "init", block |-> OwnBlock(generator.ok), own |-> TRUE]
    /\ UNCHANGED <<context, penalised, committed>>

(* ---------------------------- specification ---------------------------- *)

Init ==
    /\ context = NoContext
    /\ consensus = Idle /\ generator = Idle
    /\ penalised = {}
    /\ committed = [for |-> "none"]

ConsensusStep ==
    \/ InitStateMachine \/ VerifyAssets \/ BeforeTransactionsExecute \/ ExecuteTransactions
    \/ VerifyRoots \/ Commit \/ CommitWrite \/ DeleteInit \/ Revert

GeneratorStep ==
    GenerateCall \/ GenerateCommit \/ GenerateWrite \/ GenerateClear \/ ExecuteOwn

Next ==
    \/ \E b \in Received : ReceiveBlock(b)
    \/ DeleteBlock
    \/ ConsensusStep
    \/ GenerateInit \/ GeneratorStep

\* Both loops run on, and blocks keep arriving.
Spec == /\ Init /\ [][Next]_vars
        /\ WF_vars(ConsensusStep)
        /\ WF_vars(GeneratorStep)
        /\ WF_vars(\E b \in Received : ReceiveBlock(b))

(* ------------------------------ properties ----------------------------- *)

\* The context, the two programs that use it and the record of the last commit.
TypeOK ==
    /\ context \in [id : {"none", Draft, LastBlock} \cup BlockNames,
                    phases : 0 .. AllPhases, open : BOOLEAN]
    /\ consensus \in {Idle} \cup [at : {"deleteInit", "revert"}]
                    \cup [at : BlockSteps, block : BlockType, own : BOOLEAN]
    /\ generator \in {Idle} \cup [at : {"insertAssets", "before", "after", "commit", "write",
                                        "clear", "waiting", "handedOver"}, ok : BOOLEAN]
    /\ penalised \subseteq Received

\* What a commit writes, and what it is about to write after it has waited for
\* the current state, was computed by all the calls for that very block: the
\* context it reads again is the one it checked, or closed, or gone.
CommitComplete ==
    /\ TypeOK
    /\ committed.for # "none" => committed.id = committed.for /\ committed.phases = AllPhases
    /\ consensus.at = "write" /\ context.open =>
           context.id = consensus.block.name /\ context.phases = AllPhases

\* No context stays for ever: whatever is left behind by a failure is dropped as
\* long as blocks arrive.
ContextReleased == []<>(context = NoContext)
=============================================================================
