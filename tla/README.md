# A TLA+ verification of the Klayr SDK

The Klayr SDK (a TypeScript monorepo) builds nodes of blockchains with BFT
finality that exchange cross-chain messages. This directory holds TLA+ models of
a node: the engine that decides what the chain is, the pools and the peers around it,
and the application modules that hold value. TLC checks them on small instances,
TLAPS proves theorems for every instance. `PROJECT.json` is the index: components,
runs, mutants, the source lines of every definition, hazards and theorems.

    tlc -workers 2 -config MCConsensusFaulty.cfg MCConsensus
    tlapm ConsensusProofs.tla

## The system

| Component | State it keeps | Operations | What is hard | Modules |
|---|---|---|---|---|
| BFT (`engine/bft`) | votes of the newest blocks, three heights, active validators; validator sets by height | `beforeTransactionsExecute`, `setBFTParameters`, `impliesMaximalPrevotes`, `isHeaderContradictingChain` | a sliding window, validators that leave and return, generators that lie about `maxHeightGenerated`, deletion of parameters | BFT, BFTChain |
| Fork choice (`consensus/fork_choice`) | none | `forkChoice` | the order of the cases | ForkChoice |
| Consensus (`consensus/consensus.ts`) | chain, finalized height, `_mutex`, `_stop` | `onBlockReceive`, `execute`, `stop`, `_executeValidated`, `_deleteBlock`, `_sync` | callers that wait for one mutex, two databases written one after the other | Consensus, FinalizedChain |
| Synchronizer (`consensus/synchronizer`) | the temp table of deleted blocks | block synchronization, fast chain switching, restoring | blocks that fail in the middle, peers that stop answering, finality that arrives meanwhile, restarts | Consensus |
| Application interface (`abi_handler`) | one execution context, the state database | `initStateMachine`, the execution calls, `commit`, `revert`, `clear`, `init` | two users without a lock, recovery after a crash | ExecutionContext, Consensus |
| Generator (`engine/generator`) | keys, last generated info | `_generateLoop`, `_generateBlock`, `updateStatus` | reads spread over awaits, what is signed after a restart | Generator |
| Certificates (`consensus/certificate_generation`) | three lists of single commits | `addCommit`, `validateCommit`, `getAggregateCommit`, `_job` | heights read before an await, limits of gossip, changes of validators | CommitPool |
| Transaction pool (`elements/transaction-pool`) | transactions by id, by sender and nonce, by fee | add, evict, replace, reorganize, expire | three indexes, limits, asynchronous verification | TransactionPool |
| State machine (`state_machine`) | state store, event queue, context store | hooks and commands of a block | two snapshots per transaction, events that survive a restore | Application, PoS |
| Auth, validators, fee, PoA, random, reward | nonces, keys, authorities, reveals | five commands, hooks | several stores written before something throws, updates that take effect rounds later | PoA, Application |
| Token (`modules/token`) | accounts, supply, escrow, supported tokens | methods, transfers, hooks of cross-chain messages | conservation within and between chains | Token |
| Interoperability (`modules/interoperability`) | chain accounts, channels, terminated states | registration, CCU, recovery, termination | a faulty partner chain, messages that bounce, recovery after termination | Interoperability |
| PoS and dynamic reward | validators, stakers, eligible validators, snapshots | stake, unlock, report, claim, commission, rounds | redundant stores, sharing of rewards, punishment windows | PoS, ValidatorSelection |
| P2P (`elements/p2p`) | peer book, connections | populate, discover, connect, evict, ban | every peer is listed twice, protected peers, late socket events | PeerBook, P2P |
| NFT, legacy blocks, controller, RPC, codec, trees, chain connector, commander, user interfaces | | | see *Not modelled* | |

How they interact: a block arrives from P2P (`onBlockReceive`) or from the
generator (`execute`); consensus takes its mutex, asks fork choice, and executes
the block by calls to the application (`_abi`) and to BFT, whose state is part of
the engine's database. `_abi.commit` writes the application's state database,
then `chain.saveBlock` writes the engine's. A block of a preferred chain starts
the synchronizer, which deletes and executes blocks through the same two
functions while the mutex is held. The generator uses `_abi` too, without the mutex;
it takes transactions from the transaction pool and an aggregate commit from the
commit pool, both of which are told of new blocks by events. Inside the application
the state machine calls the modules' hooks and commands in order; the modules call
each other's methods (PoS and interoperability lock, pay and escrow through token; fee
collects what commands pay; PoA and PoS set the validators that the engine then votes
with). Chains exchange messages by cross-chain updates (CCUs) that anyone may relay.

What makes the parts correct: votes are counted once and depend on the chain
only; finalized blocks stay; the two databases agree; a switch of chains that
fails is undone; nothing waits for ever; a validator does not contradict itself; what a
pool offers is valid when it is used; tokens are conserved; redundant stores agree;
a round can always end; limits hold and protected peers come back.

## Modules

### BFT, BFTChain

`BFT.tla` has the functions of `engine/bft` on the two stores (`votes`, `params`),
with their names. The active validators, a list sorted by address, are a
function; a validators hash is the injective image of what it hashes; a
certificate is its height and whether it is signed. Slots and the
list of generators are left out: *some* slot makes any validator of positive weight the
generator, which is what `_verifyGeneratorAddress` amounts to for any chain.

`BFTChain.tla` executes and deletes blocks on one chain. A block is any header
that passes `_verify` (`HeaderVerified`), so generators may be dishonest.
`ExecuteBlock` is `_executeValidated` with `beforeTransactionsExecute`, the removal
of parameters, an optional update of the validators, and the finalized height;
`DeleteLastBlock` is `_deleteBlock` with the reverted diff. `history` is a ghost: the
parameters as if none was ever deleted, and who precommitted what. The
properties compare the code's incremental computations with definitions over
the whole chain (`Prevoters`, `Replayed`).

### ForkChoice, Consensus, FinalizedChain

`ForkChoice.tla` is the rule, case by case. `TIE_BREAK` needs the `receivedAt`
of the last block, which nothing sets, so the case is never reached
(`receivedAt` is `Never` in every block of the model).

`Consensus.tla` is one node: `chain`, `finalizedHeight` and the temp table are the
engine's database, `app` the application's; `queue` are the callers waiting for the
mutex and `job` what its holder does. Executing a block is two steps, `BeginExecute`
(checks and `abi.commit`) and `SaveBlock`; deleting is `BeginDelete` (checks and
`abi.revert`) and `RemoveBlock`. The steps of the synchronizer are actions of their
own: choice of the mechanism, best peer, common block, deletion with backup,
application, and the recovery. Peers are nondeterministic: the common block, the
blocks and the failures are any the code would accept. `Crash` may happen between any
two steps; `Start` includes `ABIHandler.init`. The blocks are a fixed tree given by a
constant; whether a block executes and which height its chain has precommitted are
attributes of the block, as they depend on its ancestors only
(`VotesDependOnChainOnly` of BFTChain).

`FinalizedChain.tla` is the abstract specification of that node: a finalized part that
only grows, and a tail that grows and shrinks by one linked block at its end. The
refinement mapping cuts `chain` at `finalizedHeight`. `ImplementsFinalizedChain` is
checked by TLC and proved.

### ExecutionContext

`ExecutionContext.tla` models `ABIHandler._executionContext`. Consensus goes through
`_verifyAssets`, `_executeBlock`, the checks of the roots and `_commitBlock`, or
through `_deleteBlock`, one ABI call per step; the generator through
`_generateBlock`. `commit` is two steps, since it waits between the check of
the id and the use of the context. Failures differ in what they clear and whom they
penalise: `FailWithPenalty`, `FailAndClear`, `FailInBetween`, `Abandon`. `commit`
writes nothing when the expected root is the current one, as in the code.

### Generator

`Generator.tla` is what one validator signs. `tip` is the chain as far as a header
depends on it; `info` is the last generated info in the generator's database;
`enabled` says whether the key pair is in `_keypairs`; `enabling` is an `updateStatus`
between `isSynced` and its end; `generation` is where `_generateLoop` is. `published`
(in order) and `failed` are ghosts. `GenerateLoop`, `ReadHeights`,
`CreateHeader` and `PersistInfo` are the parts of `_generateLoop` and `_generateBlock`
between awaits, so a block may move the tip in between; `ExecuteOwn`, `SaveOwn` and
`FailOwn` are `Consensus.execute`, which broadcasts before it executes. `Start` enables
the keys only when they are stored in plain text (`_loadGenerators`).

Three constants select the environment. `Crashes` lets the process die at
any step. `PlainKeys` is how the keys are stored; `LowerTips` lets a preferred chain be
shorter than the tip. The run is about encrypted keys and excludes `LowerTips`: *Also
observed* says what happens otherwise. The names of the two forks are symmetric.

### CommitPool

`CommitPool.tla` is the pool of single commits on top of the functions of BFT. `received`, `local` and
`gossiped` are the three lists of the code; `job` is where `_job` is, with the heights
it read before it began to go through the lists (`removal`, `precommitted`, `current`),
so that blocks may arrive or be deleted meanwhile. `handling` holds the commits of peers
between the start and the end of their validation; `tasks` are changes of the finalized
height whose event is not handled yet. `Restart` empties the lists. A
commit is a height, a block id and a signer: signatures are valid for that block only,
an aggregate signature is its set of signers. `SelectedVerifies` computes what
`_selectAggregateCommit` would return in *every* state and runs the verification of
`verifyAggregateCommit` on it. `NextCertificateServed` is about what one run of the job sends: the
commits it repeats for ever and the node's new ones share one limit.

### TransactionPool

`TransactionPool.tla` keeps the three indexes of the pool: by id (`all`), by sender and
nonce with the processable ones (`lists`), by fee (`queue`). `Add` does what happens
before the verification by the application, `Verified` gives the answer and
`AddVerified` the rest, so that calls overlap. The reorganize job goes through
the lists one verification at a time (`Reorganize`, `VerifyNext`, `Reorganized`).
`OwnBlock` is the generator's choice of transactions (`strategies.ts`), `ReceiveBlock` and
`DeleteBlock` the events of consensus. All transactions have the same size, so that the fee
is the priority.

### PeerBook, P2P

`PeerBook.tla` has the operations of the peer book on records. Each list is kept as the code
keeps it, a lookup and a bucket, because `makeSpace` changes only the
bucket: `orphans` are the entries that this leaves without a bucket. An
operation that evicts a random peer returns a set of books.

`P2P.tla` adds the pool and the server: the populator with its fixed peers, free
slots and the one connection per address; sockets that are connecting, open or
closed; handshakes and the connection that follows later; discovery, evictions, bans and their
end. `trusted` are the inbound peers whose kind, given when they connected, is fixed or
whitelisted. `selectPeersForEviction` protects the numbers of peers that the four ratios
(per thousand) give: by netgroup, latency and productivity any peers, as these
are not modelled, and of the rest by longevity; where nobody is left, nobody is evicted and the pool takes
one more. Reputation is left out (a penalty may be the one that bans) and so is time (a timer may
fire at any moment).

### Token, Interoperability

`Token.tla` is the ledger of one chain: a record of the four substores, and the module's
methods as functions from ledger to ledger, each with the condition under which it does
not throw. Three modules use it: Interoperability, PoS and Application.

`Interoperability.tla` composes a mainchain and sidechains, each with its own ledger.
`CrossChainUpdate(d, c, n)` is the whole CCU command of chain `c` on chain `d`:
verification against the certificate, the fee of the relayer, the status of the
chain account, and for each of the messages `apply`, `forward` or `bounce`
with the snapshots and the token hooks that the code runs. Registration on both sides,
termination by liveness, by a faulty message and by a `channelTerminated` message, the
recoveries of messages and of state, and the changes of the supported tokens are
actions of their own. An outbox is the sequence of its messages and an inbox the length
of a prefix: what the Merkle roots commit to. A certificate is authentic and commits to
outboxes and terminations (validator updates are left out); a `Faulty`
chain has certificates for any message of `FaultyKinds`.

The central invariant, `TokensBacked`, says that on every honest chain the balances
add up to the supply, and that what one honest chain has issued or forwarded of another
honest chain's token is covered by the escrow there and the messages under way. It
accounts exactly for fees that are burnt, returned and lost.

### PoS, ValidatorSelection

`ValidatorSelection.tla` computes the validators of a round from a snapshot: the mix of
initial and elected ones, the standby validators, the BFT weights with their cap and the
thresholds. Random seeds are free choices.

`PoS.tla` has every command of the module but `updateGeneratorKey`, with the hooks of the fee and
dynamic reward modules around it, and `EndBlock`: missed blocks and bans, the snapshot,
the validators of the next round, the reward of the generator and its shares by the
sharing coefficients in units of `1/Q`. `Unlock` takes the certified height as a parameter.
A command that throws restores the snapshot of the state machine. The stakes of a transaction and the claims of a
staker are applied one by one by a recursive function (`after`), stakes by amount and equal amounts in any order
(`stakeOrders`); the pending unlocks of a staker are a function
to the number of equal ones (`Copies`).

### PoA, Application

`PoA.tla` has the stores of the validators, PoA and random modules and their methods.
`Application.tla` is the state machine that runs them with auth, token, fee and
reward in the order of `examples/poa-sidechain`: `BeginBlock`, `ExecuteTransaction` with its
two snapshots and the events that survive a restore, `EndBlock`. The event queue is a set:
which events there are matters, not their order. The same operators answer
`verifyTransaction`, so that `VerifiedNeverInvalid` compares the two paths. `included`,
`accepted`, `round` and `supplyEvents` are what an observer of the chain knows. A transfer reads its
sender's account and throws when there is none, after the recipient's was opened, whatever the amount.

## Runs

| Run | Instance | Properties | Shows |
|---|---|---|---|
| `bft_one_validator` | one validator at a time, two addresses, window 3, heights to 5 | `DeletedParametersNotNeeded`, `VotesExact`, `HeightsNeverDecrease` | votes stay exact while the window slides, parameters are deleted in time and not too early, heights never go back |
| `bft_two_validators` | weights 2 and 1, three addresses, window 6, heights to 4 | `VotesExact`, `VotesDependOnChainOnly`, `CertificateChainUnbroken`, `MaximalPrevotesExact` | votes of several validators and certificates, with every deletion |
| `consensus_reliable` | seven blocks on two forks, no crash, no finality, stop | `BackupSound`, `TipNeverWorse`, `StopHangsOnlyInDeletion` | a failed switch is undone, no backup is left, only the deletion loop delays `stop()` |
| `consensus_faulty` | the same with finality, unresponsive peers, stops and crashes | `TypeOK`, `ApplicationFollowsEngine`, `FinalizedKept`, `ImplementsFinalizedChain` | databases and finality stay intact; the abstract chain is implemented |
| `context_shared` | six kinds of blocks, generator, failing hooks | `CommitComplete`, `ContextReleased` | a commit writes its own block's context; contexts are released |
| `generator_encrypted_keys` | two forks, heights to 3, two published blocks, crashes | `NeverContradictsItself`, `OwnBlockAccepted`, `InfoCoversPublished` | executed headers do not contradict each other, the node accepts what it makes, the stored info covers what was published |
| `commit_pool` | two validators, one on this node, changes of parameters at heights 2 and 3, heights to 4, one disturbance, one message | `SelectedVerifies`, `OwnCommitsPresent`, `NextCertificateServed` | a generated block has a valid aggregate commit; own commits are kept until they are certified, and those of the next certificate are sent although old commits use up the limit |
| `transaction_pool` | two senders, four transactions, pool of two, lists of two, two blocks, one deletion | `PoolConsistent`, `NextServed` | the indexes agree, limits hold, the next transaction in line is served |
| `p2p_peers` | a fixed, a seed and a plain peer, a full new list, two outbound slots, one inbound with half of them protected, one ban | `BookExact`, `ConnectionsBounded`, `FixedReconnected` | lists are exact, limits hold up to fixed peers that connected by themselves and to what protection allows, a fixed peer comes back |
| `interop_faulty_sidechain` | a mainchain, an honest sidechain that registers, a faulty registered one, two tokens, six messages, amounts that exceed the escrow once the fee has left it | `TokensBacked`, `ActiveAfterRegistration`, `TerminatedIsFinal` | a faulty chain cannot unback what honest chains hold; a termination is final |
| `pos_rewards_and_punishment` | two accounts, rounds of one block, heights to 5, four transactions | `TokensExact`, `StoresAgree`, `RoundsSound`, `PunishedStaysLocked` | stakes, locks, supply and the eligible list agree; a punished stake stays locked |
| `application_block` | two validators and a user, 26 transactions of which two are included, updates to three, two and one authorities, seven blocks | `Solvent`, `NoncesExact`, `VerifiedNeverInvalid`, `RegistrationAtomic`, `AuthorityDelayed`, `RoundEndSucceeds` | money, nonces and registrations stay exact through failing commands; updates of consecutive rounds take effect two rounds later; only the end of a round of one authority is stuck |

Every property has a mutant in `PROJECT.json`, a plausible bug of the code, that
TLC finds with that property under the same configuration.

**Bounds.** With one validator the window is three blocks, so five heights make it
slide twice and parameters of two earlier validator sets become removable; two
validators with different weights give thresholds below the total (their window of six does not slide; the one of
three does, with the same `VotesExact`). Chains of three
blocks on two forks, each block competing with one of the other fork, give every
fork choice case, both mechanisms, failures before, at and after the first block, and
a backup of two blocks. `TwoRounds = 3` admits the fast chain switch for some
distances. `QueueBound = 1` lets one caller wait besides `stop()`: later
ones add orderings of independent callers only. In Generator, two published blocks are
the pair that may contradict each other, and three heights leave room for a tip that
moves before, between and after them. In CommitPool four heights contain the
last blocks of two sets of parameters, their certificates and one more; `CommitRangeStored = 0` makes
the job remove at once what it may; at the end three commits of two old heights compete for
a limit of two. In TransactionPool the limits are two
transactions, so that every addition after the second one evicts or is refused; a replacement, a
gap in the nonces and a transaction that becomes invalid are among the four. In P2P a
new list of one entry makes every discovery evict; longevity alone protects the one
inbound peer that the limit allows, so the pool takes a second; the third, a fixed peer that a ban took out of the book, must find room. In Interoperability six messages are a
registration, its answer, transfers both ways and their bounce or recovery; messages of
the faulty chain are counted apart (`MaxFaulty`), and their amount (`FaultyAmounts`) is covered by the escrow
before the fee is taken from it and not after. In PoS four transactions allow register, stake,
downstake or report, and unlock; locking periods and punishment windows of one to three
blocks end within five blocks. In Application seven blocks reach the fourth round, in which the second of two consecutive updates has taken effect,
and the end of a round whose length an update changed; a registration and the update that needs it, a transaction and its
replay, or a command that fails and one after it are two transactions.
The constants named with `Max...` and commented "bound" are the only limits that the
code does not have.

**Deadlock** is checked in ExecutionContext, P2P and Application (which ends in
`Finished`: at the last height, or in a block whose end throws, which is what `RoundEndSucceeds` is about). Elsewhere the model really stops: at its bounds, and
when a crash has left databases that `ABIHandler.init` refuses.

**Fairness.** `FairSpec` of Consensus assumes weak fairness of the mutex holder: each of
its awaits is a database call or a request with a timeout. ExecutionContext assumes
that both loops go on and that blocks keep arriving. TransactionPool assumes that the
reorganize job, a timer, makes its steps and that a block is generated from time to
time. P2P assumes that the populator, a timer, runs and that a ban ends, which is a timer
too. None assumes that a node is asked to stop, that peers are helpful, that a
connection succeeds or that a crash is repaired.

## Proofs

Eight modules `...Proofs.tla` hold theorems about the module whose name they carry. They hold
for every value of the constants (every tree of blocks, set of validators, schedule of updates,
bound), under the assumptions that the modules declare and TLC evaluates in the runs.

| Module | Theorem | Statement |
|---|---|---|
| Consensus | `TypeCorrect` | `Spec => []TypeOK` |
| | `AlwaysAChain` | `Spec => []ChainLinked` |
| | `AlwaysTogether` | `Spec => []ApplicationFollowsEngine` |
| | `ChecksStayTrue` | `Spec => []WorkInProgressSafe` |
| | `FinalityIrreversible` | `Spec => FinalizedKept` |
| | `Implementation` | `Spec => ImplementsFinalizedChain` |
| | `BackupIsSound` | `Spec /\ []SwitchNotFinal => []BackupSound`, for `~PeersRunOut`, `~Crashes` |
| | `SwitchesNeverLose` | `Spec /\ []SwitchNotFinal => TipNeverWorse`, for `~PeersRunOut`, `~Crashes`, `PrevotedHeightsGrow` |
| BFTChain | `NothingNeededIsDeleted` | `Spec => []DeletedParametersNotNeeded` |
| | `CertificatesFollow` | `Spec => []CertificateChainUnbroken` |
| | `HeightsOnlyRise` | `Spec => HeightsNeverDecrease` |
| | `MaximalPrevotesAreExact` | `Spec => []MaximalPrevotesExact` |
| | `VotesAreExact` | `Spec => []VotesExact` |
| | `VotesFollowTheChain` | `Spec => []VotesDependOnChainOnly` |
| ExecutionContext | `CommitsAreComplete` | `Spec => []CommitComplete` |
| Generator | `NoContradiction` | `Spec => []NeverContradictsItself`, for `~PlainKeys`, `~LowerTips` |
| | `InfoCovers` | `Spec => []InfoCoversPublished`, for the same |
| | `OwnBlocksAccepted` | `Spec => []OwnBlockAccepted`, for the same |
| CommitPool | `OwnCommitsKept` | `Spec => []OwnCommitsPresent` |
| | `SelectedAlwaysVerifies` | `Spec => []SelectedVerifies` |
| P2P | `BookIsExact` | `Spec => []BookExact` |
| | `ConnectionsAreBounded` | `Spec => []ConnectionsBounded`, for `Cardinality(FixedPeers) <= MaxOutbound` |
| Application | `NoncesAreExact` | `Spec => []NoncesExact` |
| | `VerifiedIsExecutable` | `Spec => []VerifiedNeverInvalid` |
| | `RegistrationsAgree` | `Spec => []RegistrationAtomic` |
| | `UpdatesAreDelayed` | `Spec => []AuthorityDelayed` |
| | `AccountsStaySolvent` | `Spec => []Solvent` |
| PoS | `PunishedStakesStayLocked` | `Spec => PunishedStaysLocked` |
| | `EveryReportHolds` | every report holds for its whole window, for `PunishmentWindow <= PunishmentWindowSelf` |
| | `RoundsAreSound` | `Spec => []RoundsSound` |
| | `StoresAlwaysAgree` | `Spec => []StoresAgree` |
| | `TokensAreExact` | `Spec => []TokensExact` |

Each rests on an inductive invariant, which TLC checked on the run's instance before it was proved.

**Consensus.** `Inv` is the conjunction of the four invariants and is
inductive only as a whole. A block that is saved must still extend the tip
(`WorkInProgressSafe`), or the chain would break; it does because a write in progress
excludes other writes. A block that is removed is not final because it was not when
the removal began. `ApplicationFollowsEngine` speaks of the states in the
middle of a write, so that the end of the write establishes it again, and `Start`
re-establishes it from `Recoverable`. `BlockAssumption` says that a block precommits
a height below its own; it is why the finalized height never passes the tip.

`Implementation` rests on the same `Inv`. `Cut`, `OneMore`, `AppendMovesCut` and `FrontKeepsCut` are
facts about a sequence cut in two; with them `SaveBlockExtends` shows that `SaveBlock` is
`Extend` with as many blocks becoming final as the finalized height moves, and
`RemoveBlockRetracts` that `RemoveBlock` is `Retract`. Every other step leaves the
chain and the finalized height alone (`OtherStepsKeepChain`) and is a stutter.

`Backup` says what the temp table is at each step of the synchronizer: the blocks of the old
chain above the tip or the common block, without a gap (`Continues`), each of which executes, and
which operation may be half done (`JobFits`). `SwitchWorth` adds that what would be put back is
not worse than the tip before the switch (`Worth`); the preference of fork choice being a strict weak
order makes this carry from one block to the next. The hypotheses are the three cases in which
the code really gives the backup up (*Also observed*): peers that stop answering, a crash, and
a block of the peer that makes a block final above the common one (`SwitchNotFinal`; the
reliable instance has no finality, so it holds there). `PrevotedHeightsGrow` is what `_verify`
ensures by comparing the header with the BFT heights, which never fall (`HeightsOnlyRise`).

**BFTChain.** Deletions return to earlier states, so `IInv` says of *every* state in `undo`, and of
the present one, that it is in order (`StateOK`): the window is the newest headers and the heights are
in range (`VotesOK`); the stored parameters are those of `history` from the oldest height that
can be asked for (`ParametersOK`); each certificate of the chain is for a height between the one
before and the next change of parameters (`CertificatesOK`). `WeightsAssumption` says that validators are finite lists and that weights and their sum are
unsigned integers.
`DeletedParametersNotNeeded` compares the heights that `verifyAggregateCommit` admits, with and
without deletions (`CertifiableHeights`): the first heights of changed parameters need not agree where they
are below `MinCertifyHeight`, which the proof showed and no instance had.

`VotesFollowTheChain` needs besides that the states of `undo` are those of the chain's own blocks, each the
replay of the next block on the one before (`Chained`), and that counting reads the parameters of the window only,
where those stored and those of the whole chain agree (`VotesAlike`). The recursive function `Replayed` is
then equal to that list of states by a least counterexample.

`VotesAreExact` rests on `AllCounts`, which says of every state in `undo` and of the present one (`CountsOK`): the
weights of a block are those of its voters as the headers show them (`WeightsOK`); an active
validator has been one without a break exactly since its `minActiveHeight` (`ActiveOK`); no precommit is above the
validator's `largestHeightPrecommit` (`PrecommitsOK`); only prevoted heights have precommits (`ShownOK`). The core is `PrevotedAbove`:
`getHeightNotPrevoted`, which follows a generator's own blocks down by what they claim, returns a height
above which the generator has indeed prevoted. That no vote is counted twice follows from the comparison with
the generator's newest block in `isHeaderContradictingChain` (`OwnBlocksCounted`), the only thing known of a
dishonest generator. The section *sums* has what the proof needs of `SumFunction`: it does not depend on the order
(`SumsAgree`), and an element adds its value (`SumAdd`); these are least counterexamples by cardinality.

**ExecutionContext.** A context with the id of a block was opened by the one who works on that block
and has had exactly the calls made so far (`BlockPhases`, `DraftPhases`); between the two halves of
`commit` the generator can clear the context but not open another, since it waits for the mutex
(`WriteSafe`). `NamesAssumption`: the id of a signed block is not that of a draft.

**Generator.** The stored info covers what was published (`PublishedSound`); whoever is enabled has a chain
that reached it (`CaughtUp`, from `isSynced` through `EnablingSound`); what has been read for a
header covers everything published so far (`GenerationSound`), although the tip moves meanwhile.
Plain keys and shorter preferred chains are excluded because the property is false there.

**CommitPool.** A commit that is needed (the block is final, not certified, and the last before new
parameters) is in a list or a change of the finalized height is still to be handled that will sign it (`Covered`).
What the job remembers across its waits is behind what is certified now (`JobOK`), so that it never
removes too much; blocks are deleted above the finalized height only (`ChainOK`).

`SelectedAlwaysVerifies` needs that no block certifies more than is precommitted and that every commit in a list or under
validation is by a validator that is active at its height, also when the block of that height was deleted meanwhile (`Grounded`).
The weight that `_selectAggregateCommit` adds up is one of list entries, the one that `verifyAggregateCommit` adds up is one of
validators: they are equal when no validator has two entries, since a sum does not change when its arguments
are renamed one to one (`SumRenamed`). `PoolConstants` says that the weights are finite lists of unsigned integers.

**P2P.** `BookSound` relates bucket, lookup and orphans of each list; `PoolSound` says that no peer is connected
twice. The outbound limit needs `SlotsKept`: the outbound peers and the fixed ones fit into the slots, less
the fixed peers that connected by themselves. The hypothesis of `ConnectionsAreBounded` is about the
configuration: without a slot for each fixed peer the populator connects to them all the same. The inbound limit
needs that a pool which is full and evicts nobody is one that the ratios may protect (`MayProtectAll`); it holds for any
limit, zero included, and any ratios.

**Application.** Every command is shown to do only what `CommandDone` allows, whether it throws or not; with the
two snapshots this gives the effect of a transaction. `VerifiedNeverInvalid` follows from the
locked fee being there after the command (`FeeHeld`). `Rounds` says that the three
stored snapshots are due now, in one and in two rounds. `GenesisAssumption` and `TransactionsAssumption` are what
the schemas and the genesis verification ensure.

`AccountsStaySolvent` needs of every token method how much the accounts together and the supply gain (`Changes`): nothing by
opening an account or a transfer, the amount by `burn` and `mint`; `lock` and `unlock` move it within an
account (`SameTotals`). The sum over the accounts changes by what the one account does (`SumOneChanged`), which is all that
is used of it. A command keeps both (`KeepsBooks`), restored or not, and logs no burn event (`NoBurn`); after it
the sender's fee is the only amount locked (`OnlyFee`), so that the fee module's last hook unlocks everything and
burns exactly what its event says (`Settles`). The facts about sums are those of BFTChainProofs and CommitPoolProofs.

**PoS.** The unlock command compares a downstake with the last report only. `ReportsOK` says that reports are
in order and `PunishmentWindowSelf` apart, which `verifyReport` ensures: so an earlier report has held the stake for that long when a
later one exists. The configuration may make `PunishmentWindow` the longer of the two, and then that is all
that is true; where it is not, as by default, `EveryReportHolds`. `EligibleIs` says what the
eligible store is for given accounts; `EligibleUpdated` shows that `update` with the old weight restores it, and with
the weight 0 too when the validator was banned, as `unbanValidator` does. A stake or claim transaction is a fold
over a list: that its steps exist and that each keeps the stores (`Keeps`) follows from a least
counterexample (`StepsKeep`), once for `stake` and once for `claimRewards`. Balances play no part here: `IInv`
leaves the ledger open, so that what follows from it also holds when the token module refuses for other reasons.

`RoundsAreSound` needs to know what the snapshots contain and which ones are there (`RoundsInv`): from the fourth round on
those of this round and the next two, each a list of distinct registered validators with a positive weight, which is where
`EligibleIs` comes in; the validators of the round are such a list with some weight, and the initial ones stay registered.
A new list keeps this through every branch of the selection (`NextListOK`): scaling rounds up, so that no weight becomes 0; the
average that initial validators get is at least 1; a capped weight may be 0, but there is one validator fewer to cap
than would be needed to reach the whole (`CappedWeightOK`, `CapOK`), so that somebody's weight is left;
shuffling is a permutation, and the standby validators come from those that wait. A list with a weight reaches its own
threshold (`ThresholdWithin`). `PoSAssumption` says what `initGenesisState` verifies of the initial validators, distinct and
registered, and that there is one, since a list without weight has no threshold it reaches. `InitRounds >= 3` is a duty of
the genesis block that the code does not check, see *Also observed*.

`StoresAlwaysAgree` and `TokensAreExact` rest on `Books`, which holds of every state a command starts from or ends in.
`LockedCovers` is not inductive: the code rounds what each staker gets down and what the validator locks up, so a sum of
rounded claims says nothing about the claims after the next reward. `Covered` therefore compares what is locked with
the exact claims (`Owed`), in units of `1/Q`, and `LockedCovers` follows at the end, because a sum of rounded claims is at most
the sum of the exact ones (`ClaimableOK`). `StakesSound` says that the two sides of every stake agree and that no stake has a
coefficient above its validator's; `Exact` is the ledger's part. Stakes, claims and punishments change one stake:
`StakeStep` shows once that the books survive when the change of what is locked is the change of stake and pending unlocks,
less a payout of at most what was due, after which nothing is due. A reward makes every claim on the generator grow at once
(`OwedGrows`); that the part it locks, rounded up and capped by the reward, covers all of that is `SharedOK`. The fee
module's hooks run around every command, so commands also keep what is locked as fees (`SameFees`). The sums
over accounts are built on the order in which TLC adds; `SumsAnyOrder` shows that any order gives the same, and all
other facts about sums follow from it. `PoSAssumption` bounds a commission by 100%, as the schemas of the command and of the genesis
store do, and asks that fees, rewards, gaps and reductions are naturals.

**Only model-checked**, and why:

- Liveness (`StopHangsOnlyInDeletion`, `NextServed`, `ContextReleased`, `FixedReconnected`): the
  provers do not handle fairness.
- `TokensBacked`: it relates the ledgers of two chains to the messages under way, and a message moves several of its
  sums in many steps.
- `PoolConsistent` and the invariants of Interoperability: their operations fold over a list of
  transactions or messages, so that one step is itself an induction.
- What depends on the instance: `RoundEndSucceeds` (the supply is far from its limit) and
  `NextCertificateServed` (the limit of gossip is twice the number of validators that are active now, which may be
  too few for the commits of one height after most of them left).

## Also observed

Behaviour met while modelling that a reader of the properties should know: the
properties are stated so that they hold beside it. What TLC found in a variant of
an instance is marked (TLC).

Engine:

- `stop()` during `deleteBlocksAfterHeight` waits for ever, since the loop's deletions no
  longer happen (`synchronizer/utils.ts:50`, `consensus.ts:923-926`; TLC).
  `StopHangsOnlyInDeletion` is what remains.
- A crash between `abi.revert` and `chain.removeBlock` leaves the engine one block ahead,
  and `ABIHandler.init` refuses to start (`consensus.ts:904`, `abi_handler.ts:192`; TLC).
- With `PeersRunOut = TRUE`, a restarted synchronization leaves its backup and the next one adds blocks of
  another fork to it (`block_synchronization_mechanism.ts:140`; TLC), and `TipNeverWorse`
  fails: fast chain switching takes the blocks it got before the peer stopped answering for
  the whole fork (`fast_chain_switching_mechanism.ts:65-98`; TLC).
- Blocks applied by a switch that fails later may have become final, so that it cannot be
  undone (`fast_chain_switching_mechanism.ts:200`; TLC).
- With `Crashes = TRUE` the temp table survives a restart, since nothing calls
  `Synchronizer.init`; nothing calls `Synchronizer.stop` either (TLC).
- A valid block that arrives while the generator holds the execution context is refused and
  its sender penalised (`consensus.ts:344`, `generator.ts:550`; TLC). A failure of
  `_verifyValidatorsHash` or `_verifyEventRoot` leaves the context to the next
  `initStateMachine` (`FailInBetween`).
- `maxHeightGenerated` is the last height generated, which after a switch to a shorter chain
  is not the largest (`generated_info.ts:47`; TLC). With plain keys and crashes,
  `NeverContradictsItself` fails (TLC).

Pools:

- A stale processable transaction blocks its sender's list until it expires, and a re-added
  lower nonce stays behind a processable higher one after a deletion or an eviction
  (`Misled`; TLC). The fee queue keeps entries of replaced transactions;
  the minimum difference of a replacement is not asked for when the list is full.
- A single commit that is in two lists counts twice in `_selectAggregateCommit`, and commits for
  deleted blocks stay in the pool: both are excluded by `sound` in
  `SelectedVerifies` (TLC). A validator enabled while the votes are behind the finalized
  height does not sign up to it (`missed`; TLC).
- The peer book's `makeSpace` takes a peer out of its bucket only: `orphans` and entries that are
  in the lookup and in no bucket result (TLC). A ban removes one peer
  of the address from the pool; a ban between handshake and connection lets the peer in.
  Fixed peers that connect by themselves take the pool over its outbound limit. The protection ratios leave
  nobody to evict among up to five inbound peers (`peer_pool.ts:607-662`; TLC), so that a smaller `maxInboundConnections`
  is exceeded. A fixed peer that a ban of its address took out of the book connects again as an ordinary one,
  which may be evicted (`peer_server.ts:272`).

Application:

- On the mainchain `terminateChainInternal` is called without a timestamp where it needs one and
  throws: a termination for liveness always fails, and a bad message in a CCU or a message
  forwarded to a late or terminated sidechain ends in `panic` (TLC; `halted`).
- A `channelTerminated` message cannot be delivered because the outbox root is removed in the
  same transaction. `_forwardRecovery` passes the original message, so the escrow loses
  the fee a second time (`recover_message.ts:204`; accounted for in `EscrowBacks`). A CCU with an empty certificate
  always fails. `removeSupport` after `supportAllTokens` changes nothing.
- PoS: a genesis block with `initRounds` below 3 passes `initGenesisState` (`schemas.ts:453` has no minimum), but the first
  snapshot is that of round 4, so the first update of the validators would read one that nobody made (`module.ts:648`).
- PoS: validators of the genesis block are not in the eligible list before their stake is
  touched; the weight cap does not apply in the bootstrap rounds; a validator without self
  stake cannot be punished; a report needs the current generator key.
- PoS: `punishmentWindowSelfStaking` may be configured down to 43,200 while `punishmentWindowStaking` is 241,920 by default
  (`schemas.ts:171-176`, `module.ts:881`). Then a second report within the window of the first is accepted, and since
  `isPunished` looks at the last one only, the first no longer counts: it is what `PunishedStaysLocked` allows.
- PoA: an update to a single authority makes the end of its round throw when PoA comes before
  random, as in `examples/poa-sidechain`, and the chain stops (TLC): `updateAuthority` accepts it, since its schema asks for one validator (`poa/schemas.ts:108`).
  `application_block` has such an update, and `RoundEndSucceeds` says that this is the only round that cannot end. The event of the fee module calls burnt what goes to the fee pool.

## Not modelled

The map covers about a ninth of the lines of the implementation. What is left is
largely code without state of its own, for which a model would repeat the code:
schemas, endpoints, codecs, command line, plugins' user interfaces, API client.

- Bytes: codec, hashes, signatures, Merkle and sparse Merkle trees. They enter as injective
  values, sets of signers and sequences.
- The native state database and the cache of the state store; a snapshot is restored as a
  whole.
- NFT: the scheme of escrow and transfer is the one of Token.
- The chain connector plugin: it is one relayer, and Interoperability lets anyone relay
  anything that verifies. Whether *it* delivers every message is not checked.
- Legacy blocks, controller, IPC and RPC, the socket library, rate limits and reputation of
  peers.
- The genesis hooks of the modules (a constant initial state), `setStatus` by
  which an operator overrides the last generated info, PoS's `updateGeneratorKey`,
  `initializeToken`.
- Peers have no identity in Consensus, so whom a penalty of the synchronizer hits is not
  checked. Clock time is left out: whether the finalized block is old enough for block
  synchronization is a free choice.

- Faults and orders of the engine outside of the models: `saveBlock` failing after `abi.commit`
  without the process ending (`chain.ts:199`); the version of the state database, which does
  not advance when `commit` is skipped (`abi_handler.ts:478`); network and consensus starting before
  `abi.init` has answered (`engine.ts:113`), which is one step of `Start`.

The hazards of `PROJECT.json` without a property are the one of plain keys and the one of a restarted synchronization, for which
TLC finds the property violated (*Also observed*). `BackupSound` and `TipNeverWorse` are checked and proved only
where peers keep answering and no switch becomes final.

## Plan

Modelled: all modules above. Proved: the table under *Proofs*. Next:

- Interoperability: `TerminatedIsFinal`, from an invariant of the chain accounts that each message of a CCU
  keeps, by a least counterexample over the messages, as `StepsKeep` is one. `ActiveAfterRegistration` rests on the
  sums of `TokensBacked` and comes after them.
