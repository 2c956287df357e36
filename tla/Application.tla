---------------------------- MODULE Application ----------------------------
(***************************************************************************)
(* The state machine of an application (framework/src/state_machine) that  *)
(* executes blocks with the modules auth, validators, token, fee, PoA,     *)
(* random and reward: the hooks before and after transactions and          *)
(* commands, the commands of auth, token and PoA, snapshots of the state   *)
(* store and the event queue, and the context store that lives as long as  *)
(* the block.  What the engine asks for is BeginBlock, ExecuteTransaction  *)
(* for each transaction and EndBlock; a deleted block gives back an        *)
(* earlier state, which TLC has then already seen.                         *)
(*                                                                         *)
(*   state    the state store: auth accounts, the token ledger, the stores *)
(*            of PoA;                                                      *)
(*   height   the height of the last block, of which the genesis is 0;     *)
(*   block    NoBlock, or the header that is executed and the context      *)
(*            store's reward;                                              *)
(*   outcome  what executeTransaction last answered.                       *)
(*                                                                         *)
(* The other variables are what an observer of the chain knows: the nonces *)
(* of the included transactions, the authority updates it saw succeed with *)
(* the round they were made in, the round and the height it began after,   *)
(* and the sums of the events.  A transaction is a record whose command is *)
(* one of                                                                  *)
(*                                                                         *)
(*   transfer, registerAuthority, updateAuthority, updateGeneratorKey,     *)
(*   registerMultisignature                                                *)
(*                                                                         *)
(* and whose signatures are the set of the keys that signed it.            *)
(***************************************************************************)
EXTENDS Token, PoA

CONSTANTS
    Addresses, Transactions, \* the accounts, and the transactions that anyone may send
    GenesisBalances,         \* from the addresses with a token account
    GenesisNames, BlsKeyOf, GeneratorKeyOf, GenesisSnapshot,
    MinFee,                  \* minFeePerByte times the size of any transaction
    MaxBlockHeightZeroFee,   \* maxBlockHeightZeroFeePerByte
    FeePoolAddress,          \* feePoolAddress, or NoAddress
    NoAddress,
    AuthorityRegistrationFee,
    Offset, Distance, Brackets, RewardReductionFactorBFT,
    MaxNumberOfSignatures,
    MaxHeight, MaxIncluded, MaxOdd  \* bounds: blocks, included transactions, odd headers

ASSUME ApplicationAssumption ==
    /\ LockModules = {"fee"} /\ NoAddress \notin Addresses
    /\ {MinFee, MaxBlockHeightZeroFee, AuthorityRegistrationFee, Offset} \subseteq Nat
    /\ {Distance, RewardReductionFactorBFT} \subseteq Nat \ {0}
    /\ Brackets \in Seq(Nat) \ {<<>>}
    /\ IsFiniteSet(Addresses) /\ {MaxHeight, MaxIncluded, MaxOdd} \subseteq Nat
    /\ DOMAIN GenesisSnapshot.weights \subseteq DOMAIN GenesisNames
    /\ ThresholdInRange(GenesisSnapshot.weights, GenesisSnapshot.threshold)

\* The genesis assets are lists with unsigned amounts, and no name and no BLS key twice.
ASSUME GenesisAssumption ==
    /\ IsFiniteSet(DOMAIN GenesisSnapshot.weights) /\ IsFiniteSet(DOMAIN GenesisBalances)
    /\ GenesisBalances \in [DOMAIN GenesisBalances -> Nat]
    /\ GenesisSnapshot.weights \in [DOMAIN GenesisSnapshot.weights -> Nat]
    /\ \A a, b \in DOMAIN GenesisNames :
           a # b => GenesisNames[a] # GenesisNames[b] /\ BlsKeyOf[a] # BlsKeyOf[b]

\* The schemas of the transaction and of its parameters.
ASSUME TransactionsAssumption ==
    \A tx \in Transactions :
        /\ tx.sender \in Addresses /\ tx.fee \in Nat
        /\ \/ tx.command = "transfer" /\ tx.amount \in Nat
           \/ tx.command = "updateAuthority" /\ tx.weights \in [DOMAIN tx.weights -> Nat]
           \/ tx.command \in {"registerAuthority", "updateGeneratorKey", "registerMultisignature"}

VARIABLES state, height, block, outcome, included, accepted, round, supplyEvents, odd

vars == <<state, height, block, outcome, included, accepted, round, supplyEvents, odd>>

NoBlock == [generator |-> NoAddress]

Missing == -1       \* the available fee has no entry in the context store

(* ------------------------------ auth module ---------------------------- *)

SingleSignature == [numberOfSignatures |-> 0, mandatoryKeys |-> {}, optionalKeys |-> {}]

verifySignatures(account, tx) ==
    IF account.numberOfSignatures = 0 THEN tx.signatures = {tx.sender}
    ELSE /\ Cardinality(tx.signatures) = account.numberOfSignatures
         /\ account.mandatoryKeys \subseteq tx.signatures
         /\ tx.signatures \subseteq account.mandatoryKeys \cup account.optionalKeys

registerMultisignatureVerified(tx) ==
    LET keys == tx.mandatoryKeys \cup tx.optionalKeys
    IN  /\ tx.mandatoryKeys \cap tx.optionalKeys = {}
        /\ Cardinality(keys) \in 1 .. MaxNumberOfSignatures
        /\ tx.numberOfSignatures \in 1 .. Cardinality(keys)
        /\ tx.numberOfSignatures >= Cardinality(tx.mandatoryKeys)

(* ------------------------------ fee module ----------------------------- *)

getMinFee(h) == IF h < MaxBlockHeightZeroFee THEN 0 ELSE MinFee

\* Mutant: the fee is not compared with the balance.
FeeVerifiedWithoutBalance(s, h, tx) == tx.fee >= getMinFee(h)

feeVerified(s, h, tx) ==
    tx.fee >= getMinFee(h) /\ tx.fee <= getAvailableBalance(s.ledger, tx.sender, KLY)

(* ------------------------- contexts of a command ----------------------- *)
(* s: the state, fee: the available fee of the context store, events: the  *)
(* event queue, whose order and indexes are left out: a transaction logs   *)
(* no event of the model twice; thrown: whether the command threw.         *)

Event(name, amount, noRevert) == [name |-> name, amount |-> amount, noRevert |-> noRevert]

Log(c, e) == [c EXCEPT !.events = @ \cup {e}]

Throw(c) == [c EXCEPT !.thrown = TRUE]

payFee(c, amount) ==
    LET available == IF c.fee = Missing THEN 0 ELSE c.fee
    IN  IF available < amount
        THEN Throw(Log([c EXCEPT !.fee = Missing], Event("insufficientFee", amount, TRUE)))
        ELSE [c EXCEPT !.fee = available - amount]

(* ------------------------------- commands ------------------------------ *)

\* The internal method reads the account of the sender, whatever the amount.
transferExecute(c, tx) ==
    LET paid == payFee(c, initializationFee(c.s.ledger, tx.recipient, KLY))
        ready == [paid EXCEPT !.s.ledger = initializeUserAccount(@, tx.recipient, KLY)]
    IN  IF paid.thrown THEN paid
        ELSE IF \/ ~userSubstoreExists(ready.s.ledger, tx.sender, KLY)
                \/ getAvailableBalance(ready.s.ledger, tx.sender, KLY) < tx.amount
        THEN Throw(ready)
        ELSE [ready EXCEPT !.s.ledger = transfer(@, tx.sender, tx.recipient, KLY, tx.amount)]

registerAuthorityExecute(c, tx) ==
    LET paid == payFee(c, AuthorityRegistrationFee)
        named == [paid EXCEPT !.s.poa = registerAuthority(@, tx.sender, tx.name)]
    IN  IF paid.thrown THEN paid
        ELSE IF ~keysRegistrable(named.s.poa, tx.sender, tx.blsKey, tx.popValid)
        THEN Throw(Log(named, Event("keyRegistrationFailed", 0, TRUE)))
        ELSE [named EXCEPT !.s.poa =
                registerValidatorKeys(@, tx.sender, tx.blsKey, tx.generatorKey)]

updateAuthorityExecute(c, tx) ==
    IF ~authoritySignatureValid(c.s.poa, tx.signers)
    THEN Throw(Log(c, Event("authorityUpdateFailed", 0, TRUE)))
    ELSE Log([c EXCEPT !.s.poa = updateAuthority(@, tx.weights, tx.threshold)],
             Event("authorityUpdated", 0, FALSE))

updateGeneratorKeyExecute(c, tx) ==
    [c EXCEPT !.s.poa = setValidatorGeneratorKey(@, tx.sender, tx.generatorKey)]

registerMultisignatureExecute(c, tx) ==
    IF tx.keySignatures # tx.mandatoryKeys \cup tx.optionalKeys
    THEN Throw(Log(c, Event("invalidSignature", 0, TRUE)))
    ELSE [c EXCEPT !.s.auth[tx.sender].keys =
            [numberOfSignatures |-> tx.numberOfSignatures,
             mandatoryKeys |-> tx.mandatoryKeys, optionalKeys |-> tx.optionalKeys]]

commandVerified(s, tx) ==
    CASE tx.command = "transfer" -> getAvailableBalance(s.ledger, tx.sender, KLY) >= tx.amount
      [] tx.command = "registerAuthority" ->
            registerAuthorityVerified(s.poa, tx.sender, tx.name)
      [] tx.command = "updateAuthority" ->
            updateAuthorityVerified(s.poa, tx.weights, tx.threshold, tx.updateNonce)
      [] tx.command = "updateGeneratorKey" -> tx.sender \in DOMAIN s.poa.validators
      [] tx.command = "registerMultisignature" -> registerMultisignatureVerified(tx)

commandExecute(c, tx) ==
    CASE tx.command = "transfer" -> transferExecute(c, tx)
      [] tx.command = "registerAuthority" -> registerAuthorityExecute(c, tx)
      [] tx.command = "updateAuthority" -> updateAuthorityExecute(c, tx)
      [] tx.command = "updateGeneratorKey" -> updateGeneratorKeyExecute(c, tx)
      [] tx.command = "registerMultisignature" -> registerMultisignatureExecute(c, tx)

(* ----------------------------- state machine --------------------------- *)

\* verifyTransaction answers OK: a higher nonce is PENDING, which no block accepts.
verifyTransaction(s, h, tx) ==
    /\ tx.nonce = s.auth[tx.sender].nonce
    /\ verifySignatures(s.auth[tx.sender].keys, tx)
    /\ feeVerified(s, h, tx)
    /\ commandVerified(s, tx)

beforeCommandExecutable(s, h, tx) ==
    tx.fee >= getMinFee(h) /\ spendable(s.ledger, tx.sender, KLY, tx.fee)

beforeCommandExecute(s, h, tx) ==
    [s |-> [s EXCEPT !.auth[tx.sender].nonce = @ + 1,
                     !.ledger = lock(@, tx.sender, "fee", KLY, tx.fee)],
     fee |-> tx.fee - getMinFee(h), events |-> {}, thrown |-> FALSE]

\* Mutant: nothing is restored.
NothingRestored(before, after) == after

\* A command that throws loses its writes and its revertible events, not what
\* it did to the context store.
commandRestored(before, after) ==
    IF after.thrown
    THEN [after EXCEPT !.s = before.s, !.events = {e \in @ : e.noRevert}]
    ELSE after

\* The fee module's afterCommandExecute, with whether it goes through.
settleFee(c, g, tx) ==
    LET unlocked == unlock(c.s.ledger, tx.sender, "fee", KLY, tx.fee)
        available == IF c.fee = Missing \/ ~userSubstoreExists(unlocked, g, KLY) THEN 0 ELSE c.fee
        rewarded == transfer(unlocked, tx.sender, g, KLY, available)
        consumed == tx.fee - available
        burns == FeePoolAddress = NoAddress \/ ~userSubstoreExists(rewarded, FeePoolAddress, KLY)
        settled == [c EXCEPT !.s.ledger =
                       IF burns THEN burn(rewarded, tx.sender, KLY, consumed)
                       ELSE transfer(rewarded, tx.sender, FeePoolAddress, KLY, consumed)]
    IN  [ok |-> /\ unlockable(c.s.ledger, tx.sender, "fee", KLY, tx.fee)
                /\ spendable(unlocked, tx.sender, KLY, available)
                /\ spendable(rewarded, tx.sender, KLY, consumed),
         c |-> IF burns THEN Log(settled, Event("burn", consumed, FALSE)) ELSE settled]

\* [status, s, events] of executeTransaction.
executeTransaction(s, h, g, tx) ==
    LET before == beforeCommandExecute(s, h, tx)
        executed == commandRestored(before, commandExecute(before, tx))
        settled == settleFee(executed, g, tx)
    IN  IF ~beforeCommandExecutable(s, h, tx) \/ ~settled.ok
        THEN [status |-> "INVALID", s |-> s, events |-> {}]
        ELSE [status |-> IF executed.thrown THEN "FAIL" ELSE "OK",
              s |-> settled.c.s, events |-> settled.c.events]

(* ----------------------------- reward module --------------------------- *)

calculateDefaultReward(h) ==
    IF h < Offset THEN 0
    ELSE LET location == (h - Offset) \div Distance
         IN  Brackets[1 + (IF location > Len(Brackets) - 1 THEN Len(Brackets) - 1 ELSE location)]

getBlockReward(s, h, header) ==
    LET default == calculateDefaultReward(h)
    IN  IF ~isSeedValidInput(s.poa.reveals, header.generator, header.seed, FALSE) THEN 0
        ELSE IF ~header.impliesMaxPrevotes THEN default \div RewardReductionFactorBFT
        ELSE default

(* ------------------------------- behaviour ----------------------------- *)

Amounts(events, name) ==
    SumFunction([e \in {d \in events : d.name = name} |-> e.amount])

GenesisSupply == SumFunction(GenesisBalances)

Init ==
    /\ state = [auth |-> [a \in Addresses |-> [nonce |-> 0, keys |-> SingleSignature]],
                ledger |->
                    [own |-> Mainchain,
                     users |-> [k \in {<<a, KLY>> : a \in DOMAIN GenesisBalances} |->
                                  [DefaultAccount EXCEPT !.available = GenesisBalances[k[1]]]],
                     supply |-> [t \in {KLY} |-> GenesisSupply],
                     escrow |-> NoKeys, allTokens |-> FALSE, supported |-> NoKeys],
                poa |-> GenesisState(GenesisNames, BlsKeyOf, GeneratorKeyOf, GenesisSnapshot)]
    /\ height = 0 /\ block = NoBlock /\ outcome = "none"
    /\ round = [number |-> 1, after |-> 0]
    /\ included = [a \in Addresses |-> <<>>]
    /\ accepted = <<>> /\ supplyEvents = 0 /\ odd = 0

\* The layers of the hash onion a generator may reveal: the next, or the last again.
Seeds(g) ==
    LET own == RevealsOf(state.poa.reveals, g)
    IN  IF own = <<>> THEN {0} ELSE {Last(own).seed, Last(own).seed + 1}

IsOdd(header) ==
    \/ ~header.impliesMaxPrevotes
    \/ ~isSeedValidInput(state.poa.reveals, header.generator, header.seed, FALSE)

\* initStateMachine, verifyAssets and beforeTransactionsExecute.
BeginBlock(g) ==
    /\ block = NoBlock /\ height < MaxHeight
    /\ \E seed \in Seeds(g), implies \in BOOLEAN :
          LET header == [generator |-> g, seed |-> seed, impliesMaxPrevotes |-> implies]
          IN  /\ odd' = odd + (IF IsOdd(header) THEN 1 ELSE 0)
              /\ block' = [generator |-> g, seed |-> seed, impliesMaxPrevotes |-> implies,
                           reward |-> getBlockReward(state, height + 1, header)]
    /\ odd' <= MaxOdd
    /\ UNCHANGED <<state, height, outcome, included, accepted, round, supplyEvents>>

\* A transaction that is not OK is left out of a generated block and makes a
\* received one invalid.
ExecuteTransaction(tx) ==
    /\ block # NoBlock
    /\ verifyTransaction(state, height + 1, tx)
    /\ SumFunction([a \in Addresses |-> Len(included[a])]) < MaxIncluded
    /\ LET result == executeTransaction(state, height + 1, block.generator, tx)
       IN  /\ outcome' = result.status
           /\ state' = result.s
           /\ included' = IF result.status = "INVALID" THEN included
                          ELSE [included EXCEPT ![tx.sender] = Append(@, tx.nonce)]
           /\ supplyEvents' = supplyEvents - Amounts(result.events, "burn")
           /\ accepted' =
                IF \E e \in result.events : e.name = "authorityUpdated"
                THEN Append(accepted, [nonce |-> tx.updateNonce, round |-> round.number,
                                       snapshot |-> [weights |-> tx.weights,
                                                     threshold |-> tx.threshold]])
                ELSE accepted
    /\ UNCHANGED <<height, block, round, odd>>

RoundEnds == height + 1 = state.poa.roundEndHeight

\* Whether the hooks after the transactions of the block go through.
afterTransactionsExecutable ==
    /\ RoundEnds => roundEndable(state.poa)
    /\ block.reward >= 0
    /\ userSubstoreExists(state.ledger, block.generator, KLY) =>
          mintable(state.ledger, block.generator, KLY, block.reward)

\* PoA, random and reward in turn, and the commit.
EndBlock ==
    /\ block # NoBlock
    /\ afterTransactionsExecutable
    /\ LET ended == IF RoundEnds THEN roundEnded(state.poa) ELSE state.poa
           minted == IF userSubstoreExists(state.ledger, block.generator, KLY)
                     THEN block.reward ELSE 0
       IN  /\ state' = [state EXCEPT
                          !.poa = addReveal(ended, block.generator, height + 1, block.seed),
                          !.ledger = mint(@, block.generator, KLY, minted)]
           /\ supplyEvents' = supplyEvents + minted
    /\ round' = IF RoundEnds THEN [number |-> round.number + 1, after |-> height + 1] ELSE round
    /\ height' = height + 1
    /\ block' = NoBlock
    /\ UNCHANGED <<outcome, included, accepted, odd>>

\* The bound of the model is reached, or no generator can finish a block.
Finished ==
    /\ \/ height = MaxHeight /\ block = NoBlock
       \/ block # NoBlock /\ ~afterTransactionsExecutable
    /\ UNCHANGED vars

Next ==
    \/ \E g \in DOMAIN state.poa.params.validators : BeginBlock(g)
    \/ \E tx \in Transactions : ExecuteTransaction(tx)
    \/ EndBlock
    \/ Finished

Spec == Init /\ [][Next]_vars

(* ------------------------------ properties ----------------------------- *)

Snapshots ==
    {GenesisSnapshot} \cup
    {[weights |-> tx.weights, threshold |-> tx.threshold] :
        tx \in {t \in Transactions : t.command = "updateAuthority"}}

\* The observed quantities have their types, and every snapshot is the genesis
\* one or one that some transaction asks for.
TypeOK ==
    /\ height \in 0 .. MaxHeight /\ round.number \in 1 .. (MaxHeight + 1) /\ odd \in 0 .. MaxOdd
    /\ outcome \in {"none", "OK", "FAIL", "INVALID"} /\ supplyEvents \in Int
    /\ \A a \in Addresses : state.auth[a].nonce \in 0 .. MaxIncluded
    /\ \A k \in DOMAIN state.ledger.users : state.ledger.users[k].available \in Nat
    /\ \A i \in 1 .. 3 : state.poa.snapshots[i] \in Snapshots
    /\ Len(state.poa.reveals) <= MaxLengthReveals

\* Between transactions no fee is locked, the accounts hold exactly the supply,
\* and the minted and burnt amounts of the chain's events explain it, whether
\* commands succeeded, failed or ran out of fee (FeeModule.beforeCommandExecute
\* and afterCommandExecute, EventQueue.restoreSnapshot).
Solvent ==
    /\ TypeOK
    /\ state.ledger.supply[KLY] = GenesisSupply + supplyEvents
    /\ UsersTotal(state.ledger, KLY) = state.ledger.supply[KLY]
    /\ \A k \in DOMAIN state.ledger.users : state.ledger.users[k].locked["fee"] = 0

\* The transactions of a sender are in the chain with the nonces 0, 1, 2, ...
\* and the account has the next: a failed command uses its nonce up too
\* (AuthModule.beforeCommandExecute runs before the command's snapshot).  Every
\* authority update that an event announces is counted in validatorsUpdateNonce,
\* exactly once and in order, so that its signatures serve once.
NoncesExact ==
    /\ \A a \in Addresses :
           /\ state.auth[a].nonce = Len(included[a])
           /\ \A i \in DOMAIN included[a] : included[a][i] = i - 1
    /\ state.poa.validatorsUpdateNonce = Len(accepted)
    /\ \A i \in DOMAIN accepted : accepted[i].nonce = i - 1

\* A transaction that verifyTransaction accepts in a state is never INVALID
\* when it is executed in that state: otherwise a generator could not tell the
\* blocks its peers refuse (consensus.ts, _verifyAndExecuteTransactions).
VerifiedNeverInvalid == outcome # "INVALID"

\* The four stores a registration writes agree: PoA's validators and names are
\* inverse to each other, so are the keys and the BLS keys, and exactly the
\* validators have keys.  registerValidatorKeys throws after the first two
\* stores were written (RegisterAuthorityCommand.execute).
RegistrationAtomic ==
    LET p == state.poa
    IN  /\ DOMAIN p.keys = DOMAIN p.validators
        /\ \A a \in DOMAIN p.validators : p.names[p.validators[a]] = a
        /\ \A n \in DOMAIN p.names : p.validators[p.names[n]] = n
        /\ \A a \in DOMAIN p.keys : p.blsKeys[p.keys[a].blsKey] = a
        /\ \A k \in DOMAIN p.blsKeys : p.keys[p.blsKeys[k]].blsKey = k

\* The snapshot of the last authority update made in round n or before.
DueBy(n) ==
    LET early == {i \in DOMAIN accepted : accepted[i].round <= n}
    IN  IF early = {} THEN GenesisSnapshot ELSE accepted[Max(early)].snapshot

\* The validators of a round are those of the last authority update made at
\* least two rounds before, so that an update never changes the round it is
\* made in or the next one; and the validators who sign updates (snapshot 0)
\* are those who generate (PoAModule.afterTransactionsExecute).  A round has as
\* many blocks as it has validators: the end that the chain properties announce is
\* that many blocks after the end of the round before.
AuthorityDelayed ==
    LET due == DueBy(round.number - 2)
        params == state.poa.params
    IN  /\ params.threshold = due.threshold
        /\ [a \in DOMAIN params.validators |-> params.validators[a].weight] = due.weights
        /\ state.poa.snapshots[1] = due
        /\ state.poa.roundEndHeight = round.after + Cardinality(DOMAIN params.validators)

\* The one state in which the hooks at the end of a block throw, which no
\* generator can get past, is the end of a round of a single authority: there
\* getRandomBytes asks for the reveal of the block itself, which the random
\* module adds only afterwards.  updateAuthority accepts such an authority (its
\* schema asks for one validator).  In every other round, whatever updates and
\* registrations came before, the seed can be computed and the new validators
\* have keys (PoAModule.afterTransactionsExecute).
RoundEndSucceeds ==
    block # NoBlock /\ ~afterTransactionsExecutable => RoundEnds /\ RoundLength(state.poa) = 1
============================================================================
