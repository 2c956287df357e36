-------------------------------- MODULE PoS --------------------------------
(***************************************************************************)
(* The proof-of-stake module (framework/src/modules/pos) of one chain and  *)
(* what it works with: the token, fee, validators and dynamic reward       *)
(* modules and the state machine, which runs the hooks around a command    *)
(* and restores a snapshot when the command throws.                        *)
(*                                                                         *)
(*   app        the stores: the token ledger, the validators, the stakers  *)
(*              and the eligible validators, whose keys are                *)
(*              <<weight, address>>;                                       *)
(*   snapshots  the snapshot store, from rounds to stake weights;          *)
(*   params     the validators of the validators module, in order;         *)
(*   block      the block in execution: its height, its slot, the slots of *)
(*              the block before and of the last end of a round, and the   *)
(*              number of transactions so far.                             *)
(*                                                                         *)
(* The token of stakes and rewards is KLY.  An address is a number, for    *)
(* the order of the keys.  Arrays that are kept sorted are functions; the  *)
(* pending unlocks of a staker, of which two may be equal, are a function  *)
(* to their number.  Q is 2^96, the unit of the sharing coefficients.      *)
(***************************************************************************)
EXTENDS Token, ValidatorSelection

CONSTANTS
    Address, InitValidators,    \* InitValidators is the sequence of the genesis block
    Faulty,                     \* addresses that sign contradicting headers
    Names,                      \* names of validators
    Stakes, Commissions,        \* the amounts and commissions of transactions
    TxFee, MinFee, RegistrationFee,
    FactorSelfStakes, MinWeightStandby,
    MaxSentStakes, MaxPendingUnlocks,
    LockingPeriod, LockingPeriodSelf, PunishmentWindow, PunishmentWindowSelf,
    ReportReward, ReportLimit,
    CommissionPeriod, MaxCommissionIncrease, MaxCommission,
    DefaultReward, MinimalReward,
    FailSafeMissed, FailSafeWindow,
    Q, Endowment,
    Reductions,                 \* quotients of the reward, 0 for no reward
    Gaps,                       \* bound: slots from one block to the next
    MaxHeight, MaxSlot,         \* bounds: blocks and slots
    MaxTransactions             \* bound: transactions in all blocks

ASSUME PoSAssumption ==
    /\ Address \subseteq Nat /\ IsFiniteSet(Address)
    /\ InitValidators \in Seq(Address) \ {<<>>} /\ IsInjective(InitValidators)
    /\ {"pos", "fee"} \subseteq LockModules /\ IsFiniteSet(LockModules)
    /\ {TxFee, MinFee, RegistrationFee, Endowment} \subseteq Nat
    /\ MinFee <= TxFee /\ RegistrationFee <= TxFee - MinFee
    /\ {LockingPeriod, LockingPeriodSelf, PunishmentWindow, PunishmentWindowSelf} \subseteq Nat
    /\ Stakes \subseteq Int /\ ReportReward \in Nat
    /\ FactorSelfStakes \in Nat /\ MinWeightStandby \in Nat \ {0}
    /\ Q \in Nat \ {0} /\ MaxCommission \in Nat \ {0} /\ Commissions \subseteq 0 .. MaxCommission
    /\ MinimalReward \in Nat /\ DefaultReward \in Nat /\ MinimalReward <= DefaultReward
    /\ InitRounds >= 3 /\ Reductions \subseteq Nat /\ Gaps \subseteq Nat

VARIABLES app, snapshots, params, block

vars == <<app, snapshots, params, block>>

Done(s) == [ok |-> TRUE, s |-> s, paid |-> 0]

Throw(s) == [ok |-> FALSE, s |-> s, paid |-> 0]

(* ------------------------------- the stores ---------------------------- *)

NewValidator(name, height) ==
    [name |-> name, total |-> 0, self |-> 0, lastGenerated |-> height, banned |-> FALSE,
     reports |-> <<>>, missed |-> 0, commission |-> MaxCommission, increased |-> height,
     coefficient |-> 0]

getOrDefault(s, a) ==
    IF a \in DOMAIN s.stakers THEN s.stakers[a] ELSE [stakes |-> NoKeys, unlocks |-> NoKeys]

Copies(u, unlocks) == IF u \in DOMAIN unlocks THEN unlocks[u] ELSE 0

PendingUnlocks(unlocks) == MapThenSumSet(LAMBDA u : unlocks[u], DOMAIN unlocks)

getValidatorWeight(v) == Min({v.self * FactorSelfStakes, v.total})

LastReport(v) == IF v.reports = <<>> THEN 0 ELSE Last(v.reports)

\* Mutant: the old key is deleted only when a new one replaces it.
updateKeepingOldKey(eligible, a, oldWeight, v) ==
    IF v.banned \/ getValidatorWeight(v) < MinWeightStandby THEN eligible
    ELSE Put(Drop(eligible, <<oldWeight, a>>), <<getValidatorWeight(v), a>>, LastReport(v))

updateEligible(eligible, a, oldWeight, v) ==
    LET without == Drop(eligible, <<oldWeight, a>>)
    IN  IF v.banned \/ getValidatorWeight(v) < MinWeightStandby THEN without
        ELSE Put(without, <<getValidatorWeight(v), a>>, LastReport(v))

\* State s with the account v of validator a and its entry in the eligible store.
withValidator(s, a, v) ==
    [s EXCEPT !.validators[a] = v,
              !.eligible = updateEligible(@, a, getValidatorWeight(s.validators[a]), v)]

(* -------------------------------- staking ------------------------------ *)

calculateStakeRewards(stake, v) == ((v.coefficient - stake.coefficient) * stake.amount) \div Q

\* The rewards of a for its stake on b: unlocked from b, then transferred.
assignStakeRewards(l, a, b, stake, v) ==
    LET reward == IF a = b THEN 0 ELSE calculateStakeRewards(stake, v)
    IN  IF unlockable(l, b, "pos", KLY, reward)
        THEN [ok |-> TRUE, l |-> transfer(unlock(l, b, "pos", KLY, reward), b, a, KLY, reward)]
        ELSE [ok |-> FALSE, l |-> l]

\* One stake of a stake transaction; a negative amount is a downstake.
stakeOn(s, a, b, x) ==
    LET data    == getOrDefault(s, a)
        v       == s.validators[b]
        has     == b \in DOMAIN data.stakes
        before  == IF has THEN data.stakes[b].amount ELSE 0
        locked  == IF x > 0 THEN lock(s.ledger, a, "pos", KLY, x) ELSE s.ledger
        rewards == IF has THEN assignStakeRewards(locked, a, b, data.stakes[b], v)
                          ELSE [ok |-> TRUE, l |-> locked]
        staked  == IF before + x = 0 /\ x < 0 THEN Drop(data.stakes, b)
                   ELSE Put(data.stakes, b, [amount |-> before + x, coefficient |-> v.coefficient])
        pending == [validator |-> b, amount |-> 0 - x, height |-> block.height]
        unlocks == IF x > 0 THEN data.unlocks
                   ELSE Put(data.unlocks, pending, Copies(pending, data.unlocks) + 1)
        changed == [v EXCEPT !.self = IF a = b THEN @ + x ELSE @, !.total = @ + x]
    IN  IF /\ b \in DOMAIN s.validators
           /\ x < 0 => has /\ before + x >= 0
           /\ spendable(s.ledger, a, KLY, x)
           /\ rewards.ok
           /\ x < 0 => PendingUnlocks(unlocks) <= MaxPendingUnlocks
           /\ x > 0 => Cardinality(DOMAIN staked) <= MaxSentStakes
        THEN Done(withValidator([s EXCEPT !.ledger = rewards.l,
                                          !.stakers = Put(@, a, [stakes |-> staked, unlocks |-> unlocks])],
                                b, changed))
        ELSE Throw(s)

\* What the stake on b makes of the result r of the stakes before it.
stakeNext(r, a, b, x) == IF r.ok THEN stakeOn(r.s, a, b, x) ELSE r

\* The orders in which the stakes of a transaction, a function from validators to
\* amounts, are executed: smallest first, equal ones as they come.
stakeOrders(stakes) ==
    {o \in SetToSeqs(DOMAIN stakes) : \A i, j \in DOMAIN o : i < j => stakes[o[i]] <= stakes[o[j]]}

\* The stakes of a transaction, in this order.
stake(s, a, stakes, order) ==
    LET n == Cardinality(DOMAIN stakes)
        after[i \in 0 .. n] ==
            IF i = 0 THEN Done(s) ELSE stakeNext(after[i - 1], a, order[i], stakes[order[i]])
    IN  after[n]

\* The rewards of a for its stake on b, in the state s.
claimFrom(s, a, b) ==
    LET got == assignStakeRewards(s.ledger, a, b, s.stakers[a].stakes[b], s.validators[b])
    IN  IF got.ok
        THEN Done([s EXCEPT !.ledger = got.l,
                            !.stakers[a].stakes[b].coefficient = s.validators[b].coefficient])
        ELSE Throw(s)

\* What the claim from b makes of the result r of the claims before it.
claimNext(r, a, b) == IF r.ok THEN claimFrom(r.s, a, b) ELSE r

claimRewards(s, a) ==
    LET staked == DOMAIN s.stakers[a].stakes
        order  == SetToSeq(staked)
        n      == Cardinality(staked)
        after[i \in 0 .. n] ==
            IF i = 0 THEN Done(s) ELSE claimNext(after[i - 1], a, order[i])
    IN  IF a \notin DOMAIN s.stakers THEN Throw(s) ELSE after[n]

(* -------------------------------- unlocking ---------------------------- *)

WaitTime(a, b) == IF a = b THEN LockingPeriodSelf ELSE LockingPeriod

PunishTime(a, b) == IF a = b THEN PunishmentWindowSelf ELSE PunishmentWindow

hasWaited(u, a) == block.height - u.height >= WaitTime(a, u.validator)

\* Mutant: only a report from before the downstake counts.
isPunishedBefore(u, reports, a) ==
    /\ reports # <<>>
    /\ block.height - Last(reports) < PunishTime(a, u.validator)
    /\ Last(reports) < u.height

isPunished(u, reports, a) ==
    /\ reports # <<>>
    /\ block.height - Last(reports) < PunishTime(a, u.validator)
    /\ Last(reports) < u.height + WaitTime(a, u.validator)

lastHeightOfRound(height) == Ceiling(height, RoundLength) * RoundLength

\* certified is the height of the aggregate commit in the header.
isCertificateGenerated(u, certified) ==
    lastHeightOfRound(u.height + 2 * RoundLength) <= certified

Unlockable(s, a, certified) ==
    {u \in DOMAIN s.stakers[a].unlocks :
        /\ hasWaited(u, a)
        /\ ~isPunished(u, s.validators[u.validator].reports, a)
        /\ isCertificateGenerated(u, certified)}

unlockStakes(s, a, certified) ==
    LET unlocks == s.stakers[a].unlocks
        free    == Unlockable(s, a, certified)
        amount  == SumFunction([u \in free |-> u.amount * unlocks[u]])
    IN  IF a \notin DOMAIN s.stakers \/ free = {} \/ ~unlockable(s.ledger, a, "pos", KLY, amount)
        THEN Throw(s)
        ELSE Done([s EXCEPT !.ledger = unlock(@, a, "pos", KLY, amount),
                            !.stakers[a].unlocks = Restrict(@, DOMAIN @ \ free)])

(* ------------------------------- misbehaviour -------------------------- *)

\* The evidence is two contradicting headers younger than the locking period.
verifyReport(s, b) ==
    /\ b \in DOMAIN s.validators /\ b \in Faulty
    /\ LET v == s.validators[b]
       IN  /\ v.reports # <<>> => Last(v.reports) + PunishmentWindowSelf <= block.height
           /\ ~v.banned

\* The index of the self stake is used whether or not there is one.
reportMisbehavior(s, a, b) ==
    LET v       == s.validators[b]
        reports == Append(v.reports, block.height)
        reward  == Min({ReportReward, v.self})
        ledger  == transfer(unlock(s.ledger, b, "pos", KLY, reward), b, a, KLY, reward)
        changed == [v EXCEPT !.reports = reports, !.banned = @ \/ Len(reports) = ReportLimit,
                             !.self = @ - reward, !.total = @ - reward]
    IN  IF /\ unlockable(s.ledger, b, "pos", KLY, reward)
           /\ b \in DOMAIN s.stakers /\ b \in DOMAIN s.stakers[b].stakes
        THEN Done(withValidator([s EXCEPT !.ledger = ledger,
                                          !.stakers[b].stakes[b].amount = @ - reward], b, changed))
        ELSE Throw(s)

(* ------------------------------- validators ---------------------------- *)

verifyRegistration(s, a, name) ==
    a \notin DOMAIN s.validators /\ \A b \in DOMAIN s.validators : s.validators[b].name # name

registerValidator(s, a, name) ==
    [Done([s EXCEPT !.validators = Put(@, a, NewValidator(name, block.height))])
        EXCEPT !.paid = RegistrationFee]

verifyCommission(s, a, c) ==
    /\ a \in DOMAIN s.validators
    /\ c > s.validators[a].commission =>
           block.height - s.validators[a].increased >= CommissionPeriod
    /\ c - s.validators[a].commission <= MaxCommissionIncrease

changeCommission(s, a, c) ==
    Done([s EXCEPT !.validators[a].commission = c,
                   !.validators[a].increased  = IF c >= s.validators[a].commission
                                                THEN block.height ELSE @])

(* ----------------------------- the state machine ----------------------- *)

\* The validator of a slot.
GeneratorAt(slot) == params[(slot % Len(params)) + 1].address

\* The stores while the command of a runs: the fee is locked.
feeLocked(a) == [app EXCEPT !.ledger = lock(@, a, "fee", KLY, TxFee)]

\* The fee module after a command that used paid of the fee: the generator gets
\* what is left above the minimum, if it has an account; the rest is burned.
feeProcessed(s, a, paid) ==
    LET g    == GeneratorAt(block.slot)
        left == IF userSubstoreExists(s.ledger, g, KLY) THEN TxFee - MinFee - paid ELSE 0
        l    == unlock(s.ledger, a, "fee", KLY, TxFee)
    IN  [s EXCEPT !.ledger = burn(transfer(l, a, g, KLY, left), a, KLY, TxFee - left)]

\* A transaction of a whose verification succeeded and whose command gives r.
executeTransaction(a, r) ==
    /\ block.transactions < MaxTransactions
    /\ spendable(app.ledger, a, KLY, TxFee)
    /\ app' = feeProcessed(IF r.ok THEN r.s ELSE feeLocked(a), a, r.paid)
    /\ block' = [block EXCEPT !.transactions = @ + 1]
    /\ UNCHANGED <<snapshots, params>>

verifyStakes(stakes) ==
    /\ Cardinality({b \in DOMAIN stakes : stakes[b] > 0}) <= MaxSentStakes
    /\ Cardinality({b \in DOMAIN stakes : stakes[b] < 0}) <= MaxSentStakes

Stake(a, stakes) ==
    /\ verifyStakes(stakes)
    /\ \E order \in stakeOrders(stakes) :
           executeTransaction(a, stake(feeLocked(a), a, stakes, order))

ClaimRewards(a) == executeTransaction(a, claimRewards(feeLocked(a), a))

\* The aggregate commit is an input: nothing or everything is certified.
Unlock(a, certified) == executeTransaction(a, unlockStakes(feeLocked(a), a, certified))

ReportMisbehavior(a, b) ==
    /\ verifyReport(app, b)
    /\ executeTransaction(a, reportMisbehavior(feeLocked(a), a, b))

RegisterValidator(a, name) ==
    /\ verifyRegistration(app, a, name)
    /\ executeTransaction(a, registerValidator(feeLocked(a), a, name))

ChangeCommission(a, c) ==
    /\ verifyCommission(app, a, c)
    /\ executeTransaction(a, changeCommission(feeLocked(a), a, c))

\* A method that another module calls.
UnbanValidator(b) ==
    /\ b \in DOMAIN app.validators
    /\ app.validators[b].banned /\ Len(app.validators[b].reports) < ReportLimit
    /\ LET v == [app.validators[b] EXCEPT !.banned = FALSE]
       IN  app' = [app EXCEPT !.validators[b] = v, !.eligible = updateEligible(@, b, 0, v)]
    /\ UNCHANGED <<snapshots, params, block>>

(* ---------------------------- the end of a block ----------------------- *)

Round(height) == Ceiling(height, RoundLength)

isEndOfRound(height) == height % RoundLength = 0

\* The slots of address a strictly between two slots.
getGeneratorsBetween(from, to, a) ==
    Cardinality({slot \in from + 1 .. to - 1 : GeneratorAt(slot) = a})

MissedBlocks(a) == getGeneratorsBetween(block.previous, block.slot, a)

\* The validator a with account v has missed too many blocks for too long.
isBannedByMissing(v, a) ==
    /\ MissedBlocks(a) > 0 /\ v.missed + MissedBlocks(a) > FailSafeMissed
    /\ block.height - v.lastGenerated > FailSafeWindow

missBlocks(v, a) ==
    [v EXCEPT !.missed = @ + MissedBlocks(a), !.banned = @ \/ isBannedByMissing(v, a)]

\* The validators that had a slot since the last block, and the generator; a ban
\* takes a validator from the eligible ones.
updateProductivity(s) ==
    LET g       == GeneratorAt(block.slot)
        banned  == {a \in Addresses(params) : isBannedByMissing(s.validators[a], a)}
        counted == [a \in DOMAIN s.validators |->
                       IF a \in Addresses(params) THEN missBlocks(s.validators[a], a)
                                                  ELSE s.validators[a]]
    IN  [s EXCEPT !.validators = [counted EXCEPT ![g].missed = 0, ![g].lastGenerated = block.height],
                  !.eligible   = Restrict(@, DOMAIN @ \
                      {<<getValidatorWeight(s.validators[a]), a>> : a \in banned})]

\* Eligible validators that are not punished, in descending order of the keys.
createStakeWeightSnapshot(s) ==
    LET listed == {k \in DOMAIN s.eligible :
                      \/ s.eligible[k] = 0
                      \/ s.eligible[k] < block.height + 1 - PunishmentWindowSelf}
        above  == {p \in listed \X listed : \/ p[1][1] > p[2][1]
                                            \/ p[1][1] = p[2][1] /\ p[1][2] > p[2][2]}
        order  == Sorted(listed, above)
    IN  [i \in DOMAIN order |-> Validator(order[i][2], order[i][1])]

\* Mutant: the snapshot of the next round is removed already.
snapshotsTooFew(s) ==
    LET round == Round(block.height + 1) + 2
    IN  IF isEndOfRound(block.height)
        THEN Restrict(Put(snapshots, round, createStakeWeightSnapshot(s)),
                      {r \in DOMAIN snapshots \cup {round} : r > round - 2})
        ELSE snapshots

\* The snapshot is for the third round from now; rounds before the next are removed.
snapshotsAfter(s) ==
    LET round == Round(block.height + 1) + 2
    IN  IF isEndOfRound(block.height)
        THEN Restrict(Put(snapshots, round, createStakeWeightSnapshot(s)),
                      {r \in DOMAIN snapshots \cup {round} : r > round - 3})
        ELSE snapshots

UpdatesValidators ==
    isEndOfRound(block.height) /\ Round(block.height + 1) > InitRounds

\* Computed before the transactions: when every validator has had a slot of the
\* round already the reward is minimal; otherwise it grows with the weight.
getDefaultBlockReward ==
    LET weight == params[(block.slot % Len(params)) + 1].weight
        active == Cardinality({v \in Range(params) : v.weight > 0})
        passed == {a \in Addresses(params) : getGeneratorsBetween(block.roundSlot, block.slot, a) > 0}
    IN  IF Cardinality(passed) >= RoundLength THEN MinimalReward
        ELSE IF weight = 0 THEN DefaultReward
        ELSE MinimalReward
             + (weight * active * (DefaultReward - MinimalReward)) \div TotalWeight(params)

\* Mutant: the shared part is rounded down.
shareRoundedDown(s, g, reward) ==
    LET v        == s.validators[g]
        fraction == Q - (v.commission * Q) \div MaxCommission
        increase == (reward * fraction) \div v.total
        shared   == (increase * (v.total - v.self)) \div Q
    IN  IF v.total = 0 THEN s
        ELSE [s EXCEPT !.ledger = lock(@, g, "pos", KLY, shared),
                       !.validators[g].coefficient = @ + increase]

\* The generator shares the reward with its stakers: the shared part is locked.
updateSharedRewards(s, g, reward) ==
    LET v        == s.validators[g]
        fraction == Q - (v.commission * Q) \div MaxCommission
        increase == (reward * fraction) \div v.total
        shared   == Min({Ceiling(increase * (v.total - v.self), Q), reward})
    IN  IF v.total = 0 THEN s
        ELSE [s EXCEPT !.ledger = lock(@, g, "pos", KLY, shared),
                       !.validators[g].coefficient = @ + increase]

\* reduction is 0 if the seed reveal is not valid, and 4 (REWARD_REDUCTION_FACTOR_BFT) if the
\* header does not imply the maximal prevotes.
rewarded(s, reduction) ==
    LET g      == GeneratorAt(block.slot)
        reward == IF reduction = 0 \/ ~userSubstoreExists(s.ledger, g, KLY) THEN 0
                  ELSE getDefaultBlockReward \div reduction
    IN  IF reward = 0 THEN s
        ELSE updateSharedRewards([s EXCEPT !.ledger = mint(@, g, KLY, reward)], g, reward)

\* afterTransactionsExecute of the pos and then of the dynamicReward module, and
\* the start of the next block gap slots later.
EndBlock(reduction, gap) ==
    LET counted == updateProductivity(app)
        round   == Round(block.height) + 1
        lists   == NextValidators(snapshotsAfter(counted)[round], round, InitValidators)
    IN  /\ block.height < MaxHeight /\ block.slot + gap <= MaxSlot
        /\ snapshots' = snapshotsAfter(counted)
        /\ IF UpdatesValidators
           THEN \E list \in lists : params' = IF list = <<>> THEN params ELSE list
           ELSE params' = params
        /\ app' = rewarded(counted, reduction)
        /\ block' = [height |-> block.height + 1, slot |-> block.slot + gap, previous |-> block.slot,
                     roundSlot |-> IF isEndOfRound(block.height) THEN block.slot ELSE block.roundSlot,
                     transactions |-> block.transactions]

\* Every address has an account; the initial validators have no stakes.
Init ==
    /\ app = [ledger     |-> [own |-> Mainchain,
                              users     |-> [k \in Address \X {KLY} |->
                                                [DefaultAccount EXCEPT !.available = Endowment]],
                              supply    |-> [t \in {KLY} |-> Endowment * Cardinality(Address)],
                              escrow    |-> NoKeys,
                              allTokens |-> FALSE, supported |-> NoKeys],
              validators |-> [a \in Range(InitValidators) |-> NewValidator(a, 0)],
              stakers    |-> NoKeys,
              eligible   |-> NoKeys]
    /\ snapshots = NoKeys
    /\ params = [i \in DOMAIN InitValidators |-> Validator(InitValidators[i], 1)]
    /\ \E gap \in Gaps :
           block = [height |-> 1, slot |-> gap, previous |-> 0, roundSlot |-> 0, transactions |-> 0]

Next ==
    \/ \E a \in Address :
           \/ \E b \in SUBSET Address : \E stakes \in [b -> Stakes] : b # {} /\ Stake(a, stakes)
           \/ ClaimRewards(a)
           \/ \E certified \in {0, block.height - 1} : Unlock(a, certified)
           \/ \E b \in Address : ReportMisbehavior(a, b)
           \/ \E name \in Names : RegisterValidator(a, name)
           \/ \E c \in Commissions : ChangeCommission(a, c)
           \/ UnbanValidator(a)
    \/ \E reduction \in Reductions, gap \in Gaps : EndBlock(reduction, gap)

Spec == Init /\ [][Next]_vars

(* ------------------------------ properties ----------------------------- *)

\* The stores are well formed and no balance, stake or weight is negative.
TypeOK ==
    /\ \A k \in DOMAIN app.ledger.users :
           app.ledger.users[k] \in [available : Nat, locked : [LockModules -> Nat]]
    /\ app.ledger.supply[KLY] \in Nat
    /\ DOMAIN app.validators \subseteq Address /\ DOMAIN app.stakers \subseteq Address
    /\ \A a \in DOMAIN app.validators : app.validators[a].self \in 0 .. app.validators[a].total
    /\ \A a \in DOMAIN app.stakers :
           /\ DOMAIN app.stakers[a].stakes \subseteq DOMAIN app.validators
           /\ app.stakers[a].unlocks \in [DOMAIN app.stakers[a].unlocks -> Nat \ {0}]

\* What staker a has staked on b.
StakeOf(s, a, b) ==
    LET stakes == getOrDefault(s, a).stakes IN IF b \in DOMAIN stakes THEN stakes[b].amount ELSE 0

Staked(s, a) == SumFunction([b \in Address |-> StakeOf(s, a, b)])

Received(s, b) == SumFunction([a \in Address |-> StakeOf(s, a, b)])

Unlocking(s, a) ==
    LET unlocks == getOrDefault(s, a).unlocks
    IN  SumFunction([u \in DOMAIN unlocks |-> u.amount * unlocks[u]])

\* The rewards that others may still claim from validator b.
Claimable(s, b) ==
    LET claims(stakes) == IF b \in DOMAIN stakes
                          THEN calculateStakeRewards(stakes[b], s.validators[b]) ELSE 0
    IN  SumFunction([a \in Address |-> IF a = b THEN 0 ELSE claims(getOrDefault(s, a).stakes)])

\* What the validators' accounts say of received stakes is what the stakers'
\* accounts say of sent ones, through upstakes, downstakes and punishments.
StakesAgree ==
    \A b \in DOMAIN app.validators :
        /\ app.validators[b].total = Received(app, b)
        /\ app.validators[b].self  = StakeOf(app, b, b)

\* What the pos module has locked of an account covers its stakes, its pending
\* unlocks and the rewards others can claim from it, with all the rounding: no
\* unlock, claim or punishment fails because another one took too much.
LockedCovers ==
    \A a \in Address :
        getLockedAmount(app.ledger, a, "pos", KLY) >=
            Staked(app, a) + Unlocking(app, a) + Claimable(app, a)

\* The recorded supply is what the accounts hold, through fees, burns and rewards.
SupplyExact == app.ledger.supply[KLY] = UsersTotal(app.ledger, KLY)

\* No token appears, disappears or is promised twice.
TokensExact == LockedCovers /\ SupplyExact

\* The eligible validators are exactly the validators that are not banned and
\* have the minimum weight, each with one key, its weight and its last report.
EligibleExact ==
    app.eligible =
        LET listed == {a \in DOMAIN app.validators :
                          /\ ~app.validators[a].banned
                          /\ ~(getValidatorWeight(app.validators[a]) < MinWeightStandby)}
        IN  [k \in {<<getValidatorWeight(app.validators[a]), a>> : a \in listed} |->
                LastReport(app.validators[k[2]])]

\* The redundant stores never disagree, and what is in them is well formed.
StoresAgree == TypeOK /\ StakesAgree /\ EligibleExact

\* The snapshot that the end of a round reads is there, and the validators of a
\* round are registered, distinct and have a threshold they can reach.
RoundsSound ==
    /\ UpdatesValidators => Round(block.height) + 1 \in DOMAIN snapshotsAfter(app)
    /\ Addresses(params) \subseteq DOMAIN app.validators
    /\ Cardinality(Addresses(params)) = Len(params)
    /\ Threshold(params) <= TotalWeight(params)

\* A pending unlock that was locked when its validator was reported is released
\* after the punishment window that the validator's last report began.  Only the last
\* report is looked at (isPunished), so an earlier one holds the unlock for its own
\* window or until, a self-stake window later, the next report could be made
\* (ReportMisbehaviorCommand.verify); the configuration may choose either as the shorter.
PunishedStaysLocked ==
    [][\A a \in DOMAIN app.stakers : \A u \in DOMAIN app.stakers[a].unlocks :
           Copies(u, app'.stakers[a].unlocks) < Copies(u, app.stakers[a].unlocks) =>
               LET reports == app.validators[u.validator].reports
               IN  \A i \in DOMAIN reports :
                       reports[i] < u.height + WaitTime(a, u.validator) =>
                           \/ block.height >= reports[i] + PunishTime(a, u.validator)
                           \/ /\ i < Len(reports)
                              /\ block.height >= reports[i] + PunishmentWindowSelf]_vars
============================================================================
