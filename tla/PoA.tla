-------------------------------- MODULE PoA --------------------------------
(***************************************************************************)
(* The stores of the validators module and of the proof-of-authority       *)
(* module, and of the random module that PoA shuffles with                 *)
(* (framework/src/modules/{validators,poa,random}), as records and         *)
(* functions from record to record:                                        *)
(*                                                                         *)
(*   keys        the validators module's keys, from an address to its      *)
(*               [generatorKey, blsKey];                                   *)
(*   blsKeys     its BLS key substore, from a key to its owner;            *)
(*   params      its params substore: thresholds and the validators with   *)
(*               their keys, in an order that the shuffle decides and that *)
(*               is left out;                                              *)
(*   validators  PoA's validator substore, from an address to a name;      *)
(*   names       PoA's name substore, from a name to an address;           *)
(*   snapshots   PoA's snapshots 0, 1 and 2, each with the weights of its  *)
(*               validators and a threshold;                               *)
(*   roundEndHeight, validatorsUpdateNonce   PoA's chain properties;       *)
(*   reveals     the random module's validatorReveals, oldest first.       *)
(*                                                                         *)
(* A list of validators that verify requires to be ordered and free of     *)
(* duplicates is a function from addresses to weights.  A seed is the      *)
(* number of a layer of its validator's hash onion, so that the hash of    *)
(* layer n is layer n - 1.                                                 *)
(***************************************************************************)
EXTENDS Integers, Sequences, SequencesExt

CONSTANTS
    MaxLengthReveals,       \* maxLengthReveals of the random module
    MaxWeight               \* 2^64 - 1: a total weight above it is refused

ASSUME PoAAssumption == MaxLengthReveals \in Nat \ {0} /\ MaxWeight \in Nat \ {0}

With(f, k, v) == [x \in DOMAIN f \cup {k} |-> IF x = k THEN v ELSE f[x]]

(* --------------------------- validators module ------------------------- *)

keysRegistrable(p, a, blsKey, popValid) ==
    a \notin DOMAIN p.keys /\ blsKey \notin DOMAIN p.blsKeys /\ popValid

registerValidatorKeys(p, a, blsKey, generatorKey) ==
    [p EXCEPT !.keys = With(@, a, [generatorKey |-> generatorKey, blsKey |-> blsKey]),
              !.blsKeys = With(@, blsKey, a)]

setValidatorGeneratorKey(p, a, generatorKey) ==
    [p EXCEPT !.keys[a].generatorKey = generatorKey]

\* setValidatorsParams throws when an address of the list has no keys.
paramsSettable(p, snapshot) == DOMAIN snapshot.weights \subseteq DOMAIN p.keys

setValidatorsParams(p, snapshot) ==
    [p EXCEPT !.params =
        [threshold |-> snapshot.threshold,
         validators |-> [a \in DOMAIN snapshot.weights |->
                            [weight |-> snapshot.weights[a],
                             generatorKey |-> p.keys[a].generatorKey,
                             blsKey |-> p.keys[a].blsKey]]]]

(* ----------------------------- random module --------------------------- *)

Hash(seed) == seed - 1

RevealsOf(reveals, g) == SelectSeq(reveals, LAMBDA r : r.generator = g)

isSeedValidInput(reveals, g, seed, previousSeedRequired) ==
    IF RevealsOf(reveals, g) = <<>> THEN ~previousSeedRequired
    ELSE Last(RevealsOf(reveals, g)).seed = Hash(seed)

addReveal(p, g, height, seed) ==
    [p EXCEPT !.reveals =
        Append(IF Len(@) = MaxLengthReveals THEN Tail(@) ELSE @,
               [generator |-> g, height |-> height, seed |-> seed,
                valid |-> isSeedValidInput(@, g, seed, TRUE)])]

\* getRandomBytes throws when no reveal is as high as the height asked for.
randomBytesExist(p, height) == \E i \in DOMAIN p.reveals : p.reveals[i].height >= height

(* ------------------------------- PoA module ---------------------------- *)

SumOver(weights, S) == MapThenSumSet(LAMBDA a : weights[a], S)

TotalWeight(weights) == SumOver(weights, DOMAIN weights)

ThresholdInRange(weights, threshold) ==
    threshold \in (TotalWeight(weights) \div 3 + 1) .. TotalWeight(weights)

\* The genesis state of the three modules, for the genesis block at height 0.
GenesisState(names, blsKeyOf, generatorKeyOf, snapshot) ==
    setValidatorsParams(
        [keys |-> [a \in DOMAIN names |->
                      [generatorKey |-> generatorKeyOf[a], blsKey |-> blsKeyOf[a]]],
         blsKeys |-> [k \in {blsKeyOf[a] : a \in DOMAIN names} |->
                         CHOOSE a \in DOMAIN names : blsKeyOf[a] = k],
         params |-> [threshold |-> 0, validators |-> << >>],
         validators |-> names,
         names |-> [n \in {names[a] : a \in DOMAIN names} |->
                       CHOOSE a \in DOMAIN names : names[a] = n],
         snapshots |-> <<snapshot, snapshot, snapshot>>,
         roundEndHeight |-> Cardinality(DOMAIN snapshot.weights),
         validatorsUpdateNonce |-> 0,
         reveals |-> <<>>],
        snapshot)

registerAuthorityVerified(p, sender, name) ==
    name \notin DOMAIN p.names /\ sender \notin DOMAIN p.validators

registerAuthority(p, sender, name) ==
    [p EXCEPT !.validators = With(@, sender, name), !.names = With(@, name, sender)]

\* Mutant: an update may be applied again.
UpdateAuthorityReplayed(p, weights, threshold, nonce) ==
    /\ DOMAIN weights \subseteq DOMAIN p.validators
    /\ ThresholdInRange(weights, threshold)
    /\ nonce <= p.validatorsUpdateNonce

\* Mutant: the new validators need not be registered.
UpdateUnknownValidators(p, weights, threshold, nonce) ==
    ThresholdInRange(weights, threshold) /\ nonce = p.validatorsUpdateNonce

updateAuthorityVerified(p, weights, threshold, nonce) ==
    /\ DOMAIN weights \subseteq DOMAIN p.validators
    /\ \A a \in DOMAIN weights : weights[a] # 0
    /\ TotalWeight(weights) \in 1 .. MaxWeight
    /\ ThresholdInRange(weights, threshold)
    /\ nonce = p.validatorsUpdateNonce

\* The weighted aggregate signature of signers under the keys of snapshot 0.
authoritySignatureValid(p, signers) ==
    /\ signers \subseteq DOMAIN p.snapshots[1].weights
    /\ SumOver(p.snapshots[1].weights, signers) >= p.snapshots[1].threshold

\* Mutant: the update is for the next round.
UpdateNextRound(p, weights, threshold) ==
    [p EXCEPT !.snapshots[2] = [weights |-> weights, threshold |-> threshold],
              !.validatorsUpdateNonce = @ + 1]

updateAuthority(p, weights, threshold) ==
    [p EXCEPT !.snapshots[3] = [weights |-> weights, threshold |-> threshold],
              !.validatorsUpdateNonce = @ + 1]

RoundLength(p) == Cardinality(DOMAIN p.snapshots[1].weights)

\* What afterTransactionsExecute needs at the end of a round in order not to throw.
roundEndable(p) ==
    /\ randomBytesExist(p, p.roundEndHeight - RoundLength(p) + 1)
    /\ paramsSettable(p, p.snapshots[2])

\* Mutant: the next round is as long as the one that ends.
RoundEndedSameLength(p) ==
    [setValidatorsParams(p, p.snapshots[2]) EXCEPT
        !.snapshots = <<p.snapshots[2], p.snapshots[3], p.snapshots[3]>>,
        !.roundEndHeight = @ + RoundLength(p)]

\* The snapshots move up and the shuffled snapshot 1 becomes the validators.
roundEnded(p) ==
    [setValidatorsParams(p, p.snapshots[2]) EXCEPT
        !.snapshots = <<p.snapshots[2], p.snapshots[3], p.snapshots[3]>>,
        !.roundEndHeight = @ + Cardinality(DOMAIN p.snapshots[2].weights)]
============================================================================
