-------------------------------- MODULE BFT --------------------------------
(***************************************************************************)
(* The Lisk-BFT votes and parameters of one chain, as the pure functions   *)
(* that framework/src/engine/bft applies to its two stores:                *)
(*                                                                         *)
(*   votes   the BFTVotes record: the three heights, the window            *)
(*           blockBFTInfos (newest first) and, per active validator, the   *)
(*           height from which it is active and its largest precommit;     *)
(*   params  the BFT parameters store, a function from the heights that    *)
(*           have a key to a BFTParameters record.                         *)
(*                                                                         *)
(* activeValidatorsVoteInfo is kept sorted by a unique address, so it is a *)
(* function on addresses here.  A validator and its keys are one value.    *)
(* The validators hash is the injective image of what is hashed.  An       *)
(* aggregate commit is its height and whether its aggregationBits and      *)
(* certificateSignature are there (signed) or empty.                       *)
(***************************************************************************)
EXTENDS Integers, Sequences, FiniteSetsExt, Functions

(* ------------------------------ headers -------------------------------- *)

getBlockBFTProperties(header) ==
    [generatorAddress   |-> header.generatorAddress,
     height             |-> header.height,
     maxHeightGenerated |-> header.maxHeightGenerated,
     maxHeightPrevoted  |-> header.maxHeightPrevoted,
     prevoteWeight      |-> 0,
     precommitWeight    |-> 0]

\* The order in which one generator must have produced two headers.
ProducedBefore(b1, b2) ==
    \/ b1.maxHeightGenerated < b2.maxHeightGenerated
    \/ /\ b1.maxHeightGenerated = b2.maxHeightGenerated
       /\ \/ b1.maxHeightPrevoted < b2.maxHeightPrevoted
          \/ b1.maxHeightPrevoted = b2.maxHeightPrevoted /\ b1.height <= b2.height

areDistinctHeadersContradicting(b1, b2) ==
    LET earlier == IF ProducedBefore(b1, b2) THEN b1 ELSE b2
        later   == IF ProducedBefore(b1, b2) THEN b2 ELSE b1
    IN  /\ earlier.generatorAddress = later.generatorAddress
        /\ \/ /\ earlier.maxHeightPrevoted = later.maxHeightPrevoted
              /\ earlier.height >= later.height
           \/ earlier.height > later.maxHeightGenerated
           \/ earlier.maxHeightPrevoted > later.maxHeightPrevoted

(* ----------------------------- parameters ------------------------------ *)

ParametersExist(params, height) == \E k \in DOMAIN params : k <= height

getBFTParameters(params, height) ==
    params[Max({k \in DOMAIN params : k <= height})]

\* Every key at most height goes, except the largest of them.
deleteBFTParameters(params, height) ==
    LET upTo == {k \in DOMAIN params : k <= height}
    IN  Restrict(params, {k \in DOMAIN params : k > height \/ \A j \in upTo : j <= k})

Addresses(validators) == {validators[i].address : i \in DOMAIN validators}

\* The weight of an address in a list of validators with unique addresses.
WeightOf(validators, address) ==
    validators[CHOOSE i \in DOMAIN validators : validators[i].address = address].bftWeight

AggregateBFTWeight(validators) ==
    SumFunction([i \in DOMAIN validators |-> validators[i].bftWeight])

computeValidatorsHash(validators, certificateThreshold) ==
    [validators |-> {validators[i] : i \in {j \in DOMAIN validators : validators[j].bftWeight > 0}},
     certificateThreshold |-> certificateThreshold]

(* ------------------------------- votes --------------------------------- *)

Tip(votes)    == votes.blockBFTInfos[1]
Oldest(votes) == votes.blockBFTInfos[Len(votes.blockBFTInfos)]

\* Mutant: the window keeps one block too many.
InsertAndKeepOneMore(votes, header, maxLength) ==
    LET infos == <<getBlockBFTProperties(header)>> \o votes.blockBFTInfos
    IN  [votes EXCEPT !.blockBFTInfos =
            SubSeq(infos, 1, Min({Len(infos), maxLength + 1}))]

insertBlockBFTInfo(votes, header, maxLength) ==
    LET infos == <<getBlockBFTProperties(header)>> \o votes.blockBFTInfos
    IN  [votes EXCEPT !.blockBFTInfos =
            SubSeq(infos, 1, Min({Len(infos), maxLength}))]

\* The largest height up to the tip for which the tip's generator has not
\* prevoted on this chain: its blocks are followed down by maxHeightGenerated.
getHeightNotPrevoted(votes) ==
    LET infos == votes.blockBFTInfos
        new   == Tip(votes)
        At(h) == infos[new.height - h + 1]
        notPrevoted[h \in 0..new.height] ==
            IF new.height - h >= Len(infos) THEN Oldest(votes).height - 1
            ELSE IF \/ At(h).generatorAddress # new.generatorAddress
                    \/ At(h).maxHeightGenerated >= h
                 THEN h
                 ELSE notPrevoted[At(h).maxHeightGenerated]
    IN  notPrevoted[new.maxHeightGenerated]

\* Whether the newest block implies any vote at all.
ImpliesVotes(votes) ==
    /\ Len(votes.blockBFTInfos) > 0
    /\ Tip(votes).maxHeightGenerated < Tip(votes).height
    /\ Tip(votes).generatorAddress \in DOMAIN votes.activeValidatorsVoteInfo

\* The positions of blockBFTInfos that the newest block precommits ...
PrecommittedBy(votes, params) ==
    LET info == votes.activeValidatorsVoteInfo[Tip(votes).generatorAddress]
        minPrecommitHeight == Max({info.minActiveHeight,
                                   getHeightNotPrevoted(votes) + 1,
                                   info.largestHeightPrecommit + 1})
    IN  {i \in DOMAIN votes.blockBFTInfos :
            LET b == votes.blockBFTInfos[i]
            IN  /\ b.height >= minPrecommitHeight
                /\ b.prevoteWeight >= getBFTParameters(params, b.height).prevoteThreshold}

\* Mutant: the height of the previous block is prevoted again.
PrevoteAgain(votes) ==
    LET info == votes.activeValidatorsVoteInfo[Tip(votes).generatorAddress]
    IN  {i \in DOMAIN votes.blockBFTInfos : votes.blockBFTInfos[i].height >=
            Max({Tip(votes).maxHeightGenerated, info.minActiveHeight})}

\* ... and those it prevotes.
PrevotedBy(votes) ==
    LET minPrevoteHeight == Max({Tip(votes).maxHeightGenerated + 1,
            votes.activeValidatorsVoteInfo[Tip(votes).generatorAddress].minActiveHeight})
    IN  {i \in DOMAIN votes.blockBFTInfos :
            votes.blockBFTInfos[i].height >= minPrevoteHeight}

\* The 'Invalid state. Validator ... must be in the BFT parameters' throws.
InvalidVoteState(votes, params) ==
    /\ ImpliesVotes(votes)
    /\ \E i \in PrecommittedBy(votes, params) \cup PrevotedBy(votes) :
          Tip(votes).generatorAddress \notin
            Addresses(getBFTParameters(params, votes.blockBFTInfos[i].height).validators)

updatePrevotesPrecommits(votes, params) ==
    IF ~ImpliesVotes(votes) THEN votes
    ELSE LET infos      == votes.blockBFTInfos
             generator  == Tip(votes).generatorAddress
             precommits == PrecommittedBy(votes, params)
             prevotes   == PrevotedBy(votes)
             weight(i)  == WeightOf(getBFTParameters(params, infos[i].height).validators, generator)
         IN  [votes EXCEPT
                !.blockBFTInfos = [i \in DOMAIN infos |-> [infos[i] EXCEPT
                    !.precommitWeight = @ + (IF i \in precommits THEN weight(i) ELSE 0),
                    !.prevoteWeight   = @ + (IF i \in prevotes THEN weight(i) ELSE 0)]],
                !.activeValidatorsVoteInfo[generator].largestHeightPrecommit =
                    IF precommits = {} THEN @ ELSE infos[Min(precommits)].height]

updateMaxHeightPrevoted(votes, params) ==
    LET infos  == votes.blockBFTInfos
        quorum == {i \in DOMAIN infos : infos[i].prevoteWeight >=
                        getBFTParameters(params, infos[i].height).prevoteThreshold}
    IN  [votes EXCEPT !.maxHeightPrevoted =
            IF quorum = {} THEN @ ELSE infos[Min(quorum)].height]

updateMaxHeightPrecommitted(votes, params) ==
    LET infos  == votes.blockBFTInfos
        quorum == {i \in DOMAIN infos : infos[i].precommitWeight >=
                        getBFTParameters(params, infos[i].height).precommitThreshold}
    IN  [votes EXCEPT !.maxHeightPrecommitted =
            IF quorum = {} THEN @ ELSE infos[Min(quorum)].height]

\* Mutant: an empty aggregate commit counts as none at all.
ForgetMaxHeightCertified(votes, header) ==
    [votes EXCEPT !.maxHeightCertified =
        IF header.aggregateCommit.signed THEN header.aggregateCommit.height ELSE 0]

updateMaxHeightCertified(votes, header) ==
    [votes EXCEPT !.maxHeightCertified =
        IF header.aggregateCommit.signed THEN header.aggregateCommit.height ELSE @]

(* ------------------------- module and method --------------------------- *)

initGenesisState(height) ==
    [maxHeightPrevoted        |-> height,
     maxHeightPrecommitted    |-> height,
     maxHeightCertified       |-> height,
     blockBFTInfos            |-> << >>,
     activeValidatorsVoteInfo |-> << >>]

\* The votes after a block, and the parameters that are still needed.
VotesAfter(votes, params, header, maxLength) ==
    updateMaxHeightCertified(
        updateMaxHeightPrecommitted(
            updateMaxHeightPrevoted(
                updatePrevotesPrecommits(insertBlockBFTInfo(votes, header, maxLength), params),
                params),
            params),
        header)

\* Mutant: the parameters that certificates need are not kept.
KeepForWindowOnly(votesAfter, params, maxRemovalHeight) ==
    deleteBFTParameters(params, Oldest(votesAfter).height)

ParamsAfter(votesAfter, params, maxRemovalHeight) ==
    deleteBFTParameters(params, Min({Oldest(votesAfter).height, maxRemovalHeight}))

\* Only the newest block of the header's generator is compared.
isHeaderContradictingChain(votes, header) ==
    LET own == {i \in DOMAIN votes.blockBFTInfos :
                    votes.blockBFTInfos[i].generatorAddress = header.generatorAddress}
    IN  own # {} /\ areDistinctHeadersContradicting(votes.blockBFTInfos[Min(own)], header)

\* Mutant: the generator's own block in the window is not recognised.
ImpliesMaximalPrevotesOutside(votes, header) ==
    /\ header.maxHeightGenerated < header.height
    /\ \/ votes.blockBFTInfos = << >>
       \/ Tip(votes).height - header.maxHeightGenerated >= Len(votes.blockBFTInfos)

impliesMaximalPrevotes(votes, header) ==
    /\ header.maxHeightGenerated < header.height
    /\ LET offset == Tip(votes).height - header.maxHeightGenerated
       IN  \/ votes.blockBFTInfos = << >>
           \/ offset >= Len(votes.blockBFTInfos)
           \/ votes.blockBFTInfos[offset + 1].generatorAddress = header.generatorAddress

\* The height the next parameters apply from: the one after the executing block.
NextHeight(votes) ==
    1 + (IF votes.blockBFTInfos # << >> THEN Tip(votes).height ELSE votes.maxHeightPrevoted)

ValidBFTParameters(precommitThreshold, certificateThreshold, validators, batchSize) ==
    LET third == AggregateBFTWeight(validators) \div 3
    IN  /\ Len(validators) <= batchSize
        /\ IsInjective([i \in DOMAIN validators |-> validators[i].address])
        /\ {precommitThreshold, certificateThreshold}
              \subseteq (third + 1)..AggregateBFTWeight(validators)

setBFTParameters(votes, params, precommitThreshold, certificateThreshold, validators) ==
    LET nextHeight == NextHeight(votes)
        active     == votes.activeValidatorsVoteInfo
        bftParams  == [prevoteThreshold     |-> (2 * AggregateBFTWeight(validators)) \div 3 + 1,
                       precommitThreshold   |-> precommitThreshold,
                       certificateThreshold |-> certificateThreshold,
                       validators           |-> validators,
                       validatorsHash       |-> computeValidatorsHash(validators, certificateThreshold)]
    IN  [params |-> [h \in DOMAIN params \cup {nextHeight} |->
                        IF h = nextHeight THEN bftParams ELSE params[h]],
         votes  |-> [votes EXCEPT !.activeValidatorsVoteInfo =
                        [a \in Addresses(validators) |->
                            IF a \in DOMAIN active THEN active[a]
                            ELSE [minActiveHeight        |-> nextHeight,
                                  largestHeightPrecommit |-> nextHeight - 1]]]]

getNextHeightBFTParameters(params, height) == Min({k \in DOMAIN params : k > height})
=============================================================================
