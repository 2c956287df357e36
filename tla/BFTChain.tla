------------------------------ MODULE BFTChain ------------------------------
(***************************************************************************)
(* The BFT state of the chain of one node, as blocks are executed on it    *)
(* and deleted from it.  A block is any header that Consensus._verify      *)
(* accepts: generators need not be honest.  Executing a block runs         *)
(* BFTModule.beforeTransactionsExecute and, when the application returns   *)
(* new validators, BFTMethod.setBFTParameters; deleting one puts back the  *)
(* state that its diff describes.  finalizedHeight is the node's, not the  *)
(* chain's: a deletion never lowers it.                                    *)
(***************************************************************************)
EXTENDS BFT

CONSTANTS
    BatchSize,          \* bft batchSize: the most validators at a time
    GenesisHeight,      \* the height of the genesis block
    MinCertifyHeight,   \* system.minCertifyHeight of the commit pool
    GenesisUpdate,      \* the consensus update of the genesis block
    Updates,            \* the updates afterTransactionsExecute may return
    MaxHeight           \* bound on the height of a block

NoUpdate == [validators |-> << >>, precommitThreshold |-> 0, certificateThreshold |-> 0]

IsValidUpdate(u) ==
    ValidBFTParameters(u.precommitThreshold, u.certificateThreshold, u.validators, BatchSize)

ASSUME ConstantsAssumption ==
    /\ BatchSize \in Nat \ {0}
    /\ GenesisHeight \in Nat
    /\ MinCertifyHeight \in Nat \ {0}
    /\ MaxHeight \in Nat
    /\ IsValidUpdate(GenesisUpdate)

\* Validators are lists, weights unsigned integers, and so is their sum.
ASSUME WeightsAssumption ==
    \A update \in Updates \cup {GenesisUpdate} :
        /\ IsFiniteSet(DOMAIN update.validators)
        /\ AggregateBFTWeight(update.validators) \in Nat
        /\ \A i \in DOMAIN update.validators : update.validators[i].bftWeight \in Nat

VARIABLES
    votes,              \* the BFTVotes record of the engine's state store
    params,             \* the BFT parameters of the engine's state store
    headers,            \* the headers of the chain above the genesis block
    finalizedHeight,    \* chain.finalizedHeight
    undo,               \* per header, what deleting it puts back
    history             \* ghost: every parameters record of the chain, and
                        \* per height the validators that precommitted it

vars == <<votes, params, headers, finalizedHeight, undo, history>>

WindowLength == 3 * BatchSize       \* _maxLengthBlockBFTInfos
TipHeight    == GenesisHeight + Len(headers)
HeaderAt(h)  == headers[h - GenesisHeight]
State        == [votes |-> votes, params |-> params, history |-> history]

(* --------------------------- verification ------------------------------ *)

\* Mutant: a certificate may skip a change of the parameters.
CertifyPastNextParameters(commit) ==
    IF ~commit.signed THEN commit.height = votes.maxHeightCertified
    ELSE /\ commit.height > votes.maxHeightCertified
         /\ commit.height <= votes.maxHeightPrecommitted
         /\ commit.height >= MinCertifyHeight

\* verifyAggregateCommit; the signatures of a certificate are assumed to be
\* collected for whatever height the other conditions admit.
AggregateCommitVerified(commit) ==
    IF ~commit.signed THEN commit.height = votes.maxHeightCertified
    ELSE /\ commit.height > votes.maxHeightCertified
         /\ commit.height <= votes.maxHeightPrecommitted
         /\ commit.height >= MinCertifyHeight
         /\ LET next == votes.maxHeightCertified + 1
            IN  (\E k \in DOMAIN params : k > next) =>
                    commit.height <= Max({getNextHeightBFTParameters(params, next),
                                          MinCertifyHeight + 1}) - 1

\* _verifyGeneratorAddress (for some slot), _verifyBFTProperties,
\* _verifyBlockSignature and _verifyAggregateCommit.
HeaderVerified(header) ==
    /\ header.height = TipHeight + 1
    /\ header.generatorAddress \in Addresses(getBFTParameters(params, header.height).validators)
    /\ header.maxHeightPrevoted = votes.maxHeightPrevoted
    /\ ~isHeaderContradictingChain(votes, header)
    /\ AggregateCommitVerified(header.aggregateCommit)

\* The headers the model tries.  Claims of a maxHeightGenerated from the block's
\* own height on all imply no votes, and one of them stands for the others.
CandidateHeaders ==
    [generatorAddress   : Addresses(getBFTParameters(params, TipHeight + 1).validators),
     height             : {TipHeight + 1},
     maxHeightGenerated : 0 .. (TipHeight + 1),
     maxHeightPrevoted  : {votes.maxHeightPrevoted},
     aggregateCommit    : [height : {votes.maxHeightCertified}, signed : {FALSE}]
        \cup [height : (votes.maxHeightCertified + 1) .. votes.maxHeightPrecommitted,
              signed : {TRUE}]]

VerifiedHeaders == {header \in CandidateHeaders : HeaderVerified(header)}

getMaxRemovalHeight ==
    Max({IF finalizedHeight = GenesisHeight THEN GenesisHeight
         ELSE HeaderAt(finalizedHeight).aggregateCommit.height,
         MinCertifyHeight - 1})

(* ------------------------------ behaviour ------------------------------ *)

Init ==
    LET genesis == setBFTParameters(initGenesisState(GenesisHeight), << >>,
                        GenesisUpdate.precommitThreshold,
                        GenesisUpdate.certificateThreshold,
                        GenesisUpdate.validators)
    IN  /\ votes = genesis.votes
        /\ params = genesis.params
        /\ headers = << >>
        /\ finalizedHeight = GenesisHeight
        /\ undo = << >>
        /\ history = [params |-> genesis.params, precommits |-> << >>]

\* The validators of history.precommits after a block: the tip's generator
\* joins at every height the tip precommits.
PrecommitsAfter(inserted) ==
    LET indices == IF ImpliesVotes(inserted) THEN PrecommittedBy(inserted, params) ELSE {}
        joined  == {inserted.blockBFTInfos[i].height : i \in indices}
    IN  [h \in DOMAIN history.precommits \cup {TipHeight + 1} |->
            (IF h \in DOMAIN history.precommits THEN history.precommits[h] ELSE {})
            \cup (IF h \in joined THEN {Tip(inserted).generatorAddress} ELSE {})]

\* _executeValidated: verify, beforeTransactionsExecute, setBFTParameters if
\* the application returned an update, finalizedHeight, saveBlock.
ExecuteBlock(header, update) ==
    LET inserted == insertBlockBFTInfo(votes, header, WindowLength)
        after    == VotesAfter(votes, params, header, WindowLength)
        kept     == ParamsAfter(after, params, getMaxRemovalHeight)
        Set(p)   == setBFTParameters(after, p, update.precommitThreshold,
                                     update.certificateThreshold, update.validators)
    IN  /\ header.height <= MaxHeight
        /\ ~InvalidVoteState(inserted, params)
        /\ update # NoUpdate => IsValidUpdate(update)
        /\ votes' = IF update = NoUpdate THEN after ELSE Set(kept).votes
        /\ params' = IF update = NoUpdate THEN kept ELSE Set(kept).params
        /\ history' = [params     |-> IF update = NoUpdate THEN history.params
                                      ELSE Set(history.params).params,
                       precommits |-> PrecommitsAfter(inserted)]
        /\ finalizedHeight' = Max({finalizedHeight, after.maxHeightPrecommitted})
        /\ headers' = Append(headers, header)
        /\ undo' = Append(undo, State)

\* Mutant: the active validators are not reverted.
DeleteKeepingActive ==
    /\ TipHeight > finalizedHeight
    /\ LET last == undo[Len(undo)]
       IN  /\ votes' = [last.votes EXCEPT !.activeValidatorsVoteInfo =
                            votes.activeValidatorsVoteInfo]
           /\ params' = last.params
           /\ history' = last.history
    /\ headers' = SubSeq(headers, 1, Len(headers) - 1)
    /\ undo' = SubSeq(undo, 1, Len(undo) - 1)
    /\ UNCHANGED finalizedHeight

\* _deleteBlock of the last block: the diff of the block is reverted.
DeleteLastBlock ==
    /\ TipHeight > finalizedHeight
    /\ LET last == undo[Len(undo)]
       IN  /\ votes' = last.votes
           /\ params' = last.params
           /\ history' = last.history
    /\ headers' = SubSeq(headers, 1, Len(headers) - 1)
    /\ undo' = SubSeq(undo, 1, Len(undo) - 1)
    /\ UNCHANGED finalizedHeight

Next ==
    \/ \E header \in VerifiedHeaders, update \in Updates \cup {NoUpdate} :
            ExecuteBlock(header, update)
    \/ DeleteLastBlock

Spec == Init /\ [][Next]_vars

(* ------------------------- reference definitions ----------------------- *)

ValidatorsAt(h) == Addresses(getBFTParameters(history.params, h).validators)

\* The validators whose prevote for height h the chain shows: the generator of
\* a block at a height k >= h that did not claim to have generated at h or
\* above before, that was a validator throughout h..k, with h still in the window.
Prevoters(h) ==
    {v \in ValidatorsAt(h) : \E k \in h .. TipHeight :
        /\ HeaderAt(k).generatorAddress = v
        /\ HeaderAt(k).maxHeightGenerated < h
        /\ k - h < WindowLength
        /\ \A j \in h .. k : v \in ValidatorsAt(j)}

WeightOfSet(S, h) ==
    SumFunction([v \in S |-> WeightOf(getBFTParameters(history.params, h).validators, v)])

GenesisVotes ==
    setBFTParameters(initGenesisState(GenesisHeight), << >>, GenesisUpdate.precommitThreshold,
                     GenesisUpdate.certificateThreshold, GenesisUpdate.validators).votes

\* The votes after the n-th block above the genesis, executed on the votes v with
\* the parameters q of the whole chain.
ReplayBlock(v, q, header, n) ==
    LET after == VotesAfter(v, q, header, WindowLength)
        next  == GenesisHeight + n + 1
    IN  IF next \notin DOMAIN q THEN after
        ELSE setBFTParameters(after, << >>, q[next].precommitThreshold,
                              q[next].certificateThreshold, q[next].validators).votes

\* The votes that the chain has if no parameters were ever deleted.
Replayed ==
    LET replay[n \in 0 .. Len(headers)] ==
            IF n = 0 THEN GenesisVotes
            ELSE ReplayBlock(replay[n - 1], history.params, headers[n], n)
    IN  replay[Len(headers)]

(* ------------------------------ properties ----------------------------- *)

\* The two stores and the chain have the shape their schemas give them, and
\* the window is the newest part of the chain, newest first.
TypeOK ==
    /\ votes.maxHeightPrevoted \in Nat /\ votes.maxHeightPrecommitted \in Nat
    /\ votes.maxHeightCertified \in Nat /\ finalizedHeight \in Nat
    /\ DOMAIN params \subseteq Nat \ {0}
    /\ Len(undo) = Len(headers)
    /\ Len(votes.blockBFTInfos) = Min({Len(headers), WindowLength})
    /\ \A i \in DOMAIN votes.blockBFTInfos :
          LET info == votes.blockBFTInfos[i]
          IN  /\ info.height = TipHeight - i + 1
              /\ info.generatorAddress = HeaderAt(info.height).generatorAddress
              /\ info.prevoteWeight \in Nat /\ info.precommitWeight \in Nat

\* updatePrevotesPrecommits counts every validator's prevote for a height
\* exactly once, with the weight of that height, whatever maxHeightGenerated
\* generators claim and however the validators change.
PrevoteWeightExact ==
    \A i \in DOMAIN votes.blockBFTInfos :
        LET info == votes.blockBFTInfos[i]
        IN  info.prevoteWeight = WeightOfSet(Prevoters(info.height), info.height)

\* A precommit is counted at most once per validator and height, and only for a
\* validator that has prevoted that height itself (getHeightNotPrevoted).
PrecommitWeightExact ==
    \A i \in DOMAIN votes.blockBFTInfos :
        LET info == votes.blockBFTInfos[i]
        IN  /\ history.precommits[info.height] \subseteq Prevoters(info.height)
            /\ info.precommitWeight =
                 WeightOfSet(history.precommits[info.height], info.height)

\* Nothing is precommitted before it is prevoted, nothing certified before it
\* is precommitted, and the node's finalized height is on its chain.
HeightsOrdered ==
    /\ votes.maxHeightCertified <= votes.maxHeightPrecommitted
    /\ votes.maxHeightPrecommitted <= votes.maxHeightPrevoted
    /\ votes.maxHeightPrevoted <= TipHeight
    /\ votes.maxHeightPrecommitted <= finalizedHeight
    /\ finalizedHeight <= TipHeight

\* No block that passes verification makes updatePrevotesPrecommits throw
\* 'Invalid state': an active validator is in the parameters of every height
\* of its votes.
NoInvalidVoteState ==
    \A header \in VerifiedHeaders :
        ~InvalidVoteState(insertBlockBFTInfo(votes, header, WindowLength), params)

\* Every vote of the window is counted once and with its weight, the three
\* heights that follow from the votes are in order, and no block can be verified
\* that makes counting throw, however validators leave, return, claim heights and
\* see blocks deleted.
VotesExact ==
    /\ TypeOK
    /\ PrevoteWeightExact
    /\ PrecommitWeightExact
    /\ HeightsOrdered
    /\ NoInvalidVoteState

\* The heights that verifyAggregateCommit admits with the parameters p.
CertifiableHeights(p) ==
    LET next == votes.maxHeightCertified + 1
    IN  {h \in next .. TipHeight :
            /\ h >= MinCertifyHeight
            /\ (\E k \in DOMAIN p : k > next) =>
                  h <= Max({getNextHeightBFTParameters(p, next), MinCertifyHeight + 1}) - 1}

\* beforeTransactionsExecute deletes only parameters that no later block reads:
\* those of the next height, of the window and of every height that can still be
\* certified, and the heights that a certificate may have, are all as if nothing
\* was deleted.
DeletedParametersNotNeeded ==
    LET needed == {TipHeight + 1}
                  \cup {votes.blockBFTInfos[i].height : i \in DOMAIN votes.blockBFTInfos}
                  \cup {h \in (votes.maxHeightCertified + 1) .. TipHeight : h >= MinCertifyHeight}
    IN  /\ \A h \in needed : /\ ParametersExist(params, h)
                             /\ getBFTParameters(params, h) = getBFTParameters(history.params, h)
        /\ CertifiableHeights(params) = CertifiableHeights(history.params)

\* The votes depend on the blocks of the chain only, not on the blocks the node
\* executed and deleted in between or on the parameters it has removed.
VotesDependOnChainOnly == votes = Replayed

\* A certificate can be checked from the one before it: the validators and the
\* threshold at the height it certifies are those the preceding certified block
\* commits to (they apply from the height after it).
CertificateChainUnbroken ==
    \A n \in DOMAIN headers :
        LET certifiedBefore == Max({GenesisHeight} \cup
                {headers[m].aggregateCommit.height : m \in 1 .. (n - 1)})
        IN  headers[n].aggregateCommit.signed /\ certifiedBefore >= MinCertifyHeight - 1 =>
                getBFTParameters(history.params, headers[n].aggregateCommit.height)
                    = getBFTParameters(history.params, certifiedBefore + 1)

\* impliesMaximalPrevotes is true of exactly the blocks that prevote every
\* height of the window above the generator's own latest block in it.
MaximalPrevotesExact ==
    \A header \in VerifiedHeaders :
        LET infos == votes.blockBFTInfos
            own   == {infos[i].height : i \in {j \in DOMAIN infos :
                            infos[j].generatorAddress = header.generatorAddress}}
            from  == IF own # {} THEN Max(own)
                     ELSE TipHeight - Len(infos)
        IN  impliesMaximalPrevotes(votes, header) <=>
                \A h \in (from + 1) .. header.height : header.maxHeightGenerated < h

\* While blocks are added, none of the BFT heights of the chain decreases.
HeightsNeverDecrease ==
    [][Len(headers') > Len(headers) =>
        /\ votes'.maxHeightPrevoted >= votes.maxHeightPrevoted
        /\ votes'.maxHeightPrecommitted >= votes.maxHeightPrecommitted
        /\ votes'.maxHeightCertified >= votes.maxHeightCertified]_vars
=============================================================================
