----------------------------- MODULE Generator -----------------------------
(***************************************************************************)
(* What one validator signs.  Its node generates a block when its slot     *)
(* comes: the height is taken from the tip, the BFT heights and the last   *)
(* generated info are read, then the previous block, each after an await,  *)
(* while consensus may move the tip.  The info is persisted before the     *)
(* block goes to consensus, which verifies it, broadcasts it and only then *)
(* executes it.  Keys that are stored in plain text are enabled at the     *)
(* start; encrypted ones by updateStatus, which asks whether the node has  *)
(* caught up with the last generated block.                                *)
(*                                                                         *)
(* The chain is its tip: where it is (branch and height), the              *)
(* maxHeightPrevoted of its header and of its BFT state (prevoted), and    *)
(* the newest header on it that the validator itself signed (own).         *)
(***************************************************************************)
EXTENDS BFT, ForkChoice

CONSTANTS
    Branches,           \* the forks there may be
    MaxHeight,          \* bound on the height of a block
    MaxPublished,       \* bound on the blocks the validator publishes
    PlainKeys,          \* are the validator's keys stored in plain text?
    LowerTips,          \* may the node switch to a preferred chain that is shorter?
    Crashes             \* may the process die?

ASSUME GeneratorAssumption ==
    /\ Branches # {} /\ MaxHeight \in Nat /\ MaxPublished \in Nat
    /\ {PlainKeys, LowerTips, Crashes} \subseteq BOOLEAN

VARIABLES
    tip,                \* chain.lastBlock and the BFT heights
    info,               \* generator database: the last generated info, if any
    enabled,            \* is the validator's key pair in _keypairs?
    enabling,           \* updateStatus between its check and its end
    generation,         \* where _generateLoop is, and the header it makes
    published,          \* the headers the validator has broadcast, in order
    failed,             \* those of them, by index, that the node then failed to execute
    up                  \* is the process running?

vars == <<tip, info, enabled, enabling, generation, published, failed, up>>

None    == [none |-> TRUE]
Idle    == [at |-> "idle"]
At(step) == up /\ generation.at = step

Heights == 0 .. MaxHeight
Id(t)   == <<t.branch, t.height>>
Ids     == Branches \X Heights
Header  == [generatorAddress : {"self"}, height : Heights, maxHeightGenerated : Heights,
            maxHeightPrevoted : Heights, previousBlockID : Ids]
GeneratedInfo == [height : Heights, maxHeightGenerated : Heights, maxHeightPrevoted : Heights]
TipType == [branch : Branches, height : Heights, maxHeightPrevoted : Heights,
            prevoted : Heights, own : Header \cup {None}]

InfoOf(header) == [height |-> header.height, maxHeightGenerated |-> header.maxHeightGenerated,
                   maxHeightPrevoted |-> header.maxHeightPrevoted]
ZeroInfo == [height |-> 0, maxHeightGenerated |-> 0, maxHeightPrevoted |-> 0]

getOrDefaultLastGeneratedInfo == IF info = None THEN ZeroInfo ELSE info

(* ------------------------------ the chain ------------------------------ *)

\* Consensus is not in the middle of this validator's own block.
MutexFree == up /\ generation.at # "broadcast"

\* The prevoted heights that a block at the next height may lead to.
PrevotedNext == tip.prevoted .. (tip.height + 1)

Extended(own, prevoted) ==
    [tip EXCEPT !.height = @ + 1, !.maxHeightPrevoted = tip.prevoted,
                !.prevoted = prevoted, !.own = own]

\* A block on the tip arrives: another validator's, or one of this validator that
\* its peers have got.
ReceiveBlock ==
    /\ MutexFree /\ tip.height < MaxHeight
    /\ \E prevoted \in PrevotedNext :
       \E own \in {tip.own} \cup {header \in Range(published) :
                        /\ header.previousBlockID = Id(tip)
                        /\ header.maxHeightPrevoted = tip.prevoted} :
          tip' = Extended(own, prevoted)
    /\ UNCHANGED <<info, enabled, enabling, generation, published, failed, up>>

\* A preferred chain has replaced this one.
SwitchChain ==
    /\ MutexFree
    /\ \E new \in [branch : Branches \ {tip.branch}, height : Heights,
                   maxHeightPrevoted : Heights, prevoted : Heights,
                   own : Range(published) \cup {None}] :
          /\ isDifferentChain(tip, new)
          /\ LowerTips \/ new.height >= tip.height
          /\ new.maxHeightPrevoted <= new.prevoted /\ new.prevoted <= new.height
          /\ new.own # None => /\ new.own.height <= new.height
                               /\ new.own.maxHeightPrevoted <= new.maxHeightPrevoted
          /\ tip' = new
    /\ UNCHANGED <<info, enabled, enabling, generation, published, failed, up>>

(* ------------------------------ generation ----------------------------- *)

GenerationOnly == UNCHANGED <<tip, info, enabled, enabling, published, failed, up>>

\* _generateLoop in a slot of the validator.
GenerateLoop ==
    /\ At("idle") /\ enabled
    /\ tip.height < MaxHeight /\ Len(published) < MaxPublished
    /\ generation' = [at |-> "heights", height |-> tip.height + 1]
    /\ GenerationOnly

\* Mutant: the field of the block before.
ReadFieldBefore ==
    /\ At("heights")
    /\ generation' = [at |-> "header", height |-> generation.height,
                      maxHeightPrevoted |-> tip.prevoted,
                      maxHeightGenerated |-> getOrDefaultLastGeneratedInfo.maxHeightGenerated]
    /\ GenerationOnly

\* _generateBlock: getBFTHeights and getOrDefaultLastGeneratedInfo.
ReadHeights ==
    /\ At("heights")
    /\ generation' = [at |-> "header", height |-> generation.height,
                      maxHeightPrevoted |-> tip.prevoted,
                      maxHeightGenerated |-> getOrDefaultLastGeneratedInfo.height]
    /\ GenerationOnly

\* The header, after the aggregate commit was computed: the previous block is the
\* tip by now.
CreateHeader ==
    /\ At("header")
    /\ generation' = [at |-> "generating", header |->
           [generatorAddress |-> "self", height |-> generation.height,
            maxHeightGenerated |-> generation.maxHeightGenerated,
            maxHeightPrevoted |-> generation.maxHeightPrevoted, previousBlockID |-> Id(tip)]]
    /\ GenerationOnly

\* The execution of the hooks and transactions throws.
Abandon ==
    /\ At("generating")
    /\ generation' = Idle
    /\ GenerationOnly

\* Mutant: the info is not written to the database.
NotPersisted ==
    /\ At("generating")
    /\ generation' = [generation EXCEPT !.at = "execute"]
    /\ UNCHANGED <<tip, info, enabled, enabling, published, failed, up>>

\* setLastGeneratedInfo and the write of the generator's database.
PersistInfo ==
    /\ At("generating")
    /\ info' = InfoOf(generation.header)
    /\ generation' = [generation EXCEPT !.at = "execute"]
    /\ UNCHANGED <<tip, enabled, enabling, published, failed, up>>

\* Consensus._verify, as far as it concerns the tip and the BFT heights.
Extends(header) ==
    /\ header.height = tip.height + 1
    /\ header.previousBlockID = Id(tip)
    /\ header.maxHeightPrevoted = tip.prevoted

ContradictsChain(header) ==
    tip.own # None /\ areDistinctHeadersContradicting(tip.own, header)

\* Consensus.execute: a verified block is broadcast before it is executed; another
\* one is dropped.
ExecuteOwn ==
    /\ At("execute")
    /\ IF Extends(generation.header) /\ ~ContradictsChain(generation.header)
       THEN /\ published' = Append(published, generation.header)
            /\ generation' = [generation EXCEPT !.at = "broadcast"]
       ELSE generation' = Idle /\ UNCHANGED published
    /\ UNCHANGED <<tip, info, enabled, enabling, failed, up>>

\* The block is saved, or its execution fails.
SaveOwn ==
    /\ At("broadcast")
    /\ \E prevoted \in PrevotedNext : tip' = Extended(generation.header, prevoted)
    /\ generation' = Idle
    /\ UNCHANGED <<info, enabled, enabling, published, failed, up>>

FailOwn ==
    /\ At("broadcast")
    /\ generation' = Idle
    /\ failed' = failed \cup {Len(published)}
    /\ UNCHANGED <<tip, info, enabled, enabling, published, up>>

(* ------------------------- enabling and restarts ----------------------- *)

\* Mutant: the last generated block itself is enough.
isSyncedTo(request) ==
    \/ request.maxHeightPrevoted < tip.maxHeightPrevoted
    \/ request.maxHeightPrevoted = tip.maxHeightPrevoted /\ request.height <= tip.height + 1

\* Consensus.isSynced; the genesis block has another rule.
isSynced(request) ==
    IF tip.height = 0
    THEN request.height <= tip.height /\ request.maxHeightPrevoted <= tip.height
    ELSE \/ request.maxHeightPrevoted < tip.maxHeightPrevoted
         \/ request.maxHeightPrevoted = tip.maxHeightPrevoted /\ request.height < tip.height

\* updateStatus with the status the operator knows: first isSynced ...
UpdateStatus ==
    /\ up /\ enabling = None
    /\ isSynced(getOrDefaultLastGeneratedInfo)
    /\ enabling' = [request |-> getOrDefaultLastGeneratedInfo]
    /\ UNCHANGED <<tip, info, enabled, generation, published, failed, up>>

\* ... then the comparison with the info that is stored by now.
UpdateStatusDone ==
    /\ up /\ enabling # None
    /\ enabled' = (enabled \/ enabling.request = getOrDefaultLastGeneratedInfo)
    /\ enabling' = None
    /\ UNCHANGED <<tip, info, generation, published, failed, up>>

\* updateStatus with enable = false; a generation that has its keys goes on.
DisableStatus ==
    /\ up /\ enabled
    /\ enabled' = FALSE
    /\ UNCHANGED <<tip, info, enabling, generation, published, failed, up>>

Crash ==
    /\ Crashes /\ up
    /\ up' = FALSE
    /\ enabled' = FALSE /\ enabling' = None /\ generation' = Idle
    /\ UNCHANGED <<tip, info, published, failed>>

\* _loadGenerators enables the validators with plain keys.
Start ==
    /\ ~up
    /\ up' = TRUE
    /\ enabled' = PlainKeys
    /\ UNCHANGED <<tip, info, enabling, generation, published, failed>>

(* ---------------------------- specification ---------------------------- *)

Init ==
    /\ \E b \in Branches : tip = [branch |-> b, height |-> 0, maxHeightPrevoted |-> 0,
                                  prevoted |-> 0, own |-> None]
    /\ info = None
    /\ enabled = PlainKeys /\ enabling = None
    /\ generation = Idle /\ published = << >> /\ failed = {}
    /\ up = TRUE

Next ==
    \/ ReceiveBlock \/ SwitchChain
    \/ GenerateLoop \/ ReadHeights \/ CreateHeader \/ Abandon \/ PersistInfo
    \/ ExecuteOwn \/ SaveOwn \/ FailOwn
    \/ UpdateStatus \/ UpdateStatusDone \/ DisableStatus
    \/ Crash \/ Start

Spec == Init /\ [][Next]_vars

(* ------------------------------ properties ----------------------------- *)

\* The tip, the stored info, the header in the making and what was published.
TypeOK ==
    /\ tip \in TipType /\ tip.maxHeightPrevoted <= tip.prevoted /\ tip.prevoted <= tip.height
    /\ info \in GeneratedInfo \cup {None}
    /\ enabled \in BOOLEAN /\ up \in BOOLEAN
    /\ enabling \in {None} \cup [request : GeneratedInfo]
    /\ generation \in {Idle} \cup [at : {"heights"}, height : Heights]
          \cup [at : {"header"}, height : Heights, maxHeightPrevoted : Heights,
                maxHeightGenerated : Heights]
          \cup [at : {"generating", "execute", "broadcast"}, header : Header]
    /\ published \in Seq(Header) /\ Len(published) <= MaxPublished
    /\ failed \subseteq DOMAIN published

\* A validator never publishes two headers that contradict each other, on
\* whatever chains they are and however often its node crashes and is enabled
\* again; only a block that its node failed to execute after the broadcast may
\* be contradicted by a later one.
NeverContradictsItself ==
    \A i, j \in DOMAIN published :
        i < j /\ i \notin failed => ~areDistinctHeadersContradicting(published[i], published[j])

\* A header made for the tip is not refused by the validator's own node as
\* contradicting its chain (isHeaderContradictingChain).
OwnBlockAccepted ==
    generation.at = "execute" /\ Extends(generation.header) =>
        ~ContradictsChain(generation.header)

\* The stored info covers every block that was published and executed, so that
\* a restart knows at least as much as the network.
InfoCoversPublished ==
    /\ TypeOK
    /\ \A i \in DOMAIN published \ failed :
           /\ info # None
           /\ published[i].height <= info.height
           /\ published[i].maxHeightPrevoted <= info.maxHeightPrevoted
=============================================================================
