----------------------------- MODULE ForkChoice -----------------------------
(***************************************************************************)
(* The fork choice rule of consensus/fork_choice/fork_choice_rule.ts, on   *)
(* block headers [id, previousBlockID, height, maxHeightPrevoted,          *)
(* generatorAddress, slot].  A timestamp is the slot it falls in, and      *)
(* receivedAt the slot of the reception, or Never when the header does not *)
(* carry the property.                                                     *)
(***************************************************************************)
EXTENDS Integers

Never == -1

isValidBlock(lastBlock, currentBlock) ==
    /\ lastBlock.height + 1 = currentBlock.height
    /\ lastBlock.id = currentBlock.previousBlockID

isIdenticalBlock(lastBlock, currentBlock) == lastBlock.id = currentBlock.id

isDuplicateBlock(lastBlock, currentBlock) ==
    /\ lastBlock.height = currentBlock.height
    /\ lastBlock.maxHeightPrevoted = currentBlock.maxHeightPrevoted
    /\ lastBlock.previousBlockID = currentBlock.previousBlockID

isDoubleForging(lastBlock, currentBlock) ==
    /\ isDuplicateBlock(lastBlock, currentBlock)
    /\ lastBlock.generatorAddress = currentBlock.generatorAddress

isLastAppliedBlockReceivedWithinForgingSlot(lastBlock) ==
    lastBlock.receivedAt # Never => lastBlock.receivedAt = lastBlock.slot

isTieBreak(lastBlock, receivedBlock, now) ==
    /\ isDuplicateBlock(lastBlock, receivedBlock)
    /\ lastBlock.slot < receivedBlock.slot
    /\ ~isLastAppliedBlockReceivedWithinForgingSlot(lastBlock)
    /\ now = receivedBlock.slot

\* Whether a chain that ends in currentBlock is preferred to one that ends in
\* lastBlock: more prevoted, or as much prevoted and longer.
isDifferentChain(lastBlock, currentBlock) ==
    \/ lastBlock.maxHeightPrevoted < currentBlock.maxHeightPrevoted
    \/ /\ lastBlock.maxHeightPrevoted = currentBlock.maxHeightPrevoted
       /\ lastBlock.height < currentBlock.height

\* The first case that applies decides.
forkChoice(block, lastBlock, now) ==
    IF isValidBlock(lastBlock, block) THEN "VALID_BLOCK"
    ELSE IF isIdenticalBlock(lastBlock, block) THEN "IDENTICAL_BLOCK"
    ELSE IF isDoubleForging(lastBlock, block) THEN "DOUBLE_FORGING"
    ELSE IF isTieBreak(lastBlock, block, now) THEN "TIE_BREAK"
    ELSE IF isDifferentChain(lastBlock, block) THEN "DIFFERENT_CHAIN"
    ELSE "DISCARD"
=============================================================================
