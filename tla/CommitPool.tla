----------------------------- MODULE CommitPool -----------------------------
(***************************************************************************)
(* The commit pool of one node (engine/consensus/certificate_generation)   *)
(* with what feeds it: the single commits of the node's own validators     *)
(* (generator/single_commit_handler.ts), those of its peers                *)
(* (consensus/network_endpoint.ts) and the chain that moves below it.      *)
(*                                                                         *)
(* A single commit is [height, id, validator] for a block id at a height:  *)
(* its signature is valid for that block only.  Blocks carry the id Agreed *)
(* that the network finalizes at their height or that of a fork, and the   *)
(* two heights of the BFT votes after them.  The BFT parameters change at  *)
(* the keys of Parameters; the parameters for a height exist once the      *)
(* block before it is executed, and the chain is shorter than the window   *)
(* of blocks for which they are kept.                                      *)
(***************************************************************************)
EXTENDS Integers, FiniteSets, Sequences, FiniteSetsExt, BFT

CONSTANTS
    OwnValidators,      \* whose keys are registered on this node
    PlainKeys,          \* those of them whose keys are not encrypted
    Faulty,             \* who may sign blocks that are not finalized
    Peers,              \* one handler of single commits runs for each
    Parameters,         \* key height -> [weights, certificateThreshold]
    MinCertifyHeight,
    CommitRangeStored,  \* COMMIT_RANGE_STORED
    MaxHeight,          \* bound: the longest chain
    MaxEvents,          \* bound: blocks deleted, restarts and status requests
    MaxMessages         \* bound: single commits received

ASSUME PoolConstants ==
    /\ PlainKeys \subseteq OwnValidators
    /\ {MinCertifyHeight, CommitRangeStored, MaxHeight, MaxEvents, MaxMessages} \subseteq Nat
    /\ 1 \in DOMAIN Parameters /\ DOMAIN Parameters \subseteq Nat
    /\ \A k \in DOMAIN Parameters :
           /\ Parameters[k].certificateThreshold \in Nat \ {0}
           /\ IsFiniteSet(DOMAIN Parameters[k].weights)
           /\ Parameters[k].weights \in [DOMAIN Parameters[k].weights -> Nat]

VARIABLES
    chain,      \* the blocks above the genesis block
    finalized,  \* chain.finalizedHeight
    received,   \* _nonGossipedCommits
    local,      \* _nonGossipedCommitsLocal
    gossiped,   \* _gossipedCommits
    handling,   \* the commit whose validation is under way, for each peer
    keys,       \* the enabled keypairs of the generator
    tasks,      \* changes of the finalized height not handled yet
    job,        \* _job
    missed,     \* history: enabled when the votes were behind the finalized height
    events,     \* counts what MaxEvents bounds
    messages    \* counts what MaxMessages bounds

vars == <<chain, finalized, received, local, gossiped, handling, keys,
          tasks, job, missed, events, messages>>

Agreed == 1
Ids    == {Agreed, 2}
None   == [height |-> 0, id |-> 0, validator |-> 0]
Idle   == [phase |-> "idle", removal |-> 0, precommitted |-> 0, current |-> 0]

(* ------------------------------ the chain ------------------------------- *)

Genesis   == [id |-> Agreed, precommitted |-> 0, certified |-> 0]
BlockAt(h) == IF h = 0 THEN Genesis ELSE chain[h]
Height    == Len(chain)
maxHeightPrecommitted == BlockAt(Height).precommitted
maxHeightCertified    == BlockAt(Height).certified

\* The parameters store after the last block.
Stored == Restrict(Parameters, {k \in DOMAIN Parameters : k <= Height + 1})

existBFTParameters(h) == h \in DOMAIN Stored

Weights(h)   == getBFTParameters(Stored, h).weights
Threshold(h) == getBFTParameters(Stored, h).certificateThreshold

\* The height up to which an aggregate commit may certify now.
CertifiableUpTo ==
    IF \E k \in DOMAIN Stored : k > maxHeightCertified + 1
    THEN Min({Max({getNextHeightBFTParameters(Stored, maxHeightCertified + 1),
                   MinCertifyHeight + 1}) - 1,
              maxHeightPrecommitted})
    ELSE maxHeightPrecommitted

(* ----------------------------- commit lists ----------------------------- *)

All == received \cup local \cup gossiped

\* What is concatenated from the lists: a commit once for each list it is in.
getAllCommits == ({"received"} \X received) \cup ({"local"} \X local)
                     \cup ({"gossiped"} \X gossiped)
getCommitsByHeight(h) == {x \in getAllCommits : x[2].height = h}

\* addCommit looks at two of the three lists.
Known(c) == c \in received \cup local

getMaxRemovalHeight == Max({BlockAt(finalized).certified, MinCertifyHeight - 1})

(* -------------------------- aggregate commits --------------------------- *)

CommitWeight(h) ==
    SumFunction([x \in getCommitsByHeight(h) |-> Weights(h)[x[2].validator]])

NoAggregate == [height |-> maxHeightCertified, signers |-> {}, sound |-> TRUE]

\* The aggregate signature verifies for the bits that are set when no signature
\* went in twice and all of them sign the block of the chain.
aggregateSingleCommits(h) ==
    LET commits == getCommitsByHeight(h)
    IN  [height  |-> h,
         signers |-> {x[2].validator : x \in commits},
         sound   |-> /\ \A x, y \in commits : x[2].validator = y[2].validator => x = y
                     /\ \A x \in commits : x[2].id = BlockAt(h).id]

\* Mutant: the change of the parameters is not respected.
selectPastChange ==
    LET ready == {h \in (Max({maxHeightCertified, MinCertifyHeight - 1}) + 1) .. maxHeightPrecommitted :
                      CommitWeight(h) >= Threshold(h)}
    IN  IF ready = {} THEN NoAggregate ELSE aggregateSingleCommits(Max(ready))

selectAggregateCommit ==
    LET ready == {h \in (Max({maxHeightCertified, MinCertifyHeight - 1}) + 1) .. CertifiableUpTo :
                      CommitWeight(h) >= Threshold(h)}
    IN  IF ready = {} THEN NoAggregate ELSE aggregateSingleCommits(Max(ready))

verifyAggregateCommit(a) ==
    \/ a.signers = {} /\ a.height = maxHeightCertified
    \/ /\ a.signers # {}
       /\ a.height > maxHeightCertified
       /\ a.height <= maxHeightPrecommitted
       /\ a.height >= MinCertifyHeight
       /\ (\E k \in DOMAIN Stored : k > maxHeightCertified + 1) =>
            a.height <= Max({getNextHeightBFTParameters(Stored, maxHeightCertified + 1),
                             MinCertifyHeight + 1}) - 1
       /\ a.sound
       /\ SumFunction(Restrict(Weights(a.height), a.signers)) >= Threshold(a.height)

(* -------------------------------- blocks -------------------------------- *)

\* A block with an aggregate commit is executed on top of the chain.  The votes
\* it implies may finalize blocks below it, of the agreed chain only.
Execute(id, certified) ==
    \E p \in maxHeightPrecommitted .. Height :
        LET f == Max({finalized, p})
        IN  /\ Height < MaxHeight
            /\ \A h \in 1 .. p : BlockAt(h).id = Agreed
            /\ chain' = Append(chain, [id |-> id, precommitted |-> p, certified |-> certified])
            /\ finalized' = f
            /\ tasks' = tasks \cup (IF p > finalized THEN {[from |-> finalized, to |-> p]} ELSE {})
            /\ UNCHANGED <<received, local, gossiped, handling, keys, job, missed, events, messages>>

\* A block of this node, with the aggregate commit it selects.
GenerateBlock ==
    /\ keys # {}
    /\ verifyAggregateCommit(selectAggregateCommit)
    /\ Execute(Agreed, selectAggregateCommit.height)

\* A block of a peer, which may have seen the commits of every validator.
ReceiveBlock ==
    \E id \in Ids, certified \in maxHeightCertified .. Height :
        /\ verifyAggregateCommit(
               [height  |-> certified,
                signers |-> IF certified = maxHeightCertified THEN {}
                            ELSE DOMAIN Weights(certified),
                sound   |-> TRUE])
        /\ Execute(id, certified)

\* Deletion of the last block: the pool is not told.
DeleteBlock ==
    /\ Height > finalized /\ events < MaxEvents
    /\ chain' = SubSeq(chain, 1, Height - 1)
    /\ events' = events + 1
    /\ UNCHANGED <<finalized, received, local, gossiped, handling, keys, tasks, job,
                   missed, messages>>

(* ---------------------------- own commits ------------------------------- *)

\* The heights between from and to for which a commit is created.
HeightsToCertify(from, to) ==
    {h \in (from + 1) .. to : h = to \/ existBFTParameters(h + 1)}

CommitsOf(validators, from, to) ==
    {c \in [height : HeightsToCertify(from, to), id : Ids, validator : validators] :
        c.id = BlockAt(c.height).id /\ c.validator \in DOMAIN Weights(c.height)}

AddLocal(commits) ==
    /\ local' = local \cup {c \in commits : ~Known(c)}
    /\ UNCHANGED <<received, gossiped>>

\* CONSENSUS_EVENT_FINALIZED_HEIGHT_CHANGED.
handleFinalizedHeightChanged(task) ==
    /\ task \in tasks
    /\ AddLocal(CommitsOf(keys, Max({getMaxRemovalHeight, task.from}), task.to))
    /\ tasks' = tasks \ {task}
    /\ UNCHANGED <<chain, finalized, handling, keys, job, missed, events, messages>>

\* generator_updateStatus, which calls initSingleCommits.
Enable(v) ==
    /\ events < MaxEvents /\ events' = events + 1
    /\ keys' = keys \cup {v}
    /\ AddLocal(CommitsOf({v}, getMaxRemovalHeight, maxHeightPrecommitted))
    /\ missed' = IF maxHeightPrecommitted < finalized THEN missed \cup {v} ELSE missed \ {v}
    /\ UNCHANGED <<chain, finalized, handling, tasks, job, messages>>

Disable(v) ==
    /\ events < MaxEvents /\ events' = events + 1
    /\ v \in keys
    /\ keys' = keys \ {v}
    /\ UNCHANGED <<chain, finalized, received, local, gossiped, handling, tasks, job,
                   missed, messages>>

\* The pool is in memory only.  On start the plain keys are loaded and
\* initAllSingleCommits signs for them.
Restart ==
    /\ events < MaxEvents /\ events' = events + 1
    /\ keys' = PlainKeys
    /\ local' = CommitsOf(PlainKeys, getMaxRemovalHeight, maxHeightPrecommitted)
    /\ received' = {} /\ gossiped' = {} /\ tasks' = {}
    /\ handling' = [p \in Peers |-> None]
    /\ job' = Idle
    /\ missed' = IF maxHeightPrecommitted < finalized THEN PlainKeys ELSE {}
    /\ UNCHANGED <<chain, finalized, messages>>

(* ------------------------- commits of the peers ------------------------- *)

\* The commits that validators elsewhere sign: an honest one only for agreed
\* blocks (it may be ahead of this node), a faulty one for any block.
Signable ==
    LET others == UNION {DOMAIN Parameters[k].weights : k \in DOMAIN Parameters} \ OwnValidators
    IN  {c \in [height : 1 .. Height, id : Ids, validator : others] :
            /\ c.id = Agreed \/ c.validator \in Faulty
            /\ c.validator \in DOMAIN Weights(c.height)}

\* Validation step 1, before the first await.
handleEventSingleCommit(p, c) ==
    /\ messages < MaxMessages /\ messages' = messages + 1
    /\ handling[p] = None /\ c \notin All
    /\ handling' = [handling EXCEPT ![p] = c]
    /\ UNCHANGED <<chain, finalized, received, local, gossiped, keys, tasks, job,
                   missed, events>>

InRange(h, precommitted, current) ==
    precommitted - CommitRangeStored <= h /\ h <= current

\* Validation steps 2 to 4; the validator is active and its signature valid.
Valid(c) ==
    /\ c.height > getMaxRemovalHeight
    /\ InRange(c.height, maxHeightPrecommitted, Height) \/ existBFTParameters(c.height + 1)
    /\ c.height <= Height /\ BlockAt(c.height).id = c.id

\* The rest of validateCommit, and addCommit.
ValidateCommit(p) ==
    LET c == handling[p]
    IN  /\ c # None
        /\ received' = received \cup (IF Valid(c) /\ ~Known(c) THEN {c} ELSE {})
        /\ handling' = [handling EXCEPT ![p] = None]
        /\ UNCHANGED <<chain, finalized, local, gossiped, keys, tasks, job,
                       missed, events, messages>>

(* -------------------------------- the job ------------------------------- *)

StartJob ==
    /\ job.phase = "idle"
    /\ job' = [phase |-> "received", removal |-> getMaxRemovalHeight,
               precommitted |-> maxHeightPrecommitted, current |-> Height]
    /\ UNCHANGED <<chain, finalized, received, local, gossiped, handling, keys, tasks,
                   missed, events, messages>>

\* Mutant: commits before a change of the parameters are not spared.
deleteWithoutChange(list) ==
    {c \in list : \/ c.height <= job.removal
                  \/ ~InRange(c.height, job.precommitted, job.current)}

\* With the heights that were read when the job began.
DeleteHeights(list) ==
    {c \in list : \/ c.height <= job.removal
                  \/ /\ ~InRange(c.height, job.precommitted, job.current)
                     /\ ~existBFTParameters(c.height + 1)}

CleanUp ==
    /\ \/ /\ job.phase = "received"
          /\ received' = received \ DeleteHeights(received)
          /\ job' = [job EXCEPT !.phase = "local"]
          /\ UNCHANGED <<local, gossiped>>
       \/ /\ job.phase = "local"
          /\ local' = local \ DeleteHeights(local)
          /\ job' = [job EXCEPT !.phase = "gossiped"]
          /\ UNCHANGED <<received, gossiped>>
       \/ /\ job.phase = "gossiped"
          /\ gossiped' = gossiped \ DeleteHeights(gossiped)
          /\ job' = [job EXCEPT !.phase = "select"]
          /\ UNCHANGED <<received, local>>
    /\ UNCHANGED <<chain, finalized, handling, keys, tasks, missed, events, messages>>

Some(list, n) == {S \in SUBSET list : Cardinality(S) = Min({n, Cardinality(list)})}

\* Mutant: the list is not sorted.
Unsorted(list, n) == Some(list, n)

\* The first n of a list in ascending and in descending order of the heights.
Lowest(list, n) ==
    {S \in Some(list, n) : \A x \in S, y \in list \ S : x[2].height <= y[2].height}

Highest(list, n) ==
    {S \in Some(list, n) : \A x \in S, y \in list \ S : x[2].height >= y[2].height}

\* maxSelectedCommitsLength
GossipLimit == 2 * Cardinality(DOMAIN Weights(Height + 1))

Gossip(selected) ==
    /\ gossiped' = gossiped \cup selected
    /\ received' = received \ selected
    /\ local' = local \ selected

\* Up to twice the active validators: old commits first, then own, then received.
SelectToGossip ==
    LET limit == GossipLimit
        old   == {x \in getAllCommits : x[2].height < job.precommitted - CommitRangeStored}
    IN  /\ job.phase = "select"
        /\ \E a \in Lowest(old, limit) :
           \E b \in Highest({"local"} \X local, limit - Cardinality(a)) :
           \E c \in Highest({"received"} \X received, limit - Cardinality(a) - Cardinality(b)) :
                Gossip({x[2] : x \in a \cup b \cup c})
        /\ job' = Idle
        /\ UNCHANGED <<chain, finalized, handling, keys, tasks, missed, events, messages>>

(* ---------------------------- specification ----------------------------- *)

Init ==
    /\ chain = << >> /\ finalized = 0
    /\ received = {} /\ local = {} /\ gossiped = {}
    /\ handling = [p \in Peers |-> None]
    /\ keys = PlainKeys /\ tasks = {} /\ job = Idle
    /\ missed = {} /\ events = 0 /\ messages = 0

JobStep == StartJob \/ CleanUp \/ SelectToGossip

Next ==
    \/ GenerateBlock \/ ReceiveBlock \/ DeleteBlock \/ Restart
    \/ \E task \in tasks : handleFinalizedHeightChanged(task)
    \/ \E v \in OwnValidators : Enable(v) \/ Disable(v)
    \/ \E p \in Peers : ValidateCommit(p) \/ \E c \in Signable : handleEventSingleCommit(p, c)
    \/ JobStep

Spec == Init /\ [][Next]_vars

(* ------------------------------ properties ------------------------------ *)

\* The state is well formed: what is certified is finalized, what is finalized
\* is on the chain, and what is being signed is finalized.
TypeOK ==
    /\ finalized \in 0 .. Height /\ maxHeightCertified <= finalized
    /\ tasks \subseteq [from : 0 .. MaxHeight, to : 1 .. finalized]
    /\ All \subseteq [height : 1 .. MaxHeight, id : Ids, validator : UNION {
          DOMAIN Parameters[k].weights : k \in DOMAIN Parameters}]
    /\ job.phase \in {"idle", "received", "local", "gossiped", "select"}

\* The aggregate commit that _selectAggregateCommit puts in a block of this
\* node passes verifyAggregateCommit, at every point where a block may be
\* generated, unless a commit counts twice or signs a block that was deleted.
SelectedVerifies ==
    LET selected == selectAggregateCommit
    IN  TypeOK /\ (selected.sound => verifyAggregateCommit(selected))

\* Every enabled validator of the node has a commit in the pool for each last
\* finalized block before new BFT parameters, until the finalized chain certifies
\* it: job, events, restarts and deleted blocks lose none.  (A validator enabled
\* while the votes were behind the finalized height does not sign up to it.)
OwnCommitsPresent ==
    tasks = {} =>
        \A v \in keys \ missed, h \in (getMaxRemovalHeight + 1) .. finalized :
            existBFTParameters(h + 1) /\ v \in DOMAIN Weights(h) =>
                [height |-> h, id |-> BlockAt(h).id, validator |-> v] \in All

\* Each run of the job sends the own commits for the lowest height of the pool that
\* is older than the stored range, the next that a certificate needs: neither the
\* commits that are sent again and again nor new ones of other heights use up the
\* limit of the gossip before them (CommitPool._job).
NextCertificateServed ==
    [][SelectToGossip =>
           \A c \in local :
               /\ c.height < job.precommitted - CommitRangeStored
               /\ \A d \in All : d.height >= c.height
               => c \in gossiped']_vars
=============================================================================
