--------------------------- MODULE TransactionPool ---------------------------
(***************************************************************************)
(* The transaction pool (elements/transaction-pool) of a node, with the    *)
(* blocks that take transactions from it and give them back                *)
(* (framework/src/engine/generator).                                       *)
(*                                                                         *)
(*   pool   all    the transactions by their id;                           *)
(*          lists  for a sender the transactions by nonce (txs) and the    *)
(*                 nonces that are processable (ready);                    *)
(*          queue  what the fee priority queue holds;                      *)
(*          calls  the calls of add that wait for the verification of      *)
(*                 their transaction, with the answer once it is there;    *)
(*          watched  what the reorganize job wants to promote, as far as   *)
(*                 it has not left its list since;                         *)
(*   job    the reorganize job: the lists it still has to visit, the       *)
(*          transactions of the list it is at and the answers so far;      *)
(*   chain  the blocks, each with its set of transactions;                 *)
(*   left   how many adds and deletions there can still be.                *)
(*                                                                         *)
(* A transaction is its sender, nonce and fee; all have the same size, so  *)
(* the fee is the fee priority.  The verification runs in the application: *)
(* anything may happen before it and between it and the use of its result. *)
(***************************************************************************)
EXTENDS Integers, Sequences, SequencesExt, FiniteSets, FiniteSetsExt, Functions, Bags

CONSTANTS
    Sender,
    Transactions,           \* records [sender, nonce, fee], nonces from 0
    MayFail,                \* transactions that the application may find invalid
    MaxTransactions, MaxPerAccount, MinEntranceFee, MinReplacement,
    MaxAdds, MaxDeletions,  \* bounds: calls of add from outside, deletions of blocks
    MaxBlocks               \* bound: blocks

ASSUME PoolAssumption ==
    /\ \A t \in Transactions : t.sender \in Sender /\ t.nonce \in Nat /\ t.fee \in Nat
    /\ MayFail \subseteq Transactions
    /\ MaxTransactions \in Nat \ {0} /\ MaxPerAccount \in Nat \ {0} /\ MinReplacement \in Nat \ {0}

VARIABLES pool, job, chain, left

vars == <<pool, job, chain, left>>

(* --------------------------- a list of a sender ------------------------ *)

EmptyList == [txs |-> {}, ready |-> {}]

Nonces(list) == {t.nonce : t \in list.txs}

demoteAfter(list, nonce) == [list EXCEPT !.ready = {n \in @ : n < nonce}]

listRemove(list, nonce) ==
    IF nonce \in Nonces(list)
    THEN demoteAfter([list EXCEPT !.txs = {t \in @ : t.nonce # nonce}], nonce)
    ELSE list

\* The list after add, whether it took the transaction, and what it gave up for it.
listAdd(list, tx, processable) ==
    LET same    == {t \in list.txs : t.nonce = tx.nonce}
        full    == Cardinality(list.txs) >= MaxPerAccount
        highest == {t \in list.txs : t.nonce = Max(Nonces(list))}
        room    == IF full THEN listRemove(list, Max(Nonces(list))) ELSE list
        no      == [list |-> list, added |-> FALSE, removed |-> {}]
    IN  IF same # {}
        THEN IF \E t \in same : tx.fee < t.fee + MinReplacement THEN no
             ELSE [list    |-> [demoteAfter(list, tx.nonce) EXCEPT !.txs = (@ \ same) \cup {tx}],
                   added   |-> TRUE, removed |-> same]
        ELSE IF full /\ tx.nonce > Max(Nonces(list)) THEN no
        ELSE [list    |-> [txs   |-> room.txs \cup {tx},
                           ready |-> IF processable /\ room.ready = {} THEN {tx.nonce} ELSE room.ready],
              added   |-> TRUE, removed |-> IF full THEN highest ELSE {}]

getProcessable(list) == {t \in list.txs : t.nonce \in list.ready}

\* The heap of the nonces without as many of the lowest as there are processable ones.
BeyondReady(list) ==
    LET lower(n) == Cardinality({k \in Nonces(list) : k < n})
    IN  {n \in Nonces(list) : lower(n) >= Cardinality(list.ready)}

getUnprocessable(list) == {t \in list.txs : t.nonce \in BeyondReady(list)}

\* Mutant: only transactions after a processable one are promotable.
promotableAfterReady(list) ==
    LET rest == BeyondReady(list)
    IN  IF rest = {} \/ list.ready = {} \/ Min(rest) # Max(list.ready) + 1 THEN {}
        ELSE {t \in list.txs : t.nonce >= Min(rest) /\ Min(rest) .. t.nonce \subseteq Nonces(list)}

\* The transactions from the first one beyond, as long as the nonces follow on.
getPromotable(list) ==
    LET rest  == BeyondReady(list)
        first == Min(rest)
    IN  IF rest = {} \/ (list.ready # {} /\ first # Max(list.ready) + 1) THEN {}
        ELSE {t \in list.txs : t.nonce >= first /\ first .. t.nonce \subseteq Nonces(list)}

(* -------------------------------- the pool ----------------------------- *)

ListOf(p, s) == IF s \in DOMAIN p.lists THEN p.lists[s] ELSE EmptyList

\* An empty list is deleted.
WithList(p, s, list) ==
    [p EXCEPT !.lists = [r \in (DOMAIN @ \cup {s}) \ (IF list.txs = {} THEN {s} ELSE {}) |->
                            IF r = s THEN list ELSE p.lists[r]]]

\* The queue is filled again from what is left.
remove(p, tx) ==
    IF tx \notin p.all THEN p
    ELSE WithList([p EXCEPT !.all = @ \ {tx}, !.queue = p.all \ {tx}, !.watched = @ \ {tx}], tx.sender,
                  listRemove(ListOf(p, tx.sender), tx.nonce))

Cheapest(txs) == CHOOSE t \in txs : \A u \in txs : t.fee <= u.fee

Unprocessable(p) == UNION {getUnprocessable(p.lists[s]) : s \in DOMAIN p.lists}

evictUnprocessable(p) ==
    IF Unprocessable(p) = {} THEN p ELSE remove(p, Cheapest(Unprocessable(p)))

\* The cheapest of the last processable transactions of the lists.
evictProcessable(p) ==
    LET last == {CHOOSE t \in getProcessable(p.lists[s]) : t.nonce = Max(p.lists[s].ready) :
                    s \in {r \in DOMAIN p.lists : p.lists[r].ready # {}}}
    IN  IF last = {} THEN p ELSE remove(p, Cheapest(last))

Waiting(tx, status) == SetToBag({[tx |-> tx, status |-> status]})

\* The part of add before the verification: a full pool takes a cheap transaction
\* only if half of it is unprocessable, and makes room for it at once.
addBegin(p, tx) ==
    LET cheap == /\ Cardinality(p.all) >= MaxTransactions /\ p.queue # {}
                 /\ tx.fee <= Cheapest(p.queue).fee
        room  == IF cheap THEN evictUnprocessable(p) ELSE p
    IN  IF \/ tx \in p.all \/ tx.fee < MinEntranceFee
           \/ cheap /\ Cardinality(Unprocessable(p)) < MaxTransactions \div 2
        THEN p
        ELSE [room EXCEPT !.calls = @ (+) Waiting(tx, "none")]

\* Mutant: the replaced transaction stays known by its id.
addEndKeepingReplaced(p, tx, status) ==
    LET full    == Cardinality(p.all) >= MaxTransactions
        evicted == IF ~full THEN p
                   ELSE IF Unprocessable(p) # {} THEN evictUnprocessable(p) ELSE evictProcessable(p)
        r       == listAdd(ListOf(evicted, tx.sender), tx, status = "processable")
        added   == WithList(evicted, tx.sender, r.list)
    IN  IF status = "invalid" THEN p
        ELSE IF ~r.added THEN evicted
        ELSE [added EXCEPT !.all = @ \cup {tx}, !.queue = @ \cup {tx}]

\* The part of add after the verification.
addEnd(p, tx, status) ==
    LET full    == Cardinality(p.all) >= MaxTransactions
        evicted == IF ~full THEN p
                   ELSE IF Unprocessable(p) # {} THEN evictUnprocessable(p) ELSE evictProcessable(p)
        r       == listAdd(ListOf(evicted, tx.sender), tx, status = "processable")
        added   == WithList(evicted, tx.sender, r.list)
    IN  IF status = "invalid" THEN p
        ELSE IF ~r.added THEN evicted
        ELSE [added EXCEPT !.all = (@ \ r.removed) \cup {tx}, !.queue = @ \cup {tx},
                           !.watched = @ \ r.removed]

\* All or none: every transaction must have stayed in the list.
promote(p, s, txs) ==
    IF txs # {} /\ txs \subseteq p.watched
    THEN [p EXCEPT !.lists[s].ready = @ \cup {t.nonce : t \in txs}] ELSE p

(* ------------------------------ verification --------------------------- *)

\* The nonce of an account is the number of its transactions in the chain.
AccountNonce(s) == Cardinality({t \in UNION Range(chain) : t.sender = s})

\* What the application may answer.
verifyTransaction(tx) ==
    IF tx.nonce < AccountNonce(tx.sender) THEN {"invalid"}
    ELSE IF tx.nonce > AccountNonce(tx.sender) THEN {"unprocessable"}
    ELSE {"processable"} \cup IF tx \in MayFail THEN {"invalid"} ELSE {}

(* --------------------------------- add --------------------------------- *)

\* From the network or from a user; one that is refused at once changes nothing.
Add(tx) ==
    /\ left.adds > 0 /\ left' = [left EXCEPT !.adds = @ - 1]
    /\ addBegin(pool, tx) # pool /\ pool' = addBegin(pool, tx)
    /\ UNCHANGED <<job, chain>>

Verified(call) ==
    /\ call.status = "none"
    /\ \E status \in verifyTransaction(call.tx) :
           pool' = [pool EXCEPT !.calls = (@ (-) SetToBag({call})) (+) Waiting(call.tx, status)]
    /\ UNCHANGED <<job, chain, left>>

AddVerified(call) ==
    /\ call.status # "none"
    /\ pool' = addEnd([pool EXCEPT !.calls = @ (-) SetToBag({call})], call.tx, call.status)
    /\ UNCHANGED <<job, chain, left>>

(* ----------------------------- the reorganize job ---------------------- *)

NoList == [txs |-> <<>>, promotable |-> {}, answers |-> <<>>]

Idle == [todo |-> {}, at |-> NoList]

\* The job at the list of s, with its promotable transactions.
AtList(p, s) ==
    LET promotable == getPromotable(ListOf(p, s))
        txs        == getProcessable(ListOf(p, s)) \cup promotable
    IN  IF promotable = {} THEN NoList
        ELSE [txs        |-> SetToSortSeq(txs, LAMBDA t, u : t.nonce < u.nonce),
              promotable |-> promotable, answers |-> <<>>]

\* The job goes on, in whatever order, to the next list that has promotable
\* transactions, without a pause at lists that have none.  A list may have been
\* deleted since the job began.
Visit(p, todo) ==
    LET some == {s \in todo : AtList(p, s) # NoList}
    IN  \/ /\ some = {}
           /\ job' = Idle
           /\ pool' = [p EXCEPT !.watched = {}]
        \/ \E s \in some : \E rest \in SUBSET (todo \ {s}) :
               /\ some \subseteq rest \cup {s}
               /\ job' = [todo |-> rest, at |-> AtList(p, s)]
               /\ pool' = [p EXCEPT !.watched = AtList(p, s).promotable]

Reorganize ==
    /\ job = Idle
    /\ Visit(pool, DOMAIN pool.lists)
    /\ UNCHANGED <<chain, left>>

\* Answer i is good if it is "processable", or if it is "unprocessable" and the
\* transaction before it was good and has the nonce before it.
Good(at, i) ==
    \/ at.answers[i] = "processable"
    \/ at.answers[i] = "unprocessable" /\ i > 1 /\ at.txs[i - 1].nonce + 1 = at.txs[i].nonce

Finished(at) ==
    \/ Len(at.answers) = Len(at.txs)
    \/ at.answers # <<>> /\ ~Good(at, Len(at.answers))

VerifyNext ==
    /\ job.at # NoList /\ ~Finished(job.at)
    /\ \E status \in verifyTransaction(job.at.txs[Len(job.at.answers) + 1]) :
           job' = [job EXCEPT !.at.answers = Append(@, status)]
    /\ UNCHANGED <<pool, chain, left>>

\* The good ones are promoted; an invalid one is removed with all that follow.
Reorganized ==
    LET at      == job.at
        s       == at.txs[1].sender
        good    == {at.txs[i] : i \in {j \in DOMAIN at.answers : Good(at, j)}}
        invalid == {at.txs[i].nonce : i \in {j \in DOMAIN at.answers : at.answers[j] = "invalid"}}
        drop    == {t \in Range(at.txs) : \E n \in invalid : t.nonce >= n}
        kept    == promote(pool, s, at.promotable \cap good)
    IN  /\ at # NoList /\ Finished(at)
        /\ Visit(FoldSet(LAMBDA t, p : remove(p, t), kept, drop), job.todo)
        /\ UNCHANGED <<chain, left>>

\* The expire job.
Expire(txs) ==
    /\ txs # {} /\ txs \subseteq pool.all
    /\ pool' = FoldSet(LAMBDA t, p : remove(p, t), pool, txs)
    /\ UNCHANGED <<job, chain, left>>

(* --------------------------------- blocks ------------------------------ *)

onNewBlock(p, txs) == FoldSet(LAMBDA t, q : remove(q, t), p, txs)

\* What the generation strategy takes of the list of s: the processable transactions
\* from the lowest nonce until one that the application refuses.
Selected(s, refused) ==
    {t \in getProcessable(ListOf(pool, s)) :
        \A n \in {k \in ListOf(pool, s).ready : k <= t.nonce} :
            /\ n = AccountNonce(s) + Cardinality({k \in ListOf(pool, s).ready : k < n})
            /\ \A u \in refused : u.sender = s => u.nonce # n}

\* A block of this node.  A transaction that is refused at its execution, not at
\* its verification, is removed from the pool.
GenerateBlock(refused, removed) ==
    LET txs == UNION {Selected(s, refused) : s \in DOMAIN pool.lists}
    IN  /\ removed \subseteq refused
        /\ txs # {} \/ removed # {}
        /\ \A t \in refused : AccountNonce(t.sender) + Cardinality({u \in txs : u.sender = t.sender}) = t.nonce
        /\ Len(chain) < MaxBlocks
        /\ chain' = IF txs = {} THEN chain ELSE Append(chain, txs)
        /\ pool' = onNewBlock(pool, txs \cup removed)
        /\ UNCHANGED <<job, left>>

\* A block of another node.
ReceiveBlock(tx) ==
    /\ "processable" \in verifyTransaction(tx) /\ Len(chain) < MaxBlocks
    /\ chain' = Append(chain, {tx})
    /\ pool' = onNewBlock(pool, {tx})
    /\ UNCHANGED <<job, left>>

\* The last block is deleted; its transactions are added to the pool.
DeleteBlock ==
    /\ chain # <<>> /\ left.deletions > 0
    /\ left' = [left EXCEPT !.deletions = @ - 1]
    /\ chain' = Front(chain)
    /\ pool' = FoldSet(LAMBDA t, p : addBegin(p, t), pool, Last(chain))
    /\ UNCHANGED job

Init ==
    /\ pool = [all |-> {}, lists |-> << >>, queue |-> {}, calls |-> EmptyBag,
               watched |-> {}]
    /\ job = Idle
    /\ chain = <<>>
    /\ left = [adds |-> MaxAdds, deletions |-> MaxDeletions]

OwnBlock ==
    \E refused \in SUBSET (pool.all \cap MayFail), removed \in SUBSET (pool.all \cap MayFail) :
        GenerateBlock(refused, removed)

Next ==
    \/ \E tx \in Transactions : Add(tx) \/ ReceiveBlock(tx)
    \/ \E call \in DOMAIN pool.calls : Verified(call) \/ AddVerified(call)
    \/ Reorganize \/ VerifyNext \/ Reorganized
    \/ \E txs \in SUBSET pool.all : Expire(txs)
    \/ OwnBlock \/ DeleteBlock

Spec == Init /\ [][Next]_vars

\* The application answers the reorganize job, which runs every 500 milliseconds,
\* and the node generates blocks.
Fairness ==
    /\ WF_vars(Reorganize \/ VerifyNext \/ Reorganized)
    /\ WF_vars(GenerateBlock({}, {}))

FairSpec == Spec /\ Fairness

(* ------------------------------ properties ----------------------------- *)

\* The parts of the pool are well formed, and what the job may still promote is in
\* the pool.
TypeOK ==
    /\ pool.all \subseteq Transactions /\ pool.queue \subseteq Transactions
    /\ DOMAIN pool.lists \subseteq Sender
    /\ \A call \in DOMAIN pool.calls :
           call.status \in {"none", "invalid", "unprocessable", "processable"}
    /\ job.todo \subseteq Sender /\ Len(job.at.answers) <= Len(job.at.txs)
    /\ pool.watched \subseteq pool.all \cap job.at.promotable
    /\ chain \in Seq(SUBSET Transactions \ {{}})

\* The transactions by id and by sender and nonce are the same ones, in lists of
\* their sender that are not empty, and the queue knows every one of them.
IndexesAgree ==
    /\ pool.all = UNION {pool.lists[s].txs : s \in DOMAIN pool.lists}
    /\ \A s \in DOMAIN pool.lists :
           /\ pool.lists[s].txs # {}
           /\ \A t \in pool.lists[s].txs : t.sender = s
           /\ Cardinality(Nonces(pool.lists[s])) = Cardinality(pool.lists[s].txs)
           /\ pool.lists[s].ready \subseteq Nonces(pool.lists[s])
    /\ pool.all \subseteq pool.queue

\* However many additions wait for their verification at the same time, the pool
\* and every list keep to their limits.
PoolBounded ==
    /\ Cardinality(pool.all) <= MaxTransactions
    /\ \A s \in DOMAIN pool.lists : Cardinality(pool.lists[s].txs) <= MaxPerAccount

\* The pool's redundant structures agree and keep to their limits, whatever waits
\* for an answer meanwhile.
PoolConsistent == TypeOK /\ IndexesAgree /\ PoolBounded

InLine(t) == t \in pool.all /\ t.nonce = AccountNonce(t.sender)

\* The first of the processable transactions of s is not the next in line, so the
\* generation strategy leaves out all of them.
Misled(s) ==
    LET ready == ListOf(pool, s).ready IN ready # {} /\ Min(ready) # AccountNonce(s)

\* A transaction that is next in line gets into a block or is removed, whatever
\* answers come late, unless its list starts with one that is not next in line.
NextServed ==
    \A t \in Transactions :
        InLine(t) ~> (~InLine(t) \/ Misled(t.sender) \/ Len(chain) = MaxBlocks)
=============================================================================
