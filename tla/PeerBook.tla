------------------------------ MODULE PeerBook ------------------------------
(***************************************************************************)
(* The peer book of the P2P library (elements/p2p/src/peer_book), as       *)
(* functions on its two lists.  A list keeps every address twice: in the   *)
(* lookup peerIdToPeerInfo and in one of its buckets.  This module takes   *)
(* one bucket per list (all that private and local addresses get).         *)
(*                                                                         *)
(*   lookup   the keys of peerIdToPeerInfo                                 *)
(*   orphans  those of them whose record has no bucketId                   *)
(*   bucket   the peers in the bucket: what peerList returns               *)
(*                                                                         *)
(* A book also counts the failed connections of tried peers, and has the   *)
(* temporarily banned addresses.  An operation that may evict a random     *)
(* peer returns the set of books it can lead to.                           *)
(***************************************************************************)
EXTENDS Integers, FiniteSets

CONSTANTS
    Peers, Ip,             \* the peers, and the address of each
    FixedPeers, SeedPeers, WhitelistedPeers,
    NewBucketSize, TriedBucketSize,
    MaxReconnectTries

ASSUME BookConstants ==
    /\ IsFiniteSet(Peers)
    /\ FixedPeers \cup SeedPeers \cup WhitelistedPeers \subseteq Peers
    /\ {NewBucketSize, TriedBucketSize, MaxReconnectTries} \subseteq Nat \ {0}

EmptyList == [lookup |-> {}, orphans |-> {}, bucket |-> {}]
EmptyBook == [new |-> EmptyList, tried |-> EmptyList,
              failures |-> [p \in Peers |-> 0], banned |-> {}, evicted |-> FALSE]

(* -------------------------------- lists --------------------------------- *)

\* Only a peer whose bucket is known and that is still in it.
removeFromList(list, p) ==
    IF p \in (list.lookup \ list.orphans) \cap list.bucket
    THEN [list EXCEPT !.lookup = @ \ {p}, !.bucket = @ \ {p}]
    ELSE list

\* The record is put back in the bucket; with nothing there to merge it with,
\* the new record has no bucketId.
updateInList(list, p) ==
    IF p \notin list.lookup \ list.orphans THEN list
    ELSE [list EXCEPT !.bucket = @ \cup {p},
                      !.orphans = IF p \in list.bucket THEN @ ELSE @ \cup {p}]

\* makeSpace takes the evicted peer out of the bucket, not out of the lookup.
addToList(list, p, size) ==
    LET full == Cardinality(list.bucket) >= size
        victims == IF full THEN {{v} : v \in list.bucket} ELSE {{}}
    IN  {[list EXCEPT !.lookup = @ \cup {p}, !.bucket = (@ \ v) \cup {p}] : v \in victims}

(* --------------------------------- book --------------------------------- *)

newPeers(book)   == book.new.bucket
triedPeers(book) == book.tried.bucket
allPeers(book)   == newPeers(book) \cup triedPeers(book)

hasPeer(book, p) == p \in book.new.lookup \cup book.tried.lookup

isTrustedPeer(p) == p \in SeedPeers \cup WhitelistedPeers \cup FixedPeers

isBanned(book, p) == Ip[p] \in book.banned

removePeer(book, p) ==
    [book EXCEPT !.new = removeFromList(@, p), !.tried = removeFromList(@, p)]

Evicts(list, size) == Cardinality(list.bucket) >= size

\* Of a peer that hasPeer does not know.
addPeer(book, p) ==
    IF isBanned(book, p) THEN {book}
    ELSE {[book EXCEPT !.new = l, !.evicted = @ \/ Evicts(book.new, NewBucketSize)] :
            l \in addToList(book.new, p, NewBucketSize)}

updatePeer(book, p) ==
    IF p \in book.tried.lookup THEN [book EXCEPT !.tried = updateInList(@, p)]
    ELSE [book EXCEPT !.new = updateInList(@, p)]

\* What updatePeer returns: the list that has the peer knows its bucket.
isUpdated(book, p) ==
    LET list == IF p \in book.tried.lookup THEN book.tried ELSE book.new
    IN  p \in list.lookup \ list.orphans

\* The peerKind of the record, given by _assignPeerKind for the address.
hasTrustedKind(book, p) ==
    hasPeer(book, p) /\ \E q \in FixedPeers \cup WhitelistedPeers : Ip[q] = Ip[p]

addTried(book, p) ==
    {[book EXCEPT !.tried = l, !.failures[p] = 0,
                  !.evicted = @ \/ Evicts(book.tried, TriedBucketSize)] :
        l \in addToList(book.tried, p, TriedBucketSize)}

\* Mutant: the peer is not taken out of the list of new peers.
upgradeKeeping(book, p) ==
    IF p \in book.tried.lookup \/ p \notin book.new.lookup THEN {book}
    ELSE IF isBanned(book, p) THEN {removePeer(book, p)}
    ELSE addTried(book, p)

upgradePeer(book, p) ==
    IF p \in book.tried.lookup \/ p \notin book.new.lookup THEN {book}
    ELSE IF isBanned(book, p) THEN {removePeer(book, p)}
    ELSE addTried(removePeer(book, p), p)

\* A failed connection.  The failures of an orphan are not a number.
downgradePeer(book, p) ==
    IF isTrustedPeer(p) THEN {book}
    ELSE IF p \in book.new.lookup THEN {[book EXCEPT !.new = removeFromList(@, p)]}
    ELSE IF p \notin book.tried.bucket \/ p \in book.tried.orphans THEN {book}
    ELSE IF book.failures[p] + 1 < MaxReconnectTries
         THEN {[book EXCEPT !.failures[p] = @ + 1]}
    ELSE addPeer([book EXCEPT !.tried = removeFromList(@, p), !.failures[p] = 0], p)

RemoveAll(book, ps) ==
    [book EXCEPT
        !.new.lookup   = @ \ {p \in ps : removeFromList(book.new, p) # book.new},
        !.new.bucket   = @ \ {p \in ps : removeFromList(book.new, p) # book.new},
        !.tried.lookup = @ \ {p \in ps : removeFromList(book.tried, p) # book.tried},
        !.tried.bucket = @ \ {p \in ps : removeFromList(book.tried, p) # book.tried}]

\* An address is banned with all peers listed under it.
banAddress(book, ip) ==
    [RemoveAll(book, {p \in allPeers(book) : Ip[p] = ip}) EXCEPT !.banned = @ \cup {ip}]

\* By the id of a peer: not the fixed and whitelisted ones.
addBannedPeer(book, p) ==
    IF isBanned(book, p) \/ p \in FixedPeers \cup WhitelistedPeers THEN book
    ELSE banAddress(book, Ip[p])

\* Mutant: the timer of the ban is lost.
neverUnbanned(book, ip) == book

\* The end of the ban.
removeBannedPeer(book, ip) == [book EXCEPT !.banned = @ \ {ip}]

\* The operation of addPeer that every handler makes first.
Ensure(book, p) == IF hasPeer(book, p) THEN {book} ELSE addPeer(book, p)

EnsureTried(book, p) == UNION {upgradePeer(b, p) : b \in Ensure(book, p)}
=============================================================================
