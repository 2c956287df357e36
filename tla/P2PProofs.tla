------------------------------ MODULE P2PProofs ------------------------------
(* Theorems about P2P and PeerBook, for every set of peers and every limit. *)
EXTENDS P2P, TLAPS, FiniteSetTheorems

(* -------------------------------- lists -------------------------------- *)

ListType == [lookup : SUBSET Peers, orphans : SUBSET Peers, bucket : SUBSET Peers]

\* What holds of a list at any time, and what an eviction ends.
ListSound(list) ==
    /\ list \in ListType
    /\ list.orphans \subseteq list.lookup /\ list.bucket \subseteq list.lookup
ListExact(list) == list.lookup = list.bucket /\ list.orphans = {}

\* An exact list loses the peer, and nothing else.
LEMMA RemoveFromList ==
    ASSUME NEW list, ListSound(list), NEW p \in Peers
    PROVE  /\ ListSound(removeFromList(list, p))
           /\ ListExact(list) => /\ ListExact(removeFromList(list, p))
                                 /\ removeFromList(list, p).bucket = list.bucket \ {p}
<1>1. list = [lookup |-> list.lookup, orphans |-> list.orphans, bucket |-> list.bucket]
  BY DEF ListSound, ListType
<1>2. CASE p \in (list.lookup \ list.orphans) \cap list.bucket
  <2>1. removeFromList(list, p) = [lookup |-> list.lookup \ {p}, orphans |-> list.orphans,
                                   bucket |-> list.bucket \ {p}]
    BY <1>1, <1>2 DEF removeFromList
  <2> QED
    BY <1>2, <2>1 DEF ListSound, ListType, ListExact
<1>3. CASE p \notin (list.lookup \ list.orphans) \cap list.bucket
  <2>1. removeFromList(list, p) = list
    BY <1>3 DEF removeFromList
  <2> QED
    BY <1>3, <2>1 DEF ListExact
<1> QED
  BY <1>2, <1>3

\* An update changes nothing in an exact list.
LEMMA UpdateInList ==
    ASSUME NEW list, ListSound(list), NEW p \in Peers
    PROVE  /\ ListSound(updateInList(list, p))
           /\ ListExact(list) => updateInList(list, p) = list
<1>1. list = [lookup |-> list.lookup, orphans |-> list.orphans, bucket |-> list.bucket]
  BY DEF ListSound, ListType
<1>2. CASE p \notin list.lookup \ list.orphans
  BY <1>2 DEF updateInList
<1>3. CASE p \in list.lookup \ list.orphans
  <2> DEFINE o == IF p \in list.bucket THEN list.orphans ELSE list.orphans \cup {p}
  <2>1. updateInList(list, p) = [lookup |-> list.lookup, orphans |-> o,
                                 bucket |-> list.bucket \cup {p}]
    BY <1>1, <1>3 DEF updateInList
  <2>2. o \subseteq list.lookup /\ o \subseteq Peers
    BY <1>3 DEF ListSound, ListType
  <2>3. ListExact(list) => list.bucket \cup {p} = list.bucket /\ o = list.orphans
    BY <1>3 DEF ListExact
  <2> HIDE DEF o
  <2>4. ListSound(updateInList(list, p))
    BY <1>3, <2>1, <2>2 DEF ListSound, ListType
  <2> QED
    BY <1>1, <2>1, <2>3, <2>4
<1> QED
  BY <1>2, <1>3

\* Without an eviction, an exact list gains the peer and nothing else.
LEMMA AddToList ==
    ASSUME NEW list, ListSound(list), NEW p \in Peers, NEW size,
           NEW new \in addToList(list, p, size)
    PROVE  /\ ListSound(new)
           /\ ~Evicts(list, size) /\ ListExact(list) =>
                  ListExact(new) /\ new.bucket = list.bucket \cup {p}
<1>1. list = [lookup |-> list.lookup, orphans |-> list.orphans, bucket |-> list.bucket]
  BY DEF ListSound, ListType
<1> DEFINE victims == IF Cardinality(list.bucket) >= size THEN {{v} : v \in list.bucket}
                      ELSE {{}}
<1>2. PICK v \in victims : new = [list EXCEPT !.lookup = @ \cup {p}, !.bucket = (@ \ v) \cup {p}]
  BY DEF addToList
<1>3. new = [lookup |-> list.lookup \cup {p}, orphans |-> list.orphans,
             bucket |-> (list.bucket \ v) \cup {p}]
  BY <1>1, <1>2
<1>4. ListSound(new)
  BY <1>3 DEF ListSound, ListType
<1>5. ~Evicts(list, size) => v = {}
  BY <1>2 DEF Evicts
<1> HIDE DEF victims
<1> QED
  BY <1>3, <1>4, <1>5 DEF ListExact

(* -------------------------------- books -------------------------------- *)

Addresses == {Ip[p] : p \in Peers}
Failures  == [Peers -> 0 .. (MaxReconnectTries - 1)]
BookType  == [new : ListType, tried : ListType, failures : Failures,
              banned : SUBSET Addresses, evicted : BOOLEAN]

\* The book is exact as long as no list has evicted a peer.
Exact(b) ==
    /\ ListExact(b.new) /\ ListExact(b.tried)
    /\ b.new.bucket \cap b.tried.bucket = {}
    /\ \A p \in b.new.bucket \cup b.tried.bucket : Ip[p] \notin b.banned

BookSound(b) ==
    /\ b \in BookType /\ ListSound(b.new) /\ ListSound(b.tried)
    /\ ~b.evicted => Exact(b)

\* A book with some of its fields replaced.
SameFields(c, n, t, banned, e) ==
    c.new = n /\ c.tried = t /\ c.banned = banned /\ c.evicted = e

\* The failures of a peer start again.
LEMMA ResetFailures ==
    ASSUME NEW f \in Failures, NEW p \in Peers
    PROVE  [f EXCEPT ![p] = 0] \in Failures
<1>1. 0 \in 0 .. (MaxReconnectTries - 1)
  BY BookConstants
<1> QED
  BY <1>1 DEF Failures

\* A peer that is in neither list is added to the new ones, unless it is banned.
LEMMA AddPeer ==
    ASSUME NEW b, BookSound(b), NEW p \in Peers, NEW c \in addPeer(b, p),
           ~b.evicted => p \notin b.tried.bucket
    PROVE  BookSound(c)
<1>1. CASE isBanned(b, p)
  BY <1>1 DEF addPeer
<1>2. CASE ~isBanned(b, p)
  <2>1. PICK l \in addToList(b.new, p, NewBucketSize) :
          c = [b EXCEPT !.new = l, !.evicted = @ \/ Evicts(b.new, NewBucketSize)]
    BY <1>2 DEF addPeer
  <2>2. /\ ListSound(l)
        /\ ~Evicts(b.new, NewBucketSize) /\ ListExact(b.new) =>
              ListExact(l) /\ l.bucket = b.new.bucket \cup {p}
    BY AddToList DEF BookSound
  <2>3. PICK e \in BOOLEAN : e = (b.evicted \/ Evicts(b.new, NewBucketSize))
    OBVIOUS
  <2>4. c = [b EXCEPT !.new = l, !.evicted = e]
    BY <2>1, <2>3, Zenon
  <2>5. c \in BookType /\ SameFields(c, l, b.tried, b.banned, e)
    BY <2>2, <2>4 DEF BookSound, ListSound, BookType, SameFields
  <2>6. ~c.evicted => Exact(c)
    <3> SUFFICES ASSUME ~c.evicted PROVE Exact(c)
      OBVIOUS
    <3>1. ~b.evicted /\ ~Evicts(b.new, NewBucketSize)
      BY <2>3, <2>5 DEF SameFields
    <3>2. Exact(b) /\ ListExact(l) /\ l.bucket = b.new.bucket \cup {p} /\ p \notin b.tried.bucket
      BY <2>2, <3>1 DEF BookSound, Exact
    <3> QED
      BY <1>2, <2>5, <3>2 DEF SameFields, Exact, isBanned
  <2> QED
    BY <2>2, <2>5, <2>6 DEF SameFields, BookSound
<1> QED
  BY <1>1, <1>2

\* The peer leaves both lists.
LEMMA RemovePeer ==
    ASSUME NEW b, BookSound(b), NEW p \in Peers
    PROVE  /\ BookSound(removePeer(b, p))
           /\ removePeer(b, p).evicted = b.evicted /\ removePeer(b, p).banned = b.banned
           /\ ~b.evicted => p \notin removePeer(b, p).new.bucket
<1> DEFINE n == removeFromList(b.new, p)
           t == removeFromList(b.tried, p)
           c == removePeer(b, p)
<1>1. c = [b EXCEPT !.new = n, !.tried = t]
  BY DEF removePeer
<1>2. /\ ListSound(n) /\ ListSound(t)
      /\ ListExact(b.new) => ListExact(n) /\ n.bucket = b.new.bucket \ {p}
      /\ ListExact(b.tried) => ListExact(t) /\ t.bucket = b.tried.bucket \ {p}
  BY RemoveFromList DEF BookSound
<1> HIDE DEF n, t, c
<1>3. c \in BookType /\ SameFields(c, n, t, b.banned, b.evicted)
  BY <1>1, <1>2 DEF BookSound, ListSound, BookType, SameFields
<1>4. ~b.evicted => Exact(c) /\ p \notin n.bucket
  BY <1>2, <1>3 DEF SameFields, BookSound, Exact
<1>5. BookSound(c) /\ c.evicted = b.evicted /\ c.banned = b.banned
      /\ (~b.evicted => p \notin c.new.bucket)
  BY <1>2, <1>3, <1>4 DEF SameFields, BookSound
<1> QED
  BY <1>5 DEF c

\* A peer that is not new becomes a tried one.
LEMMA AddTried ==
    ASSUME NEW b, BookSound(b), NEW p \in Peers, NEW c \in addTried(b, p), ~isBanned(b, p),
           ~b.evicted => p \notin b.new.bucket
    PROVE  BookSound(c)
<1>1. PICK l \in addToList(b.tried, p, TriedBucketSize) :
        c = [b EXCEPT !.tried = l, !.failures[p] = 0,
                      !.evicted = @ \/ Evicts(b.tried, TriedBucketSize)]
  BY DEF addTried
<1>2. /\ ListSound(l)
      /\ ~Evicts(b.tried, TriedBucketSize) /\ ListExact(b.tried) =>
            ListExact(l) /\ l.bucket = b.tried.bucket \cup {p}
  BY AddToList DEF BookSound
<1>3. PICK e \in BOOLEAN : e = (b.evicted \/ Evicts(b.tried, TriedBucketSize))
  OBVIOUS
<1>4. PICK f \in Failures : f = [b.failures EXCEPT ![p] = 0]
  BY ResetFailures DEF BookSound, BookType
<1>5. c = [b EXCEPT !.tried = l, !.failures = f, !.evicted = e]
  BY <1>1, <1>3, <1>4, Zenon
<1>6. c \in BookType /\ SameFields(c, b.new, l, b.banned, e)
  BY <1>2, <1>5 DEF BookSound, ListSound, BookType, SameFields
<1>7. ~c.evicted => Exact(c)
  <2> SUFFICES ASSUME ~c.evicted PROVE Exact(c)
    OBVIOUS
  <2>1. ~b.evicted /\ ~Evicts(b.tried, TriedBucketSize)
    BY <1>3, <1>6 DEF SameFields
  <2>2. Exact(b) /\ ListExact(l) /\ l.bucket = b.tried.bucket \cup {p} /\ p \notin b.new.bucket
    BY <1>2, <2>1 DEF BookSound, Exact
  <2> QED
    BY <1>6, <2>2 DEF SameFields, Exact, isBanned
<1> QED
  BY <1>2, <1>6, <1>7 DEF SameFields, BookSound

\* A peer that connected moves to the tried list.
LEMMA UpgradePeer ==
    ASSUME NEW b, BookSound(b), NEW p \in Peers, NEW c \in upgradePeer(b, p)
    PROVE  BookSound(c)
<1>1. CASE c \in {b, removePeer(b, p)}
  BY <1>1, RemovePeer
<1>2. CASE c \in addTried(removePeer(b, p), p) /\ ~isBanned(b, p)
  BY <1>2, RemovePeer, AddTried DEF isBanned
<1> QED
  BY <1>1, <1>2 DEF upgradePeer

\* An update of what is known of a peer.
LEMMA UpdatePeer ==
    ASSUME NEW b, BookSound(b), NEW p \in Peers
    PROVE  BookSound(updatePeer(b, p))
<1> DEFINE n == updateInList(b.new, p)
           t == updateInList(b.tried, p)
           c == updatePeer(b, p)
<1>1. /\ ListSound(n) /\ (ListExact(b.new) => n = b.new)
      /\ ListSound(t) /\ (ListExact(b.tried) => t = b.tried)
  BY UpdateInList DEF BookSound
<1>2. c = [b EXCEPT !.tried = t] \/ c = [b EXCEPT !.new = n]
  BY DEF updatePeer
<1> HIDE DEF n, t, c
<1>3. /\ c \in BookType
      /\ \/ SameFields(c, b.new, t, b.banned, b.evicted)
         \/ SameFields(c, n, b.tried, b.banned, b.evicted)
  BY <1>1, <1>2 DEF BookSound, ListSound, BookType, SameFields
<1>4. BookSound(c)
  BY <1>1, <1>3 DEF SameFields, BookSound, Exact
<1> QED
  BY <1>4 DEF c

\* A connection that failed.
LEMMA DowngradePeer ==
    ASSUME NEW b, BookSound(b), NEW p \in Peers, NEW c \in downgradePeer(b, p)
    PROVE  BookSound(c)
<1>1. CASE c = b
  BY <1>1
<1>2. CASE c = [b EXCEPT !.new = removeFromList(@, p)]
  <2> DEFINE n == removeFromList(b.new, p)
  <2>1. ListSound(n) /\ (ListExact(b.new) => ListExact(n) /\ n.bucket = b.new.bucket \ {p})
    BY RemoveFromList DEF BookSound
  <2>2. c = [b EXCEPT !.new = n]
    BY <1>2
  <2> HIDE DEF n
  <2>3. c \in BookType /\ SameFields(c, n, b.tried, b.banned, b.evicted)
    BY <2>1, <2>2 DEF BookSound, ListSound, BookType, SameFields
  <2> QED
    BY <2>1, <2>3 DEF SameFields, BookSound, Exact
<1>3. CASE c = [b EXCEPT !.failures[p] = @ + 1] /\ b.failures[p] + 1 < MaxReconnectTries
  <2>1. PICK f \in Failures : f = [b.failures EXCEPT ![p] = @ + 1]
    BY <1>3, BookConstants DEF BookSound, BookType, Failures
  <2>2. c = [b EXCEPT !.failures = f]
    BY <1>3, <2>1, Zenon
  <2>3. c \in BookType /\ SameFields(c, b.new, b.tried, b.banned, b.evicted)
    BY <2>2 DEF BookSound, ListSound, BookType, SameFields
  <2> QED
    BY <2>3 DEF SameFields, BookSound, Exact
<1>4. CASE c \in addPeer([b EXCEPT !.tried = removeFromList(@, p), !.failures[p] = 0], p)
  <2> DEFINE d == [b EXCEPT !.tried = removeFromList(@, p), !.failures[p] = 0]
             t == removeFromList(b.tried, p)
  <2>1. PICK f \in Failures : f = [b.failures EXCEPT ![p] = 0]
    BY ResetFailures DEF BookSound, BookType
  <2>2. d = [b EXCEPT !.tried = t, !.failures = f]
    BY <2>1, Zenon
  <2>3. ListSound(t) /\ (ListExact(b.tried) => ListExact(t) /\ t.bucket = b.tried.bucket \ {p})
    BY RemoveFromList DEF BookSound
  <2> HIDE DEF d, t
  <2>4. d \in BookType /\ SameFields(d, b.new, t, b.banned, b.evicted)
    BY <2>2, <2>3 DEF BookSound, ListSound, BookType, SameFields
  <2>5. BookSound(d) /\ (~d.evicted => p \notin d.tried.bucket)
    BY <2>3, <2>4 DEF SameFields, BookSound, Exact
  <2> QED
    BY <1>4, <2>5, AddPeer DEF d
<1> QED
  BY <1>1, <1>2, <1>3, <1>4 DEF downgradePeer

\* A peer that is added unless the book has it.
LEMMA EnsurePeer ==
    ASSUME NEW b, BookSound(b), NEW p \in Peers, NEW c \in Ensure(b, p)
    PROVE  BookSound(c)
<1>1. CASE hasPeer(b, p)
  BY <1>1 DEF Ensure
<1>2. CASE ~hasPeer(b, p)
  BY <1>2, AddPeer DEF Ensure, hasPeer, BookSound, ListSound
<1> QED
  BY <1>1, <1>2

WithoutSet(list, ps) ==
    [list EXCEPT !.lookup = @ \ {p \in ps : removeFromList(list, p) # list},
                 !.bucket = @ \ {p \in ps : removeFromList(list, p) # list}]

\* A ban takes the peers of an address out of both lists.
LEMMA RemoveSet ==
    ASSUME NEW list, ListSound(list), NEW ps, NEW new, new = WithoutSet(list, ps)
    PROVE  /\ ListSound(new)
           /\ ListExact(list) => ListExact(new) /\ new.bucket = list.bucket \ ps
<1> DEFINE R == {p \in ps : removeFromList(list, p) # list}
<1>1. R \subseteq (list.lookup \ list.orphans) \cap list.bucket
  BY DEF removeFromList
<1>2. ListExact(list) => R = list.bucket \cap ps
  <2> SUFFICES ASSUME ListExact(list), NEW p \in list.bucket PROVE removeFromList(list, p) # list
    BY <1>1
  <2>1. removeFromList(list, p).bucket = list.bucket \ {p}
    BY DEF removeFromList, ListExact, ListSound, ListType
  <2> QED
    BY <2>1
<1>3. new = [list EXCEPT !.lookup = @ \ R, !.bucket = @ \ R]
  BY DEF WithoutSet
<1> HIDE DEF R
<1>4. /\ new \in ListType /\ new.lookup = list.lookup \ R /\ new.bucket = list.bucket \ R
      /\ new.orphans = list.orphans
  BY <1>3 DEF ListSound, ListType
<1> QED
  BY <1>1, <1>2, <1>4 DEF ListSound, ListExact

\* A ban removes the peers of the address from both lists.
LEMMA BanAddress ==
    ASSUME NEW b, BookSound(b), NEW ip \in Addresses
    PROVE  BookSound(banAddress(b, ip))
<1> DEFINE ps == {p \in allPeers(b) : Ip[p] = ip}
           n  == WithoutSet(b.new, ps)
           t  == WithoutSet(b.tried, ps)
           c  == banAddress(b, ip)
           ba == b.banned \cup {ip}
<1>1. /\ ListSound(n) /\ (ListExact(b.new) => ListExact(n) /\ n.bucket = b.new.bucket \ ps)
      /\ ListSound(t) /\ (ListExact(b.tried) => ListExact(t) /\ t.bucket = b.tried.bucket \ ps)
  <2> HIDE DEF ps
  <2>1. ListSound(b.new) /\ ListSound(b.tried)
    BY DEF BookSound
  <2>2. ListSound(n) /\ (ListExact(b.new) => ListExact(n) /\ n.bucket = b.new.bucket \ ps)
    BY <2>1, RemoveSet
  <2>3. ListSound(t) /\ (ListExact(b.tried) => ListExact(t) /\ t.bucket = b.tried.bucket \ ps)
    BY <2>1, RemoveSet
  <2> QED
    BY <2>2, <2>3
<1>2. c \in BookType /\ SameFields(c, n, t, ba, b.evicted)
  <2> HIDE DEF ps
  <2> DEFINE d == RemoveAll(b, ps)
  <2>1. d.new = n /\ d.tried = t /\ d.banned = b.banned /\ d.evicted = b.evicted
        /\ d.failures = b.failures
    BY DEF RemoveAll, BookSound, BookType, ListType, WithoutSet
  <2>2. DOMAIN d = {"new", "tried", "failures", "banned", "evicted"}
    BY DEF RemoveAll, BookSound, BookType
  <2>3. c = [d EXCEPT !.banned = @ \cup {ip}]
    BY SMTT(60) DEF banAddress, ps
  <2> HIDE DEF d, n, t, c
  <2>4. d \in BookType
    BY <1>1, <2>1, <2>2 DEF BookType, BookSound, ListSound, RemoveAll, d
  <2> QED
    BY <2>1, <2>3, <2>4 DEF BookType, SameFields
<1>3. \A p \in allPeers(b) : Ip[p] = ip => p \in ps
  OBVIOUS
<1> HIDE DEF ps, n, t, c
<1>4. ~c.evicted => Exact(c)
  BY <1>1, <1>2, <1>3 DEF SameFields, BookSound, Exact, allPeers, newPeers, triedPeers
<1>5. BookSound(c)
  BY <1>1, <1>2, <1>4 DEF SameFields, BookSound
<1> QED
  BY <1>5 DEF c

\* The end of a ban.
LEMMA UnbanAddress ==
    ASSUME NEW b, BookSound(b), NEW ip
    PROVE  BookSound(removeBannedPeer(b, ip))
<1> DEFINE c == removeBannedPeer(b, ip)
<1>1. c \in BookType /\ SameFields(c, b.new, b.tried, b.banned \ {ip}, b.evicted)
  BY DEF removeBannedPeer, BookSound, BookType, SameFields
<1> HIDE DEF c
<1>2. BookSound(c)
  BY <1>1 DEF SameFields, BookSound, Exact
<1> QED
  BY <1>2 DEF c

(* -------------------------------- the pool ------------------------------ *)

OutboundType == UNION {[S -> {"connecting", "open"}] : S \in SUBSET Peers}

\* Functions on a set of peers.
LEMMA OutboundIntro ==
    ASSUME NEW S \in SUBSET Peers, NEW f \in [S -> {"connecting", "open"}]
    PROVE  f \in OutboundType
  BY DEF OutboundType

\* The outbound peers as a function, and without one of them.
LEMMA OutboundElim ==
    ASSUME NEW f \in OutboundType
    PROVE  /\ DOMAIN f \in SUBSET Peers /\ f \in [DOMAIN f -> {"connecting", "open"}]
           /\ \A p : Without(f, p) \in OutboundType /\ DOMAIN Without(f, p) = DOMAIN f \ {p}
<1>1. DOMAIN f \in SUBSET Peers /\ f \in [DOMAIN f -> {"connecting", "open"}]
  BY DEF OutboundType
<1>2. ASSUME NEW p
      PROVE  Without(f, p) \in OutboundType /\ DOMAIN Without(f, p) = DOMAIN f \ {p}
  <2>1. DOMAIN f \ {p} \in SUBSET Peers
        /\ Without(f, p) \in [DOMAIN f \ {p} -> {"connecting", "open"}]
    BY <1>1 DEF Without
  <2> QED
    BY <2>1, OutboundIntro
<1> QED
  BY <1>1, <1>2

\* Peers that are dialled in addition to some that are kept.
LEMMA OutboundJoin ==
    ASSUME NEW f \in OutboundType, NEW S \in SUBSET Peers
    PROVE  /\ Join(f, Connecting(S)) \in OutboundType
           /\ DOMAIN Join(f, Connecting(S)) = DOMAIN f \cup S
<1>1. DOMAIN f \in SUBSET Peers /\ f \in [DOMAIN f -> {"connecting", "open"}]
  BY OutboundElim
<1>2. DOMAIN f \cup S \in SUBSET Peers
      /\ Join(f, Connecting(S)) \in [DOMAIN f \cup S -> {"connecting", "open"}]
  BY <1>1 DEF Join, Connecting
<1> QED
  BY <1>2, OutboundIntro

\* The pool is well formed, and a fixed peer that is connected as an inbound
\* peer is remembered.
PoolSound ==
    /\ outbound \in OutboundType /\ inbound \subseteq Peers \ Outbound
    /\ trusted \subseteq inbound /\ handshaking \subseteq Peers
    /\ fixedInbound \subseteq FixedPeers /\ inbound \cap FixedPeers \subseteq fixedInbound

BookInv == BookSound(book) /\ PoolSound

\* A step after which fewer peers are connected, if any.
LEMMA PoolShrinks ==
    ASSUME PoolSound, outbound' \in OutboundType, DOMAIN outbound' \subseteq Outbound,
           inbound' \subseteq inbound, trusted' = trusted \cap inbound',
           handshaking' \subseteq Peers, UNCHANGED fixedInbound
    PROVE  PoolSound'
  BY DEF PoolSound, Outbound

\* A step that dials.
LEMMA PoolDials ==
    ASSUME PoolSound, NEW kept \in OutboundType, DOMAIN kept \subseteq Outbound,
           NEW S \in SUBSET (Peers \ inbound), outbound' = Join(kept, Connecting(S)),
           UNCHANGED <<inbound, trusted, handshaking, fixedInbound>>
    PROVE  PoolSound' /\ DOMAIN outbound' = DOMAIN kept \cup S
<1>1. outbound' \in OutboundType /\ DOMAIN outbound' = DOMAIN kept \cup S
  BY OutboundJoin
<1> QED
  BY <1>1 DEF PoolSound, Outbound

\* What is dialled, and whom the populator keeps.
LEMMA DialledSet ==
    ASSUME NEW conns, NEW others, NEW candidates, NEW S \in AllDialled(conns, others, candidates)
    PROVE  S \subseteq candidates \ (DOMAIN conns \cup others)
  BY DEF AllDialled, Dialled

\* The populator connects to peers of its selection and to fixed peers.
LEMMA PopulateDials ==
    ASSUME BookInv, Populate
    PROVE  \E kept \in OutboundType, selected \in Selections(getFreeOutboundSlots),
              F \in SUBSET FixedPeers :
           \E S \in SUBSET selected :
              /\ DOMAIN kept \subseteq Outbound /\ S \cup F \in SUBSET (Peers \ inbound)
              /\ outbound' = Join(kept, Connecting(S \cup F))
<1> DEFINE free  == getFreeOutboundSlots
           given == IF free = 0 THEN (Outbound \cap SeedPeers) \ FixedPeers ELSE {}
           kept  == [p \in Outbound \ given |-> outbound[p]]
<1>1. PICK selected \in Selections(free) :
      \E S \in AllDialled(kept, inbound, selected) :
      \E F \in AllDialled(Join(kept, Connecting(S)), inbound, FixedPeers) :
          outbound' = Join(kept, Connecting(S \cup F))
  BY DEF Populate
<1>2. PICK S \in AllDialled(kept, inbound, selected) :
      \E F \in AllDialled(Join(kept, Connecting(S)), inbound, FixedPeers) :
          outbound' = Join(kept, Connecting(S \cup F))
  BY <1>1
<1>3. PICK F \in AllDialled(Join(kept, Connecting(S)), inbound, FixedPeers) :
          outbound' = Join(kept, Connecting(S \cup F))
  BY <1>2
<1>4. kept \in OutboundType /\ DOMAIN kept \subseteq Outbound
  <2>1. Outbound \ given \in SUBSET Peers /\ kept \in [Outbound \ given -> {"connecting", "open"}]
    BY OutboundElim DEF BookInv, PoolSound, Outbound
  <2> QED
    BY <2>1, OutboundIntro
<1> HIDE DEF kept
<1>5. S \subseteq selected \ inbound /\ F \subseteq FixedPeers \ inbound
  BY DialledSet
<1>6. selected \subseteq Peers
  <2>1. allPeers(book) \subseteq Peers
    BY DEF BookInv, BookSound, BookType, ListType, allPeers, newPeers, triedPeers
  <2> QED
    BY <2>1 DEF Selections, kSubset
<1>7. S \cup F \in SUBSET (Peers \ inbound)
  BY <1>5, <1>6, BookConstants
<1> QED
  BY <1>3, <1>4, <1>5, <1>7

\* Discovery connects to at most as many seed peers as there are free slots.
LEMMA SeedsDialled ==
    ASSUME BookInv, DiscoverFromSeedPeers
    PROVE  \E seeds \in kSubset(Min({getFreeOutboundSlots, Cardinality(SeedPeers)}), SeedPeers) :
           \E S \in SUBSET seeds :
              S \in SUBSET (Peers \ inbound) /\ outbound' = Join(outbound, Connecting(S))
<1>1. PICK seeds \in kSubset(Min({getFreeOutboundSlots, Cardinality(SeedPeers)}), SeedPeers) :
      \E S \in AllDialled(outbound, inbound, seeds) : outbound' = Join(outbound, Connecting(S))
  BY DEF DiscoverFromSeedPeers
<1>2. PICK S \in AllDialled(outbound, inbound, seeds) : outbound' = Join(outbound, Connecting(S))
  BY <1>1
<1>3. S \subseteq seeds \ inbound
  BY DialledSet
<1>4. seeds \subseteq Peers
  BY BookConstants DEF kSubset
<1> QED
  BY <1>1, <1>2, <1>3, <1>4

(* ------------------------- every step keeps BookInv -------------------- *)

\* Which peers there are in the pool may change in these steps only in the way
\* that PoolShrinks allows.
ShrinkStep(p) ==
    \/ SocketConnect(p) \/ ConnectAbort(p) \/ OutboundConnected(p) \/ PeerInfoUpdate(p)
    \/ DiscoveredPeer(p) \/ Close(p) \/ Handshake(p) \/ BanPeer(p) \/ BanSocket(p)

\* The steps of one peer that open no connection leave the pool no larger.
LEMMA ShrinkStepShrinks ==
    ASSUME PoolSound, NEW p \in Peers, ShrinkStep(p)
    PROVE  /\ outbound' \in OutboundType /\ DOMAIN outbound' \subseteq Outbound
           /\ inbound' \subseteq inbound /\ trusted' = trusted \cap inbound'
           /\ handshaking' \subseteq Peers /\ UNCHANGED fixedInbound
<1>1. outbound \in OutboundType /\ trusted \subseteq inbound /\ handshaking \subseteq Peers
  BY DEF PoolSound
<1>2. Without(outbound, p) \in OutboundType /\ DOMAIN Without(outbound, p) = Outbound \ {p}
  BY <1>1, OutboundElim DEF Outbound
<1>3. CASE SocketConnect(p)
  <2>1. /\ outbound' = [outbound EXCEPT ![p] = "open"]
        /\ UNCHANGED <<inbound, trusted, handshaking, fixedInbound>>
    BY <1>3 DEF SocketConnect
  <2>2. DOMAIN outbound \in SUBSET Peers /\ outbound \in [DOMAIN outbound -> {"connecting", "open"}]
    BY <1>1, OutboundElim
  <2>3. outbound' \in [DOMAIN outbound -> {"connecting", "open"}]
    BY <2>1, <2>2
  <2>4. outbound' \in OutboundType
    BY <2>2, <2>3, OutboundIntro
  <2> QED
    BY <1>1, <2>1, <2>3, <2>4 DEF Outbound
<1>4. CASE ConnectAbort(p) \/ Close(p) \/ BanPeer(p)
  BY <1>1, <1>2, <1>4 DEF ConnectAbort, Close, BanPeer
<1>5. CASE OutboundConnected(p) \/ PeerInfoUpdate(p) \/ DiscoveredPeer(p) \/ Handshake(p)
           \/ BanSocket(p)
  BY <1>1, <1>5 DEF OutboundConnected, PeerInfoUpdate, DiscoveredPeer, Handshake, BanSocket,
                   Outbound
<1> QED
  BY <1>3, <1>4, <1>5 DEF ShrinkStep

\* The steps of one peer keep the book sound.
LEMMA ShrinkStepBook ==
    ASSUME BookSound(book), NEW p \in Peers, ShrinkStep(p)
    PROVE  BookSound(book')
<1>1. CASE UNCHANGED book
  BY <1>1
<1>2. CASE ConnectAbort(p)
  <2>1. PICK b \in (IF hasPeer(book, p) THEN downgradePeer(book, p) ELSE {book}) :
          book' = updatePeer(b, p)
    BY <1>2 DEF ConnectAbort
  <2>2. BookSound(b)
    BY <2>1, DowngradePeer
  <2> QED
    BY <2>1, <2>2, UpdatePeer
<1>3. CASE OutboundConnected(p)
  <2>1. PICK b \in Ensure(book, p) : book' \in upgradePeer(b, p)
    BY <1>3 DEF OutboundConnected, EnsureTried
  <2> QED
    BY <2>1, EnsurePeer, UpgradePeer
<1>4. CASE PeerInfoUpdate(p)
  <2>1. PICK b \in Ensure(book, p) :
          book' \in IF isUpdated(b, p) THEN upgradePeer(updatePeer(b, p), p) ELSE {b}
    BY <1>4 DEF PeerInfoUpdate
  <2>2. BookSound(b) /\ BookSound(updatePeer(b, p))
    BY <2>1, EnsurePeer, UpdatePeer
  <2> QED
    BY <2>1, <2>2, UpgradePeer
<1>5. CASE DiscoveredPeer(p)
  BY <1>5, EnsurePeer DEF DiscoveredPeer, Ensure
<1>6. CASE Close(p)
  BY <1>6, UpdatePeer DEF Close
<1>7. CASE BanPeer(p) \/ BanSocket(p)
  <2>1. Ip[p] \in Addresses
    BY DEF Addresses
  <2>2. book' \in {book, banAddress(book, Ip[p])}
    BY <1>7 DEF BanPeer, BanSocket, addBannedPeer
  <2> QED
    BY <2>1, <2>2, BanAddress
<1>8. CASE SocketConnect(p) \/ Handshake(p)
  BY <1>1, <1>8 DEF SocketConnect, Handshake
<1> QED
  BY <1>2, <1>3, <1>4, <1>5, <1>6, <1>7, <1>8 DEF ShrinkStep

\* Fixed and whitelisted peers are never evicted.
LEMMA EvictedSet ==
    ASSUME NEW E \in InboundEvicted
    PROVE  E \subseteq inbound \ trusted
<1>1. CASE E = {}
  BY <1>1
<1>2. CASE E # {}
  <2>1. PICK left \in selectPeersForEviction :
          E \in IF left = {} THEN {{}} ELSE {{q} : q \in left}
    BY <1>2 DEF InboundEvicted
  <2>2. E \subseteq left
    BY <1>2, <2>1
  <2>3. left \subseteq inbound \ trusted
    BY <2>1 DEF selectPeersForEviction
  <2> QED
    BY <2>2, <2>3
<1> QED
  BY <1>1, <1>2

\* The step in which an inbound peer joins the pool.
LEMMA InboundConnectStep ==
    ASSUME BookInv, NEW p \in Peers, InboundConnect(p)
    PROVE  BookInv'
<1>1. /\ handshaking' = handshaking \ {p} /\ UNCHANGED <<outbound, bans>>
      /\ BookSound(book) /\ PoolSound
  BY DEF InboundConnect, BookInv
<1>2. CASE UNCHANGED <<book, inbound, trusted, fixedInbound>>
  <2>1. PoolSound'
    BY <1>1, <1>2 DEF PoolSound, Outbound
  <2> QED
    BY <1>1, <1>2, <2>1 DEF BookInv
<1>3. CASE ~UNCHANGED <<book, inbound, trusted, fixedInbound>>
  <2>1. PICK E \in InboundEvicted :
          /\ inbound' = (inbound \ E) \cup {p}
          /\ trusted' = IF hasTrustedKind(book, p) THEN trusted \cup {p} ELSE trusted
    BY <1>3 DEF InboundConnect
  <2>2. /\ p \notin Pool /\ book' \in Ensure(book, p)
        /\ fixedInbound' = fixedInbound \cup ({p} \cap FixedPeers)
    BY <1>3 DEF InboundConnect
  <2>3. BookSound(book')
    BY <1>1, <2>2, EnsurePeer
  <2>4. E \subseteq inbound \ trusted
    BY <2>1, EvictedSet
  <2>5. PoolSound'
    BY <1>1, <2>1, <2>2, <2>4 DEF PoolSound, Outbound, Pool
  <2> QED
    BY <2>3, <2>5 DEF BookInv
<1> QED
  BY <1>2, <1>3

\* The steps of the populator.
LEMMA PopulatorStep ==
    ASSUME BookInv, Populate \/ DiscoverFromSeedPeers \/ EvictOutbound
    PROVE  BookInv'
<1>1. /\ BookSound(book') /\ UNCHANGED <<inbound, trusted, handshaking, fixedInbound>>
      /\ PoolSound /\ trusted = trusted \cap inbound /\ outbound \in OutboundType /\ handshaking \subseteq Peers
  BY DEF BookInv, PoolSound, Populate, DiscoverFromSeedPeers, EvictOutbound
<1>2. CASE Populate
  BY <1>1, <1>2, PopulateDials, PoolDials DEF BookInv
<1>3. CASE DiscoverFromSeedPeers
  BY <1>1, <1>3, SeedsDialled, PoolDials DEF BookInv, Outbound
<1>4. CASE EvictOutbound
  <2>1. PICK p : outbound' = Without(outbound, p)
    BY <1>4 DEF EvictOutbound
  <2>2. outbound' \in OutboundType /\ DOMAIN outbound' \subseteq Outbound
    BY <1>1, <2>1, OutboundElim DEF Outbound
  <2> QED
    BY <1>1, <2>2, PoolShrinks DEF BookInv
<1> QED
  BY <1>2, <1>3, <1>4

\* The end of a ban keeps the invariant.
LEMMA UnbanStep ==
    ASSUME BookInv, NEW ip, Unban(ip)
    PROVE  BookInv'
<1>1. BookSound(book') /\ UNCHANGED <<outbound, inbound, trusted, handshaking, fixedInbound>>
  BY UnbanAddress DEF BookInv, Unban
<1> QED
  BY <1>1 DEF BookInv, PoolSound, Outbound

\* Every step keeps the invariant of the book.
LEMMA BookInvStep ==
    ASSUME BookInv, [Next]_vars
    PROVE  BookInv'
<1>1. CASE UNCHANGED vars
  BY <1>1 DEF vars, BookInv, PoolSound, Outbound
<1>2. CASE Populate \/ DiscoverFromSeedPeers \/ EvictOutbound
  BY <1>2, PopulatorStep
<1>3. ASSUME NEW p \in Peers, ShrinkStep(p) PROVE BookInv'
  BY <1>3, ShrinkStepShrinks, ShrinkStepBook, PoolShrinks DEF BookInv
<1>4. ASSUME NEW p \in Peers, InboundConnect(p) PROVE BookInv'
  BY <1>4, InboundConnectStep
<1>5. CASE \E ip \in book.banned : Unban(ip)
  BY <1>5, UnbanStep
<1> QED
  BY <1>1, <1>2, <1>3, <1>4, <1>5 DEF Next, ShrinkStep

\* The book of a new node is sound.
LEMMA BookInvInit ==
    ASSUME Init
    PROVE  BookInv
<1> DEFINE tried == [lookup |-> FixedPeers \cup WhitelistedPeers, orphans |-> {},
                     bucket |-> FixedPeers \cup WhitelistedPeers]
<1>1. ListSound(tried) /\ ListExact(tried) /\ ListSound(EmptyList) /\ ListExact(EmptyList)
      /\ EmptyList.bucket = {}
  BY BookConstants DEF EmptyList, ListSound, ListExact, ListType
<1>2. [p \in Peers |-> 0] \in Failures
  <2>1. 0 \in 0 .. (MaxReconnectTries - 1)
    BY BookConstants
  <2> QED
    BY <2>1 DEF Failures
<1>3. book.new = EmptyList /\ book.tried = tried /\ book.banned = {} /\ book.evicted = FALSE
      /\ book.failures = [p \in Peers |-> 0]
  BY DEF Init, EmptyBook, EmptyList
<1>4. book \in BookType
  <2>1. DOMAIN book = {"new", "tried", "failures", "banned", "evicted"}
        /\ book = [x \in DOMAIN book |-> book[x]]
    BY DEF Init, EmptyBook
  <2> QED
    BY <1>1, <1>2, <1>3, <2>1 DEF BookType, ListSound
<1> HIDE DEF tried
<1>5. BookSound(book)
  BY <1>1, <1>3, <1>4 DEF BookSound, Exact
<1>6. outbound \in OutboundType /\ DOMAIN outbound = {}
  <2>1. outbound \in [{} -> {"connecting", "open"}]
    BY DEF Init, Connecting
  <2> QED
    BY <2>1, OutboundIntro
<1>7. PoolSound
  BY <1>6 DEF Init, PoolSound, Outbound
<1> QED
  BY <1>5, <1>7 DEF BookInv

(* ------------------------------- theorems ------------------------------ *)

\* The invariant of the book and the pool holds in every reachable state.
THEOREM BookInvariance == Spec => []BookInv
<1>1. Init => BookInv
  BY BookInvInit
<1>2. BookInv /\ [Next]_vars => BookInv'
  BY BookInvStep
<1> QED
  BY <1>1, <1>2, PTL DEF Spec

\* Until a full bucket evicts a peer, the two lists of the book are exact under
\* every order of connections, failures, updates, discoveries and bans.
THEOREM BookIsExact == Spec => []BookExact
<1>1. BookInv => BookExact
  <2> SUFFICES ASSUME BookInv PROVE BookExact
    OBVIOUS
  <2>1. TypeOK
    BY DEF BookInv, BookSound, BookType, ListSound, PoolSound, OutboundType, Failures, TypeOK
  <2> QED
    BY <2>1 DEF BookInv, BookSound, Exact, ListExact, BookExact, newPeers, triedPeers, allPeers,
                isBanned
<1> QED
  BY <1>1, BookInvariance, PTL

(* ------------------------------ the limits ----------------------------- *)

\* The outbound peers and the fixed ones, except those that have ever been inbound,
\* fit in the outbound slots: the slots kept for fixed peers are never given away
\* before that.
SlotsKept == Cardinality((Outbound \cup FixedPeers) \ fixedInbound) <= MaxOutbound

LimitInv == SlotsKept /\ InboundBounded

\* Sets of peers are finite.
LEMMA PeersFinite ==
    ASSUME NEW S \in SUBSET Peers
    PROVE  IsFiniteSet(S) /\ Cardinality(S) \in Nat
           /\ \A T \in SUBSET S : Cardinality(T) <= Cardinality(S)
<1>1. IsFiniteSet(S)
  BY BookConstants, FS_Subset
<1> QED
  BY <1>1, FS_Subset, FS_CardinalityType

\* The size of a union.
LEMMA CardinalityUnion ==
    ASSUME NEW S \in SUBSET Peers, NEW T \in SUBSET Peers
    PROVE  Cardinality(S \cup T) <= Cardinality(S) + Cardinality(T)
<1>1. Cardinality(S \cup T) = Cardinality(S) + Cardinality(T) - Cardinality(S \cap T)
  BY PeersFinite, FS_Union
<1>2. Cardinality(S \cap T) \in Nat /\ Cardinality(S) \in Nat /\ Cardinality(T) \in Nat
  BY PeersFinite
<1> QED
  BY <1>1, <1>2

\* The bound on inbound peers survives every step that leaves no more of them.
LEMMA FewerInbound ==
    ASSUME InboundBounded, inbound \ trusted \in SUBSET Peers,
           inbound' \ trusted' \in SUBSET Peers,
           Cardinality(inbound' \ trusted') <= Cardinality(inbound \ trusted)
    PROVE  InboundBounded'
<1> DEFINE n == Cardinality(inbound \ trusted)
           m == Cardinality(inbound' \ trusted')
<1>1. n \in Nat /\ m \in Nat /\ m <= n /\ Cardinality(Peers) \in Nat
  BY PeersFinite
<1> HIDE DEF n, m
<1>2. n <= MaxInbound \/ \E k \in (n - 1) .. Cardinality(Peers) : MayProtectAll(k)
  BY DEF InboundBounded, n
<1>3. m <= MaxInbound \/ \E k \in (m - 1) .. Cardinality(Peers) : MayProtectAll(k)
  BY <1>1, <1>2, PoolConstants
<1> QED
  BY <1>3 DEF InboundBounded, m, MayProtectAll

\* A step after which there are no more peers connected than before.
LEMMA LimitShrinks ==
    ASSUME BookInv, BookInv', LimitInv,
           DOMAIN outbound' \subseteq Outbound \cup FixedPeers, inbound' \subseteq inbound,
           trusted' = trusted \cap inbound', UNCHANGED fixedInbound
    PROVE  LimitInv'
<1> DEFINE before == (Outbound \cup FixedPeers) \ fixedInbound
           after  == (Outbound' \cup FixedPeers) \ fixedInbound
<1>1. before \in SUBSET Peers /\ after \in SUBSET before
  BY OutboundElim, BookConstants DEF BookInv, PoolSound, Outbound
<1>2. Cardinality(after) <= Cardinality(before) /\ Cardinality(after) \in Nat
      /\ Cardinality(before) \in Nat
  BY <1>1, PeersFinite
<1>3. SlotsKept'
  BY <1>2, PoolConstants DEF LimitInv, SlotsKept
<1>4. /\ inbound \ trusted \in SUBSET Peers
      /\ inbound' \ trusted' \in SUBSET (inbound \ trusted)
  BY DEF BookInv, PoolSound
<1>5. Cardinality(inbound' \ trusted') <= Cardinality(inbound \ trusted)
      /\ inbound' \ trusted' \in SUBSET Peers
  BY <1>4, PeersFinite
<1>6. InboundBounded'
  BY <1>4, <1>5, FewerInbound DEF LimitInv
<1> QED
  BY <1>3, <1>6 DEF LimitInv

\* As many more peers may be dialled as there are free slots.
LEMMA LimitDials ==
    ASSUME BookInv, LimitInv, NEW S \in SUBSET Peers, Cardinality(S) <= getFreeOutboundSlots,
           DOMAIN outbound' \subseteq Outbound \cup S \cup FixedPeers,
           UNCHANGED <<inbound, trusted, fixedInbound>>
    PROVE  LimitInv'
<1> DEFINE free  == FixedPeers \ Pool
           after == (Outbound' \cup FixedPeers) \ fixedInbound
<1>1. Outbound \in SUBSET Peers /\ free \in SUBSET Peers
  BY OutboundElim, BookConstants DEF BookInv, PoolSound, Outbound
<1>2. after \in SUBSET (Outbound \cup (S \cup free))
  BY DEF BookInv, PoolSound, Outbound, Pool
<1>3. Cardinality(after) <= Cardinality(Outbound \cup (S \cup free)) /\ Cardinality(after) \in Nat
      /\ Cardinality(Outbound \cup (S \cup free)) \in Nat
  BY <1>1, <1>2, PeersFinite
<1>4. /\ Cardinality(Outbound \cup (S \cup free)) <= Cardinality(Outbound) + Cardinality(S \cup free)
      /\ Cardinality(S \cup free) <= Cardinality(S) + Cardinality(free)
  BY <1>1, CardinalityUnion
<1>5. /\ Cardinality(Outbound) \in Nat /\ Cardinality(S) \in Nat /\ Cardinality(free) \in Nat
      /\ Cardinality(S \cup free) \in Nat
  BY <1>1, PeersFinite
<1>6. Cardinality(S) <= MaxOutbound - Cardinality(free) - Cardinality(Outbound)
  BY DEF getFreeOutboundSlots
<1> HIDE DEF free, after
<1>7. Cardinality(after) <= MaxOutbound
  BY <1>3, <1>4, <1>5, <1>6, PoolConstants
<1>8. InboundBounded'
  BY DEF LimitInv, InboundBounded, MayProtectAll
<1> QED
  BY <1>7, <1>8 DEF LimitInv, SlotsKept, after

\* triggerNewConnections stays within the free slots.
LEMMA PopulateLimit ==
    ASSUME BookInv, BookInv', LimitInv, Populate
    PROVE  LimitInv'
<1> DEFINE free == getFreeOutboundSlots
<1>1. PICK kept \in OutboundType, selected \in Selections(free), F \in SUBSET FixedPeers :
      \E S \in SUBSET selected :
          /\ DOMAIN kept \subseteq Outbound /\ S \cup F \in SUBSET (Peers \ inbound)
          /\ outbound' = Join(kept, Connecting(S \cup F))
  BY PopulateDials
<1>2. PICK S \in SUBSET selected :
          /\ DOMAIN kept \subseteq Outbound /\ S \cup F \in SUBSET (Peers \ inbound)
          /\ outbound' = Join(kept, Connecting(S \cup F))
  BY <1>1
<1>3. /\ DOMAIN outbound' = DOMAIN kept \cup (S \cup F)
      /\ UNCHANGED <<inbound, trusted, handshaking, fixedInbound>>
  <2>1. UNCHANGED <<inbound, trusted, handshaking, fixedInbound>>
    BY DEF Populate
  <2> QED
    BY <1>2, <2>1, PoolDials DEF BookInv
<1>4. /\ Cardinality(Outbound) \in Nat /\ Cardinality(FixedPeers \ Pool) \in Nat
      /\ free \in Int
  <2>1. Outbound \in SUBSET Peers /\ FixedPeers \ Pool \in SUBSET Peers
    BY OutboundElim, BookConstants DEF BookInv, PoolSound, Outbound
  <2> QED
    BY <2>1, PeersFinite, PoolConstants DEF getFreeOutboundSlots
<1> DEFINE candidates == allPeers(book) \ Pool
<1>5. candidates \in SUBSET Peers /\ Cardinality(candidates) \in Nat
  <2>1. allPeers(book) \subseteq Peers
    BY DEF BookInv, BookSound, BookType, ListType, allPeers, newPeers, triedPeers
  <2>2. candidates \in SUBSET Peers
    BY <2>1
  <2> QED
    BY <2>2, PeersFinite
<1>6. CASE free < 0
  <2>1. selected = {}
    BY <1>6 DEF Selections
  <2>2. DOMAIN outbound' \subseteq Outbound \cup FixedPeers
    BY <1>2, <1>3, <2>1
  <2>3. trusted' = trusted \cap inbound'
    BY <1>3 DEF BookInv, PoolSound
  <2> QED
    BY <1>3, <2>2, <2>3, LimitShrinks
<1>7. CASE ~(free < 0)
  <2>1. selected \in SUBSET Peers /\ Cardinality(selected) <= free
    <3> HIDE DEF free, candidates
    <3>1. CASE free >= Cardinality(candidates)
      <4>1. selected = candidates
        BY <1>1, <1>7, <3>1, <1>4, <1>5 DEF Selections, candidates
      <4> QED
        BY <3>1, <4>1, <1>4, <1>5
    <3>2. CASE ~(free >= Cardinality(candidates))
      <4>1. selected \in kSubset(free, candidates)
        BY <1>1, <1>7, <3>2, <1>4, <1>5 DEF Selections, candidates
      <4> QED
        BY <1>4, <1>5, <4>1 DEF kSubset
    <3> QED
      BY <3>1, <3>2
  <2>2. S \in SUBSET Peers /\ Cardinality(S) \in Nat /\ Cardinality(S) <= Cardinality(selected)
        /\ Cardinality(selected) \in Nat
    BY <1>2, <2>1, PeersFinite
  <2>3. Cardinality(S) <= free
    BY <1>4, <2>1, <2>2
  <2>4. DOMAIN outbound' \subseteq Outbound \cup S \cup FixedPeers
    BY <1>2, <1>3
  <2> QED
    BY <1>3, <2>2, <2>3, <2>4, LimitDials
<1> QED
  BY <1>6, <1>7

\* So does the discovery from seed peers.
LEMMA SeedsLimit ==
    ASSUME BookInv, LimitInv, DiscoverFromSeedPeers
    PROVE  LimitInv'
<1> DEFINE free == getFreeOutboundSlots
           k    == Min({free, Cardinality(SeedPeers)})
<1>1. PICK seeds \in kSubset(k, SeedPeers) :
      \E S \in SUBSET seeds :
          S \in SUBSET (Peers \ inbound) /\ outbound' = Join(outbound, Connecting(S))
  BY SeedsDialled
<1>2. PICK S \in SUBSET seeds :
          S \in SUBSET (Peers \ inbound) /\ outbound' = Join(outbound, Connecting(S))
  BY <1>1
<1>3. /\ DOMAIN outbound' = Outbound \cup S
      /\ UNCHANGED <<inbound, trusted, handshaking, fixedInbound>>
  <2>1. UNCHANGED <<inbound, trusted, handshaking, fixedInbound>> /\ outbound \in OutboundType
    BY DEF DiscoverFromSeedPeers, BookInv, PoolSound
  <2>2. S \in SUBSET Peers
    BY <1>2
  <2> QED
    BY <1>2, <2>1, <2>2, OutboundJoin DEF Outbound
<1>4. free \in Int /\ Cardinality(SeedPeers) \in Nat
  <2>1. Outbound \in SUBSET Peers /\ FixedPeers \ Pool \in SUBSET Peers
        /\ SeedPeers \in SUBSET Peers
    BY OutboundElim, BookConstants DEF BookInv, PoolSound, Outbound
  <2>2. Cardinality(Outbound) \in Nat /\ Cardinality(FixedPeers \ Pool) \in Nat
        /\ Cardinality(SeedPeers) \in Nat
    BY <2>1, PeersFinite
  <2> QED
    BY <2>2, PoolConstants DEF getFreeOutboundSlots
<1> HIDE DEF free
<1>5. k <= free /\ k \in Int
  <2>1. \E x \in {free, Cardinality(SeedPeers)} : \A y \in {free, Cardinality(SeedPeers)} : x <= y
    BY <1>4
  <2> QED
    BY <1>4, <2>1 DEF Min
<1>6. seeds \in SUBSET Peers /\ Cardinality(seeds) = k
  BY <1>1, BookConstants DEF kSubset
<1>7. S \in SUBSET Peers /\ Cardinality(S) \in Nat /\ Cardinality(S) <= Cardinality(seeds)
  BY <1>2, <1>6, PeersFinite
<1>8. Cardinality(S) <= free
  <2> HIDE DEF k
  <2> QED
    BY <1>4, <1>5, <1>6, <1>7
<1> QED
  BY <1>3, <1>7, <1>8, LimitDials DEF free

\* When nobody is left to evict, the ratios protect all of these many peers.
LEMMA NobodyLeft ==
    ASSUME inbound \ trusted \in SUBSET Peers, NEW left \in selectPeersForEviction, left = {}
    PROVE  MayProtectAll(Cardinality(inbound \ trusted))
<1> DEFINE peers == inbound \ trusted
           P(ratio) == filterPeersByCategory(peers, ratio)
           n == Cardinality(peers)
           unprotected == {peers \ (x \cup y \cup z) : x \in P(NetgroupProtection),
                             y \in P(LatencyProtection), z \in P(ProductivityProtection)}
<1>1. PICK u \in unprotected :
        left \in {u \ x : x \in filterPeersByCategory(u, LongevityProtection)}
  <2>1. selectPeersForEviction =
          UNION {{u \ x : x \in filterPeersByCategory(u, LongevityProtection)} : u \in unprotected}
    BY DEF selectPeersForEviction
  <2> HIDE DEF unprotected
  <2> QED
    BY <2>1
<1> HIDE DEF unprotected
<1>2. PICK d \in filterPeersByCategory(u, LongevityProtection) : left = u \ d
  BY <1>1
<1>3. PICK a \in P(NetgroupProtection), b \in P(LatencyProtection),
            c \in P(ProductivityProtection) : u = peers \ (a \cup b \cup c)
  <2>1. u \in unprotected
    BY <1>1
  <2> HIDE DEF P
  <2> QED
    BY <2>1 DEF unprotected
<1>4. /\ a \in SUBSET Peers /\ Cardinality(a) = protectedNumber(n, NetgroupProtection)
      /\ b \in SUBSET Peers /\ Cardinality(b) = protectedNumber(n, LatencyProtection)
      /\ c \in SUBSET Peers /\ Cardinality(c) = protectedNumber(n, ProductivityProtection)
  BY <1>3 DEF filterPeersByCategory, kSubset
<1>5. d \in SUBSET u /\ Cardinality(d) = protectedNumber(Cardinality(u), LongevityProtection)
  BY <1>2 DEF filterPeersByCategory, kSubset
<1>6. d = u
  BY <1>2, <1>5
<1>7. Cardinality(u) = protectedNumber(Cardinality(u), LongevityProtection)
  BY <1>5, <1>6
<1>8. /\ u \in SUBSET Peers /\ u \in SUBSET peers /\ a \cup b \in SUBSET Peers
      /\ a \cup b \cup c \in SUBSET Peers /\ u \cup (a \cup b \cup c) \in SUBSET Peers
      /\ peers \in SUBSET Peers /\ peers \in SUBSET (u \cup (a \cup b \cup c))
  BY <1>3, <1>4
<1>9. /\ Cardinality(u \cup (a \cup b \cup c)) <= Cardinality(u) + Cardinality(a \cup b \cup c)
      /\ Cardinality(a \cup b \cup c) <= Cardinality(a \cup b) + Cardinality(c)
      /\ Cardinality(a \cup b) <= Cardinality(a) + Cardinality(b)
  BY <1>4, <1>8, CardinalityUnion
<1>10. /\ n \in Nat /\ Cardinality(u) \in Nat /\ Cardinality(a) \in Nat
      /\ Cardinality(b) \in Nat /\ Cardinality(c) \in Nat /\ Cardinality(a \cup b) \in Nat
      /\ Cardinality(a \cup b \cup c) \in Nat /\ Cardinality(u \cup (a \cup b \cup c)) \in Nat
      /\ Cardinality(u) <= n /\ n <= Cardinality(u \cup (a \cup b \cup c))
  BY <1>4, <1>8, PeersFinite
<1>11. n - Cardinality(u) <= Cardinality(a) + Cardinality(b) + Cardinality(c)
  <2> HIDE DEF n
  <2> QED
    BY <1>9, <1>10
<1>12. Cardinality(u) \in 0 .. n /\ Cardinality(u) <= protectedNumber(Cardinality(u), LongevityProtection)
  <2> HIDE DEF n
  <2> QED
    BY <1>7, <1>10
<1> QED
  BY <1>4, <1>11, <1>12 DEF MayProtectAll

\* A new inbound peer takes the place of another, unless there is room for both
\* or nobody may be evicted.
LEMMA InboundConnectLimit ==
    ASSUME BookInv, BookInv', LimitInv, NEW p \in Peers, InboundConnect(p)
    PROVE  LimitInv'
<1>1. inbound \in SUBSET Peers /\ trusted \in SUBSET inbound /\ UNCHANGED outbound
      /\ (Outbound \cup FixedPeers) \ fixedInbound \in SUBSET Peers
      /\ fixedInbound \subseteq fixedInbound'
  BY OutboundElim, BookConstants DEF BookInv, PoolSound, Outbound, InboundConnect
<1>2. SlotsKept'
  <2> DEFINE before == (Outbound \cup FixedPeers) \ fixedInbound
             after  == (Outbound \cup FixedPeers) \ fixedInbound'
  <2>1. after \in SUBSET before /\ before \in SUBSET Peers
    BY <1>1
  <2>2. Cardinality(after) <= Cardinality(before) /\ Cardinality(after) \in Nat
        /\ Cardinality(before) \in Nat
    BY <2>1, PeersFinite
  <2> HIDE DEF before, after
  <2>3. Cardinality(after) <= MaxOutbound
    BY <2>2, PoolConstants DEF LimitInv, SlotsKept, before
  <2> QED
    BY <1>1, <2>3 DEF SlotsKept, Outbound, after
<1> DEFINE ordinary == inbound \ trusted
           after == inbound' \ trusted'
<1>3. ordinary \in SUBSET Peers /\ after \in SUBSET Peers
  BY DEF BookInv, PoolSound
<1>4. InboundBounded'
  <2>1. CASE UNCHANGED <<inbound, trusted>>
    BY <2>1 DEF LimitInv, InboundBounded, MayProtectAll
  <2>2. CASE ~UNCHANGED <<inbound, trusted>>
    <3>1. PICK E \in InboundEvicted :
            /\ inbound' = (inbound \ E) \cup {p}
            /\ trusted' = IF hasTrustedKind(book, p) THEN trusted \cup {p} ELSE trusted
      BY <2>2 DEF InboundConnect
    <3> DEFINE left == ordinary \ E
    <3>2. left \in SUBSET ordinary /\ left \in SUBSET Peers /\ left \cup {p} \in SUBSET Peers
          /\ after \in SUBSET (left \cup {p})
      BY <1>3, <3>1
    <3>3. /\ Cardinality(left) \in Nat /\ Cardinality(left \cup {p}) \in Nat
          /\ Cardinality(after) \in Nat /\ Cardinality(ordinary) \in Nat
          /\ Cardinality(inbound) \in Nat /\ Cardinality(Peers) \in Nat
          /\ Cardinality(after) <= Cardinality(left \cup {p})
          /\ Cardinality(left) <= Cardinality(ordinary)
          /\ Cardinality(ordinary) <= Cardinality(inbound)
          /\ Cardinality(ordinary) <= Cardinality(Peers)
      BY <1>1, <1>3, <3>2, PeersFinite
    <3>4. Cardinality(left \cup {p}) <= Cardinality(left) + 1
      <4> HIDE DEF left
      <4>1. Cardinality(left \cup {p}) =
              IF p \in left THEN Cardinality(left) ELSE Cardinality(left) + 1
        BY <3>2, PeersFinite, FS_AddElement
      <4> QED
        BY <3>3, <4>1
    <3> HIDE DEF after, left, ordinary
    <3>5. CASE Cardinality(inbound) < MaxInbound
      <4>1. Cardinality(after) <= MaxInbound
        BY <3>3, <3>4, <3>5, PoolConstants
      <4> QED
        BY <4>1 DEF InboundBounded, after
    <3>6. CASE ~(Cardinality(inbound) < MaxInbound)
      <4>1. PICK s \in selectPeersForEviction : E \in IF s = {} THEN {{}} ELSE {{q} : q \in s}
        BY <3>1, <3>6 DEF InboundEvicted
      <4>2. CASE s = {}
        <5>1. MayProtectAll(Cardinality(ordinary))
          BY <1>3, <4>1, <4>2, NobodyLeft DEF ordinary
        <5>2. Cardinality(ordinary) \in (Cardinality(after) - 1) .. Cardinality(Peers)
          BY <3>3, <3>4
        <5>3. \E k \in (Cardinality(after) - 1) .. Cardinality(Peers) : MayProtectAll(k)
          BY <5>1, <5>2
        <5> QED
          BY <5>3 DEF InboundBounded, after, MayProtectAll
      <4>3. CASE s # {}
        <5>1. PICK q \in s : E = {q}
          BY <4>1, <4>3
        <5>2. q \in ordinary
          BY <3>1, <5>1, EvictedSet DEF ordinary
        <5>3. Cardinality(left) = Cardinality(ordinary) - 1
          BY <1>3, <5>1, <5>2, FS_RemoveElement, PeersFinite DEF left
        <5>4. Cardinality(after) <= Cardinality(ordinary)
          BY <3>3, <3>4, <5>3
        <5> QED
          BY <1>3, <5>4, FewerInbound DEF LimitInv, after, ordinary
      <4> QED
        BY <4>2, <4>3
    <3> QED
      BY <3>5, <3>6
  <2> QED
    BY <2>1, <2>2
<1> QED
  BY <1>2, <1>4 DEF LimitInv

\* A node that has a slot for every fixed peer exceeds its limits only by the fixed
\* peers that have connected to it, and by the inbound peers that the protection
\* ratios shield: whatever answers come late, and whenever the populator, the
\* discovery and the shuffle run.
THEOREM ConnectionsAreBounded ==
    ASSUME Cardinality(FixedPeers) <= MaxOutbound
    PROVE  Spec => []ConnectionsBounded
<1>1. Init => BookInv /\ LimitInv
  <2> SUFFICES ASSUME Init PROVE LimitInv
    BY BookInvInit
  <2>1. Outbound = {} /\ inbound = {} /\ trusted = {} /\ fixedInbound = {}
    BY DEF Init, Connecting, Outbound
  <2>2. (Outbound \cup FixedPeers) \ fixedInbound = FixedPeers /\ inbound \ trusted = {}
    BY <2>1
  <2> QED
    BY <2>2, FS_EmptySet, PoolConstants DEF LimitInv, SlotsKept, InboundBounded
<1>2. BookInv /\ LimitInv /\ [Next]_vars => BookInv' /\ LimitInv'
  <2> SUFFICES ASSUME BookInv, LimitInv, [Next]_vars PROVE LimitInv'
    BY BookInvStep
  <2>1. BookInv'
    BY BookInvStep
  <2>2. CASE UNCHANGED vars \/ \E ip \in book.banned : Unban(ip)
    <3>1. UNCHANGED <<outbound, inbound, trusted, fixedInbound>>
      BY <2>2 DEF vars, Unban
    <3>2. trusted' = trusted \cap inbound'
      BY <3>1 DEF BookInv, PoolSound
    <3> QED
      BY <2>1, <3>1, <3>2, LimitShrinks DEF Outbound
  <2>3. CASE Populate
    BY <2>1, <2>3, PopulateLimit
  <2>4. CASE DiscoverFromSeedPeers
    BY <2>4, SeedsLimit
  <2>5. CASE EvictOutbound
    <3>1. PICK p : outbound' = Without(outbound, p)
      BY <2>5 DEF EvictOutbound
    <3>2. trusted' = trusted \cap inbound'
      BY <2>5 DEF EvictOutbound, BookInv, PoolSound
    <3> QED
      BY <2>1, <2>5, <3>1, <3>2, LimitShrinks DEF EvictOutbound, Without, Outbound
  <2>6. ASSUME NEW p \in Peers, ShrinkStep(p) PROVE LimitInv'
    BY <2>1, <2>6, ShrinkStepShrinks, LimitShrinks DEF BookInv
  <2>7. ASSUME NEW p \in Peers, InboundConnect(p) PROVE LimitInv'
    BY <2>1, <2>7, InboundConnectLimit
  <2> QED
    BY <2>2, <2>3, <2>4, <2>5, <2>6, <2>7 DEF Next, ShrinkStep
<1>3. BookInv /\ LimitInv => ConnectionsBounded
  <2> SUFFICES ASSUME BookInv, LimitInv PROVE OutboundBounded
    BY DEF LimitInv, ConnectionsBounded
  <2> DEFINE counted == (Outbound \cup FixedPeers) \ fixedInbound
  <2>1. /\ Outbound \in SUBSET (counted \cup fixedInbound) /\ counted \in SUBSET Peers
        /\ fixedInbound \in SUBSET Peers
    BY OutboundElim, BookConstants DEF BookInv, PoolSound, Outbound
  <2>2. Cardinality(counted \cup fixedInbound) <= Cardinality(counted) + Cardinality(fixedInbound)
    BY <2>1, CardinalityUnion
  <2>3. counted \cup fixedInbound \in SUBSET Peers
    BY <2>1
  <2>4. /\ Cardinality(Outbound) <= Cardinality(counted \cup fixedInbound)
        /\ Cardinality(Outbound) \in Nat /\ Cardinality(counted \cup fixedInbound) \in Nat
        /\ Cardinality(counted) \in Nat /\ Cardinality(fixedInbound) \in Nat
    BY <2>1, <2>3, PeersFinite
  <2>5. Cardinality(counted) <= MaxOutbound
    BY DEF LimitInv, SlotsKept
  <2> HIDE DEF counted
  <2> QED
    BY <2>2, <2>4, <2>5, PoolConstants DEF OutboundBounded
<1> QED
  BY <1>1, <1>2, <1>3, PTL DEF Spec
==============================================================================
