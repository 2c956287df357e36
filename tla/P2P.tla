-------------------------------- MODULE P2P --------------------------------
(***************************************************************************)
(* The peer pool and the peer server of the P2P library of one node        *)
(* (elements/p2p/src), on top of its peer book: outbound connections made  *)
(* by the populator, inbound ones, evictions, failures, discovery and bans.*)
(* A socket is connecting or open.  Reputation is left out: a penalty may  *)
(* be the one that bans the peer.  Time is left out: timers may fire at any*)
(* moment.                                                                 *)
(***************************************************************************)
EXTENDS PeerBook, FiniteSetsExt

CONSTANTS
    MaxOutbound, MaxInbound,  \* maxOutboundConnections, maxInboundConnections
    \* The protection ratios of inbound peers, in thousandths.
    NetgroupProtection, LatencyProtection, ProductivityProtection, LongevityProtection,
    MaxBans                   \* bound: bans

ASSUME PoolConstants ==
    {MaxOutbound, MaxInbound, NetgroupProtection, LatencyProtection,
     ProductivityProtection, LongevityProtection, MaxBans} \subseteq Nat

VARIABLES
    book,         \* the peer book
    outbound,     \* outbound peers of the pool -> "connecting" or "open"
    inbound,      \* inbound peers of the pool
    trusted,      \* those of them whose peerKind is fixed or whitelisted
    handshaking,  \* accepted by the server, not in the pool yet
    bans,         \* counts what MaxBans bounds
    fixedInbound  \* history: fixed peers that have connected to this node

vars == <<book, outbound, inbound, trusted, handshaking, bans, fixedInbound>>

Outbound == DOMAIN outbound
Pool     == Outbound \cup inbound
Open(p)  == p \in inbound \/ (p \in Outbound /\ outbound[p] = "open")

Without(f, p) == [q \in DOMAIN f \ {p} |-> f[q]]

\* Mutant: no slots are kept for the fixed peers that are not connected.
freeForAll == MaxOutbound - Cardinality(Outbound)

getFreeOutboundSlots ==
    MaxOutbound - Cardinality(FixedPeers \ Pool) - Cardinality(Outbound)

(* ------------------------------ populator ------------------------------- *)

\* Peers dialled one after the other: one per address, none that is banned.
Dialled(conns, others, candidates) ==
    {S \in SUBSET (candidates \ (DOMAIN conns \cup others)) :
        /\ \A p \in S : ~isBanned(book, p)
        /\ \A p \in S, q \in DOMAIN conns \cup S : p # q => Ip[p] # Ip[q]}

\* The largest such sets: who is left out shares the address of another.
AllDialled(conns, others, candidates) ==
    {S \in Dialled(conns, others, candidates) :
        \A T \in Dialled(conns, others, candidates) : ~(S \subseteq T /\ S # T)}

Connecting(S) == [p \in S |-> "connecting"]
Join(f, g)    == [p \in DOMAIN f \cup DOMAIN g |-> IF p \in DOMAIN f THEN f[p] ELSE g[p]]

\* selectPeersForConnection among listed peers that are not connected.
Selections(limit) ==
    LET candidates == allPeers(book) \ Pool
    IN  IF limit < 0 THEN {{}}
        ELSE IF limit >= Cardinality(candidates) THEN {candidates}
        ELSE kSubset(limit, candidates)

\* triggerNewConnections.  With no free slot the seed peers are given up.
Populate ==
    LET free  == getFreeOutboundSlots
        given == IF free = 0 THEN (Outbound \cap SeedPeers) \ FixedPeers ELSE {}
        kept  == [p \in Outbound \ given |-> outbound[p]]
    IN  /\ \E selected \in Selections(free) :
           \E S \in AllDialled(kept, inbound, selected) :
           \E F \in AllDialled(Join(kept, Connecting(S)), inbound, FixedPeers) :
                outbound' = Join(kept, Connecting(S \cup F))
        /\ UNCHANGED <<book, inbound, trusted, handshaking, bans, fixedInbound>>

\* discoverFromSeedPeers, when its interval is over.
DiscoverFromSeedPeers ==
    /\ getFreeOutboundSlots > 0
    /\ \E seeds \in kSubset(Min({getFreeOutboundSlots, Cardinality(SeedPeers)}), SeedPeers) :
       \E S \in AllDialled(outbound, inbound, seeds) :
            outbound' = Join(outbound, Connecting(S))
    /\ UNCHANGED <<book, inbound, trusted, handshaking, bans, fixedInbound>>

\* The shuffle of the outbound peers.
EvictOutbound ==
    /\ \E p \in Outbound \ FixedPeers : outbound' = Without(outbound, p)
    /\ UNCHANGED <<book, inbound, trusted, handshaking, bans, fixedInbound>>

(* ------------------------- outbound connections ------------------------- *)

SocketConnect(p) ==
    /\ p \in Outbound /\ outbound[p] = "connecting"
    /\ outbound' = [outbound EXCEPT ![p] = "open"]
    /\ UNCHANGED <<book, inbound, trusted, handshaking, bans, fixedInbound>>

\* connectAbort, followed by close.
ConnectAbort(p) ==
    /\ p \in Outbound /\ outbound[p] = "connecting"
    /\ book' \in {updatePeer(b, p) :
                    b \in IF hasPeer(book, p) THEN downgradePeer(book, p) ELSE {book}}
    /\ outbound' = Without(outbound, p)
    /\ UNCHANGED <<inbound, trusted, handshaking, bans, fixedInbound>>

\* EVENT_CONNECT_OUTBOUND.
OutboundConnected(p) ==
    /\ p \in Outbound /\ Open(p)
    /\ book' \in EnsureTried(book, p)
    /\ UNCHANGED <<outbound, inbound, trusted, handshaking, bans, fixedInbound>>

\* EVENT_UPDATED_PEER_INFO, of either kind of peer.
PeerInfoUpdate(p) ==
    /\ Open(p)
    /\ book' \in UNION {IF isUpdated(b, p) THEN upgradePeer(updatePeer(b, p), p) ELSE {b} :
                           b \in Ensure(book, p)}
    /\ UNCHANGED <<outbound, inbound, trusted, handshaking, bans, fixedInbound>>

\* A connected peer tells of another one.
DiscoveredPeer(p) ==
    /\ Pool # {} /\ ~hasPeer(book, p)
    /\ book' \in addPeer(book, p)
    /\ UNCHANGED <<outbound, inbound, trusted, handshaking, bans, fixedInbound>>

Close(p) ==
    /\ Open(p)
    /\ book' = IF hasPeer(book, p) THEN updatePeer(book, p) ELSE book
    /\ outbound' = Without(outbound, p)
    /\ inbound' = inbound \ {p} /\ trusted' = trusted \ {p}
    /\ UNCHANGED <<handshaking, bans, fixedInbound>>

(* ------------------------- inbound connections -------------------------- *)

\* The server declines banned addresses when the socket is opened.  (Bound: one
\* handshake at a time.)
Handshake(p) ==
    /\ handshaking = {} /\ ~isBanned(book, p)
    /\ handshaking' = handshaking \cup {p}
    /\ UNCHANGED <<book, outbound, inbound, trusted, bans, fixedInbound>>

protectedNumber(n, ratio) == IF ratio > 1000 THEN n ELSE (n * ratio + 999) \div 1000

\* Any peers may be the best of a category.
filterPeersByCategory(peers, ratio) ==
    kSubset(protectedNumber(Cardinality(peers), ratio), peers)

\* What may be left of the inbound peers that are neither fixed nor whitelisted.
selectPeersForEviction ==
    LET peers == inbound \ trusted
        unprotected == {peers \ (n \cup l \cup r) :
                            n \in filterPeersByCategory(peers, NetgroupProtection),
                            l \in filterPeersByCategory(peers, LatencyProtection),
                            r \in filterPeersByCategory(peers, ProductivityProtection)}
    IN  UNION {{u \ c : c \in filterPeersByCategory(u, LongevityProtection)} :
                 u \in unprotected}

\* Mutant: no room is made in a pool that is over its limit already.
EvictedWhenJustFull ==
    IF Cardinality(inbound) # MaxInbound THEN {{}}
    ELSE UNION {IF left = {} THEN {{}} ELSE {{p} : p \in left} :
                  left \in selectPeersForEviction}

\* Whom _evictPeer may disconnect to make room: nobody when all are protected.
InboundEvicted ==
    IF Cardinality(inbound) < MaxInbound THEN {{}}
    ELSE UNION {IF left = {} THEN {{}} ELSE {{p} : p \in left} :
                  left \in selectPeersForEviction}

\* addInboundPeer, and the book.  The kind of the peer is the one the book has.
InboundConnect(p) ==
    /\ p \in handshaking
    /\ handshaking' = handshaking \ {p}
    /\ \/ p \in Pool /\ UNCHANGED <<book, inbound, trusted, fixedInbound>>
       \/ /\ p \notin Pool
          /\ \E E \in InboundEvicted :
                /\ inbound' = (inbound \ E) \cup {p}
                /\ trusted' = IF hasTrustedKind(book, p) THEN trusted \cup {p} ELSE trusted
          /\ book' \in Ensure(book, p)
          /\ fixedInbound' = fixedInbound \cup ({p} \cap FixedPeers)
    /\ UNCHANGED <<outbound, bans>>

(* --------------------------------- bans --------------------------------- *)

\* A peer of the pool loses its reputation.
BanPeer(p) ==
    /\ bans < MaxBans /\ Open(p)
    /\ bans' = bans + 1
    /\ book' = addBannedPeer(book, p)
    /\ outbound' = Without(outbound, p)
    /\ inbound' = inbound \ {p} /\ trusted' = trusted \ {p}
    /\ UNCHANGED <<handshaking, fixedInbound>>

\* The server bans the sender of an invalid message or control frame, by the
\* port of its socket: no peer of the pool or of the lists has that id.
BanSocket(p) ==
    /\ bans < MaxBans /\ p \in handshaking \cup inbound /\ ~isBanned(book, p)
    /\ bans' = bans + 1
    /\ book' = banAddress(book, Ip[p])
    /\ handshaking' = handshaking \ {p}
    /\ inbound' = inbound \ {p} /\ trusted' = trusted \ {p}
    /\ UNCHANGED <<outbound, fixedInbound>>

Unban(ip) ==
    /\ ip \in book.banned
    /\ book' = removeBannedPeer(book, ip)
    /\ UNCHANGED <<outbound, inbound, trusted, handshaking, bans, fixedInbound>>

(* ---------------------------- specification ----------------------------- *)

\* Fixed and whitelisted peers are tried from the beginning.
Init ==
    /\ book = [EmptyBook EXCEPT !.tried.lookup = FixedPeers \cup WhitelistedPeers,
                                !.tried.bucket = FixedPeers \cup WhitelistedPeers]
    /\ outbound = Connecting({}) /\ inbound = {} /\ trusted = {} /\ handshaking = {}
    /\ bans = 0 /\ fixedInbound = {}

Next ==
    \/ Populate \/ DiscoverFromSeedPeers \/ EvictOutbound
    \/ \E p \in Peers :
        \/ SocketConnect(p) \/ ConnectAbort(p) \/ OutboundConnected(p)
        \/ PeerInfoUpdate(p) \/ DiscoveredPeer(p) \/ Close(p)
        \/ Handshake(p) \/ InboundConnect(p)
        \/ BanPeer(p) \/ BanSocket(p)
    \/ \E ip \in book.banned : Unban(ip)

Spec == Init /\ [][Next]_vars

UnbanSome == \E ip \in book.banned : Unban(ip)

\* The populator is an interval, and a ban a timeout.
FairSpec == Spec /\ WF_vars(Populate) /\ WF_vars(UnbanSome)

(* ------------------------------ properties ------------------------------ *)

\* The state is well formed, and no peer is in the pool twice.
TypeOK ==
    /\ outbound \in UNION {[S -> {"connecting", "open"}] : S \in SUBSET Peers}
    /\ trusted \subseteq inbound /\ inbound \subseteq Peers \ Outbound
    /\ handshaking \subseteq Peers
    /\ \A list \in {book.new, book.tried} :
        list.orphans \subseteq list.lookup /\ list.bucket \subseteq list.lookup
    /\ book.failures \in [Peers -> 0 .. (MaxReconnectTries - 1)]

\* Until a full bucket evicts, the lookup and the bucket of each list agree, no
\* peer is new and tried at once, and no banned address is listed: connections,
\* failures, updates and bans, in any order, keep the book exact.
BookExact ==
    /\ TypeOK
    /\ ~book.evicted =>
           /\ \A list \in {book.new, book.tried} :
                  list.lookup = list.bucket /\ list.orphans = {}
           /\ newPeers(book) \cap triedPeers(book) = {}
           /\ \A p \in allPeers(book) : ~isBanned(book, p)

\* The outbound limit holds with the slots kept for fixed peers, except for the
\* fixed peers that were connected as inbound peers, whose slots are given away:
\* no sequence of dials, late answers and disconnections exceeds it further.
OutboundBounded ==
    Cardinality(Outbound) <= MaxOutbound + Cardinality(fixedInbound)

\* The protection ratios may leave nobody of n peers: m are not protected by the
\* first three, and all of these are protected by longevity.
MayProtectAll(n) ==
    \E m \in 0 .. n :
        /\ n - m <= protectedNumber(n, NetgroupProtection)
                  + protectedNumber(n, LatencyProtection)
                  + protectedNumber(n, ProductivityProtection)
        /\ m <= protectedNumber(m, LongevityProtection)

\* The inbound peers that are neither fixed nor whitelisted exceed their limit
\* only as far as the ratios may protect all of them (up to 5 peers by default):
\* then the server makes no room, and takes one more.
InboundBounded ==
    LET n == Cardinality(inbound \ trusted)
    IN  n <= MaxInbound \/ \E k \in (n - 1) .. Cardinality(Peers) : MayProtectAll(k)

\* Both limits (PeerPool.triggerNewConnections, addInboundPeer, _evictPeer).
ConnectionsBounded == OutboundBounded /\ InboundBounded

\* A fixed peer that is not connected is dialled again, whatever happens.
FixedReconnected ==
    \A p \in FixedPeers : p \notin Pool ~> p \in Pool
=============================================================================
