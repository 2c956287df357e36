--------------------------- MODULE BFTChainProofs ---------------------------
(***************************************************************************)
(* Theorems about BFTChain, for every set of validators and updates and    *)
(* every bound.  The inductive invariant says of the state after each      *)
(* block of the chain, those that a deletion may put back included, how    *)
(* its votes, its parameters and the headers up to that block are related. *)
(***************************************************************************)
EXTENDS BFTChain, TLAPS, FiniteSetTheorems, WellFoundedInduction

(* -------------------------- least and greatest ------------------------- *)

\* A nonempty set of naturals has a least element, and Min denotes it.
LEMMA MinOfNaturals ==
    ASSUME NEW S \in SUBSET Nat, S # {}
    PROVE  Min(S) \in S /\ \A n \in S : Min(S) <= n
<1> DEFINE R == {ss \in Nat \X Nat : ss[1] < ss[2]}
<1>1. IsWellFoundedOn(R, Nat)
  BY NatLessThanWellFounded, Zenon DEF OpToRel
<1> HIDE DEF R
<1>2. \E x \in S : \A y \in S : <<y, x>> \notin R
  BY <1>1, WFMin, Zenon
<1>3. \A x \in Nat, y \in Nat : <<y, x>> \notin R => x <= y
  BY DEF R
<1>4. \E x \in S : \A y \in S : x <= y
  BY <1>2, <1>3
<1> QED
  BY <1>4 DEF Min

\* A nonempty bounded set of naturals has a greatest element, and Max denotes it.
LEMMA MaxOfNaturals ==
    ASSUME NEW S \in SUBSET Nat, S # {}, NEW b \in Nat, \A x \in S : x <= b
    PROVE  Max(S) \in S /\ \A x \in S : x <= Max(S)
<1> DEFINE D == {b - x : x \in S}
<1>1. D \in SUBSET Nat /\ D # {}
  <2>1. \A x \in S : b - x \in Nat
    OBVIOUS
  <2> QED
    BY <2>1
<1>2. Min(D) \in D /\ \A d \in D : Min(D) <= d
  BY <1>1, MinOfNaturals
<1>3. PICK x \in S : Min(D) = b - x
  BY <1>2
<1>4. \A y \in S : y <= x
  <2> TAKE y \in S
  <2>1. b - y \in D
    OBVIOUS
  <2>2. Min(D) <= b - y
    BY <2>1, <1>2
  <2>3. x \in Nat /\ y \in Nat /\ b - x <= b - y
    BY <2>2, <1>3
  <2> QED
    BY <2>3
<1>5. \E z \in S : \A y \in S : z >= y
  BY <1>4
<1> QED
  BY <1>5 DEF Max

\* The greatest element of a set of naturals is the only one.
LEMMA MaxIs ==
    ASSUME NEW S \in SUBSET Nat, NEW m \in S, \A x \in S : x <= m
    PROVE  Max(S) = m
<1>1. \E z \in S : \A y \in S : z >= y
  OBVIOUS
<1>2. Max(S) \in S /\ \A y \in S : Max(S) >= y
  BY <1>1 DEF Max
<1>3. Max(S) \in Nat /\ m \in Nat /\ Max(S) >= m /\ Max(S) <= m
  BY <1>2
<1> QED
  BY <1>3

(* ------------------------------ parameters ----------------------------- *)

\* The parameters record of an update.
ParametersOf(u) ==
    [prevoteThreshold     |-> (2 * AggregateBFTWeight(u.validators)) \div 3 + 1,
     precommitThreshold   |-> u.precommitThreshold,
     certificateThreshold |-> u.certificateThreshold,
     validators           |-> u.validators,
     validatorsHash       |-> computeValidatorsHash(u.validators, u.certificateThreshold)]

AllUpdates     == {u \in Updates \cup {GenesisUpdate} : IsValidUpdate(u)}
ParametersType == {ParametersOf(u) : u \in AllUpdates}
AddressType    == UNION {Addresses(u.validators) : u \in AllUpdates}

\* Thresholds and weights are numbers.
LEMMA ParametersAreTyped ==
    ASSUME NEW p \in ParametersType
    PROVE  /\ p.prevoteThreshold \in Int /\ p.precommitThreshold \in Int
           /\ Addresses(p.validators) \subseteq AddressType
           /\ \A a \in Addresses(p.validators) : WeightOf(p.validators, a) \in Nat
<1>1. PICK u \in AllUpdates : p = ParametersOf(u)
  BY DEF ParametersType
<1>2. p.prevoteThreshold = (2 * AggregateBFTWeight(u.validators)) \div 3 + 1
      /\ p.precommitThreshold = u.precommitThreshold /\ p.validators = u.validators
  BY <1>1 DEF ParametersOf
<1>3. AggregateBFTWeight(u.validators) \in Nat
      /\ \A i \in DOMAIN u.validators : u.validators[i].bftWeight \in Nat
  BY WeightsAssumption DEF AllUpdates
<1>4. u.precommitThreshold \in Int
  <2>1. u.precommitThreshold \in ((AggregateBFTWeight(u.validators) \div 3) + 1)
                                    .. AggregateBFTWeight(u.validators)
    BY DEF AllUpdates, IsValidUpdate, ValidBFTParameters
  <2> QED
    BY <2>1, <1>3
<1>5. ASSUME NEW a \in Addresses(p.validators)
      PROVE  WeightOf(p.validators, a) \in Nat
  <2>1. \E i \in DOMAIN u.validators : u.validators[i].address = a
    BY <1>2, <1>5 DEF Addresses
  <2> QED
    BY <2>1, <1>2, <1>3 DEF WeightOf
<1>6. Addresses(p.validators) \subseteq AddressType
  BY <1>2 DEF AddressType
<1> QED
  BY <1>2, <1>3, <1>4, <1>5, <1>6

\* p holds the keys of q from its first key c on, with the same records.
Suffix(p, q, c) ==
    /\ c \in DOMAIN p
    /\ DOMAIN p \subseteq DOMAIN q
    /\ \A k \in DOMAIN p : p[k] = q[k]
    /\ \A k \in DOMAIN q : k >= c <=> k \in DOMAIN p

\* From its first key on, a height finds the record of its largest key below.
LEMMA LookedUp ==
    ASSUME NEW p, DOMAIN p \subseteq Nat, NEW h \in Nat, ParametersExist(p, h)
    PROVE  \E k \in DOMAIN p : /\ k <= h /\ getBFTParameters(p, h) = p[k]
                               /\ \A j \in DOMAIN p : j <= h => j <= k
<1> DEFINE S == {k \in DOMAIN p : k <= h}
<1>1. S \in SUBSET Nat /\ S # {} /\ \A x \in S : x <= h
  BY DEF ParametersExist
<1>2. Max(S) \in S /\ \A x \in S : x <= Max(S)
  BY <1>1, MaxOfNaturals
<1> QED
  BY <1>2 DEF getBFTParameters

\* The record of a height is that of its largest key below.
LEMMA LookedUpIs ==
    ASSUME NEW p, DOMAIN p \subseteq Nat, NEW h \in Nat, NEW k \in DOMAIN p, k <= h,
           \A j \in DOMAIN p : j <= h => j <= k
    PROVE  getBFTParameters(p, h) = p[k]
<1> DEFINE S == {j \in DOMAIN p : j <= h}
<1>1. Max(S) = k
  BY MaxIs
<1> QED
  BY <1>1 DEF getBFTParameters

\* From c on, looking up a suffix is looking up the whole.
LEMMA SuffixLooksUp ==
    ASSUME NEW p, NEW q, DOMAIN q \subseteq Nat, NEW c, Suffix(p, q, c), NEW h \in Nat, c <= h
    PROVE  /\ ParametersExist(p, h)
           /\ getBFTParameters(p, h) = getBFTParameters(q, h)
           /\ getBFTParameters(q, h) \in {q[k] : k \in DOMAIN q}
<1>1. ParametersExist(p, h) /\ DOMAIN p \subseteq Nat
  BY DEF Suffix, ParametersExist
<1>2. PICK k \in DOMAIN p : /\ k <= h /\ getBFTParameters(p, h) = p[k]
                            /\ \A j \in DOMAIN p : j <= h => j <= k
  BY <1>1, LookedUp
<1>3. k \in DOMAIN q /\ p[k] = q[k] /\ c <= k /\ c \in Nat
  BY <1>2 DEF Suffix
<1>4. \A j \in DOMAIN q : j <= h => j <= k
  <2> TAKE j \in DOMAIN q
  <2>1. CASE j >= c
    BY <2>1, <1>2 DEF Suffix
  <2>2. CASE ~(j >= c)
    BY <2>2, <1>3, <1>2
  <2> QED
    BY <2>1, <2>2
<1>5. getBFTParameters(q, h) = q[k]
  BY <1>2, <1>3, <1>4, LookedUpIs
<1> QED
  BY <1>1, <1>2, <1>3, <1>5

\* The parameters q with the record r for the height n on top.
WithKey(q, n, r) == [k \in DOMAIN q \cup {n} |-> IF k = n THEN r ELSE q[k]]

\* A new key beyond a height does not change what the height finds.
LEMMA LaterKeyUnread ==
    ASSUME NEW q, DOMAIN q \subseteq Nat, NEW h \in Nat, ParametersExist(q, h),
           NEW n \in Nat, h < n, NEW r
    PROVE  getBFTParameters(WithKey(q, n, r), h) = getBFTParameters(q, h)
<1> DEFINE q2 == WithKey(q, n, r)
<1>1. PICK k \in DOMAIN q : /\ k <= h /\ getBFTParameters(q, h) = q[k]
                            /\ \A j \in DOMAIN q : j <= h => j <= k
  BY LookedUp
<1>2. DOMAIN q2 \subseteq Nat /\ k \in DOMAIN q2 /\ q2[k] = q[k]
      /\ \A j \in DOMAIN q2 : j <= h => j <= k
  BY <1>1 DEF WithKey
<1> HIDE DEF q2
<1>3. getBFTParameters(q2, h) = q2[k]
  BY <1>1, <1>2, LookedUpIs
<1> QED
  BY <1>1, <1>2, <1>3 DEF q2

\* Adding a record beyond every key keeps a suffix a suffix.
LEMMA SuffixGrows ==
    ASSUME NEW p, NEW q, DOMAIN q \subseteq Nat, NEW c, Suffix(p, q, c),
           NEW n \in Nat, c <= n, NEW r
    PROVE  Suffix(WithKey(p, n, r), WithKey(q, n, r), c)
  BY DEF Suffix, WithKey

\* Deleting parameters up to a height leaves a suffix that begins no later than
\* that height, or where it began.
LEMMA DeletionKeepsSuffix ==
    ASSUME NEW p, NEW q, DOMAIN q \subseteq Nat, NEW c, Suffix(p, q, c), NEW h \in Int
    PROVE  \E d : Suffix(deleteBFTParameters(p, h), q, d) /\ (d = c \/ d <= h)
<1> DEFINE upTo == {k \in DOMAIN p : k <= h}
           kept == {k \in DOMAIN p : k > h \/ \A j \in upTo : j <= k}
           r    == deleteBFTParameters(p, h)
<1>1. r = [k \in kept |-> p[k]]
  BY DEF deleteBFTParameters, Restrict
<1>2. DOMAIN r = kept /\ \A k \in kept : r[k] = p[k]
  BY <1>1
<1>3. DOMAIN p \subseteq Nat
  BY DEF Suffix
<1> HIDE DEF r
<1>4. CASE upTo = {}
  <2>1. kept = DOMAIN p
    BY <1>3, <1>4
  <2>2. Suffix(r, q, c)
    BY <2>1, <1>2 DEF Suffix
  <2> QED
    BY <2>2 DEF r
<1>5. CASE upTo # {}
  <2>1. h \in Nat /\ upTo \in SUBSET Nat /\ \A x \in upTo : x <= h
    BY <1>3, <1>5
  <2>2. Max(upTo) \in upTo /\ \A x \in upTo : x <= Max(upTo)
    BY <2>1, <1>5, MaxOfNaturals
  <2> DEFINE d == Max(upTo)
  <2> HIDE DEF d
  <2>3. d \in kept /\ d <= h /\ d \in Nat
    BY <2>1, <2>2 DEF d
  <2>4. \A k \in DOMAIN q : k >= d => k \in kept
    <3> TAKE k \in DOMAIN q
    <3> HAVE k >= d
    <3>1. d \in DOMAIN p /\ d >= c
      BY <2>2, <1>3 DEF d, Suffix
    <3>2. k \in DOMAIN p
      BY <3>1, <2>3, <1>3 DEF Suffix
    <3> QED
      BY <3>2, <2>2, <2>1, <1>3 DEF d
  <2>5. \A k \in kept : k >= d
    BY <2>1, <2>2, <2>3, <1>3 DEF d
  <2>6. Suffix(r, q, d)
    BY <2>3, <2>4, <2>5, <1>2 DEF Suffix
  <2> QED
    BY <2>3, <2>6 DEF r
<1> QED
  BY <1>4, <1>5

(* -------------------------------- votes -------------------------------- *)

VotesFields == {"maxHeightPrevoted", "maxHeightPrecommitted", "maxHeightCertified",
                "blockBFTInfos", "activeValidatorsVoteInfo"}

Info == [generatorAddress : AddressType, height : Nat, maxHeightGenerated : Nat,
         maxHeightPrevoted : Nat, prevoteWeight : Nat, precommitWeight : Nat]

Header == [generatorAddress : AddressType, height : Nat, maxHeightGenerated : Nat,
           maxHeightPrevoted : Nat, aggregateCommit : [height : Nat, signed : BOOLEAN]]

WindowSize(n) == IF n <= WindowLength THEN n ELSE WindowLength

\* After n blocks the window holds the newest of them, newest first.
WindowOK(v, n) ==
    /\ DOMAIN v = VotesFields
    /\ v.blockBFTInfos \in Seq(Info)
    /\ Len(v.blockBFTInfos) = WindowSize(n)
    /\ \A i \in 1 .. Len(v.blockBFTInfos) :
          v.blockBFTInfos[i].height = GenesisHeight + n - i + 1

\* The window holds at least three blocks.
LEMMA WindowLengthPositive == WindowLength \in Nat /\ WindowLength >= 3
  BY ConstantsAssumption DEF WindowLength

\* The smaller of two numbers.
LEMMA MinOfTwo ==
    ASSUME NEW m \in Nat, NEW n \in Nat
    PROVE  Min({m, n}) = IF m <= n THEN m ELSE n
<1>1. \E x \in {m, n} : \A y \in {m, n} : x <= y
  OBVIOUS
<1> QED
  BY <1>1 DEF Min

\* Putting an element before a sequence moves the others by one.
LEMMA Prepended ==
    ASSUME NEW S, NEW s \in Seq(S), NEW x \in S, NEW r, r = <<x>> \o s
    PROVE  /\ r \in Seq(S) /\ Len(r) = Len(s) + 1 /\ Len(s) \in Nat /\ r[1] = x
           /\ \A i \in 2 .. Len(r) : i - 1 \in 1 .. Len(s) /\ r[i] = s[i - 1]
<1>1. <<x>> \in Seq(S) /\ Len(<<x>>) = 1 /\ Len(s) \in Nat
  OBVIOUS
<1>2. r \in Seq(S) /\ Len(r) = Len(s) + 1
  BY <1>1
<1>3. \A i \in 1 .. Len(r) : r[i] = IF i <= 1 THEN <<x>>[i] ELSE s[i - 1]
  BY <1>1, <1>2
<1> QED
  BY <1>1, <1>2, <1>3

WithMore(b, x, y) == [b EXCEPT !.precommitWeight = @ + x, !.prevoteWeight = @ + y]

\* r is the block b with weights that are no lower.
NoLower(b, r) ==
    /\ r \in Info /\ r.height = b.height /\ r.maxHeightPrevoted = b.maxHeightPrevoted
    /\ r.prevoteWeight >= b.prevoteWeight /\ r.precommitWeight >= b.precommitWeight

\* Adding to the weights of a block.
LEMMA WeightsAdded ==
    ASSUME NEW b, b \in Info, NEW x, x \in Nat, NEW y, y \in Nat
    PROVE  NoLower(b, WithMore(b, x, y))
<1>1. /\ b.precommitWeight \in Nat /\ b.prevoteWeight \in Nat
  BY DEF Info
<1>2. b.precommitWeight + x \in Nat /\ b.prevoteWeight + y \in Nat
      /\ b.precommitWeight + x >= b.precommitWeight /\ b.prevoteWeight + y >= b.prevoteWeight
  BY <1>1
<1>3. \A u \in Nat, w \in Nat :
          LET c == [b EXCEPT !.precommitWeight = u, !.prevoteWeight = w]
          IN  /\ c \in Info /\ c.height = b.height /\ c.maxHeightPrevoted = b.maxHeightPrevoted
              /\ c.prevoteWeight = w /\ c.precommitWeight = u
  BY DEF Info
<1> QED
  BY <1>2, <1>3, ZenonT(60) DEF WithMore, NoLower

\* A new block is the first of the window and pushes the oldest one out.
LEMMA Inserted ==
    ASSUME NEW n \in Nat, NEW v, WindowOK(v, n), NEW header \in Header,
           header.height = GenesisHeight + n + 1,
           NEW r, r = insertBlockBFTInfo(v, header, WindowLength)
    PROVE  /\ WindowOK(r, n + 1)
           /\ \A f \in VotesFields \ {"blockBFTInfos"} : r[f] = v[f]
           /\ Len(r.blockBFTInfos) >= 1
           /\ r.blockBFTInfos[1] = getBlockBFTProperties(header)
           /\ \A i \in 2 .. Len(r.blockBFTInfos) :
                 i - 1 \in 1 .. Len(v.blockBFTInfos) /\ r.blockBFTInfos[i] = v.blockBFTInfos[i - 1]
<1> DEFINE old   == v.blockBFTInfos
           new   == getBlockBFTProperties(header)
           infos == <<new>> \o old
           len   == Min({Len(infos), WindowLength})
           cut   == SubSeq(infos, 1, len)
<1>1. new \in Info /\ new.height = GenesisHeight + n + 1
  BY DEF getBlockBFTProperties, Info, Header
<1>2. old \in Seq(Info) /\ Len(old) = WindowSize(n)
      /\ \A i \in 1 .. Len(old) : old[i].height = GenesisHeight + n - i + 1
  BY DEF WindowOK
<1> HIDE DEF new, old
<1>3. /\ infos \in Seq(Info) /\ Len(infos) = WindowSize(n) + 1 /\ infos[1] = new
      /\ Len(old) \in Nat /\ \A i \in 2 .. Len(infos) : infos[i] = old[i - 1]
  BY <1>1, <1>2, Prepended
<1>4. len = WindowSize(n + 1) /\ len \in 1 .. Len(infos)
  BY <1>3, WindowLengthPositive, MinOfTwo DEF WindowSize
<1> HIDE DEF infos, len
<1>5. cut \in Seq(Info) /\ Len(cut) = len /\ \A i \in 1 .. len : cut[i] = infos[i]
  BY <1>3, <1>4
<1>6. DOMAIN r = VotesFields /\ r.blockBFTInfos = cut
      /\ \A f \in VotesFields \ {"blockBFTInfos"} : r[f] = v[f]
  BY DEF insertBlockBFTInfo, WindowOK, VotesFields, infos, len, old, new
<1> HIDE DEF cut
<1>7. \A i \in 1 .. len : cut[i].height = GenesisHeight + (n + 1) - i + 1
  <2> TAKE i \in 1 .. len
  <2>1. CASE i = 1
    BY <2>1, <1>1, <1>3, <1>4, <1>5, ConstantsAssumption
  <2>2. CASE i # 1
    <3>1. i - 1 \in 1 .. Len(old) /\ cut[i] = old[i - 1]
      BY <2>2, <1>2, <1>3, <1>4, <1>5, WindowLengthPositive DEF WindowSize
    <3> QED
      BY <3>1, <1>2, ConstantsAssumption
  <2> QED
    BY <2>1, <2>2
<1>8. WindowOK(r, n + 1)
  BY <1>4, <1>5, <1>6, <1>7 DEF WindowOK
<1>9. \A i \in 2 .. len : i - 1 \in 1 .. Len(old) /\ cut[i] = old[i - 1]
  BY <1>2, <1>3, <1>4, <1>5, WindowLengthPositive DEF WindowSize
<1> QED
  BY <1>3, <1>4, <1>5, <1>6, <1>8, <1>9 DEF new, old

\* Counting the votes of the newest block only adds to weights.
LEMMA Counted ==
    ASSUME NEW m \in Nat, NEW v, WindowOK(v, m), NEW p,
           \A i \in 1 .. Len(v.blockBFTInfos) :
               getBFTParameters(p, v.blockBFTInfos[i].height) \in ParametersType,
           ~InvalidVoteState(v, p),
           NEW r, r = updatePrevotesPrecommits(v, p)
    PROVE  /\ WindowOK(r, m)
           /\ \A f \in {"maxHeightPrevoted", "maxHeightPrecommitted", "maxHeightCertified"} :
                 r[f] = v[f]
           /\ \A i \in 1 .. Len(r.blockBFTInfos) :
                 /\ r.blockBFTInfos[i].prevoteWeight >= v.blockBFTInfos[i].prevoteWeight
                 /\ r.blockBFTInfos[i].precommitWeight >= v.blockBFTInfos[i].precommitWeight
                 /\ r.blockBFTInfos[i].maxHeightPrevoted = v.blockBFTInfos[i].maxHeightPrevoted
<1>1. CASE ~ImpliesVotes(v)
  <2>1. r = v
    BY <1>1 DEF updatePrevotesPrecommits
  <2>2. \A i \in 1 .. Len(v.blockBFTInfos) : v.blockBFTInfos[i] \in Info
    BY DEF WindowOK
  <2> QED
    BY <2>1, <2>2 DEF Info
<1>2. CASE ImpliesVotes(v)
  <2> DEFINE infos      == v.blockBFTInfos
             generator  == Tip(v).generatorAddress
             precommits == PrecommittedBy(v, p)
             prevotes   == PrevotedBy(v)
             weight(i)  == WeightOf(getBFTParameters(p, infos[i].height).validators, generator)
             added(i)   == [infos[i] EXCEPT
                              !.precommitWeight = @ + (IF i \in precommits THEN weight(i) ELSE 0),
                              !.prevoteWeight   = @ + (IF i \in prevotes THEN weight(i) ELSE 0)]
             counted    == [i \in DOMAIN infos |-> added(i)]
  <2>1. infos \in Seq(Info) /\ DOMAIN infos = 1 .. Len(infos)
    BY DEF WindowOK
  <2>2. \A i \in DOMAIN infos : i \in precommits \cup prevotes => weight(i) \in Nat
    <3> TAKE i \in DOMAIN infos
    <3> HAVE i \in precommits \cup prevotes
    <3>1. generator \in Addresses(getBFTParameters(p, infos[i].height).validators)
      BY <1>2 DEF InvalidVoteState
    <3>2. getBFTParameters(p, infos[i].height) \in ParametersType
      BY <2>1, SMTT(60)
    <3> QED
      BY <3>1, <3>2, ParametersAreTyped
  <2>3. DOMAIN r = DOMAIN v /\ r.blockBFTInfos = counted
        /\ \A f \in {"maxHeightPrevoted", "maxHeightPrecommitted", "maxHeightCertified"} :
              r[f] = v[f]
    BY <1>2 DEF updatePrevotesPrecommits, WindowOK, VotesFields
  <2> HIDE DEF weight, precommits, prevotes, infos
  <2>4. \A i \in DOMAIN infos : NoLower(infos[i], added(i))
    <3> TAKE i \in DOMAIN infos
    <3> DEFINE x == IF i \in precommits THEN weight(i) ELSE 0
               y == IF i \in prevotes THEN weight(i) ELSE 0
    <3>1. infos[i] \in Info
      BY <2>1
    <3>2. x \in Nat /\ y \in Nat
      BY <2>2
    <3>3. added(i) = WithMore(infos[i], x, y)
      BY DEF WithMore
    <3> HIDE DEF x, y, added
    <3>4. NoLower(infos[i], WithMore(infos[i], x, y))
      BY <3>1, <3>2, WeightsAdded, Zenon
    <3> QED
      BY <3>3, <3>4
  <2> HIDE DEF added
  <2>5. counted \in Seq(Info) /\ Len(counted) = Len(infos)
        /\ \A i \in DOMAIN infos : counted[i] = added(i)
    BY <2>1, <2>4 DEF NoLower
  <2> HIDE DEF counted
  <2>6. infos = v.blockBFTInfos
    BY DEF infos
  <2>7. WindowOK(r, m)
    BY <2>1, <2>3, <2>4, <2>5, <2>6 DEF WindowOK, NoLower
  <2> QED
    BY <2>1, <2>3, <2>4, <2>5, <2>6, <2>7 DEF NoLower
<1> QED
  BY <1>1, <1>2

\* A height of v has reached its threshold, if it is that of a block of the window.
PrevotesMet(v, p) ==
    \A i \in 1 .. Len(v.blockBFTInfos) :
        v.blockBFTInfos[i].height = v.maxHeightPrevoted =>
            v.blockBFTInfos[i].prevoteWeight
                >= getBFTParameters(p, v.blockBFTInfos[i].height).prevoteThreshold

PrecommitsMet(v, p) ==
    \A i \in 1 .. Len(v.blockBFTInfos) :
        v.blockBFTInfos[i].height = v.maxHeightPrecommitted =>
            v.blockBFTInfos[i].precommitWeight
                >= getBFTParameters(p, v.blockBFTInfos[i].height).precommitThreshold

\* The window is no longer than the chain.
LEMMA WindowSizes ==
    ASSUME NEW n \in Nat
    PROVE  WindowSize(n) \in 0 .. n /\ (n >= 1 => WindowSize(n) >= 1)
  BY WindowLengthPositive DEF WindowSize

\* A height that had reached its threshold, and the newest that does now.
LEMMA NewestOfQuorum ==
    ASSUME NEW n \in Nat, NEW v, WindowOK(v, n),
           NEW quorum \in SUBSET (1 .. Len(v.blockBFTInfos)),
           NEW was \in GenesisHeight .. (GenesisHeight + n),
           \A i \in 1 .. Len(v.blockBFTInfos) : v.blockBFTInfos[i].height = was => i \in quorum,
           NEW now, now = IF quorum = {} THEN was ELSE v.blockBFTInfos[Min(quorum)].height
    PROVE  /\ now \in GenesisHeight .. (GenesisHeight + n) /\ now >= was
           /\ \A i \in 1 .. Len(v.blockBFTInfos) : v.blockBFTInfos[i].height = now => i \in quorum
<1> DEFINE infos == v.blockBFTInfos
           len   == Len(infos)
<1>1. /\ len \in 0 .. n /\ GenesisHeight \in Nat
      /\ \A i \in 1 .. len : infos[i].height = GenesisHeight + n - i + 1
  BY WindowSizes, ConstantsAssumption DEF WindowOK
<1> HIDE DEF len, infos
<1>2. CASE quorum = {}
  BY <1>2 DEF len, infos
<1>3. CASE quorum # {}
  <2>1. Min(quorum) \in quorum /\ \A j \in quorum : Min(quorum) <= j
    BY <1>3, <1>1, MinOfNaturals DEF len, infos
  <2> DEFINE k == Min(quorum)
  <2>2. k \in 1 .. len /\ now = infos[k].height
    BY <2>1, <1>3 DEF len, infos
  <2>3. now = GenesisHeight + n - k + 1
    BY <2>2, <1>1
  <2>4. \A i \in 1 .. len : infos[i].height = was => k <= i
    BY <2>1 DEF len, infos
  <2> HIDE DEF k
  <2>5. now >= was
    <3> SUFFICES ASSUME now < was PROVE FALSE
      BY <2>2, <2>3, <1>1
    <3> DEFINE j == GenesisHeight + n - was + 1
    <3>1. j \in 1 .. len /\ infos[j].height = was
      BY <1>1, <2>2, <2>3
    <3>2. k <= j
      BY <3>1, <2>4
    <3>3. GenesisHeight + n - k + 1 < was /\ k <= GenesisHeight + n - was + 1
      BY <3>2, <2>3
    <3>4. k \in Int /\ was \in Int /\ GenesisHeight \in Int
      BY <2>2, <1>1
    <3> HIDE DEF j
    <3> QED
      BY <3>3, <3>4
  <2>6. \A i \in 1 .. len : infos[i].height = now => i = k
    <3> TAKE i \in 1 .. len
    <3> HAVE infos[i].height = now
    <3>1. GenesisHeight + n - i + 1 = GenesisHeight + n - k + 1
      BY <2>3, <1>1
    <3>2. i \in Int /\ k \in Int /\ GenesisHeight \in Int
      BY <2>2, <1>1
    <3> QED
      BY <3>1, <3>2
  <2>7. now \in GenesisHeight .. (GenesisHeight + n)
    BY <2>2, <2>3, <1>1, SMTT(60)
  <2> QED
    BY <2>1, <2>5, <2>6, <2>7 DEF k, len, infos
<1> QED
  BY <1>2, <1>3

\* updateMaxHeightPrevoted does not lower the height, and what it finds is met.
LEMMA PrevotedRaised ==
    ASSUME NEW n \in Nat, NEW v, WindowOK(v, n), NEW p, PrevotesMet(v, p),
           v.maxHeightPrevoted \in GenesisHeight .. (GenesisHeight + n),
           NEW r, r = updateMaxHeightPrevoted(v, p)
    PROVE  /\ WindowOK(r, n) /\ PrevotesMet(r, p)
           /\ r.maxHeightPrevoted \in GenesisHeight .. (GenesisHeight + n)
           /\ r.maxHeightPrevoted >= v.maxHeightPrevoted
           /\ \A f \in VotesFields \ {"maxHeightPrevoted"} : r[f] = v[f]
<1> DEFINE infos  == v.blockBFTInfos
           quorum == {i \in DOMAIN infos : infos[i].prevoteWeight >=
                         getBFTParameters(p, infos[i].height).prevoteThreshold}
           now    == IF quorum = {} THEN v.maxHeightPrevoted ELSE infos[Min(quorum)].height
<1>1. DOMAIN infos = 1 .. Len(infos)
  BY DEF WindowOK
<1>2. DOMAIN r = VotesFields /\ r.maxHeightPrevoted = now
      /\ \A f \in VotesFields \ {"maxHeightPrevoted"} : r[f] = v[f]
  BY DEF updateMaxHeightPrevoted, WindowOK, VotesFields
<1>3. quorum \in SUBSET (1 .. Len(infos))
      /\ \A i \in 1 .. Len(infos) : infos[i].height = v.maxHeightPrevoted => i \in quorum
  BY <1>1 DEF PrevotesMet
<1>4. \A i \in quorum : infos[i].prevoteWeight >=
                         getBFTParameters(p, infos[i].height).prevoteThreshold
  OBVIOUS
<1> HIDE DEF quorum
<1>5. /\ now \in GenesisHeight .. (GenesisHeight + n) /\ now >= v.maxHeightPrevoted
      /\ \A i \in 1 .. Len(infos) : infos[i].height = now => i \in quorum
  BY <1>3, NewestOfQuorum, SMTT(60)
<1>6. r.blockBFTInfos = infos
  BY <1>2 DEF VotesFields
<1> HIDE DEF now, infos
<1>7. PrevotesMet(r, p)
  BY <1>2, <1>4, <1>5, <1>6 DEF PrevotesMet
<1>8. WindowOK(r, n)
  BY <1>2, <1>6 DEF WindowOK, infos
<1> QED
  BY <1>2, <1>5, <1>7, <1>8

\* So does updateMaxHeightPrecommitted.
LEMMA PrecommittedRaised ==
    ASSUME NEW n \in Nat, NEW v, WindowOK(v, n), NEW p, PrecommitsMet(v, p),
           v.maxHeightPrecommitted \in GenesisHeight .. (GenesisHeight + n),
           NEW r, r = updateMaxHeightPrecommitted(v, p)
    PROVE  /\ WindowOK(r, n) /\ PrecommitsMet(r, p)
           /\ r.maxHeightPrecommitted \in GenesisHeight .. (GenesisHeight + n)
           /\ r.maxHeightPrecommitted >= v.maxHeightPrecommitted
           /\ \A f \in VotesFields \ {"maxHeightPrecommitted"} : r[f] = v[f]
<1> DEFINE infos  == v.blockBFTInfos
           quorum == {i \in DOMAIN infos : infos[i].precommitWeight >=
                         getBFTParameters(p, infos[i].height).precommitThreshold}
           now    == IF quorum = {} THEN v.maxHeightPrecommitted ELSE infos[Min(quorum)].height
<1>1. DOMAIN infos = 1 .. Len(infos)
  BY DEF WindowOK
<1>2. DOMAIN r = VotesFields /\ r.maxHeightPrecommitted = now
      /\ \A f \in VotesFields \ {"maxHeightPrecommitted"} : r[f] = v[f]
  BY DEF updateMaxHeightPrecommitted, WindowOK, VotesFields
<1>3. quorum \in SUBSET (1 .. Len(infos))
      /\ \A i \in 1 .. Len(infos) : infos[i].height = v.maxHeightPrecommitted => i \in quorum
  BY <1>1 DEF PrecommitsMet
<1>4. \A i \in quorum : infos[i].precommitWeight >=
                         getBFTParameters(p, infos[i].height).precommitThreshold
  OBVIOUS
<1> HIDE DEF quorum
<1>5. /\ now \in GenesisHeight .. (GenesisHeight + n) /\ now >= v.maxHeightPrecommitted
      /\ \A i \in 1 .. Len(infos) : infos[i].height = now => i \in quorum
  BY <1>3, NewestOfQuorum, ZenonT(60)
<1>6. r.blockBFTInfos = infos
  BY <1>2 DEF VotesFields
<1> HIDE DEF now, infos
<1>7. PrecommitsMet(r, p)
  BY <1>2, <1>4, <1>5, <1>6 DEF PrecommitsMet
<1>8. WindowOK(r, n)
  BY <1>2, <1>6 DEF WindowOK, infos
<1> QED
  BY <1>2, <1>5, <1>7, <1>8

\* The votes after n blocks, with the parameters q of the whole chain.
VotesOK(v, q, n) ==
    /\ WindowOK(v, n)
    /\ v.maxHeightPrevoted \in GenesisHeight .. (GenesisHeight + n)
    /\ v.maxHeightPrecommitted \in GenesisHeight .. (GenesisHeight + n)
    /\ v.maxHeightCertified \in GenesisHeight .. (GenesisHeight + n)
    /\ n >= 1 => v.maxHeightCertified < GenesisHeight + n
    /\ PrevotesMet(v, q)
    /\ PrecommitsMet(v, q)
    /\ \A i \in 1 .. Len(v.blockBFTInfos) :
          v.blockBFTInfos[i].maxHeightPrevoted <= v.maxHeightPrevoted

\* The window after the next block begins no earlier than the window before it.
LEMMA WindowMoves ==
    ASSUME NEW n \in Nat, NEW v, WindowOK(v, n + 1),
           NEW c \in Nat, c <= GenesisHeight + n + 1 - WindowSize(n)
    PROVE  \A i \in 1 .. Len(v.blockBFTInfos) :
              v.blockBFTInfos[i].height \in Nat /\ c <= v.blockBFTInfos[i].height
<1>1. WindowSize(n + 1) <= WindowSize(n) + 1 /\ WindowSize(n) \in 0 .. n
      /\ WindowSize(n + 1) \in 0 .. (n + 1)
  BY WindowLengthPositive DEF WindowSize
<1> TAKE i \in 1 .. Len(v.blockBFTInfos)
<1>2. v.blockBFTInfos[i].height = GenesisHeight + (n + 1) - i + 1 /\ i \in 1 .. WindowSize(n + 1)
  BY DEF WindowOK
<1>3. i \in Nat /\ i <= WindowSize(n) + 1 /\ i <= n + 1 /\ GenesisHeight \in Nat
      /\ WindowSize(n) \in Nat
  BY <1>1, <1>2, ConstantsAssumption
<1> QED
  BY <1>2, <1>3

\* Thresholds that are looked up alike are met alike.
LEMMA MetAlike ==
    ASSUME NEW v, NEW p, NEW q,
           \A i \in 1 .. Len(v.blockBFTInfos) :
              getBFTParameters(p, v.blockBFTInfos[i].height)
                 = getBFTParameters(q, v.blockBFTInfos[i].height)
    PROVE  /\ PrevotesMet(v, p) <=> PrevotesMet(v, q)
           /\ PrecommitsMet(v, p) <=> PrecommitsMet(v, q)
  BY DEF PrevotesMet, PrecommitsMet

\* beforeTransactionsExecute keeps the votes in order and lowers no height.
LEMMA VotesCounted ==
    ASSUME NEW n \in Nat, NEW v, NEW p, NEW q, NEW c \in Nat, VotesOK(v, q, n),
           DOMAIN q \subseteq Nat, \A k \in DOMAIN q : q[k] \in ParametersType,
           Suffix(p, q, c), c <= GenesisHeight + n + 1 - WindowSize(n),
           NEW header \in Header, header.height = GenesisHeight + n + 1,
           header.maxHeightPrevoted = v.maxHeightPrevoted,
           IF header.aggregateCommit.signed
              THEN /\ header.aggregateCommit.height > v.maxHeightCertified
                   /\ header.aggregateCommit.height <= v.maxHeightPrecommitted
              ELSE header.aggregateCommit.height = v.maxHeightCertified,
           ~InvalidVoteState(insertBlockBFTInfo(v, header, WindowLength), p),
           NEW a, a = VotesAfter(v, p, header, WindowLength)
    PROVE  /\ VotesOK(a, q, n + 1)
           /\ a.maxHeightPrevoted >= v.maxHeightPrevoted
           /\ a.maxHeightPrecommitted >= v.maxHeightPrecommitted
           /\ a.maxHeightCertified >= v.maxHeightCertified
           /\ a.maxHeightCertified = header.aggregateCommit.height
<1> DEFINE v1 == insertBlockBFTInfo(v, header, WindowLength)
           v2 == updatePrevotesPrecommits(v1, p)
           v3 == updateMaxHeightPrevoted(v2, p)
           v4 == updateMaxHeightPrecommitted(v3, p)
           T  == GenesisHeight + n
<1>0. a = updateMaxHeightCertified(v4, header)
  BY DEF VotesAfter
<1>1. GenesisHeight \in Nat /\ T \in Nat /\ WindowOK(v, n)
      /\ v.maxHeightPrevoted \in GenesisHeight .. T
      /\ v.maxHeightPrecommitted \in GenesisHeight .. T
      /\ v.maxHeightCertified \in GenesisHeight .. T
  BY ConstantsAssumption DEF VotesOK
<1>2. /\ WindowOK(v1, n + 1)
      /\ v1.maxHeightPrevoted = v.maxHeightPrevoted
      /\ v1.maxHeightPrecommitted = v.maxHeightPrecommitted
      /\ v1.maxHeightCertified = v.maxHeightCertified
      /\ v1.blockBFTInfos[1] = getBlockBFTProperties(header)
      /\ \A i \in 2 .. Len(v1.blockBFTInfos) :
            i - 1 \in 1 .. Len(v.blockBFTInfos) /\ v1.blockBFTInfos[i] = v.blockBFTInfos[i - 1]
  <2>1. /\ WindowOK(v1, n + 1)
        /\ \A f \in VotesFields \ {"blockBFTInfos"} : v1[f] = v[f]
        /\ v1.blockBFTInfos[1] = getBlockBFTProperties(header)
        /\ \A i \in 2 .. Len(v1.blockBFTInfos) :
              i - 1 \in 1 .. Len(v.blockBFTInfos) /\ v1.blockBFTInfos[i] = v.blockBFTInfos[i - 1]
    BY <1>1, Inserted
  <2> QED
    BY <2>1 DEF VotesFields
<1>3. v1.blockBFTInfos[1].height = T + 1
      /\ v1.blockBFTInfos[1].maxHeightPrevoted = v.maxHeightPrevoted
  BY <1>2 DEF getBlockBFTProperties
<1> HIDE DEF v1
<1>4. \A i \in 1 .. Len(v1.blockBFTInfos) :
          /\ getBFTParameters(p, v1.blockBFTInfos[i].height)
                = getBFTParameters(q, v1.blockBFTInfos[i].height)
          /\ getBFTParameters(q, v1.blockBFTInfos[i].height) \in ParametersType
  <2> TAKE i \in 1 .. Len(v1.blockBFTInfos)
  <2>1. v1.blockBFTInfos[i].height \in Nat /\ c <= v1.blockBFTInfos[i].height
    BY <1>2, WindowMoves
  <2> QED
    BY <2>1, SuffixLooksUp
<1>5. \A i \in 1 .. Len(v1.blockBFTInfos) : i = 1 \/ i \in 2 .. Len(v1.blockBFTInfos)
  BY <1>2 DEF WindowOK
<1>6. PrevotesMet(v1, q) /\ PrecommitsMet(v1, q)
      /\ \A i \in 1 .. Len(v1.blockBFTInfos) :
            v1.blockBFTInfos[i].maxHeightPrevoted <= v1.maxHeightPrevoted
  <2>1. PrevotesMet(v, q) /\ PrecommitsMet(v, q)
        /\ \A i \in 1 .. Len(v.blockBFTInfos) :
              v.blockBFTInfos[i].maxHeightPrevoted <= v.maxHeightPrevoted
    BY DEF VotesOK
  <2>2. T + 1 # v1.maxHeightPrevoted /\ T + 1 # v1.maxHeightPrecommitted
        /\ v.maxHeightPrevoted <= v1.maxHeightPrevoted
    BY <1>1, <1>2
  <2>3. PrevotesMet(v1, q)
    BY <2>1, <2>2, <1>2, <1>3, <1>5 DEF PrevotesMet
  <2>4. PrecommitsMet(v1, q)
    BY <2>1, <2>2, <1>2, <1>3, <1>5 DEF PrecommitsMet
  <2> QED
    BY <2>1, <2>2, <2>3, <2>4, <1>2, <1>3, <1>5
<1>7. /\ WindowOK(v2, n + 1)
      /\ v2.maxHeightPrevoted = v1.maxHeightPrevoted
      /\ v2.maxHeightPrecommitted = v1.maxHeightPrecommitted
      /\ v2.maxHeightCertified = v1.maxHeightCertified
      /\ \A i \in 1 .. Len(v2.blockBFTInfos) :
            /\ v2.blockBFTInfos[i].prevoteWeight >= v1.blockBFTInfos[i].prevoteWeight
            /\ v2.blockBFTInfos[i].precommitWeight >= v1.blockBFTInfos[i].precommitWeight
            /\ v2.blockBFTInfos[i].maxHeightPrevoted = v1.blockBFTInfos[i].maxHeightPrevoted
  <2>1. \A i \in 1 .. Len(v1.blockBFTInfos) :
            getBFTParameters(p, v1.blockBFTInfos[i].height) \in ParametersType
    BY <1>4
  <2>2. ~InvalidVoteState(v1, p)
    BY DEF v1
  <2>3. /\ WindowOK(v2, n + 1)
        /\ \A f \in {"maxHeightPrevoted", "maxHeightPrecommitted", "maxHeightCertified"} :
              v2[f] = v1[f]
        /\ \A i \in 1 .. Len(v2.blockBFTInfos) :
              /\ v2.blockBFTInfos[i].prevoteWeight >= v1.blockBFTInfos[i].prevoteWeight
              /\ v2.blockBFTInfos[i].precommitWeight >= v1.blockBFTInfos[i].precommitWeight
              /\ v2.blockBFTInfos[i].maxHeightPrevoted = v1.blockBFTInfos[i].maxHeightPrevoted
    BY <2>1, <2>2, <1>2, Counted
  <2> QED
    BY <2>3
<1> HIDE DEF v2
<1>8. Len(v2.blockBFTInfos) = Len(v1.blockBFTInfos)
      /\ \A i \in 1 .. Len(v1.blockBFTInfos) :
            /\ v2.blockBFTInfos[i].height = v1.blockBFTInfos[i].height
            /\ v1.blockBFTInfos[i] \in Info /\ v2.blockBFTInfos[i] \in Info
  BY <1>2, <1>7 DEF WindowOK
<1>9. \A i \in 1 .. Len(v1.blockBFTInfos) :
          /\ v1.blockBFTInfos[i].prevoteWeight \in Int /\ v2.blockBFTInfos[i].prevoteWeight \in Int
          /\ v1.blockBFTInfos[i].precommitWeight \in Int /\ v2.blockBFTInfos[i].precommitWeight \in Int
          /\ getBFTParameters(q, v1.blockBFTInfos[i].height).prevoteThreshold \in Int
          /\ getBFTParameters(q, v1.blockBFTInfos[i].height).precommitThreshold \in Int
  BY <1>4, <1>8, ParametersAreTyped, SMTT(60) DEF Info
<1>10. PrevotesMet(v2, q) /\ PrecommitsMet(v2, q)
  <2>1. ASSUME NEW i \in 1 .. Len(v2.blockBFTInfos)
        PROVE  /\ v2.blockBFTInfos[i].height = v2.maxHeightPrevoted =>
                    v2.blockBFTInfos[i].prevoteWeight
                      >= getBFTParameters(q, v2.blockBFTInfos[i].height).prevoteThreshold
               /\ v2.blockBFTInfos[i].height = v2.maxHeightPrecommitted =>
                    v2.blockBFTInfos[i].precommitWeight
                      >= getBFTParameters(q, v2.blockBFTInfos[i].height).precommitThreshold
    <3> DEFINE threshold == getBFTParameters(q, v1.blockBFTInfos[i].height)
    <3>1. i \in 1 .. Len(v1.blockBFTInfos)
          /\ v2.blockBFTInfos[i].height = v1.blockBFTInfos[i].height
      BY <1>8
    <3>2. /\ v1.blockBFTInfos[i].height = v1.maxHeightPrevoted =>
                v1.blockBFTInfos[i].prevoteWeight >= threshold.prevoteThreshold
          /\ v1.blockBFTInfos[i].height = v1.maxHeightPrecommitted =>
                v1.blockBFTInfos[i].precommitWeight >= threshold.precommitThreshold
      BY <3>1, <1>6 DEF PrevotesMet, PrecommitsMet
    <3>3. /\ v2.blockBFTInfos[i].prevoteWeight >= v1.blockBFTInfos[i].prevoteWeight
          /\ v2.blockBFTInfos[i].precommitWeight >= v1.blockBFTInfos[i].precommitWeight
          /\ v1.blockBFTInfos[i].prevoteWeight \in Int /\ v2.blockBFTInfos[i].prevoteWeight \in Int
          /\ v1.blockBFTInfos[i].precommitWeight \in Int
          /\ v2.blockBFTInfos[i].precommitWeight \in Int
          /\ threshold.prevoteThreshold \in Int /\ threshold.precommitThreshold \in Int
      BY <3>1, <1>7, <1>9
    <3> HIDE DEF threshold
    <3>4. /\ v1.blockBFTInfos[i].prevoteWeight >= threshold.prevoteThreshold =>
                v2.blockBFTInfos[i].prevoteWeight >= threshold.prevoteThreshold
          /\ v1.blockBFTInfos[i].precommitWeight >= threshold.precommitThreshold =>
                v2.blockBFTInfos[i].precommitWeight >= threshold.precommitThreshold
      BY <3>3, SMTT(60)
    <3> QED
      BY <3>1, <3>2, <3>4, <1>7 DEF threshold
  <2> QED
    BY <2>1 DEF PrevotesMet, PrecommitsMet
<1>11. PrevotesMet(v2, p) /\ PrecommitsMet(v2, p)
  BY <1>4, <1>8, <1>10, MetAlike
<1>12. /\ WindowOK(v3, n + 1) /\ PrevotesMet(v3, p)
       /\ v3.maxHeightPrevoted \in GenesisHeight .. (GenesisHeight + (n + 1))
       /\ v3.maxHeightPrevoted >= v.maxHeightPrevoted
       /\ v3.maxHeightPrecommitted = v.maxHeightPrecommitted
       /\ v3.maxHeightCertified = v.maxHeightCertified
       /\ v3.blockBFTInfos = v2.blockBFTInfos
  <2>1. v2.maxHeightPrevoted \in GenesisHeight .. (GenesisHeight + (n + 1))
    BY <1>1, <1>2, <1>7
  <2>2. /\ WindowOK(v3, n + 1) /\ PrevotesMet(v3, p)
        /\ v3.maxHeightPrevoted \in GenesisHeight .. (GenesisHeight + (n + 1))
        /\ v3.maxHeightPrevoted >= v2.maxHeightPrevoted
        /\ \A f \in VotesFields \ {"maxHeightPrevoted"} : v3[f] = v2[f]
    BY <2>1, <1>7, <1>11, PrevotedRaised
  <2> QED
    BY <2>2, <1>2, <1>7 DEF VotesFields
<1> HIDE DEF v3
<1>13. PrecommitsMet(v3, p)
  BY <1>11, <1>12, <1>7, <1>2 DEF PrecommitsMet
<1>14. /\ WindowOK(v4, n + 1) /\ PrecommitsMet(v4, p)
       /\ v4.maxHeightPrecommitted \in GenesisHeight .. (GenesisHeight + (n + 1))
       /\ v4.maxHeightPrecommitted >= v.maxHeightPrecommitted
       /\ v4.maxHeightPrevoted = v3.maxHeightPrevoted
       /\ v4.maxHeightCertified = v.maxHeightCertified
       /\ v4.blockBFTInfos = v2.blockBFTInfos
  <2>1. v3.maxHeightPrecommitted \in GenesisHeight .. (GenesisHeight + (n + 1))
    BY <1>1, <1>12
  <2>2. /\ WindowOK(v4, n + 1) /\ PrecommitsMet(v4, p)
        /\ v4.maxHeightPrecommitted \in GenesisHeight .. (GenesisHeight + (n + 1))
        /\ v4.maxHeightPrecommitted >= v3.maxHeightPrecommitted
        /\ \A f \in VotesFields \ {"maxHeightPrecommitted"} : v4[f] = v3[f]
    BY <2>1, <1>12, <1>13, PrecommittedRaised
  <2> QED
    BY <2>2, <1>12 DEF VotesFields
<1> HIDE DEF v4
<1>15. PrevotesMet(v4, p)
  BY <1>12, <1>14 DEF PrevotesMet
<1>16. PrevotesMet(v4, q) /\ PrecommitsMet(v4, q)
  BY <1>4, <1>8, <1>14, <1>15, MetAlike, ZenonT(60)
<1>17. /\ DOMAIN a = VotesFields
       /\ a.maxHeightCertified = header.aggregateCommit.height
       /\ a.maxHeightPrevoted = v4.maxHeightPrevoted
       /\ a.maxHeightPrecommitted = v4.maxHeightPrecommitted
       /\ a.blockBFTInfos = v4.blockBFTInfos
  <2>1. DOMAIN v4 = VotesFields
    BY <1>14 DEF WindowOK
  <2> QED
    BY <2>1, <1>0, <1>14 DEF updateMaxHeightCertified, VotesFields
<1>18. PrevotesMet(a, q) /\ PrecommitsMet(a, q) /\ WindowOK(a, n + 1)
  BY <1>14, <1>16, <1>17 DEF PrevotesMet, PrecommitsMet, WindowOK
<1>19. a.maxHeightCertified \in GenesisHeight .. (GenesisHeight + (n + 1))
       /\ a.maxHeightCertified < GenesisHeight + (n + 1)
       /\ a.maxHeightCertified >= v.maxHeightCertified
  BY <1>1, <1>17 DEF Header
<1>20. \A i \in 1 .. Len(a.blockBFTInfos) :
           a.blockBFTInfos[i].maxHeightPrevoted <= a.maxHeightPrevoted
  <2> TAKE i \in 1 .. Len(a.blockBFTInfos)
  <2>1. a.blockBFTInfos[i].maxHeightPrevoted \in Int
        /\ a.blockBFTInfos[i].maxHeightPrevoted <= v1.maxHeightPrevoted
    BY <1>6, <1>7, <1>8, <1>14, <1>17 DEF Info
  <2> QED
    BY <2>1, <1>1, <1>2, <1>12, <1>14, <1>17, SMTT(60)
<1> QED
  BY <1>12, <1>14, <1>17, <1>18, <1>19, <1>20 DEF VotesOK

(* ---------------------- what each state has in order ------------------- *)

\* The parameters after n blocks: q are those of the whole chain, and p lacks
\* only those below a key that is no later than the window and than what can
\* still be certified.
ParametersOK(v, p, q, n) ==
    /\ DOMAIN q \subseteq (GenesisHeight + 1) .. (GenesisHeight + n + 1)
    /\ GenesisHeight + 1 \in DOMAIN q
    /\ \A k \in DOMAIN q : q[k] \in ParametersType
    /\ \E c \in Nat : /\ Suffix(p, q, c)
                      /\ c <= GenesisHeight + n + 1 - WindowSize(n)
                      /\ c <= v.maxHeightCertified + 1 \/ c <= MinCertifyHeight - 1

\* c is the largest height certified by the headers before the m-th.
CertifiedBefore(hs, m, c) ==
    /\ \/ c = GenesisHeight
       \/ \E k \in 1 .. (m - 1) : hs[k].aggregateCommit.height = c
    /\ c >= GenesisHeight
    /\ \A k \in 1 .. (m - 1) : hs[k].aggregateCommit.height <= c

\* The certificate of the m-th header can be checked from the one before it.
CertificateOK(q, hs, m) ==
    hs[m].aggregateCommit.signed =>
        /\ hs[m].aggregateCommit.height > GenesisHeight
        /\ \A c \in Nat :
              CertifiedBefore(hs, m, c) /\ c >= MinCertifyHeight - 1 =>
                 getBFTParameters(q, hs[m].aggregateCommit.height) = getBFTParameters(q, c + 1)

CertificatesOK(v, q, hs, n) ==
    /\ CertifiedBefore(hs, n + 1, v.maxHeightCertified)
    /\ \A m \in 1 .. n : CertificateOK(q, hs, m)

StateOK(v, p, q, hs, n) ==
    /\ VotesOK(v, q, n)
    /\ ParametersOK(v, p, q, n)
    /\ CertificatesOK(v, q, hs, n)

\* A height above the genesis block has parameters on the whole chain.
LEMMA ChainHasParameters ==
    ASSUME NEW v, NEW p, NEW q, NEW n \in Nat, ParametersOK(v, p, q, n)
    PROVE  /\ DOMAIN q \subseteq Nat
           /\ \A h \in Nat : h > GenesisHeight => ParametersExist(q, h)
  BY ConstantsAssumption DEF ParametersOK, ParametersExist

\* What setBFTParameters stores, and that it touches the active validators only.
LEMMA ParametersSet ==
    ASSUME NEW v, NEW m \in Nat, m >= 1, WindowOK(v, m), NEW p, NEW u,
           NEW r, r = setBFTParameters(v, p, u.precommitThreshold, u.certificateThreshold,
                                       u.validators)
    PROVE  /\ r.params = WithKey(p, GenesisHeight + m + 1, ParametersOf(u))
           /\ DOMAIN r.votes = VotesFields
           /\ \A f \in VotesFields \ {"activeValidatorsVoteInfo"} : r.votes[f] = v[f]
<1>1. Len(v.blockBFTInfos) >= 1 /\ v.blockBFTInfos \in Seq(Info)
      /\ v.blockBFTInfos[1].height = GenesisHeight + m - 1 + 1 /\ DOMAIN v = VotesFields
  BY WindowSizes DEF WindowOK
<1>2. v.blockBFTInfos # << >>
  BY <1>1
<1>3. NextHeight(v) = GenesisHeight + m + 1
  BY <1>1, <1>2, ConstantsAssumption DEF NextHeight, Tip
<1> QED
  BY <1>1, <1>3 DEF setBFTParameters, ParametersOf, WithKey, VotesFields

\* Parameters for a height beyond the chain do not concern the votes.
LEMMA VotesKept ==
    ASSUME NEW v, NEW q, NEW m \in Nat, VotesOK(v, q, m), DOMAIN q \subseteq Nat,
           \A h \in Nat : h > GenesisHeight => ParametersExist(q, h),
           NEW w, DOMAIN w = VotesFields,
           \A f \in VotesFields \ {"activeValidatorsVoteInfo"} : w[f] = v[f],
           NEW r
    PROVE  VotesOK(w, WithKey(q, GenesisHeight + m + 1, r), m)
<1> DEFINE q2 == WithKey(q, GenesisHeight + m + 1, r)
<1>1. /\ w.blockBFTInfos = v.blockBFTInfos /\ w.maxHeightPrevoted = v.maxHeightPrevoted
      /\ w.maxHeightPrecommitted = v.maxHeightPrecommitted
      /\ w.maxHeightCertified = v.maxHeightCertified
  BY DEF VotesFields
<1>2. \A i \in 1 .. Len(v.blockBFTInfos) :
          getBFTParameters(q2, v.blockBFTInfos[i].height)
             = getBFTParameters(q, v.blockBFTInfos[i].height)
  <2> TAKE i \in 1 .. Len(v.blockBFTInfos)
  <2> DEFINE h == v.blockBFTInfos[i].height
  <2>1. h = GenesisHeight + m - i + 1 /\ Len(v.blockBFTInfos) \in 0 .. m
    BY WindowSizes DEF VotesOK, WindowOK
  <2>2. h \in Nat /\ h > GenesisHeight /\ h < GenesisHeight + m + 1
        /\ GenesisHeight + m + 1 \in Nat
    BY <2>1, ConstantsAssumption, SMTT(60)
  <2> HIDE DEF h
  <2>3. getBFTParameters(q2, h) = getBFTParameters(q, h)
    BY <2>2, LaterKeyUnread
  <2> QED
    BY <2>3 DEF h
<1> HIDE DEF q2
<1>3. PrevotesMet(v, q2) /\ PrecommitsMet(v, q2)
  <2>1. PrevotesMet(v, q) /\ PrecommitsMet(v, q)
    BY DEF VotesOK
  <2> QED
    BY <2>1, <1>2, MetAlike
<1> QED
  BY <1>1, <1>3 DEF VotesOK, WindowOK, PrevotesMet, PrecommitsMet, q2

\* The larger of two naturals.
LEMMA MaxOfTwo ==
    ASSUME NEW m \in Int, NEW n \in Int
    PROVE  Max({m, n}) \in Int /\ Max({m, n}) >= m /\ Max({m, n}) >= n
           /\ (Max({m, n}) = m \/ Max({m, n}) = n)
<1>1. \E x \in {m, n} : \A y \in {m, n} : x >= y
  OBVIOUS
<1> QED
  BY <1>1 DEF Max

\* Where no key lies in between, two heights find the same record.
LEMMA NoKeyBetween ==
    ASSUME NEW q, DOMAIN q \subseteq Nat, NEW h \in Nat, NEW g \in Nat, h <= g,
           ParametersExist(q, h), \A k \in DOMAIN q : ~(h < k /\ k <= g)
    PROVE  getBFTParameters(q, g) = getBFTParameters(q, h)
<1>1. PICK k \in DOMAIN q : /\ k <= h /\ getBFTParameters(q, h) = q[k]
                            /\ \A j \in DOMAIN q : j <= h => j <= k
  BY LookedUp
<1>2. k <= g /\ \A j \in DOMAIN q : j <= g => j <= k
  BY <1>1
<1>3. getBFTParameters(q, g) = q[k]
  BY <1>2, LookedUpIs
<1> QED
  BY <1>1, <1>3

\* The heights verifyAggregateCommit admits of a certificate after c.
Admitted(p, c, h) ==
    (\E k \in DOMAIN p : k > c + 1) =>
        h <= Max({getNextHeightBFTParameters(p, c + 1), MinCertifyHeight + 1}) - 1

\* They are those up to the next change of the parameters, or the first height
\* that may be certified at all.
LEMMA AdmittedHeights ==
    ASSUME NEW p, DOMAIN p \subseteq Nat, NEW c \in Nat, NEW h \in Nat
    PROVE  Admitted(p, c, h) <=>
              \/ \A k \in DOMAIN p : ~(k > c + 1 /\ k <= h)
              \/ (\E k \in DOMAIN p : k > c + 1) /\ h <= MinCertifyHeight
<1> DEFINE S == {k \in DOMAIN p : k > c + 1}
           next == getNextHeightBFTParameters(p, c + 1)
<1>1. CASE S = {}
  BY <1>1 DEF Admitted
<1>2. CASE S # {}
  <2>1. next \in S /\ \A k \in S : next <= k
    BY <1>2, MinOfNaturals DEF getNextHeightBFTParameters
  <2> HIDE DEF next
  <2>2. next \in Nat /\ MinCertifyHeight \in Nat
    BY <2>1, ConstantsAssumption
  <2> DEFINE limit == Max({next, MinCertifyHeight + 1})
  <2>3. limit \in Int /\ limit >= next /\ limit >= MinCertifyHeight + 1
        /\ (limit = next \/ limit = MinCertifyHeight + 1)
    BY <2>2, MaxOfTwo
  <2> HIDE DEF limit
  <2>4. Admitted(p, c, h) <=> h <= limit - 1
    <3>1. \E k \in DOMAIN p : k > c + 1
      BY <1>2
    <3> QED
      BY <3>1, Zenon DEF Admitted, limit, next
  <2>5. h <= limit - 1 <=> h < next \/ h <= MinCertifyHeight
    BY <2>2, <2>3
  <2>6. h < next <=> \A k \in DOMAIN p : ~(k > c + 1 /\ k <= h)
    <3>1. next \in DOMAIN p /\ next > c + 1 /\ next \in Nat
      BY <2>1, <2>2
    <3>2. ASSUME NEW k \in DOMAIN p, k > c + 1 PROVE next <= k /\ k \in Nat
      BY <3>2, <2>1
    <3>3. CASE h < next
      BY <3>1, <3>2, <3>3
    <3>4. CASE ~(h < next)
      BY <3>1, <3>4
    <3> QED
      BY <3>3, <3>4
  <2>7. \E k \in DOMAIN p : k > c + 1
    BY <1>2
  <2> QED
    BY <2>4, <2>5, <2>6, <2>7
<1> QED
  BY <1>1, <1>2

\* A certificate that is verified has the parameters of the height after the one
\* before it.
LEMMA CertificateContinues ==
    ASSUME NEW v, NEW p, NEW q, NEW n \in Nat, ParametersOK(v, p, q, n),
           v.maxHeightCertified \in Nat, v.maxHeightCertified >= GenesisHeight,
           v.maxHeightCertified >= MinCertifyHeight - 1,
           NEW h \in Nat, h > v.maxHeightCertified, Admitted(p, v.maxHeightCertified, h)
    PROVE  getBFTParameters(q, h) = getBFTParameters(q, v.maxHeightCertified + 1)
<1> DEFINE c == v.maxHeightCertified
<1>1. PICK first \in Nat : Suffix(p, q, first)
                           /\ (first <= c + 1 \/ first <= MinCertifyHeight - 1)
  BY DEF ParametersOK
<1>2. /\ DOMAIN q \subseteq Nat /\ GenesisHeight \in Nat /\ MinCertifyHeight \in Nat
      /\ \A g \in Nat : g > GenesisHeight => ParametersExist(q, g)
  BY ChainHasParameters, ConstantsAssumption
<1>3. c \in Nat /\ c + 1 \in Nat /\ c + 1 > GenesisHeight /\ c + 1 <= h /\ first <= c + 1
      /\ c >= MinCertifyHeight - 1
  BY <1>1, <1>2
<1>4. DOMAIN p \subseteq Nat
  BY <1>1, <1>2 DEF Suffix
<1>5. \A k \in DOMAIN p : ~(k > c + 1 /\ k <= h)
  <2>1. \/ \A k \in DOMAIN p : ~(k > c + 1 /\ k <= h)
        \/ (\E k \in DOMAIN p : k > c + 1) /\ h <= MinCertifyHeight
    BY <1>3, <1>4, AdmittedHeights
  <2>2. h <= MinCertifyHeight => h <= c + 1
    BY <1>2, <1>3
  <2> QED
    BY <2>1, <2>2, <1>3, <1>4
<1>6. \A k \in DOMAIN q : ~(c + 1 < k /\ k <= h)
  <2> TAKE k \in DOMAIN q
  <2> SUFFICES ASSUME c + 1 < k, k <= h PROVE FALSE
    OBVIOUS
  <2>1. k >= first /\ k \in Nat
    BY <1>2, <1>3
  <2>2. k \in DOMAIN p
    BY <2>1, <1>1 DEF Suffix
  <2> QED
    BY <2>1, <2>2, <1>3, <1>5
<1>7. ParametersExist(q, c + 1)
  BY <1>2, <1>3
<1> QED
  BY <1>2, <1>3, <1>6, <1>7, NoKeyBetween

\* Two headers' lists that agree below m certify the same before m.
LEMMA CertifiedBeforeIs ==
    ASSUME NEW hs, NEW gs, NEW m \in Nat, NEW c, CertifiedBefore(hs, m, c),
           \A k \in 1 .. (m - 1) : gs[k] = hs[k]
    PROVE  CertifiedBefore(gs, m, c)
  BY DEF CertifiedBefore

\* There is one last certified height before a block.
LEMMA CertifiedBeforeUnique ==
    ASSUME NEW hs, NEW m \in Nat, NEW c \in Nat, NEW d \in Nat,
           CertifiedBefore(hs, m, c), CertifiedBefore(hs, m, d)
    PROVE  c = d
<1>1. c <= d
  BY ConstantsAssumption DEF CertifiedBefore
<1>2. d <= c
  BY ConstantsAssumption DEF CertifiedBefore
<1> QED
  BY <1>1, <1>2

\* The headers of a chain are all that its certificates depend on.
LEMMA CertificatesKept ==
    ASSUME NEW v, NEW w, NEW q, NEW hs, NEW gs, NEW n \in Nat,
           CertificatesOK(v, q, hs, n), w.maxHeightCertified = v.maxHeightCertified,
           \A k \in 1 .. n : gs[k] = hs[k]
    PROVE  CertificatesOK(w, q, gs, n)
<1>1. CertifiedBefore(gs, n + 1, w.maxHeightCertified)
  BY CertifiedBeforeIs DEF CertificatesOK
<1>2. ASSUME NEW m \in 1 .. n PROVE CertificateOK(q, gs, m)
  <2>1. CertificateOK(q, hs, m) /\ gs[m] = hs[m]
    BY DEF CertificatesOK
  <2>2. \A c : CertifiedBefore(gs, m, c) => CertifiedBefore(hs, m, c)
    <3>1. \A k \in 1 .. (m - 1) : hs[k] = gs[k]
      OBVIOUS
    <3> QED
      BY <3>1, CertifiedBeforeIs
  <2> QED
    BY <2>1, <2>2 DEF CertificateOK
<1> QED
  BY <1>1, <1>2 DEF CertificatesOK

\* Neither do they depend on parameters for a height beyond the chain.
LEMMA CertificatesUnmoved ==
    ASSUME NEW v, NEW q, NEW hs, NEW n \in Nat, CertificatesOK(v, q, hs, n),
           v.maxHeightCertified \in Nat, v.maxHeightCertified < GenesisHeight + n,
           \A k \in 1 .. n : hs[k].aggregateCommit.height \in Nat,
           DOMAIN q \subseteq Nat, \A h \in Nat : h > GenesisHeight => ParametersExist(q, h),
           NEW new \in Nat, new > GenesisHeight + n, NEW r
    PROVE  CertificatesOK(v, WithKey(q, new, r), hs, n)
<1> DEFINE q2 == WithKey(q, new, r)
           T  == GenesisHeight + n
<1>1. \A h \in Nat : h > GenesisHeight /\ h <= T =>
          getBFTParameters(q2, h) = getBFTParameters(q, h)
  BY LaterKeyUnread, ConstantsAssumption
<1> HIDE DEF q2
<1>2. ASSUME NEW m \in 1 .. n PROVE CertificateOK(q2, hs, m)
  <2> DEFINE h == hs[m].aggregateCommit.height
  <2>0. hs[m].aggregateCommit.signed => h > GenesisHeight
    BY DEF CertificatesOK, CertificateOK
  <2> SUFFICES ASSUME NEW c \in Nat, CertifiedBefore(hs, m, c), hs[m].aggregateCommit.signed,
                      c >= MinCertifyHeight - 1
               PROVE  getBFTParameters(q2, h) = getBFTParameters(q2, c + 1)
    BY <2>0 DEF CertificateOK
  <2>1. getBFTParameters(q, h) = getBFTParameters(q, c + 1)
    BY DEF CertificatesOK, CertificateOK
  <2>2. \A k \in 1 .. n : hs[k].aggregateCommit.height <= v.maxHeightCertified
    BY DEF CertificatesOK, CertifiedBefore
  <2>3. h \in Nat /\ h > GenesisHeight /\ h <= T
    BY <2>0, <2>2, ConstantsAssumption
  <2>4. c >= GenesisHeight /\ c < T
    BY <2>2, ConstantsAssumption DEF CertifiedBefore
  <2>5. c + 1 \in Nat /\ c + 1 > GenesisHeight /\ c + 1 <= T
    BY <2>4, ConstantsAssumption
  <2> HIDE DEF h
  <2>6. getBFTParameters(q2, h) = getBFTParameters(q, h)
        /\ getBFTParameters(q2, c + 1) = getBFTParameters(q, c + 1)
    BY <2>3, <2>5, <1>1
  <2> QED
    BY <2>1, <2>6
<1> QED
  BY <1>2 DEF CertificatesOK, q2

\* What _executeValidated has verified of a header.
Verified(v, p, header, n) ==
    /\ header \in Header
    /\ header.height = GenesisHeight + n + 1
    /\ header.maxHeightPrevoted = v.maxHeightPrevoted
    /\ IF header.aggregateCommit.signed
          THEN /\ header.aggregateCommit.height > v.maxHeightCertified
               /\ header.aggregateCommit.height <= v.maxHeightPrecommitted
               /\ Admitted(p, v.maxHeightCertified, header.aggregateCommit.height)
          ELSE header.aggregateCommit.height = v.maxHeightCertified

\* The window and what can be certified need no parameters that
\* beforeTransactionsExecute deletes.
LEMMA ParametersDeleted ==
    ASSUME NEW n \in Nat, NEW v, NEW p, NEW q, ParametersOK(v, p, q, n),
           v.maxHeightCertified \in Nat, NEW a, WindowOK(a, n + 1),
           a.maxHeightCertified \in Nat, a.maxHeightCertified >= v.maxHeightCertified,
           NEW r \in Int, r <= v.maxHeightCertified \/ r <= MinCertifyHeight - 1
    PROVE  ParametersOK(a, ParamsAfter(a, p, r), q, n + 1)
<1> DEFINE oldest == Oldest(a).height
           upTo   == Min({oldest, r})
           kept   == ParamsAfter(a, p, r)
<1>1. PICK c \in Nat : /\ Suffix(p, q, c)
                       /\ c <= GenesisHeight + n + 1 - WindowSize(n)
                       /\ c <= v.maxHeightCertified + 1 \/ c <= MinCertifyHeight - 1
  BY DEF ParametersOK
<1>2. /\ GenesisHeight \in Nat /\ MinCertifyHeight \in Nat
      /\ WindowSize(n) \in 0 .. n /\ WindowSize(n + 1) \in 1 .. (n + 1)
      /\ WindowSize(n + 1) <= WindowSize(n) + 1
  BY ConstantsAssumption, WindowLengthPositive DEF WindowSize
<1>3. oldest = GenesisHeight + (n + 1) - WindowSize(n + 1) + 1
  <2>1. Len(a.blockBFTInfos) = WindowSize(n + 1)
        /\ \A i \in 1 .. Len(a.blockBFTInfos) :
              a.blockBFTInfos[i].height = GenesisHeight + (n + 1) - i + 1
    BY DEF WindowOK
  <2>2. Len(a.blockBFTInfos) \in 1 .. Len(a.blockBFTInfos)
    BY <2>1, <1>2
  <2> QED
    BY <2>1, <2>2 DEF Oldest
<1> HIDE DEF oldest
<1>4. upTo \in Int /\ upTo <= oldest /\ upTo <= r
  <2>1. \E x \in {oldest, r} : \A y \in {oldest, r} : x <= y
    BY <1>2, <1>3
  <2> QED
    BY <2>1, <1>2, <1>3 DEF Min
<1>5. kept = deleteBFTParameters(p, upTo)
  BY DEF ParamsAfter, oldest
<1> HIDE DEF upTo, kept
<1>6. DOMAIN q \subseteq Nat
  BY <1>2 DEF ParametersOK
<1>7. PICK d : Suffix(kept, q, d) /\ (d = c \/ d <= upTo)
  BY <1>1, <1>4, <1>5, <1>6, DeletionKeepsSuffix
<1>8. d \in Nat
  BY <1>6, <1>7 DEF Suffix
<1>9. d <= GenesisHeight + (n + 1) + 1 - WindowSize(n + 1)
  <2>1. CASE d = c
    BY <2>1, <1>1, <1>2
  <2>2. CASE d <= upTo
    BY <2>2, <1>2, <1>3, <1>4, <1>8
  <2> QED
    BY <2>1, <2>2, <1>7
<1>10. d <= a.maxHeightCertified + 1 \/ d <= MinCertifyHeight - 1
  <2>1. CASE d = c
    BY <2>1, <1>1, <1>2
  <2>2. CASE d <= upTo
    BY <2>2, <1>2, <1>4, <1>8
  <2> QED
    BY <2>1, <2>2, <1>7
<1>11. DOMAIN q \subseteq (GenesisHeight + 1) .. (GenesisHeight + (n + 1) + 1)
       /\ GenesisHeight + 1 \in DOMAIN q /\ \A k \in DOMAIN q : q[k] \in ParametersType
  BY <1>2 DEF ParametersOK
<1> QED
  BY <1>7, <1>8, <1>9, <1>10, <1>11 DEF ParametersOK, kept

\* New parameters apply from the height after the block.
LEMMA ParametersAdded ==
    ASSUME NEW n \in Nat, NEW v, NEW p, NEW q, ParametersOK(v, p, q, n), WindowSize(n) >= 1,
           NEW w, w.maxHeightCertified = v.maxHeightCertified, NEW u \in AllUpdates
    PROVE  ParametersOK(w, WithKey(p, GenesisHeight + n + 1, ParametersOf(u)),
                        WithKey(q, GenesisHeight + n + 1, ParametersOf(u)), n)
<1> DEFINE N  == GenesisHeight + n + 1
           p2 == WithKey(p, N, ParametersOf(u))
           q2 == WithKey(q, N, ParametersOf(u))
<1>1. PICK c \in Nat : /\ Suffix(p, q, c)
                       /\ c <= GenesisHeight + n + 1 - WindowSize(n)
                       /\ c <= v.maxHeightCertified + 1 \/ c <= MinCertifyHeight - 1
  BY DEF ParametersOK
<1>2. N \in Nat /\ GenesisHeight \in Nat /\ c <= N /\ DOMAIN q \subseteq Nat
  BY <1>1, ConstantsAssumption, WindowSizes DEF ParametersOK
<1>3. Suffix(p2, q2, c)
  BY <1>1, <1>2, SuffixGrows
<1>4. ParametersOf(u) \in ParametersType
  BY DEF ParametersType
<1>5. DOMAIN q2 = DOMAIN q \cup {N}
      /\ \A k \in DOMAIN q2 : q2[k] = IF k = N THEN ParametersOf(u) ELSE q[k]
  BY DEF WithKey
<1> HIDE DEF p2, q2
<1>6. /\ DOMAIN q2 \subseteq (GenesisHeight + 1) .. (GenesisHeight + n + 1)
      /\ GenesisHeight + 1 \in DOMAIN q2
      /\ \A k \in DOMAIN q2 : q2[k] \in ParametersType
  BY <1>2, <1>4, <1>5 DEF ParametersOK
<1>7. ParametersOK(w, p2, q2, n)
  BY <1>1, <1>3, <1>6 DEF ParametersOK
<1> QED
  BY <1>7 DEF p2, q2

\* Executing a block leads from a state in order to a state in order, and
\* lowers none of the three heights.
LEMMA Executed ==
    ASSUME NEW n \in Nat, NEW v, NEW p, NEW q, NEW hs, StateOK(v, p, q, hs, n),
           \A k \in 1 .. n : hs[k].aggregateCommit.height \in Nat,
           NEW header, Verified(v, p, header, n),
           ~InvalidVoteState(insertBlockBFTInfo(v, header, WindowLength), p),
           NEW r \in Int, r <= v.maxHeightCertified \/ r <= MinCertifyHeight - 1,
           NEW gs, \A k \in 1 .. n : gs[k] = hs[k], gs[n + 1] = header,
           NEW a, a = VotesAfter(v, p, header, WindowLength)
    PROVE  /\ StateOK(a, ParamsAfter(a, p, r), q, gs, n + 1)
           /\ a.maxHeightPrevoted >= v.maxHeightPrevoted
           /\ a.maxHeightPrecommitted >= v.maxHeightPrecommitted
           /\ a.maxHeightCertified >= v.maxHeightCertified
<1>1. PICK c \in Nat : Suffix(p, q, c) /\ c <= GenesisHeight + n + 1 - WindowSize(n)
  BY DEF StateOK, ParametersOK
<1>2. VotesOK(v, q, n) /\ ParametersOK(v, p, q, n) /\ CertificatesOK(v, q, hs, n)
      /\ \A k \in DOMAIN q : q[k] \in ParametersType
  BY DEF StateOK, ParametersOK
<1>3. DOMAIN q \subseteq Nat
  BY <1>2, ChainHasParameters
<1> DEFINE commit == header.aggregateCommit
           cert   == v.maxHeightCertified
<1>4. /\ header \in Header /\ header.height = GenesisHeight + n + 1
      /\ header.maxHeightPrevoted = v.maxHeightPrevoted
      /\ IF commit.signed
            THEN /\ commit.height > cert /\ commit.height <= v.maxHeightPrecommitted
                 /\ Admitted(p, cert, commit.height)
            ELSE commit.height = cert
  BY DEF Verified
<1>5. /\ VotesOK(a, q, n + 1)
      /\ a.maxHeightPrevoted >= v.maxHeightPrevoted
      /\ a.maxHeightPrecommitted >= v.maxHeightPrecommitted
      /\ a.maxHeightCertified >= cert
      /\ a.maxHeightCertified = commit.height
  <2>1. IF commit.signed
           THEN commit.height > cert /\ commit.height <= v.maxHeightPrecommitted
           ELSE commit.height = cert
    BY <1>4
  <2> QED
    BY <2>1, <1>1, <1>2, <1>3, <1>4, VotesCounted
<1>6. /\ GenesisHeight \in Nat /\ MinCertifyHeight \in Nat
      /\ cert \in Nat /\ cert >= GenesisHeight /\ commit.height \in Nat
      /\ a.maxHeightCertified \in Nat /\ WindowOK(a, n + 1)
  BY <1>2, <1>4, <1>5, ConstantsAssumption, SMTT(60) DEF VotesOK, Header
<1>7. ParametersOK(a, ParamsAfter(a, p, r), q, n + 1)
  BY <1>2, <1>5, <1>6, ParametersDeleted
<1>8. CertifiedBefore(gs, n + 1, cert)
  <2>1. CertifiedBefore(hs, n + 1, cert)
    BY <1>2 DEF CertificatesOK
  <2>2. \A k \in 1 .. ((n + 1) - 1) : gs[k] = hs[k]
    OBVIOUS
  <2> QED
    BY <2>1, <2>2 DEF CertifiedBefore
<1>9. CertifiedBefore(gs, (n + 1) + 1, a.maxHeightCertified)
  <2>1. gs[n + 1].aggregateCommit.height = a.maxHeightCertified
    BY <1>5
  <2>2. \A k \in 1 .. n : gs[k].aggregateCommit.height <= cert
                          /\ gs[k].aggregateCommit.height \in Nat
    BY <1>8 DEF CertifiedBefore
  <2>3. \A k \in 1 .. (((n + 1) + 1) - 1) : k \in 1 .. n \/ k = n + 1
    OBVIOUS
  <2>4. \A k \in 1 .. (((n + 1) + 1) - 1) : gs[k].aggregateCommit.height <= a.maxHeightCertified
    BY <2>1, <2>2, <2>3, <1>5, <1>6
  <2> QED
    BY <2>1, <2>4, <1>5, <1>6 DEF CertifiedBefore
<1>10. CertificateOK(q, gs, n + 1)
  <2> SUFFICES ASSUME commit.signed
               PROVE  /\ commit.height > GenesisHeight
                      /\ \A d \in Nat :
                            CertifiedBefore(gs, n + 1, d) /\ d >= MinCertifyHeight - 1 =>
                              getBFTParameters(q, commit.height) = getBFTParameters(q, d + 1)
    BY DEF CertificateOK
  <2>1. commit.height > cert /\ commit.height > GenesisHeight /\ Admitted(p, cert, commit.height)
    BY <1>4, <1>6
  <2>2. ASSUME NEW d \in Nat, CertifiedBefore(gs, n + 1, d), d >= MinCertifyHeight - 1
        PROVE  getBFTParameters(q, commit.height) = getBFTParameters(q, d + 1)
    <3>1. d = cert
      BY <2>2, <1>6, <1>8, CertifiedBeforeUnique
    <3> QED
      BY <3>1, <2>1, <2>2, <1>2, <1>6, CertificateContinues
  <2> QED
    BY <2>1, <2>2
<1>11. \A m \in 1 .. n : CertificateOK(q, gs, m)
  BY <1>2, CertificatesKept DEF CertificatesOK
<1>12. \A m \in 1 .. (n + 1) : CertificateOK(q, gs, m)
  <2>1. \A m \in 1 .. (n + 1) : m \in 1 .. n \/ m = n + 1
    OBVIOUS
  <2> QED
    BY <2>1, <1>10, <1>11
<1>13. CertificatesOK(a, q, gs, n + 1)
  BY <1>9, <1>12 DEF CertificatesOK
<1> QED
  BY <1>5, <1>7, <1>13 DEF StateOK

\* So does the update that the application returns.
LEMMA Updated ==
    ASSUME NEW m \in Nat, m >= 1, NEW v, NEW p, NEW q, NEW gs, StateOK(v, p, q, gs, m),
           \A k \in 1 .. m : gs[k].aggregateCommit.height \in Nat, NEW u \in AllUpdates,
           NEW s, s = setBFTParameters(v, p, u.precommitThreshold, u.certificateThreshold,
                                       u.validators),
           NEW t, t = setBFTParameters(v, q, u.precommitThreshold, u.certificateThreshold,
                                       u.validators)
    PROVE  /\ StateOK(s.votes, s.params, t.params, gs, m)
           /\ s.votes.maxHeightPrevoted = v.maxHeightPrevoted
           /\ s.votes.maxHeightPrecommitted = v.maxHeightPrecommitted
           /\ s.votes.maxHeightCertified = v.maxHeightCertified
<1> DEFINE w == s.votes
           N == GenesisHeight + m + 1
<1>1. VotesOK(v, q, m) /\ ParametersOK(v, p, q, m) /\ CertificatesOK(v, q, gs, m)
  BY DEF StateOK
<1>2. WindowOK(v, m) /\ v.maxHeightCertified \in GenesisHeight .. (GenesisHeight + m)
      /\ N \in Nat /\ WindowSize(m) >= 1
  BY <1>1, ConstantsAssumption, WindowSizes DEF VotesOK
<1>3. /\ s.params = WithKey(p, N, ParametersOf(u)) /\ DOMAIN w = VotesFields
      /\ \A f \in VotesFields \ {"activeValidatorsVoteInfo"} : w[f] = v[f]
      /\ t.params = WithKey(q, N, ParametersOf(u))
  BY <1>2, ParametersSet
<1>4. /\ w.maxHeightPrevoted = v.maxHeightPrevoted
      /\ w.maxHeightPrecommitted = v.maxHeightPrecommitted
      /\ w.maxHeightCertified = v.maxHeightCertified
  BY <1>3 DEF VotesFields
<1> HIDE DEF w
<1>5. DOMAIN q \subseteq Nat /\ \A h \in Nat : h > GenesisHeight => ParametersExist(q, h)
  BY <1>1, ChainHasParameters
<1>6. VotesOK(w, t.params, m)
  <2>1. VotesOK(w, WithKey(q, GenesisHeight + m + 1, ParametersOf(u)), m)
    BY <1>1, <1>3, <1>5, VotesKept
  <2> QED
    BY <2>1, <1>3
<1>7. ParametersOK(w, s.params, t.params, m)
  <2>1. ParametersOK(w, WithKey(p, GenesisHeight + m + 1, ParametersOf(u)),
                     WithKey(q, GenesisHeight + m + 1, ParametersOf(u)), m)
    BY <1>1, <1>2, <1>4, ParametersAdded
  <2> QED
    BY <2>1, <1>3
<1>8. CertificatesOK(w, t.params, gs, m)
  <2>1. CertificatesOK(w, q, gs, m)
    BY <1>1, <1>4, CertificatesKept
  <2>2. w.maxHeightCertified \in Nat /\ w.maxHeightCertified < GenesisHeight + m
        /\ N > GenesisHeight + m
    BY <1>1, <1>2, <1>4, ConstantsAssumption DEF VotesOK
  <2>3. CertificatesOK(w, WithKey(q, N, ParametersOf(u)), gs, m)
    BY <2>1, <2>2, <1>2, <1>5, CertificatesUnmoved
  <2> QED
    BY <2>3, <1>3
<1> QED
  BY <1>4, <1>6, <1>7, <1>8 DEF StateOK, w

\* A state in order stays so whatever headers follow.
LEMMA StateKept ==
    ASSUME NEW n \in Nat, NEW v, NEW p, NEW q, NEW hs, StateOK(v, p, q, hs, n),
           NEW gs, \A k \in 1 .. n : gs[k] = hs[k]
    PROVE  StateOK(v, p, q, gs, n)
  BY CertificatesKept DEF StateOK

(* ------------------------ the inductive invariant ---------------------- *)

\* Every state the chain can return to by deletions is in order, and so is the
\* present one.
StatesOK ==
    /\ \A n \in 0 .. (Len(headers) - 1) :
          StateOK(undo[n + 1].votes, undo[n + 1].params, undo[n + 1].history.params, headers, n)
    /\ StateOK(votes, params, history.params, headers, Len(headers))

IInv ==
    /\ headers \in Seq(Header)
    /\ undo \in Seq(Range(undo))
    /\ Len(undo) = Len(headers)
    /\ finalizedHeight \in GenesisHeight .. TipHeight
    /\ StatesOK

\* A sequence over some set is one over its own elements.
LEMMA AnySequence ==
    ASSUME NEW S, NEW s \in Seq(S)
    PROVE  s \in Seq(Range(s))
  BY DEF Range

\* The invariant holds after the genesis block.
LEMMA InitInvariant == Init => IInv
<1> SUFFICES ASSUME Init PROVE IInv
  OBVIOUS
<1> DEFINE v0 == initGenesisState(GenesisHeight)
           N  == GenesisHeight + 1
           g  == setBFTParameters(v0, << >>, GenesisUpdate.precommitThreshold,
                     GenesisUpdate.certificateThreshold, GenesisUpdate.validators)
<1>1. GenesisHeight \in Nat /\ N \in Nat /\ GenesisUpdate \in AllUpdates
  BY ConstantsAssumption DEF AllUpdates
<1>2. votes = g.votes /\ params = g.params /\ history.params = g.params
      /\ headers = << >> /\ undo = << >> /\ finalizedHeight = GenesisHeight
  BY DEF Init
<1>3. NextHeight(v0) = N
  BY <1>1 DEF NextHeight, initGenesisState
<1>4. params = [h \in {N} |-> ParametersOf(GenesisUpdate)]
  <2>1. DOMAIN << >> = {}
    OBVIOUS
  <2>2. params = [h \in DOMAIN << >> \cup {N} |->
                    IF h = N THEN ParametersOf(GenesisUpdate) ELSE << >>[h]]
    BY <1>2, <1>3 DEF setBFTParameters, ParametersOf
  <2> QED
    BY <2>1, <2>2
<1>5. /\ DOMAIN votes = VotesFields /\ votes.blockBFTInfos = << >>
      /\ votes.maxHeightPrevoted = GenesisHeight /\ votes.maxHeightPrecommitted = GenesisHeight
      /\ votes.maxHeightCertified = GenesisHeight
  BY <1>2 DEF setBFTParameters, initGenesisState, VotesFields
<1>6. VotesOK(votes, params, 0)
  <2>1. WindowSize(0) = 0
    BY WindowSizes
  <2> QED
    BY <2>1, <1>1, <1>5 DEF VotesOK, WindowOK, PrevotesMet, PrecommitsMet
<1>7. ParametersOK(votes, params, params, 0)
  <2>1. Suffix(params, params, N)
    BY <1>1, <1>4 DEF Suffix
  <2>2. WindowSize(0) = 0
    BY WindowSizes
  <2>3. ParametersOf(GenesisUpdate) \in ParametersType
    BY <1>1 DEF ParametersType
  <2> QED
    BY <2>1, <2>2, <2>3, <1>1, <1>4, <1>5 DEF ParametersOK
<1>8. CertificatesOK(votes, params, headers, 0)
  BY <1>1, <1>5 DEF CertificatesOK, CertifiedBefore
<1>9. StateOK(votes, params, history.params, headers, 0)
  BY <1>2, <1>6, <1>7, <1>8 DEF StateOK
<1> QED
  BY <1>1, <1>2, <1>9 DEF IInv, StatesOK, TipHeight

\* A deletion returns to the state before the last block.
LEMMA DeleteStep == IInv /\ DeleteLastBlock => IInv'
<1> SUFFICES ASSUME IInv, DeleteLastBlock PROVE IInv'
  OBVIOUS
<1> DEFINE len == Len(headers)
<1>1. /\ headers \in Seq(Header) /\ undo \in Seq(Range(undo)) /\ Len(undo) = len
      /\ finalizedHeight \in GenesisHeight .. (GenesisHeight + len) /\ GenesisHeight \in Nat
      /\ GenesisHeight + len > finalizedHeight /\ StatesOK
  BY ConstantsAssumption DEF IInv, DeleteLastBlock, TipHeight
<1>2. len \in Nat /\ len >= 1
  BY <1>1
<1>3. /\ votes' = undo[len].votes /\ params' = undo[len].params /\ history' = undo[len].history
      /\ headers' = SubSeq(headers, 1, len - 1) /\ undo' = SubSeq(undo, 1, len - 1)
      /\ finalizedHeight' = finalizedHeight
  BY <1>1 DEF DeleteLastBlock
<1>4. /\ headers' \in Seq(Header) /\ Len(headers') = len - 1
      /\ \A k \in 1 .. (len - 1) : headers'[k] = headers[k]
  BY <1>1, <1>2, <1>3
<1>5. /\ undo' \in Seq(Range(undo)) /\ Len(undo') = len - 1
      /\ \A k \in 1 .. (len - 1) : undo'[k] = undo[k]
  BY <1>1, <1>2, <1>3
<1>6. undo' \in Seq(Range(undo'))
  BY <1>5, AnySequence
<1>7. \A n \in 0 .. (len - 1) :
          StateOK(undo[n + 1].votes, undo[n + 1].params, undo[n + 1].history.params, headers', n)
  <2> TAKE n \in 0 .. (len - 1)
  <2>1. StateOK(undo[n + 1].votes, undo[n + 1].params, undo[n + 1].history.params, headers, n)
    BY <1>1 DEF StatesOK
  <2>2. n \in Nat /\ \A k \in 1 .. n : headers'[k] = headers[k]
    BY <1>2, <1>4
  <2> QED
    BY <2>1, <2>2, StateKept
<1>8. StatesOK'
  <2>1. StateOK(votes', params', history'.params, headers', len - 1)
    <3>1. len - 1 \in 0 .. (len - 1) /\ (len - 1) + 1 = len
      BY <1>2
    <3> QED
      BY <3>1, <1>3, <1>7
  <2>2. \A n \in 0 .. ((len - 1) - 1) :
            n \in 0 .. (len - 1) /\ undo'[n + 1] = undo[n + 1]
    BY <1>2, <1>5
  <2> QED
    BY <2>1, <2>2, <1>4, <1>7 DEF StatesOK
<1>9. finalizedHeight' \in GenesisHeight .. TipHeight'
  BY <1>1, <1>2, <1>3, <1>4 DEF TipHeight
<1> QED
  BY <1>4, <1>5, <1>6, <1>8, <1>9 DEF IInv

\* What the verification of a header establishes.
LEMMA HeaderIsVerified ==
    ASSUME IInv, NEW header \in VerifiedHeaders
    PROVE  Verified(votes, params, header, Len(headers))
<1> DEFINE n      == Len(headers)
           commit == header.aggregateCommit
<1>1. /\ n \in Nat /\ GenesisHeight \in Nat
      /\ VotesOK(votes, history.params, n) /\ ParametersOK(votes, params, history.params, n)
  BY ConstantsAssumption DEF IInv, StatesOK, StateOK
<1>2. /\ votes.maxHeightPrevoted \in Nat /\ votes.maxHeightPrecommitted \in Nat
      /\ votes.maxHeightCertified \in Nat
  BY <1>1 DEF VotesOK
<1>3. header \in CandidateHeaders /\ HeaderVerified(header)
  BY DEF VerifiedHeaders
<1>4. getBFTParameters(params, TipHeight + 1) \in ParametersType
  <2>1. PICK c \in Nat : Suffix(params, history.params, c)
                         /\ c <= GenesisHeight + n + 1 - WindowSize(n)
    BY <1>1 DEF ParametersOK
  <2>2. TipHeight + 1 \in Nat /\ c <= TipHeight + 1
    BY <2>1, <1>1, WindowSizes, SMTT(60) DEF TipHeight
  <2>3. DOMAIN history.params \subseteq Nat
        /\ \A k \in DOMAIN history.params : history.params[k] \in ParametersType
    BY <1>1, ChainHasParameters DEF ParametersOK
  <2> QED
    BY <2>1, <2>2, <2>3, SuffixLooksUp
<1>5. /\ header.generatorAddress \in AddressType
      /\ header.height = TipHeight + 1 /\ header.maxHeightGenerated \in 0 .. (TipHeight + 1)
      /\ header.maxHeightPrevoted = votes.maxHeightPrevoted
      /\ DOMAIN header = {"generatorAddress", "height", "maxHeightGenerated",
                          "maxHeightPrevoted", "aggregateCommit"}
      /\ header = [generatorAddress |-> header.generatorAddress, height |-> header.height,
                   maxHeightGenerated |-> header.maxHeightGenerated,
                   maxHeightPrevoted |-> header.maxHeightPrevoted,
                   aggregateCommit |-> header.aggregateCommit]
      /\ commit \in [height : {votes.maxHeightCertified}, signed : {FALSE}]
                    \cup [height : (votes.maxHeightCertified + 1) .. votes.maxHeightPrecommitted,
                          signed : {TRUE}]
  BY <1>3, <1>4, ParametersAreTyped DEF CandidateHeaders
<1>6. commit \in [height : Nat, signed : BOOLEAN]
  <2>1. CASE commit \in [height : {votes.maxHeightCertified}, signed : {FALSE}]
    BY <2>1, <1>2
  <2>2. CASE commit \in [height : (votes.maxHeightCertified + 1) .. votes.maxHeightPrecommitted,
                         signed : {TRUE}]
    <3>1. (votes.maxHeightCertified + 1) .. votes.maxHeightPrecommitted \subseteq Nat
      BY <1>2
    <3> QED
      BY <2>2, <3>1
  <2> QED
    BY <2>1, <2>2, <1>5
<1>7. header \in Header
  BY <1>1, <1>2, <1>5, <1>6 DEF Header, TipHeight
<1>8. commit.signed => /\ commit.height > votes.maxHeightCertified
                       /\ commit.height <= votes.maxHeightPrecommitted
                       /\ Admitted(params, votes.maxHeightCertified, commit.height)
  BY <1>3 DEF HeaderVerified, AggregateCommitVerified, Admitted
<1>9. ~commit.signed => commit.height = votes.maxHeightCertified
  BY <1>3 DEF HeaderVerified, AggregateCommitVerified
<1> QED
  BY <1>5, <1>7, <1>8, <1>9 DEF Verified, TipHeight

\* The parameters are deleted up to a height that is certified on the chain, or
\* below the first one that may be.
LEMMA RemovalHeight ==
    ASSUME IInv
    PROVE  /\ getMaxRemovalHeight \in Int
           /\ getMaxRemovalHeight <= votes.maxHeightCertified
              \/ getMaxRemovalHeight <= MinCertifyHeight - 1
<1> DEFINE x == IF finalizedHeight = GenesisHeight THEN GenesisHeight
                ELSE HeaderAt(finalizedHeight).aggregateCommit.height
<1>1. /\ GenesisHeight \in Nat /\ MinCertifyHeight \in Nat /\ headers \in Seq(Header)
      /\ finalizedHeight \in GenesisHeight .. (GenesisHeight + Len(headers))
      /\ votes.maxHeightCertified \in Nat
      /\ CertifiedBefore(headers, Len(headers) + 1, votes.maxHeightCertified)
  BY ConstantsAssumption DEF IInv, TipHeight, StatesOK, StateOK, CertificatesOK, VotesOK
<1>2. x \in Nat /\ x <= votes.maxHeightCertified
  <2>1. CASE finalizedHeight = GenesisHeight
    BY <2>1, <1>1 DEF CertifiedBefore
  <2>2. CASE finalizedHeight # GenesisHeight
    <3>1. finalizedHeight - GenesisHeight \in 1 .. Len(headers)
      BY <2>2, <1>1
    <3>2. x = headers[finalizedHeight - GenesisHeight].aggregateCommit.height
      BY <2>2 DEF HeaderAt
    <3>3. headers[finalizedHeight - GenesisHeight] \in Header
      BY <3>1, <1>1
    <3>4. finalizedHeight - GenesisHeight \in 1 .. ((Len(headers) + 1) - 1)
      BY <3>1, <1>1
    <3> QED
      BY <3>2, <3>3, <3>4, <1>1 DEF CertifiedBefore, Header
  <2> QED
    BY <2>1, <2>2
<1> HIDE DEF x
<1>3. getMaxRemovalHeight = Max({x, MinCertifyHeight - 1})
  BY DEF getMaxRemovalHeight, x
<1>4. x \in Int /\ MinCertifyHeight - 1 \in Int
  BY <1>1, <1>2
<1>5. /\ Max({x, MinCertifyHeight - 1}) \in Int
      /\ Max({x, MinCertifyHeight - 1}) = x \/ Max({x, MinCertifyHeight - 1}) = MinCertifyHeight - 1
  BY <1>4, MaxOfTwo
<1> QED
  BY <1>1, <1>2, <1>3, <1>5

\* Executing a block keeps what all states have in order.
LEMMA ExecuteStep ==
    ASSUME IInv, NEW header \in VerifiedHeaders, NEW update \in Updates \cup {NoUpdate},
           ExecuteBlock(header, update)
    PROVE  /\ IInv'
           /\ votes'.maxHeightPrevoted >= votes.maxHeightPrevoted
           /\ votes'.maxHeightPrecommitted >= votes.maxHeightPrecommitted
           /\ votes'.maxHeightCertified >= votes.maxHeightCertified
           /\ finalizedHeight' >= finalizedHeight
<1> DEFINE n     == Len(headers)
           after == VotesAfter(votes, params, header, WindowLength)
           r     == getMaxRemovalHeight
           kept  == ParamsAfter(after, params, r)
           q     == history.params
           s     == setBFTParameters(after, kept, update.precommitThreshold,
                                     update.certificateThreshold, update.validators)
           t     == setBFTParameters(after, q, update.precommitThreshold,
                                     update.certificateThreshold, update.validators)
<1>1. /\ headers \in Seq(Header) /\ undo \in Seq(Range(undo)) /\ Len(undo) = n /\ n \in Nat
      /\ finalizedHeight \in GenesisHeight .. (GenesisHeight + n) /\ GenesisHeight \in Nat
      /\ StateOK(votes, params, q, headers, n) /\ StatesOK
  BY ConstantsAssumption DEF IInv, TipHeight, StatesOK
<1>2. Verified(votes, params, header, n) /\ header \in Header
  BY HeaderIsVerified DEF Verified
<1>3. r \in Int /\ (r <= votes.maxHeightCertified \/ r <= MinCertifyHeight - 1)
  BY RemovalHeight
<1>4. /\ headers' = Append(headers, header) /\ undo' = Append(undo, State)
      /\ ~InvalidVoteState(insertBlockBFTInfo(votes, header, WindowLength), params)
      /\ update # NoUpdate => IsValidUpdate(update)
      /\ votes' = IF update = NoUpdate THEN after ELSE s.votes
      /\ params' = IF update = NoUpdate THEN kept ELSE s.params
      /\ history'.params = IF update = NoUpdate THEN q ELSE t.params
      /\ finalizedHeight' = Max({finalizedHeight, after.maxHeightPrecommitted})
  BY DEF ExecuteBlock
<1>5. /\ headers' \in Seq(Header) /\ Len(headers') = n + 1 /\ headers'[n + 1] = header
      /\ \A k \in 1 .. n : headers'[k] = headers[k]
  BY <1>1, <1>2, <1>4
<1>6. \A k \in 1 .. n : headers[k].aggregateCommit.height \in Nat
  <2>1. \A k \in 1 .. n : headers[k] \in Header
    BY <1>1
  <2> QED
    BY <2>1 DEF Header
<1>7. \A k \in 1 .. (n + 1) : headers'[k].aggregateCommit.height \in Nat
  <2>1. \A k \in 1 .. (n + 1) : headers'[k] \in Header
    BY <1>5
  <2> QED
    BY <2>1 DEF Header
<1> HIDE DEF r
<1>8. /\ StateOK(after, kept, q, headers', n + 1)
      /\ after.maxHeightPrevoted >= votes.maxHeightPrevoted
      /\ after.maxHeightPrecommitted >= votes.maxHeightPrecommitted
      /\ after.maxHeightCertified >= votes.maxHeightCertified
  <2> DEFINE gs == headers'
  <2>1. (\A k \in 1 .. n : gs[k] = headers[k]) /\ gs[n + 1] = header
    BY <1>5
  <2>2. ~InvalidVoteState(insertBlockBFTInfo(votes, header, WindowLength), params)
    BY <1>4
  <2>3. n \in Nat /\ StateOK(votes, params, q, headers, n)
    BY <1>1
  <2>4. \A a : a = VotesAfter(votes, params, header, WindowLength) =>
           /\ StateOK(a, ParamsAfter(a, params, r), q, gs, n + 1)
           /\ a.maxHeightPrevoted >= votes.maxHeightPrevoted
           /\ a.maxHeightPrecommitted >= votes.maxHeightPrecommitted
           /\ a.maxHeightCertified >= votes.maxHeightCertified
    <3> HIDE DEF gs, q, n
    <3> QED
      BY <2>1, <2>2, <2>3, <1>2, <1>3, <1>6, Executed
  <2> QED
    BY <2>4
<1>9. update # NoUpdate => update \in AllUpdates
  BY <1>4 DEF AllUpdates
<1> HIDE DEF after, kept, q
<1>10. /\ StateOK(votes', params', history'.params, headers', n + 1)
       /\ votes'.maxHeightPrevoted = after.maxHeightPrevoted
       /\ votes'.maxHeightPrecommitted = after.maxHeightPrecommitted
       /\ votes'.maxHeightCertified = after.maxHeightCertified
  <2>1. CASE update = NoUpdate
    BY <2>1, <1>4, <1>8
  <2>2. CASE update # NoUpdate
    <3>1. /\ StateOK(s.votes, s.params, t.params, headers', n + 1)
          /\ s.votes.maxHeightPrevoted = after.maxHeightPrevoted
          /\ s.votes.maxHeightPrecommitted = after.maxHeightPrecommitted
          /\ s.votes.maxHeightCertified = after.maxHeightCertified
      <4>1. n + 1 \in Nat /\ n + 1 >= 1 /\ update \in AllUpdates
        BY <2>2, <1>1, <1>9
      <4> QED
        BY <4>1, <1>7, <1>8, Updated
    <3> HIDE DEF s, t
    <3> QED
      BY <2>2, <3>1, <1>4
  <2> QED
    BY <2>1, <2>2
<1>11. /\ undo' \in Seq(Range(undo) \cup {State}) /\ Len(undo') = n + 1 /\ undo'[n + 1] = State
       /\ \A k \in 1 .. n : undo'[k] = undo[k]
  <2>1. undo \in Seq(Range(undo) \cup {State})
    BY <1>1
  <2> HIDE DEF State
  <2> QED
    BY <2>1, <1>1, <1>4
<1>12. undo' \in Seq(Range(undo'))
  BY <1>11, AnySequence
<1>13. \A m \in 0 .. n :
           StateOK(undo'[m + 1].votes, undo'[m + 1].params, undo'[m + 1].history.params, headers', m)
  <2> TAKE m \in 0 .. n
  <2>1. m \in Nat /\ \A k \in 1 .. m : headers'[k] = headers[k]
    BY <1>1, <1>5
  <2>2. CASE m = n
    <3>1. /\ undo'[m + 1].votes = votes /\ undo'[m + 1].params = params
          /\ undo'[m + 1].history.params = q
      BY <2>2, <1>11 DEF State, q
    <3>2. StateOK(votes, params, q, headers', n)
      BY <2>1, <2>2, <1>1, StateKept
    <3> QED
      BY <3>1, <3>2, <2>2
  <2>3. CASE m # n
    <3>1. m \in 0 .. (n - 1) /\ m + 1 \in 1 .. n
      BY <2>3, <1>1
    <3>2. StateOK(undo[m + 1].votes, undo[m + 1].params, undo[m + 1].history.params, headers, m)
      BY <3>1, <1>1 DEF StatesOK
    <3>3. undo'[m + 1] = undo[m + 1]
      BY <3>1, <1>11
    <3> QED
      BY <3>2, <3>3, <2>1, StateKept
  <2> QED
    BY <2>2, <2>3
<1>14. StatesOK'
  <2>1. Len(headers') = n + 1 /\ (n + 1) - 1 = n
    BY <1>1, <1>5
  <2> QED
    BY <2>1, <1>10, <1>13 DEF StatesOK
<1>15. /\ after.maxHeightPrecommitted \in GenesisHeight .. (GenesisHeight + (n + 1))
       /\ after.maxHeightPrevoted \in Int /\ after.maxHeightCertified \in Int
  BY <1>1, <1>8 DEF StateOK, VotesOK
<1>16. finalizedHeight' \in GenesisHeight .. TipHeight' /\ finalizedHeight' >= finalizedHeight
  <2>1. /\ finalizedHeight' >= finalizedHeight
        /\ finalizedHeight' = finalizedHeight \/ finalizedHeight' = after.maxHeightPrecommitted
    <3> DEFINE h == after.maxHeightPrecommitted
    <3>1. finalizedHeight \in Int /\ h \in Int
      BY <1>1, <1>15
    <3> HIDE DEF h
    <3>2. /\ Max({finalizedHeight, h}) >= finalizedHeight
          /\ Max({finalizedHeight, h}) = finalizedHeight \/ Max({finalizedHeight, h}) = h
      BY <3>1, MaxOfTwo
    <3> QED
      BY <3>2, <1>4 DEF h
  <2> QED
    BY <2>1, <1>1, <1>5, <1>15 DEF TipHeight
<1> QED
  BY <1>5, <1>8, <1>10, <1>11, <1>12, <1>14, <1>16 DEF IInv

\* Executing and deleting a block keep the invariant.
LEMMA NextInvariant == IInv /\ [Next]_vars => IInv'
<1> SUFFICES ASSUME IInv, [Next]_vars PROVE IInv'
  OBVIOUS
<1>1. ASSUME NEW header \in VerifiedHeaders, NEW update \in Updates \cup {NoUpdate},
             ExecuteBlock(header, update)
      PROVE  IInv'
  BY <1>1, ExecuteStep
<1>2. CASE DeleteLastBlock
  BY <1>2, DeleteStep
<1>3. CASE UNCHANGED vars
  BY <1>3 DEF vars, IInv, StatesOK, TipHeight
<1> QED
  BY <1>1, <1>2, <1>3 DEF Next

(* ------------------------------- theorems ------------------------------ *)

\* Every state that blocks and deletions (beforeTransactionsExecute,
\* setBFTParameters, _deleteBlock) can lead to is in order.
THEOREM Invariance == Spec => []IInv
<1> QED
  BY InitInvariant, NextInvariant, PTL DEF Spec

\* Two parameter stores that differ below what can be certified admit the same
\* certificates.
LEMMA AdmittedAlike ==
    ASSUME NEW p, NEW q, DOMAIN q \subseteq Nat, NEW first \in Nat, Suffix(p, q, first),
           NEW c \in Nat, first <= c + 1 \/ first <= MinCertifyHeight - 1,
           NEW h \in Nat, h >= MinCertifyHeight, h >= c + 1
    PROVE  Admitted(p, c, h) <=> Admitted(q, c, h)
<1> DEFINE Free(r)  == \A k \in DOMAIN r : ~(k > c + 1 /\ k <= h)
           Later(r) == \E k \in DOMAIN r : k > c + 1
<1>1. /\ DOMAIN p \subseteq Nat /\ DOMAIN p \subseteq DOMAIN q /\ first \in DOMAIN p
      /\ \A k \in DOMAIN q : k >= first <=> k \in DOMAIN p
      /\ MinCertifyHeight \in Nat
  BY ConstantsAssumption DEF Suffix
<1>2. (Admitted(p, c, h) <=> Free(p) \/ (Later(p) /\ h <= MinCertifyHeight))
      /\ (Admitted(q, c, h) <=> Free(q) \/ (Later(q) /\ h <= MinCertifyHeight))
  BY <1>1, AdmittedHeights
<1>3. Free(q) => Free(p)
  BY <1>1
<1>4. Later(p) => Later(q)
  BY <1>1
<1>5. Later(q) => Later(p)
  <2> SUFFICES ASSUME NEW k \in DOMAIN q, k > c + 1 PROVE Later(p)
    OBVIOUS
  <2>1. CASE k \in DOMAIN p
    BY <2>1
  <2>2. CASE k \notin DOMAIN p
    <3>1. k < first /\ first > c + 1
      BY <2>2, <1>1
    <3> QED
      BY <3>1, <1>1
  <2> QED
    BY <2>1, <2>2
<1>6. Free(p) => Free(q)
  <2> SUFFICES ASSUME Free(p), NEW k \in DOMAIN q, k > c + 1, k <= h PROVE FALSE
    OBVIOUS
  <2>1. k \notin DOMAIN p /\ k \in Nat
    BY <1>1
  <2>2. k < first
    BY <2>1, <1>1
  <2>3. first > c + 1 /\ first <= h
    BY <2>1, <2>2, <1>1
  <2> QED
    BY <2>3, <1>1
<1> HIDE DEF Free, Later
<1> QED
  BY <1>2, <1>3, <1>4, <1>5, <1>6

\* deleteBFTParameters removes nothing that the next block, the window or a
\* certificate will read.
THEOREM NothingNeededIsDeleted == Spec => []DeletedParametersNotNeeded
<1>1. IInv => DeletedParametersNotNeeded
  <2> SUFFICES ASSUME IInv PROVE DeletedParametersNotNeeded
    OBVIOUS
  <2> DEFINE n    == Len(headers)
             q    == history.params
             cert == votes.maxHeightCertified
  <2>1. /\ n \in Nat /\ GenesisHeight \in Nat /\ MinCertifyHeight \in Nat
        /\ VotesOK(votes, q, n) /\ ParametersOK(votes, params, q, n)
        /\ cert \in Nat /\ cert >= GenesisHeight
    BY ConstantsAssumption DEF IInv, StatesOK, StateOK, VotesOK
  <2>2. PICK c \in Nat : /\ Suffix(params, q, c)
                         /\ c <= GenesisHeight + n + 1 - WindowSize(n)
                         /\ c <= cert + 1 \/ c <= MinCertifyHeight - 1
    BY <2>1 DEF ParametersOK
  <2>3. DOMAIN q \subseteq Nat
    BY <2>1, ChainHasParameters
  <2>4. \A h \in Nat : c <= h =>
            /\ ParametersExist(params, h)
            /\ getBFTParameters(params, h) = getBFTParameters(q, h)
    BY <2>2, <2>3, SuffixLooksUp
  <2>10. WindowSize(n) \in 0 .. n
    BY <2>1, WindowSizes
  <2>5. TipHeight + 1 \in Nat /\ c <= TipHeight + 1
    BY <2>1, <2>2, <2>10 DEF TipHeight
  <2>6. ASSUME NEW i \in DOMAIN votes.blockBFTInfos
        PROVE  votes.blockBFTInfos[i].height \in Nat /\ c <= votes.blockBFTInfos[i].height
    <3>1. i \in 1 .. WindowSize(n) /\ votes.blockBFTInfos[i].height = GenesisHeight + n - i + 1
      BY <2>1, SMTT(60) DEF VotesOK, WindowOK
    <3> QED
      BY <3>1, <2>1, <2>2, <2>10
  <2>7. \A h \in (cert + 1) .. TipHeight : h >= MinCertifyHeight => h \in Nat /\ c <= h
    BY <2>1, <2>2
  <2>8. \A h \in (cert + 1) .. TipHeight :
            h >= MinCertifyHeight => (Admitted(params, cert, h) <=> Admitted(q, cert, h))
    BY <2>1, <2>2, <2>3, AdmittedAlike
  <2>9. CertifiableHeights(params) = CertifiableHeights(q)
    <3>1. \A p : CertifiableHeights(p) =
                    {h \in (cert + 1) .. TipHeight : h >= MinCertifyHeight /\ Admitted(p, cert, h)}
      BY DEF CertifiableHeights, Admitted
    <3> HIDE DEF cert, q
    <3>2. {h \in (cert + 1) .. TipHeight : h >= MinCertifyHeight /\ Admitted(params, cert, h)}
            = {h \in (cert + 1) .. TipHeight : h >= MinCertifyHeight /\ Admitted(q, cert, h)}
      BY <2>8
    <3> QED
      BY <3>1, <3>2
  <2> QED
    BY <2>4, <2>5, <2>6, <2>7, <2>9 DEF DeletedParametersNotNeeded
<1> QED
  BY <1>1, Invariance, PTL

\* Whoever has checked one certificate of the chain can check the next one.
THEOREM CertificatesFollow == Spec => []CertificateChainUnbroken
<1>1. IInv => CertificateChainUnbroken
  <2> SUFFICES ASSUME IInv, NEW n \in DOMAIN headers, headers[n].aggregateCommit.signed
               PROVE  LET before == Max({GenesisHeight} \cup
                              {headers[m].aggregateCommit.height : m \in 1 .. (n - 1)})
                      IN  before >= MinCertifyHeight - 1 =>
                            getBFTParameters(history.params, headers[n].aggregateCommit.height)
                              = getBFTParameters(history.params, before + 1)
    BY DEF CertificateChainUnbroken
  <2> DEFINE S      == {GenesisHeight} \cup {headers[m].aggregateCommit.height : m \in 1 .. (n - 1)}
             before == Max(S)
  <2>1. /\ headers \in Seq(Header) /\ n \in 1 .. Len(headers) /\ GenesisHeight \in Nat
        /\ CertificatesOK(votes, history.params, headers, Len(headers))
        /\ votes.maxHeightCertified \in Nat
    BY ConstantsAssumption DEF IInv, StatesOK, StateOK, VotesOK
  <2>2. \A m \in 1 .. (n - 1) : /\ headers[m].aggregateCommit.height \in Nat
                                /\ headers[m].aggregateCommit.height <= votes.maxHeightCertified
    <3>1. \A m \in 1 .. Len(headers) : headers[m] \in Header
      BY <2>1
    <3>2. \A m \in 1 .. ((Len(headers) + 1) - 1) :
              headers[m].aggregateCommit.height <= votes.maxHeightCertified
      BY <2>1 DEF CertificatesOK, CertifiedBefore
    <3> TAKE m \in 1 .. (n - 1)
    <3>3. m \in 1 .. Len(headers) /\ m \in 1 .. ((Len(headers) + 1) - 1)
      BY <2>1
    <3>4. headers[m] \in Header /\ headers[m].aggregateCommit.height <= votes.maxHeightCertified
      BY <3>1, <3>2, <3>3
    <3> QED
      BY <3>4 DEF Header
  <2>3. GenesisHeight <= votes.maxHeightCertified
    BY <2>1 DEF CertificatesOK, CertifiedBefore
  <2>4. S \in SUBSET Nat /\ S # {} /\ \A x \in S : x <= votes.maxHeightCertified
    BY <2>1, <2>2, <2>3
  <2>5. before \in S /\ \A x \in S : x <= before
    BY <2>1, <2>4, MaxOfNaturals
  <2>6. before \in Nat /\ CertifiedBefore(headers, n, before)
    BY <2>4, <2>5 DEF CertifiedBefore
  <2>7. CertificateOK(history.params, headers, n)
    BY <2>1 DEF CertificatesOK
  <2> HIDE DEF before
  <2>8. before >= MinCertifyHeight - 1 =>
            getBFTParameters(history.params, headers[n].aggregateCommit.height)
              = getBFTParameters(history.params, before + 1)
    BY <2>6, <2>7 DEF CertificateOK
  <2> QED
    BY <2>8 DEF before
<1> QED
  BY <1>1, Invariance, PTL

\* updateMaxHeightPrevoted, updateMaxHeightPrecommitted and
\* updateMaxHeightCertified lower no height when a block is added, whatever its
\* generator claims and however the validators change.
THEOREM HeightsOnlyRise == Spec => HeightsNeverDecrease
<1>1. ASSUME IInv, Next, Len(headers') > Len(headers)
      PROVE  /\ votes'.maxHeightPrevoted >= votes.maxHeightPrevoted
             /\ votes'.maxHeightPrecommitted >= votes.maxHeightPrecommitted
             /\ votes'.maxHeightCertified >= votes.maxHeightCertified
  <2>1. ~DeleteLastBlock
    <3> SUFFICES ASSUME DeleteLastBlock PROVE FALSE
      OBVIOUS
    <3>1. headers \in Seq(Header) /\ headers' = SubSeq(headers, 1, Len(headers) - 1)
      BY <1>1 DEF IInv, DeleteLastBlock
    <3>2. Len(headers) \in Nat /\ Len(headers') <= Len(headers)
      BY <3>1
    <3> QED
      BY <1>1, <3>1, <3>2
  <2> QED
    BY <1>1, <2>1, ExecuteStep DEF Next
<1> QED
  BY <1>1, Invariance, PTL DEF Spec, HeightsNeverDecrease

\* A verified header names at least the height of its generator's newest block
\* of the window: any smaller claim would contradict that block.
LEMMA OwnBlockCounted ==
    ASSUME IInv, NEW header \in VerifiedHeaders,
           NEW i \in 1 .. Len(votes.blockBFTInfos),
           votes.blockBFTInfos[i].generatorAddress = header.generatorAddress,
           \A j \in 1 .. Len(votes.blockBFTInfos) :
              votes.blockBFTInfos[j].generatorAddress = header.generatorAddress => i <= j
    PROVE  votes.blockBFTInfos[i].height <= header.maxHeightGenerated
<1> DEFINE infos == votes.blockBFTInfos
           b     == infos[i]
           own   == {j \in DOMAIN infos : infos[j].generatorAddress = header.generatorAddress}
<1>1. /\ VotesOK(votes, history.params, Len(headers)) /\ infos \in Seq(Info)
      /\ Len(headers) \in Nat /\ GenesisHeight \in Nat
  BY ConstantsAssumption DEF IInv, StatesOK, StateOK, VotesOK, WindowOK
<1>2. /\ header \in Header /\ header.height = GenesisHeight + Len(headers) + 1
      /\ header.maxHeightPrevoted = votes.maxHeightPrevoted
      /\ ~isHeaderContradictingChain(votes, header)
  BY HeaderIsVerified DEF Verified, VerifiedHeaders, HeaderVerified
<1>3. /\ b \in Info /\ b.height = GenesisHeight + Len(headers) - i + 1
      /\ b.maxHeightPrevoted <= header.maxHeightPrevoted
      /\ b.generatorAddress = header.generatorAddress
  BY <1>1, <1>2 DEF VotesOK, WindowOK
<1>4. own \in SUBSET Nat /\ i \in own /\ \A j \in own : i <= j
  BY <1>1
<1>5. Min(own) = i
  <2>1. Min(own) \in own /\ \A j \in own : Min(own) <= j
    BY <1>4, MinOfNaturals
  <2>2. Min(own) \in Nat /\ i \in Nat /\ Min(own) <= i /\ i <= Min(own)
    BY <2>1, <1>4
  <2> QED
    BY <2>2
<1>6. ~areDistinctHeadersContradicting(b, header)
  BY <1>2, <1>4, <1>5 DEF isHeaderContradictingChain
<1>7. /\ b.height \in Nat /\ b.maxHeightPrevoted \in Nat /\ b.maxHeightGenerated \in Nat
      /\ header.height \in Nat /\ header.maxHeightPrevoted \in Nat
      /\ header.maxHeightGenerated \in Nat /\ header.height > b.height
  <2>1. /\ b.height \in Nat /\ b.maxHeightPrevoted \in Nat /\ b.maxHeightGenerated \in Nat
        /\ header.height \in Nat /\ header.maxHeightPrevoted \in Nat
        /\ header.maxHeightGenerated \in Nat
    BY <1>2, <1>3 DEF Info, Header
  <2>2. i \in Nat /\ i >= 1
    BY <1>1
  <2>3. header.height > b.height
    BY <2>2, <1>1, <1>2, <1>3
  <2> QED
    BY <2>1, <2>3
<1> HIDE DEF b
<1>8. CASE ProducedBefore(b, header)
  BY <1>3, <1>6, <1>7, <1>8 DEF areDistinctHeadersContradicting, b
<1>9. CASE ~ProducedBefore(b, header)
  <2>1. /\ ~(header.maxHeightPrevoted > b.maxHeightPrevoted)
        /\ ~(header.maxHeightPrevoted = b.maxHeightPrevoted /\ header.height >= b.height)
    BY <1>3, <1>6, <1>9 DEF areDistinctHeadersContradicting
  <2> QED
    BY <2>1, <1>3, <1>7
<1> QED
  BY <1>8, <1>9

\* impliesMaximalPrevotes is right about every block that can be verified: it
\* compares one block of the window, and verification has excluded the rest.
THEOREM MaximalPrevotesAreExact == Spec => []MaximalPrevotesExact
<1>1. IInv => MaximalPrevotesExact
  <2> SUFFICES ASSUME IInv, NEW header \in VerifiedHeaders
               PROVE  LET infos == votes.blockBFTInfos
                          own   == {infos[i].height : i \in {j \in DOMAIN infos :
                                        infos[j].generatorAddress = header.generatorAddress}}
                          from  == IF own # {} THEN Max(own) ELSE TipHeight - Len(infos)
                      IN  impliesMaximalPrevotes(votes, header) <=>
                            \A h \in (from + 1) .. header.height : header.maxHeightGenerated < h
    BY DEF MaximalPrevotesExact
  <2> DEFINE infos == votes.blockBFTInfos
             len   == Len(infos)
             T     == GenesisHeight + Len(headers)
             g     == header.maxHeightGenerated
             mine  == {j \in DOMAIN infos : infos[j].generatorAddress = header.generatorAddress}
             own   == {infos[i].height : i \in mine}
             from  == IF own # {} THEN Max(own) ELSE TipHeight - len
             found == T - g + 1
  <2>1. /\ infos \in Seq(Info) /\ len \in 0 .. Len(headers) /\ DOMAIN infos = 1 .. len
        /\ Len(headers) \in Nat /\ GenesisHeight \in Nat /\ T \in Nat /\ len \in Nat
        /\ TipHeight = T /\ len <= T
        /\ \A i \in 1 .. len : infos[i].height = T - i + 1
    <3>1. headers \in Seq(Header) /\ WindowOK(votes, Len(headers)) /\ GenesisHeight \in Nat
      BY ConstantsAssumption DEF IInv, StatesOK, StateOK, VotesOK
    <3>2. Len(headers) \in Nat /\ WindowSize(Len(headers)) \in 0 .. Len(headers)
      BY <3>1, WindowSizes
    <3> QED
      BY <3>1, <3>2 DEF WindowOK, TipHeight
  <2>2. header.height = T + 1 /\ g \in Nat
    BY HeaderIsVerified DEF Verified, Header
  <2> HIDE DEF infos, len, T, g
  <2>3. impliesMaximalPrevotes(votes, header) <=>
            /\ g <= T
            /\ len = 0 \/ T - g >= len \/ infos[found].generatorAddress = header.generatorAddress
    <3>1. g < header.height <=> g <= T
      BY <2>1, <2>2
    <3>2. infos = << >> <=> len = 0
      BY <2>1 DEF len
    <3>3. CASE len = 0
      BY <3>1, <3>2, <3>3 DEF impliesMaximalPrevotes, infos, g
    <3>4. CASE len # 0
      <4>1. Tip(votes).height = T
        BY <3>4, <2>1 DEF Tip, infos
      <4> QED
        BY <3>1, <3>2, <3>4, <4>1, Zenon DEF impliesMaximalPrevotes, infos, len, g
    <3> QED
      BY <3>3, <3>4
  <2>4. from \in Nat /\ from <= T /\ (mine = {} => from = T - len)
        /\ (mine # {} => \E i \in mine : /\ from = infos[i].height /\ \A j \in mine : i <= j)
    <3>1. CASE mine = {}
      BY <3>1, <2>1
    <3>2. CASE mine # {}
      <4>1. mine \in SUBSET Nat
        BY <2>1
      <4>2. PICK i \in mine : \A j \in mine : i <= j
        BY <3>2, <4>1, MinOfNaturals
      <4>3. infos[i].height = T - i + 1 /\ i \in 1 .. len
        BY <2>1
      <4>4. own \in SUBSET Nat /\ infos[i].height \in own
        BY <2>1
      <4>5. \A x \in own : x <= infos[i].height
        BY <2>1, <4>2, <4>3
      <4>6. Max(own) = infos[i].height
        BY <4>4, <4>5, MaxIs
      <4>7. own # {}
        BY <4>4
      <4>8. from = infos[i].height
        BY <4>6, <4>7
      <4> HIDE DEF from
      <4>9. from \in Nat /\ from <= T
        BY <4>3, <4>8, <2>1
      <4> QED
        BY <3>2, <4>2, <4>8, <4>9
    <3> QED
      BY <3>1, <3>2
  <2>5. \A i \in mine : (\A j \in mine : i <= j) => infos[i].height <= g
    BY <2>1, OwnBlockCounted DEF infos, len, g
  <2> HIDE DEF from
  <2>6. (\A h \in (from + 1) .. header.height : g < h) <=> g <= from
    <3>1. from + 1 \in (from + 1) .. header.height
      BY <2>1, <2>2, <2>4
    <3>2. CASE g <= from
      BY <3>2, <2>2, <2>4
    <3>3. CASE ~(g <= from)
      BY <3>1, <3>3, <2>2, <2>4
    <3> QED
      BY <3>2, <3>3
  <2>7. impliesMaximalPrevotes(votes, header) <=> g <= from
    <3>1. g <= T /\ ~(T - g >= len) => found \in 1 .. len /\ infos[found].height = g
      BY <2>1, <2>2
    <3>2. CASE mine = {}
      <4>1. \A j \in 1 .. len : infos[j].generatorAddress # header.generatorAddress
        BY <3>2, <2>1
      <4>2. from = T - len
        BY <3>2, <2>4
      <4> QED
        BY <3>1, <4>1, <4>2, <2>1, <2>2, <2>3
    <3>3. CASE mine # {}
      <4>1. PICK i \in mine : from = infos[i].height /\ \A j \in mine : i <= j
        BY <3>3, <2>4
      <4>2. i \in 1 .. len /\ infos[i].generatorAddress = header.generatorAddress
            /\ from = T - i + 1 /\ from <= g
        BY <4>1, <2>1, <2>5
      <4>3. CASE g <= from
        <5>1. g = from /\ found = i /\ g <= T
          BY <4>2, <4>3, <2>1, <2>2, <2>4
        <5> QED
          BY <5>1, <4>2, <4>3, <2>3
      <4>4. CASE ~(g <= from)
        <5> SUFFICES ASSUME impliesMaximalPrevotes(votes, header) PROVE FALSE
          BY <4>4
        <5>1. g <= T /\ ~(T - g >= len) /\ len # 0
          BY <4>2, <2>1, <2>2, <2>3, <2>4
        <5>2. found \in mine
          BY <5>1, <3>1, <2>1, <2>3
        <5>3. i <= found
          BY <5>2, <4>1
        <5> QED
          BY <5>1, <5>3, <4>2, <4>4, <2>1, <2>2
      <4> QED
        BY <4>3, <4>4
    <3> QED
      BY <3>2, <3>3
  <2> QED
    BY <2>6, <2>7 DEF from, infos, len, g
<1> QED
  BY <1>1, Invariance, PTL

(* ---------------------- votes and blocks of the chain ------------------ *)

\* What counts votes reads the parameters of the window's heights only.
LEMMA CountedAlike ==
    ASSUME NEW w, NEW p, NEW q,
           \A i \in DOMAIN w.blockBFTInfos :
              getBFTParameters(p, w.blockBFTInfos[i].height)
                 = getBFTParameters(q, w.blockBFTInfos[i].height)
    PROVE  /\ updatePrevotesPrecommits(w, p) = updatePrevotesPrecommits(w, q)
           /\ updateMaxHeightPrevoted(w, p) = updateMaxHeightPrevoted(w, q)
           /\ updateMaxHeightPrecommitted(w, p) = updateMaxHeightPrecommitted(w, q)
<1> DEFINE infos      == w.blockBFTInfos
           generator  == Tip(w).generatorAddress
           weight(r, i)  == WeightOf(getBFTParameters(r, infos[i].height).validators, generator)
           more(r, P)     == [i \in DOMAIN infos |-> [infos[i] EXCEPT
                    !.precommitWeight = @ + (IF i \in P THEN weight(r, i) ELSE 0),
                    !.prevoteWeight   = @ + (IF i \in PrevotedBy(w) THEN weight(r, i) ELSE 0)]]
<1>1. PrecommittedBy(w, p) = PrecommittedBy(w, q)
  BY DEF PrecommittedBy
<1>2. \A i \in DOMAIN infos : weight(p, i) = weight(q, i)
  BY SMTT(60)
<1>3. \A P : more(p, P) = more(q, P)
  <2> HIDE DEF weight
  <2> QED
    BY <1>2
<1> DEFINE counted(m, P) ==
              [w EXCEPT !.blockBFTInfos = m,
                        !.activeValidatorsVoteInfo[generator].largestHeightPrecommit =
                            IF P = {} THEN @ ELSE infos[Min(P)].height]
<1>4. \A r : updatePrevotesPrecommits(w, r) =
          IF ~ImpliesVotes(w) THEN w
          ELSE counted(more(r, PrecommittedBy(w, r)), PrecommittedBy(w, r))
  BY Zenon DEF updatePrevotesPrecommits
<1>5. updatePrevotesPrecommits(w, p) = updatePrevotesPrecommits(w, q)
  <2> HIDE DEF more, counted
  <2>1. more(p, PrecommittedBy(w, p)) = more(q, PrecommittedBy(w, q))
    BY <1>1, <1>3
  <2> QED
    BY <1>1, <1>4, <2>1
<1>6. updateMaxHeightPrevoted(w, p) = updateMaxHeightPrevoted(w, q)
  <2>1. {i \in DOMAIN infos : infos[i].prevoteWeight >=
                        getBFTParameters(p, infos[i].height).prevoteThreshold}
        = {i \in DOMAIN infos : infos[i].prevoteWeight >=
                        getBFTParameters(q, infos[i].height).prevoteThreshold}
    OBVIOUS
  <2> QED
    BY <2>1, Zenon DEF updateMaxHeightPrevoted
<1>7. updateMaxHeightPrecommitted(w, p) = updateMaxHeightPrecommitted(w, q)
  <2>1. {i \in DOMAIN infos : infos[i].precommitWeight >=
                        getBFTParameters(p, infos[i].height).precommitThreshold}
        = {i \in DOMAIN infos : infos[i].precommitWeight >=
                        getBFTParameters(q, infos[i].height).precommitThreshold}
    OBVIOUS
  <2> QED
    BY <2>1, Zenon DEF updateMaxHeightPrecommitted
<1> QED
  BY <1>5, <1>6, <1>7

\* None of the steps of counting changes the heights of the window.
LEMMA HeightsOfWindow ==
    ASSUME NEW w, "blockBFTInfos" \in DOMAIN w, NEW p,
           \A i \in DOMAIN w.blockBFTInfos : w.blockBFTInfos[i] \in Info
    PROVE  /\ LET r == updatePrevotesPrecommits(w, p)
              IN  /\ "blockBFTInfos" \in DOMAIN r
                  /\ DOMAIN r.blockBFTInfos = DOMAIN w.blockBFTInfos
                  /\ \A i \in DOMAIN w.blockBFTInfos :
                        r.blockBFTInfos[i].height = w.blockBFTInfos[i].height
           /\ updateMaxHeightPrevoted(w, p).blockBFTInfos = w.blockBFTInfos
<1>1. \A b \in Info : \A x, y : [b EXCEPT !.precommitWeight = x, !.prevoteWeight = y].height = b.height
  BY DEF Info
<1>2. updateMaxHeightPrevoted(w, p).blockBFTInfos = w.blockBFTInfos
  BY DEF updateMaxHeightPrevoted
<1> DEFINE infos      == w.blockBFTInfos
           generator  == Tip(w).generatorAddress
           weight(i)  == WeightOf(getBFTParameters(p, infos[i].height).validators, generator)
           moreP(i) == infos[i].precommitWeight + (IF i \in PrecommittedBy(w, p) THEN weight(i) ELSE 0)
           moreV(i) == infos[i].prevoteWeight + (IF i \in PrevotedBy(w) THEN weight(i) ELSE 0)
           more     == [i \in DOMAIN infos |-> [infos[i] EXCEPT
                          !.precommitWeight = moreP(i), !.prevoteWeight   = moreV(i)]]
           r == updatePrevotesPrecommits(w, p)
<1>3. CASE ImpliesVotes(w)
  <2>1. "blockBFTInfos" \in DOMAIN r /\ r.blockBFTInfos = more
    BY <1>3 DEF updatePrevotesPrecommits
  <2> HIDE DEF moreP, moreV, r
  <2>2. DOMAIN more = DOMAIN infos /\ \A i \in DOMAIN infos : more[i].height = infos[i].height
    BY <1>1, ZenonT(60)
  <2> QED
    BY <1>2, <2>1, <2>2 DEF r
<1>4. CASE ~ImpliesVotes(w)
  BY <1>2, <1>4 DEF updatePrevotesPrecommits
<1> QED
  BY <1>3, <1>4

\* The votes after a block depend on the parameters of the window's heights only.
LEMMA VotesAlike ==
    ASSUME NEW n \in Nat, NEW v, WindowOK(v, n), NEW header \in Header,
           header.height = GenesisHeight + n + 1, NEW p, NEW q,
           \A h \in Nat : h >= GenesisHeight + n + 1 - WindowSize(n)
                          /\ h <= GenesisHeight + n + 1 /\ h > GenesisHeight =>
              getBFTParameters(p, h) = getBFTParameters(q, h)
    PROVE  VotesAfter(v, p, header, WindowLength) = VotesAfter(v, q, header, WindowLength)
<1> DEFINE v1 == insertBlockBFTInfo(v, header, WindowLength)
           v2 == updatePrevotesPrecommits(v1, p)
           v3 == updateMaxHeightPrevoted(v2, p)
<1>1. WindowOK(v1, n + 1)
  BY Inserted
<1> HIDE DEF v1
<1>2. /\ "blockBFTInfos" \in DOMAIN v1 /\ DOMAIN v1.blockBFTInfos = 1 .. Len(v1.blockBFTInfos)
      /\ \A i \in DOMAIN v1.blockBFTInfos : v1.blockBFTInfos[i] \in Info
  BY <1>1 DEF WindowOK, VotesFields
<1>3. \A i \in DOMAIN v1.blockBFTInfos :
          getBFTParameters(p, v1.blockBFTInfos[i].height)
             = getBFTParameters(q, v1.blockBFTInfos[i].height)
  <2> TAKE i \in DOMAIN v1.blockBFTInfos
  <2>1. /\ i \in 1 .. WindowSize(n + 1) /\ GenesisHeight \in Nat
        /\ v1.blockBFTInfos[i].height = GenesisHeight + (n + 1) - i + 1
    BY <1>1, <1>2, ConstantsAssumption DEF WindowOK
  <2>2. WindowSize(n + 1) \in Nat /\ WindowSize(n + 1) <= n + 1 /\ WindowSize(n + 1) <= WindowSize(n) + 1
    BY WindowLengthPositive DEF WindowSize
  <2>3. WindowSize(n) \in Nat
    BY WindowSizes
  <2> QED
    BY <2>1, <2>2, <2>3
<1>4. v2 = updatePrevotesPrecommits(v1, q)
  BY <1>3, CountedAlike
<1>5. /\ "blockBFTInfos" \in DOMAIN v2
      /\ DOMAIN v2.blockBFTInfos = DOMAIN v1.blockBFTInfos
      /\ \A i \in DOMAIN v1.blockBFTInfos : v2.blockBFTInfos[i].height = v1.blockBFTInfos[i].height
  BY <1>2, HeightsOfWindow
<1> HIDE DEF v2
<1>6. v3 = updateMaxHeightPrevoted(v2, q)
  BY <1>3, <1>5, CountedAlike
<1>7. v3.blockBFTInfos = v2.blockBFTInfos
  BY <1>5 DEF updateMaxHeightPrevoted
<1> HIDE DEF v3
<1>8. updateMaxHeightPrecommitted(v3, p) = updateMaxHeightPrecommitted(v3, q)
  BY <1>3, <1>5, <1>7, CountedAlike
<1> QED
  BY <1>4, <1>6, <1>8 DEF VotesAfter, v1, v2, v3

\* The votes and all parameters of the chain after its n-th block.
VotesAt(n)   == IF n = Len(headers) THEN votes ELSE undo[n + 1].votes
HistoryAt(n) == IF n = Len(headers) THEN history.params ELSE undo[n + 1].history.params

\* The store q is the store p and keys above the height h.
Continues(p, q, h) ==
    /\ DOMAIN p = {k \in DOMAIN q : k <= h}
    /\ \A k \in DOMAIN p : q[k] = p[k]

\* The states a deletion may put back are those of the blocks before it, each
\* reached from the one before as the chain alone determines.
Chained ==
    /\ VotesAt(0) = GenesisVotes
    /\ \A n \in 1 .. Len(headers) : headers[n].height = GenesisHeight + n
    /\ \A n \in 0 .. Len(headers) : \A m \in 0 .. n :
          Continues(HistoryAt(m), HistoryAt(n), GenesisHeight + m + 1)
    /\ \A n \in 1 .. Len(headers) :
          VotesAt(n) = ReplayBlock(VotesAt(n - 1), HistoryAt(n), headers[n], n)

\* Keys above a height are not read for it.
LEMMA ContinuesLooksUp ==
    ASSUME NEW p, NEW q, NEW c \in Nat, Continues(p, q, c), DOMAIN q \subseteq Nat,
           NEW h \in Nat, h <= c, ParametersExist(q, h)
    PROVE  getBFTParameters(p, h) = getBFTParameters(q, h)
<1>1. PICK k \in DOMAIN q : /\ k <= h /\ getBFTParameters(q, h) = q[k]
                            /\ \A j \in DOMAIN q : j <= h => j <= k
  BY LookedUp
<1>2. k \in DOMAIN p /\ p[k] = q[k] /\ DOMAIN p \subseteq DOMAIN q
  BY <1>1 DEF Continues
<1>3. getBFTParameters(p, h) = p[k]
  BY <1>1, <1>2, LookedUpIs
<1> QED
  BY <1>1, <1>2, <1>3

\* Replaying a block reads the parameters up to the next height only.
LEMMA ReplayedAlike ==
    ASSUME NEW n \in Nat, NEW v, WindowOK(v, n), NEW header \in Header,
           header.height = GenesisHeight + n + 1, NEW p, NEW q,
           Continues(p, q, GenesisHeight + n + 2), DOMAIN q \subseteq Nat,
           \A h \in Nat : h > GenesisHeight => ParametersExist(q, h)
    PROVE  ReplayBlock(v, p, header, n + 1) = ReplayBlock(v, q, header, n + 1)
<1> DEFINE next == GenesisHeight + (n + 1) + 1
<1>0. GenesisHeight \in Nat /\ next \in Nat /\ next = GenesisHeight + n + 2
  BY ConstantsAssumption
<1>1. \A h \in Nat : h >= GenesisHeight + n + 1 - WindowSize(n)
                     /\ h <= GenesisHeight + n + 1 /\ h > GenesisHeight =>
          getBFTParameters(p, h) = getBFTParameters(q, h)
  <2> TAKE h \in Nat
  <2> HAVE h >= GenesisHeight + n + 1 - WindowSize(n)
           /\ h <= GenesisHeight + n + 1 /\ h > GenesisHeight
  <2>1. GenesisHeight + n + 2 \in Nat /\ h <= GenesisHeight + n + 2
    BY <1>0
  <2> QED
    BY <2>1, ContinuesLooksUp
<1>2. VotesAfter(v, p, header, WindowLength) = VotesAfter(v, q, header, WindowLength)
  BY <1>1, VotesAlike
<1>3. (next \in DOMAIN p <=> next \in DOMAIN q) /\ (next \in DOMAIN p => p[next] = q[next])
  BY <1>0 DEF Continues
<1> HIDE DEF next
<1>4. CASE next \in DOMAIN p
  BY <1>2, <1>3, <1>4 DEF ReplayBlock, next
<1>5. CASE next \notin DOMAIN p
  BY <1>2, <1>3, <1>5 DEF ReplayBlock, next
<1> QED
  BY <1>4, <1>5

\* The chain begins with the genesis votes.
LEMMA InitChained == Init => Chained
<1> SUFFICES ASSUME Init PROVE Chained
  OBVIOUS
<1>1. Len(headers) = 0 /\ votes = GenesisVotes
  BY DEF Init, GenesisVotes
<1>2. VotesAt(0) = GenesisVotes
  BY <1>1 DEF VotesAt
<1>3. IInv
  BY InitInvariant
<1>4. DOMAIN history.params \subseteq (GenesisHeight + 1) .. (GenesisHeight + 0 + 1)
  BY <1>1, <1>3 DEF IInv, StatesOK, StateOK, ParametersOK
<1>5. Continues(HistoryAt(0), HistoryAt(0), GenesisHeight + 0 + 1)
  BY <1>1, <1>4, ConstantsAssumption DEF Continues, HistoryAt
<1>6. \A n \in 0 .. Len(headers) : \A m \in 0 .. n : n = 0 /\ m = 0
  BY <1>1
<1>7. \A n \in 0 .. Len(headers) : \A m \in 0 .. n :
          Continues(HistoryAt(m), HistoryAt(n), GenesisHeight + m + 1)
  BY <1>5, <1>6
<1> QED
  BY <1>1, <1>2, <1>7 DEF Chained

\* A deletion returns to the chain without its last block.
LEMMA DeleteChained == IInv /\ Chained /\ DeleteLastBlock => Chained'
<1> SUFFICES ASSUME IInv, Chained, DeleteLastBlock PROVE Chained'
  OBVIOUS
<1> DEFINE len == Len(headers)
<1>1. /\ headers \in Seq(Header) /\ undo \in Seq(Range(undo)) /\ Len(undo) = len
      /\ len \in Nat /\ len >= 1
  BY ConstantsAssumption DEF IInv, DeleteLastBlock, TipHeight
<1>2. /\ votes' = undo[len].votes /\ history' = undo[len].history
      /\ headers' = SubSeq(headers, 1, len - 1) /\ undo' = SubSeq(undo, 1, len - 1)
  BY <1>1 DEF DeleteLastBlock
<1>3. /\ Len(headers') = len - 1 /\ \A k \in 1 .. (len - 1) : headers'[k] = headers[k]
  BY <1>1, <1>2
<1>4. \A k \in 1 .. (len - 1) : undo'[k] = undo[k]
  BY <1>1, <1>2
<1>5. \A n \in 0 .. (len - 1) : VotesAt(n)' = VotesAt(n) /\ HistoryAt(n)' = HistoryAt(n)
  <2> TAKE n \in 0 .. (len - 1)
  <2>1. VotesAt(n) = undo[n + 1].votes /\ HistoryAt(n) = undo[n + 1].history.params
    BY <1>1 DEF VotesAt, HistoryAt
  <2>2. CASE n = len - 1
    <3>1. n + 1 = len /\ n = Len(headers')
      BY <1>1, <1>3, <2>2
    <3> QED
      BY <3>1, <2>1, <1>2 DEF VotesAt, HistoryAt
  <2>3. CASE n # len - 1
    <3>1. n + 1 \in 1 .. (len - 1) /\ n # Len(headers')
      BY <1>1, <1>3, <2>3
    <3> QED
      BY <3>1, <2>1, <1>4 DEF VotesAt, HistoryAt
  <2> QED
    BY <2>2, <2>3
<1>6. VotesAt(0)' = GenesisVotes
  BY <1>1, <1>5 DEF Chained
<1>7. \A n \in 0 .. (len - 1) : \A m \in 0 .. n :
          Continues(HistoryAt(m)', HistoryAt(n)', GenesisHeight + m + 1)
  <2> TAKE n \in 0 .. (len - 1)
  <2> TAKE m \in 0 .. n
  <2>1. n \in 0 .. len /\ m \in 0 .. (len - 1)
    BY <1>1
  <2> QED
    BY <2>1, <1>5 DEF Chained
<1>8. \A n \in 1 .. (len - 1) :
          VotesAt(n)' = ReplayBlock(VotesAt(n - 1)', HistoryAt(n)', headers'[n], n)
  <2> TAKE n \in 1 .. (len - 1)
  <2>1. n \in 1 .. len /\ n \in 0 .. (len - 1) /\ n - 1 \in 0 .. (len - 1) /\ headers'[n] = headers[n]
    BY <1>1, <1>3
  <2> QED
    BY <2>1, <1>5 DEF Chained
<1>9. \A n \in 1 .. (len - 1) : headers'[n].height = GenesisHeight + n
  BY <1>1, <1>3 DEF Chained
<1> QED
  BY <1>3, <1>6, <1>7, <1>8, <1>9 DEF Chained

\* The key of the next height continues a store.
LEMMA NextKey ==
    ASSUME NEW q, NEW c \in Nat, NEW first \in Nat, DOMAIN q \subseteq first .. c, NEW r
    PROVE  /\ Continues(q, WithKey(q, c + 1, r), c)
           /\ DOMAIN WithKey(q, c + 1, r) = DOMAIN q \cup {c + 1}
           /\ WithKey(q, c + 1, r)[c + 1] = r
  BY DEF Continues, WithKey

\* A block extends the chain by the votes that replaying it gives.
LEMMA ExecuteChained ==
    ASSUME IInv, Chained, NEW header \in VerifiedHeaders,
           NEW update \in Updates \cup {NoUpdate}, ExecuteBlock(header, update)
    PROVE  Chained'
<1> DEFINE n     == Len(headers)
           after == VotesAfter(votes, params, header, WindowLength)
           kept  == ParamsAfter(after, params, getMaxRemovalHeight)
           q     == history.params
           q2    == history'.params
           next  == GenesisHeight + (n + 1) + 1
           s     == setBFTParameters(after, kept, update.precommitThreshold,
                                     update.certificateThreshold, update.validators)
           t     == setBFTParameters(after, q, update.precommitThreshold,
                                     update.certificateThreshold, update.validators)
<1>1. /\ headers \in Seq(Header) /\ undo \in Seq(Range(undo)) /\ Len(undo) = n /\ n \in Nat
      /\ GenesisHeight \in Nat /\ VotesOK(votes, q, n) /\ ParametersOK(votes, params, q, n)
  BY ConstantsAssumption DEF IInv, StatesOK, StateOK
<1>2. header \in Header /\ header.height = GenesisHeight + n + 1
  BY HeaderIsVerified DEF Verified
<1>3. /\ headers' = Append(headers, header) /\ undo' = Append(undo, State)
      /\ update # NoUpdate => IsValidUpdate(update)
      /\ votes' = IF update = NoUpdate THEN after ELSE s.votes
      /\ q2 = IF update = NoUpdate THEN q ELSE t.params
  BY DEF ExecuteBlock
<1>4. /\ Len(headers') = n + 1 /\ headers'[n + 1] = header
      /\ \A k \in 1 .. n : headers'[k] = headers[k]
  BY <1>1, <1>2, <1>3
<1>5. undo'[n + 1] = State /\ \A k \in 1 .. n : undo'[k] = undo[k]
  <2>1. undo \in Seq(Range(undo) \cup {State})
    BY <1>1
  <2> HIDE DEF State
  <2> QED
    BY <2>1, <1>1, <1>3
<1>6. \A m \in 0 .. n : VotesAt(m)' = VotesAt(m) /\ HistoryAt(m)' = HistoryAt(m)
  <2> TAKE m \in 0 .. n
  <2>1. VotesAt(m)' = undo'[m + 1].votes /\ HistoryAt(m)' = undo'[m + 1].history.params
    BY <1>1, <1>4 DEF VotesAt, HistoryAt
  <2>2. CASE m = n
    BY <2>1, <2>2, <1>5 DEF State, VotesAt, HistoryAt
  <2>3. CASE m # n
    <3>1. m + 1 \in 1 .. n
      BY <1>1, <2>3
    <3> QED
      BY <3>1, <2>1, <2>3, <1>5 DEF VotesAt, HistoryAt
  <2> QED
    BY <2>2, <2>3
<1>7. /\ VotesAt(n) = votes /\ HistoryAt(n) = q
      /\ \A k \in {n + 1} : VotesAt(k)' = votes' /\ HistoryAt(k)' = q2
  BY <1>4 DEF VotesAt, HistoryAt
<1>8. /\ DOMAIN q \subseteq (GenesisHeight + 1) .. (GenesisHeight + n + 1) /\ DOMAIN q \subseteq Nat
      /\ \A h \in Nat : h > GenesisHeight => ParametersExist(q, h)
      /\ WindowOK(votes, n)
  BY <1>1, ChainHasParameters DEF ParametersOK, VotesOK
<1>9. after = VotesAfter(votes, q, header, WindowLength)
  <2>1. PICK c \in Nat : Suffix(params, q, c) /\ c <= GenesisHeight + n + 1 - WindowSize(n)
    BY <1>1 DEF ParametersOK
  <2>2. \A h \in Nat : h >= GenesisHeight + n + 1 - WindowSize(n)
                       /\ h <= GenesisHeight + n + 1 /\ h > GenesisHeight =>
            getBFTParameters(params, h) = getBFTParameters(q, h)
    <3> TAKE h \in Nat
    <3> HAVE h >= GenesisHeight + n + 1 - WindowSize(n)
             /\ h <= GenesisHeight + n + 1 /\ h > GenesisHeight
    <3>1. c <= h
      BY <2>1, <1>1, WindowSizes
    <3> QED
      BY <3>1, <2>1, <1>8, SuffixLooksUp
  <2> QED
    BY <2>2, <1>1, <1>2, <1>8, VotesAlike
<1>10. WindowOK(after, n + 1)
  <2>1. PICK c \in Nat : Suffix(params, q, c) /\ c <= GenesisHeight + n + 1 - WindowSize(n)
    BY <1>1 DEF ParametersOK
  <2>2. ~InvalidVoteState(insertBlockBFTInfo(votes, header, WindowLength), params)
    BY DEF ExecuteBlock
  <2>3. /\ header.maxHeightPrevoted = votes.maxHeightPrevoted
        /\ IF header.aggregateCommit.signed
              THEN /\ header.aggregateCommit.height > votes.maxHeightCertified
                   /\ header.aggregateCommit.height <= votes.maxHeightPrecommitted
              ELSE header.aggregateCommit.height = votes.maxHeightCertified
    BY HeaderIsVerified DEF Verified
  <2>4. \A k \in DOMAIN q : q[k] \in ParametersType
    BY <1>1 DEF ParametersOK
  <2>5. VotesOK(after, q, n + 1)
    <3> HIDE DEF q
    <3> QED
      BY <2>1, <2>2, <2>3, <2>4, <1>1, <1>2, <1>8, VotesCounted
  <2> QED
    BY <2>5 DEF VotesOK
<1>11. next \in Nat /\ next \notin DOMAIN q
  BY <1>1, <1>8
<1> HIDE DEF after, kept
<1>12. /\ Continues(q, q2, GenesisHeight + n + 1)
       /\ DOMAIN q2 \subseteq DOMAIN q \cup {next}
       /\ update = NoUpdate => q2 = q
       /\ update # NoUpdate => /\ next \in DOMAIN q2
                               /\ q2[next] = ParametersOf(update)
  <2>1. CASE update = NoUpdate
    BY <2>1, <1>1, <1>3, <1>8 DEF Continues
  <2>2. CASE update # NoUpdate
    <3>1. q2 = WithKey(q, next, ParametersOf(update))
      BY <2>2, <1>1, <1>3, <1>10, ParametersSet
    <3>2. /\ Continues(q, WithKey(q, next, ParametersOf(update)), GenesisHeight + n + 1)
          /\ DOMAIN WithKey(q, next, ParametersOf(update)) = DOMAIN q \cup {next}
          /\ WithKey(q, next, ParametersOf(update))[next] = ParametersOf(update)
      <4>1. GenesisHeight + n + 1 \in Nat /\ next = (GenesisHeight + n + 1) + 1
        BY <1>1
      <4>2. GenesisHeight + 1 \in Nat
        BY <1>1
      <4> HIDE DEF q, next
      <4> QED
        BY <4>1, <4>2, <1>8, NextKey, ZenonT(60)
    <3> HIDE DEF q, q2, next
    <3> QED
      BY <2>2, <3>1, <3>2
  <2> QED
    BY <2>1, <2>2
<1>13. votes' = ReplayBlock(votes, q2, header, n + 1)
  <2>1. VotesAfter(votes, q2, header, WindowLength) = after
    <3>1. \A h \in Nat : h >= GenesisHeight + n + 1 - WindowSize(n)
                         /\ h <= GenesisHeight + n + 1 /\ h > GenesisHeight =>
              getBFTParameters(q2, h) = getBFTParameters(q, h)
      <4> HIDE DEF q, q2
      <4> TAKE h \in Nat
      <4> HAVE h >= GenesisHeight + n + 1 - WindowSize(n)
               /\ h <= GenesisHeight + n + 1 /\ h > GenesisHeight
      <4>1. GenesisHeight + n + 1 \in Nat /\ DOMAIN q2 \subseteq Nat
        BY <1>1, <1>8, <1>11, <1>12
      <4>2. ParametersExist(q2, h)
        BY <1>8, <1>12 DEF ParametersExist, Continues
      <4> QED
        BY <4>1, <4>2, <1>12, ContinuesLooksUp
    <3> QED
      BY <3>1, <1>1, <1>2, <1>8, <1>9, VotesAlike, SMTT(60)
  <2> HIDE DEF q2, next, q
  <2>2. CASE update = NoUpdate
    BY <2>1, <2>2, <1>3, <1>11, <1>12 DEF ReplayBlock, next
  <2>3. CASE update # NoUpdate
    <3>1. /\ q2[next].precommitThreshold = update.precommitThreshold
          /\ q2[next].certificateThreshold = update.certificateThreshold
          /\ q2[next].validators = update.validators
      BY <2>3, <1>12 DEF ParametersOf
    <3>2. ReplayBlock(votes, q2, header, n + 1) =
            setBFTParameters(after, << >>, q2[next].precommitThreshold,
                q2[next].certificateThreshold, q2[next].validators).votes
      BY <2>1, <2>3, <1>12 DEF ReplayBlock, next
    <3>3. s.votes = setBFTParameters(after, << >>, update.precommitThreshold,
                        update.certificateThreshold, update.validators).votes
      BY DEF setBFTParameters
    <3> HIDE DEF s
    <3> QED
      BY <3>1, <3>2, <3>3, <2>3, <1>3
  <2> QED
    BY <2>2, <2>3
<1> HIDE DEF q2, q
<1>14. \A k \in 0 .. (n + 1) : \A m \in 0 .. k :
           Continues(HistoryAt(m)', HistoryAt(k)', GenesisHeight + m + 1)
  <2> TAKE k \in 0 .. (n + 1)
  <2> TAKE m \in 0 .. k
  <2>1. CASE k \in 0 .. n
    <3>1. m \in 0 .. n
      BY <2>1, <1>1
    <3>2. Continues(HistoryAt(m), HistoryAt(k), GenesisHeight + m + 1)
      BY <2>1 DEF Chained
    <3> QED
      BY <3>1, <3>2, <2>1, <1>6
  <2>2. CASE k = n + 1 /\ m \in 0 .. n
    <3>1. Continues(HistoryAt(m), q, GenesisHeight + m + 1) /\ n \in 0 .. n
      BY <2>2, <1>1, <1>7 DEF Chained
    <3>2. /\ HistoryAt(m)' = HistoryAt(m) /\ HistoryAt(k)' = q2
      BY <2>2, <1>6, <1>7
    <3>3. \A x \in DOMAIN q2 : x <= GenesisHeight + m + 1 <=>
              x \in DOMAIN q /\ x <= GenesisHeight + m + 1
      BY <2>2, <1>1, <1>8, <1>11, <1>12 DEF Continues, next
    <3> QED
      BY <3>1, <3>2, <3>3, <1>12 DEF Continues
  <2>3. CASE k = n + 1 /\ m = n + 1
    <3>1. HistoryAt(k)' = q2 /\ HistoryAt(m)' = q2
      BY <2>3, <1>7
    <3>2. \A x \in DOMAIN q2 : x <= GenesisHeight + m + 1
      BY <2>3, <1>1, <1>8, <1>12
    <3> QED
      BY <3>1, <3>2 DEF Continues
  <2> QED
    BY <2>1, <2>2, <2>3, <1>1
<1>15. \A k \in 1 .. (n + 1) :
           VotesAt(k)' = ReplayBlock(VotesAt(k - 1)', HistoryAt(k)', headers'[k], k)
  <2> TAKE k \in 1 .. (n + 1)
  <2>1. CASE k \in 1 .. n
    <3>1. k \in 0 .. n /\ k - 1 \in 0 .. n /\ headers'[k] = headers[k]
      BY <2>1, <1>1, <1>4
    <3> QED
      BY <3>1, <2>1, <1>6 DEF Chained
  <2>2. CASE k = n + 1
    <3>1. k - 1 = n /\ n \in 0 .. n
      BY <2>2, <1>1
    <3> QED
      BY <3>1, <2>2, <1>4, <1>6, <1>7, <1>13
  <2> QED
    BY <2>1, <2>2, <1>1
<1>16. VotesAt(0)' = GenesisVotes
  BY <1>1, <1>6 DEF Chained
<1>17. \A k \in 1 .. (n + 1) : headers'[k].height = GenesisHeight + k
  <2>1. \A k \in 1 .. (n + 1) : k \in 1 .. n \/ k = n + 1
    BY <1>1
  <2>2. \A k \in 1 .. n : headers'[k].height = GenesisHeight + k
    BY <1>4 DEF Chained
  <2>3. headers'[n + 1].height = GenesisHeight + (n + 1)
    BY <1>1, <1>2, <1>4
  <2> QED
    BY <2>1, <2>2, <2>3
<1> QED
  BY <1>4, <1>14, <1>15, <1>16, <1>17 DEF Chained

\* Every state that blocks and deletions lead to is one of the chain alone.
LEMMA NextChained == IInv /\ Chained /\ [Next]_vars => Chained'
<1> SUFFICES ASSUME IInv, Chained, [Next]_vars PROVE Chained'
  OBVIOUS
<1>1. ASSUME NEW header \in VerifiedHeaders, NEW update \in Updates \cup {NoUpdate},
             ExecuteBlock(header, update)
      PROVE  Chained'
  BY <1>1, ExecuteChained
<1>2. CASE DeleteLastBlock
  BY <1>2, DeleteChained
<1>3. CASE UNCHANGED vars
  BY <1>3 DEF vars, Chained, VotesAt, HistoryAt
<1> QED
  BY <1>1, <1>2, <1>3 DEF Next

\* What the votes of a chain are follows from its blocks and all its parameters.
LEMMA ChainedReplayed ==
    ASSUME IInv, Chained
    PROVE  votes = Replayed
<1> DEFINE n == Len(headers)
           Replay(f) == f = [i \in 0 .. n |-> IF i = 0 THEN GenesisVotes
                               ELSE ReplayBlock(f[i - 1], history.params, headers[i], i)]
           replay == CHOOSE f : Replay(f)
           g      == [i \in 0 .. n |-> VotesAt(i)]
<1>1. Replayed = replay[n]
  BY DEF Replayed
<1>2. n \in Nat /\ GenesisHeight \in Nat /\ headers \in Seq(Header) /\ VotesAt(n) = votes
      /\ HistoryAt(n) = history.params
  BY ConstantsAssumption DEF IInv, VotesAt, HistoryAt
<1>3. \A i \in 1 .. n :
          VotesAt(i) = ReplayBlock(VotesAt(i - 1), history.params, headers[i], i)
  <2> TAKE i \in 1 .. n
  <2> DEFINE m == i - 1
  <2>1. m \in Nat /\ i = m + 1 /\ m \in 0 .. (n - 1) /\ m # n /\ i \in 0 .. n /\ n \in 0 .. n
    BY <1>2
  <2> HIDE DEF m
  <2>2. StateOK(VotesAt(m), undo[m + 1].params, HistoryAt(m), headers, m)
    BY <2>1, <1>2 DEF IInv, StatesOK, VotesAt, HistoryAt
  <2>3. WindowOK(VotesAt(m), m)
    BY <2>2 DEF StateOK, VotesOK
  <2>4. headers[i] \in Header
    BY <1>2
  <2>5. headers[i].height = GenesisHeight + m + 1
    BY <2>1, <1>2, SMTT(60) DEF Chained
  <2>6. DOMAIN history.params \subseteq Nat
        /\ \A h \in Nat : h > GenesisHeight => ParametersExist(history.params, h)
    BY <1>2, ChainHasParameters DEF IInv, StatesOK, StateOK
  <2>7. Continues(HistoryAt(i), history.params, GenesisHeight + m + 2)
    <3>1. Continues(HistoryAt(i), HistoryAt(n), GenesisHeight + i + 1)
      BY <2>1 DEF Chained
    <3>2. GenesisHeight + i + 1 = GenesisHeight + m + 2
      BY <2>1, <1>2
    <3> QED
      BY <3>1, <3>2, <1>2
  <2>8. ReplayBlock(VotesAt(m), HistoryAt(i), headers[i], m + 1)
          = ReplayBlock(VotesAt(m), history.params, headers[i], m + 1)
    BY <2>1, <2>3, <2>4, <2>5, <2>6, <2>7, ReplayedAlike
  <2> QED
    BY <2>1, <2>8 DEF Chained, m
<1>4. \E f : Replay(f)
  <2>1. \A i \in 0 .. n : g[i] = IF i = 0 THEN GenesisVotes
                                 ELSE ReplayBlock(g[i - 1], history.params, headers[i], i)
    <3> TAKE i \in 0 .. n
    <3>1. CASE i = 0
      BY <3>1 DEF Chained
    <3>2. CASE i # 0
      <4>1. i \in 1 .. n /\ i - 1 \in 0 .. n
        BY <3>2, <1>2
      <4> QED
        BY <4>1, <3>2, <1>3
    <3> QED
      BY <3>1, <3>2
  <2>2. Replay(g)
    BY <2>1
  <2> QED
    BY <2>2
<1>5. Replay(replay)
  BY <1>4
<1> HIDE DEF replay
<1> DEFINE bad == {i \in 0 .. n : replay[i] # VotesAt(i)}
<1>6. bad = {}
  <2> SUFFICES ASSUME bad # {} PROVE FALSE
    OBVIOUS
  <2>1. bad \in SUBSET Nat
    BY <1>2
  <2> DEFINE m == Min(bad)
  <2>2. m \in bad /\ \A i \in bad : m <= i
    <3> HIDE DEF bad
    <3> QED
      BY <2>1, MinOfNaturals
  <2> HIDE DEF m
  <2>3. m # 0
    BY <2>2, <1>5 DEF Chained
  <2>4. m \in 1 .. n /\ m - 1 \in 0 .. n /\ m - 1 \notin bad
    BY <2>2, <2>3, <1>2
  <2>5. replay[m] = ReplayBlock(replay[m - 1], history.params, headers[m], m)
    BY <2>4, <1>5
  <2>6. replay[m - 1] = VotesAt(m - 1)
    BY <2>4
  <2> QED
    BY <2>2, <2>4, <2>5, <2>6, <1>3
<1> QED
  BY <1>1, <1>2, <1>6

\* The votes of the node (BFTVotes, beforeTransactionsExecute) are a function of
\* the blocks of its chain: executed and deleted blocks in between (_deleteBlock)
\* and removed parameters leave no trace in them.
THEOREM VotesFollowTheChain == Spec => []VotesDependOnChainOnly
<1>1. Spec => []Chained
  BY InitChained, NextChained, Invariance, PTL DEF Spec
<1>2. IInv /\ Chained => VotesDependOnChainOnly
  BY ChainedReplayed DEF VotesDependOnChainOnly
<1> QED
  BY <1>1, <1>2, Invariance, PTL

(* --------------------------------- sums -------------------------------- *)

\* A nonempty set of naturals has a least element.
LEMMA LeastNatural ==
    ASSUME NEW S \in SUBSET Nat, S # {}
    PROVE  \E m \in S : \A n \in S : m <= n
  BY MinOfNaturals

\* The element that a sum takes out of s first.
AnyOf(s) == CHOOSE x \in s : TRUE

\* g sums f over the sets of C, which are closed under taking an element out.
Sums(g, f, C) ==
    g = [s \in C |-> IF s = {} THEN 0 ELSE f[AnyOf(s)] + g[s \ {AnyOf(s)}]]

\* What SumFunction denotes.
LEMMA SumUnfolded ==
    ASSUME NEW f
    PROVE  SumFunction(f) = (CHOOSE g : Sums(g, f, SUBSET DOMAIN f))[DOMAIN f]
  BY DEF SumFunction, SumFunctionOnSet, FoldFunctionOnSet, MapThenFoldSet, Sums, AnyOf

\* The subsets of a finite set have sums.
LEMMA SumsExist ==
    ASSUME NEW f, NEW S, IsFiniteSet(S)
    PROVE  \E g : Sums(g, f, SUBSET S)
<1> DEFINE Small(n) == {s \in SUBSET S : Cardinality(s) <= n}
           bad == {n \in Nat : ~\E g : Sums(g, f, Small(n))}
<1>1. \A s \in SUBSET S : IsFiniteSet(s) /\ Cardinality(s) \in Nat /\ Cardinality(s) <= Cardinality(S)
  BY FS_Subset, FS_CardinalityType
<1>2. Cardinality(S) \in Nat /\ Small(Cardinality(S)) = SUBSET S
  BY <1>1
<1>3. \A s \in SUBSET S : s # {} =>
          /\ AnyOf(s) \in s /\ s \ {AnyOf(s)} \in SUBSET S
          /\ Cardinality(s \ {AnyOf(s)}) = Cardinality(s) - 1
  <2> TAKE s \in SUBSET S
  <2> HAVE s # {}
  <2>1. AnyOf(s) \in s
    BY DEF AnyOf
  <2> QED
    BY <2>1, <1>1, FS_RemoveElement
<1>4. bad = {}
  <2> SUFFICES ASSUME bad # {} PROVE FALSE
    OBVIOUS
  <2>1. PICK m \in bad : \A n \in bad : m <= n
    <3>1. bad \in SUBSET Nat
      OBVIOUS
    <3> HIDE DEF bad
    <3> QED
      BY <3>1, LeastNatural
  <2>2. m \in Nat /\ ~\E g : Sums(g, f, Small(m))
    BY <2>1
  <2>3. m # 0
    <3> SUFFICES ASSUME m = 0 PROVE FALSE
      OBVIOUS
    <3>1. \A s \in Small(0) : s = {}
      BY <1>1, FS_EmptySet
    <3>2. Sums([s \in Small(0) |-> 0], f, Small(0))
      BY <3>1 DEF Sums
    <3> QED
      BY <3>2, <2>2
  <2>4. m - 1 \in Nat /\ m - 1 \notin bad
    <3>1. m - 1 \in Nat /\ ~(m <= m - 1)
      BY <2>2, <2>3
    <3> HIDE DEF bad
    <3> QED
      BY <3>1, <2>1
  <2>5. PICK g : Sums(g, f, Small(m - 1))
    BY <2>4
  <2> DEFINE h == [s \in Small(m) |-> IF s = {} THEN 0
                     ELSE f[AnyOf(s)] + g[s \ {AnyOf(s)}]]
  <2>6. \A s \in Small(m - 1) : s \in Small(m) /\ h[s] = g[s]
    <3> TAKE s \in Small(m - 1)
    <3>1. s \in Small(m)
      BY <1>1, <2>2
    <3>2. g[s] = IF s = {} THEN 0 ELSE f[AnyOf(s)] + g[s \ {AnyOf(s)}]
      BY <2>5 DEF Sums
    <3> QED
      BY <3>1, <3>2
  <2>7. \A s \in Small(m) : s # {} => s \ {AnyOf(s)} \in Small(m - 1)
    BY <1>1, <1>3, <2>2
  <2>8. \A s \in Small(m) : h[s] = IF s = {} THEN 0 ELSE f[AnyOf(s)] + h[s \ {AnyOf(s)}]
    <3> TAKE s \in Small(m)
    <3>1. h[s] = IF s = {} THEN 0 ELSE f[AnyOf(s)] + g[s \ {AnyOf(s)}]
      OBVIOUS
    <3>2. s # {} => h[s \ {AnyOf(s)}] = g[s \ {AnyOf(s)}]
      BY <2>6, <2>7
    <3> HIDE DEF h
    <3> QED
      BY <3>1, <3>2
  <2>9. Sums(h, f, Small(m))
    <3>1. h = [s \in Small(m) |-> h[s]]
      OBVIOUS
    <3> HIDE DEF h, Small
    <3> QED
      BY <2>8, <3>1 DEF Sums
  <2> QED
    BY <2>9, <2>2
<1> QED
  BY <1>2, <1>4

\* The sum of s may begin with any of its elements.
AnyOrder(g, f, s) == \A x \in s : g[s] = f[x] + g[s \ {x}]

\* The order of the elements does not matter for a sum.
LEMMA SumsAnyOrder ==
    ASSUME NEW f, NEW S, IsFiniteSet(S), \A x \in S : f[x] \in Int,
           NEW g, Sums(g, f, SUBSET S)
    PROVE  \A s \in SUBSET S : g[s] \in Int /\ AnyOrder(g, f, s)
<1> DEFINE Typed(s) == g[s] \in Int
           Any(s)   == \A x \in s : g[s] = f[x] + g[s \ {x}]
           bad      == {n \in Nat : \E s \in SUBSET S : Cardinality(s) = n /\ ~(Typed(s) /\ Any(s))}
<1>1. \A s \in SUBSET S : IsFiniteSet(s) /\ Cardinality(s) \in Nat
  BY FS_Subset, FS_CardinalityType
<1>2. \A s \in SUBSET S : g[s] = IF s = {} THEN 0 ELSE f[AnyOf(s)] + g[s \ {AnyOf(s)}]
  BY DEF Sums
<1>3. bad = {}
  <2> SUFFICES ASSUME bad # {} PROVE FALSE
    OBVIOUS
  <2>1. PICK m \in bad : \A n \in bad : m <= n
    <3>1. bad \in SUBSET Nat
      OBVIOUS
    <3> HIDE DEF bad
    <3> QED
      BY <3>1, LeastNatural
  <2>2. PICK s \in SUBSET S : Cardinality(s) = m /\ ~(Typed(s) /\ Any(s))
    BY <2>1
  <2>3. \A t \in SUBSET S : Cardinality(t) < m => Typed(t) /\ Any(t)
    <3> TAKE t \in SUBSET S
    <3> HAVE Cardinality(t) < m
    <3>1. Cardinality(t) \notin bad /\ Cardinality(t) \in Nat
      BY <1>1, <2>1
    <3> HIDE DEF Typed, Any
    <3> QED
      BY <3>1
  <2>4. s # {}
    <3> SUFFICES ASSUME s = {} PROVE FALSE
      OBVIOUS
    <3>1. g[s] = 0 /\ Any(s)
      BY <1>2
    <3> QED
      BY <3>1, <2>2
  <2> DEFINE y == AnyOf(s)
  <2>5. y \in s
    BY <2>4 DEF AnyOf
  <2>6. g[s] = f[y] + g[s \ {y}]
    BY <1>2, <2>4
  <2> HIDE DEF y
  <2>7. \A x \in s : s \ {x} \in SUBSET S /\ Cardinality(s \ {x}) < m
    <3> TAKE x \in s
    <3>1. IsFiniteSet(s) /\ Cardinality(s \ {x}) = Cardinality(s) - 1
      BY <1>1, FS_RemoveElement
    <3> QED
      BY <3>1, <2>2, <1>1
  <2>8. \A x \in s : Typed(s \ {x}) /\ Any(s \ {x})
    <3> HIDE DEF Typed, Any
    <3> QED
      BY <2>3, <2>7
  <2>9. Typed(s)
    <3>1. f[y] \in Int /\ g[s \ {y}] \in Int
      BY <2>5, <2>8
    <3> QED
      BY <3>1, <2>6
  <2>10. ASSUME NEW x \in s
         PROVE  g[s] = f[x] + g[s \ {x}]
    <3>1. CASE x = y
      BY <3>1, <2>6
    <3>2. CASE x # y
      <4> DEFINE both == (s \ {x}) \ {y}
      <4>1. both = (s \ {y}) \ {x} /\ x \in s \ {y} /\ y \in s \ {x}
        BY <3>2, <2>5
      <4>2. g[s \ {y}] = f[x] + g[both]
        BY <4>1, <2>5, <2>8
      <4>3. g[s \ {x}] = f[y] + g[both]
        BY <4>1, <2>8
      <4>4. g[both] \in Int /\ f[x] \in Int /\ f[y] \in Int
        <5>1. Cardinality(both) < m /\ both \in SUBSET S
          <6>1. IsFiniteSet(s \ {x}) /\ Cardinality(both) = Cardinality(s \ {x}) - 1
            BY <4>1, <2>7, <1>1, FS_RemoveElement, ZenonT(60)
          <6> QED
            BY <6>1, <2>7, <2>2, <1>1
        <5> QED
          BY <5>1, <2>3, <2>5
      <4> HIDE DEF both
      <4> QED
        BY <4>2, <4>3, <4>4, <2>6
    <3> QED
      BY <3>1, <3>2
  <2> QED
    BY <2>2, <2>9, <2>10
<1> HIDE DEF Typed, Any
<1>4. \A s \in SUBSET S : Typed(s) /\ Any(s)
  BY <1>1, <1>3
<1> QED
  BY <1>4 DEF Typed, Any, AnyOrder

\* Sums of functions that agree on the subsets of a set agree there.
LEMMA SumsAgree ==
    ASSUME NEW f, NEW g, NEW S, NEW h, NEW k, NEW T, IsFiniteSet(T), T \subseteq S,
           \A x \in T : f[x] = h[x], Sums(g, f, SUBSET S), Sums(k, h, SUBSET T)
    PROVE  g[T] = k[T]
<1> DEFINE bad == {n \in Nat : \E s \in SUBSET T : Cardinality(s) = n /\ g[s] # k[s]}
<1>1. \A s \in SUBSET T : IsFiniteSet(s) /\ Cardinality(s) \in Nat
  BY FS_Subset, FS_CardinalityType
<1>2. bad = {}
  <2> SUFFICES ASSUME bad # {} PROVE FALSE
    OBVIOUS
  <2>1. PICK m \in bad : \A n \in bad : m <= n
    <3>1. bad \in SUBSET Nat
      OBVIOUS
    <3> HIDE DEF bad
    <3> QED
      BY <3>1, LeastNatural
  <2>2. PICK s \in SUBSET T : Cardinality(s) = m /\ g[s] # k[s]
    BY <2>1
  <2>3. /\ g[s] = IF s = {} THEN 0 ELSE f[AnyOf(s)] + g[s \ {AnyOf(s)}]
        /\ k[s] = IF s = {} THEN 0 ELSE h[AnyOf(s)] + k[s \ {AnyOf(s)}]
    BY DEF Sums
  <2>4. s # {} /\ AnyOf(s) \in s
    BY <2>2, <2>3 DEF AnyOf
  <2>5. s \ {AnyOf(s)} \in SUBSET T /\ Cardinality(s \ {AnyOf(s)}) = m - 1 /\ m \in Nat
    BY <2>2, <2>4, <1>1, FS_RemoveElement
  <2>6. Cardinality(s \ {AnyOf(s)}) \notin bad /\ Cardinality(s \ {AnyOf(s)}) \in Nat
    <3>1. Cardinality(s \ {AnyOf(s)}) \in Nat /\ ~(m <= Cardinality(s \ {AnyOf(s)}))
      BY <2>5, <1>1
    <3> HIDE DEF bad
    <3> QED
      BY <3>1, <2>1
  <2>7. g[s \ {AnyOf(s)}] = k[s \ {AnyOf(s)}]
    BY <2>5, <2>6
  <2> QED
    BY <2>2, <2>3, <2>4, <2>7
<1> QED
  BY <1>1, <1>2

\* The sum of a function with one more argument.
LEMMA SumAdd ==
    ASSUME NEW f, IsFiniteSet(DOMAIN f), \A y \in DOMAIN f : f[y] \in Int, NEW x \in DOMAIN f,
           NEW h, DOMAIN h = DOMAIN f \ {x}, \A y \in DOMAIN h : h[y] = f[y]
    PROVE  /\ SumFunction(f) = f[x] + SumFunction(h)
           /\ SumFunction(f) \in Int /\ SumFunction(h) \in Int
<1> DEFINE S == DOMAIN f
           T == DOMAIN h
           g == CHOOSE c : Sums(c, f, SUBSET S)
           k == CHOOSE c : Sums(c, h, SUBSET T)
<1>1. IsFiniteSet(S) /\ IsFiniteSet(T) /\ T \subseteq S /\ T = S \ {x} /\ x \in S
      /\ (\A y \in S : f[y] \in Int) /\ \A y \in T : f[y] = h[y]
  BY FS_Subset
<1>2. SumFunction(f) = g[S] /\ SumFunction(h) = k[T]
  BY SumUnfolded
<1> HIDE DEF S, T
<1>3. Sums(g, f, SUBSET S)
  BY <1>1, SumsExist
<1>4. Sums(k, h, SUBSET T)
  BY <1>1, SumsExist
<1> HIDE DEF g, k
<1>5. g[T] = k[T]
  <2>1. \A x1 \in T : f[x1] = h[x1]
    BY <1>1
  <2>2. IsFiniteSet(T) /\ T \subseteq S
    BY <1>1
  <2> QED
    BY <2>1, <2>2, <1>3, <1>4, SumsAgree
<1>6. \A s \in SUBSET S : g[s] \in Int /\ AnyOrder(g, f, s)
  <2>1. \A y \in S : f[y] \in Int
    BY <1>1
  <2>2. IsFiniteSet(S)
    BY <1>1
  <2> QED
    BY <2>1, <2>2, <1>3, SumsAnyOrder
<1>7. g[S] = f[x] + g[T] /\ g[S] \in Int /\ g[T] \in Int
  BY <1>1, <1>6 DEF AnyOrder
<1> QED
  BY <1>2, <1>5, <1>7

\* The sum of the empty function.
LEMMA SumEmpty ==
    ASSUME NEW f, DOMAIN f = {}
    PROVE  SumFunction(f) = 0
<1>1. IsFiniteSet({}) 
  BY FS_EmptySet
<1>2. Sums(CHOOSE g : Sums(g, f, SUBSET {}), f, SUBSET {})
  BY <1>1, SumsExist
<1>3. SumFunction(f) = (CHOOSE g : Sums(g, f, SUBSET {}))[{}]
  BY SumUnfolded
<1> QED
  BY <1>2, <1>3 DEF Sums

(* ------------------------- counting the votes -------------------------- *)

\* The validators of a height, and the validators whose prevote for the height h
\* the first n blocks show, by the parameters q.
ValidatorsIn(q, h) == Addresses(getBFTParameters(q, h).validators)

PrevotesAt(q, hs, x, h, k) ==
    /\ hs[k - GenesisHeight].generatorAddress = x
    /\ hs[k - GenesisHeight].maxHeightGenerated < h
    /\ k - h < WindowLength
    /\ \A j \in h .. k : x \in ValidatorsIn(q, j)

AlwaysIn(q, x, h, k) == \A j \in h .. k : x \in ValidatorsIn(q, j)

\* The prevote for the height h of the block k.
PrevoterAt(q, header, h, k) ==
    {x \in {header.generatorAddress} : header.maxHeightGenerated < h /\ AlwaysIn(q, x, h, k)}

PrevotersOf(q, hs, n, h) ==
    {x \in ValidatorsIn(q, h) : \E k \in h .. (GenesisHeight + n) : PrevotesAt(q, hs, x, h, k)}

WeightIn(q, h, S) == SumFunction([x \in S |-> WeightOf(getBFTParameters(q, h).validators, x)])

\* A validator is active from the first height from which on it always was one.
ActiveOK(v, q, n) ==
    /\ DOMAIN v.activeValidatorsVoteInfo = ValidatorsIn(q, GenesisHeight + n + 1)
    /\ \A x \in DOMAIN v.activeValidatorsVoteInfo :
          LET info == v.activeValidatorsVoteInfo[x]
          IN  /\ info \in [minActiveHeight : Nat, largestHeightPrecommit : Nat]
              /\ \A h \in (GenesisHeight + 1) .. (GenesisHeight + n + 1) :
                    h >= info.minActiveHeight <=>
                        \A j \in h .. (GenesisHeight + n + 1) : x \in ValidatorsIn(q, j)

\* The weights of the block b are those of the validators that voted for it.
WeightsOK(b, q, pc, hs, n) ==
    /\ b.prevoteWeight = WeightIn(q, b.height, PrevotersOf(q, hs, n, b.height))
    /\ pc[b.height] \subseteq PrevotersOf(q, hs, n, b.height)
    /\ b.precommitWeight = WeightIn(q, b.height, pc[b.height])

\* The newest precommit of an active validator is recorded.
PrecommitsOK(v, pc, n) ==
    /\ DOMAIN pc = (GenesisHeight + 1) .. (GenesisHeight + n)
    /\ \A h \in DOMAIN pc : \A x \in pc[h] \cap DOMAIN v.activeValidatorsVoteInfo :
          h <= v.activeValidatorsVoteInfo[x].largestHeightPrecommit

\* The window shows the blocks, and the three heights are in order.
ShownOK(v, hs, n) ==
    /\ \A k \in 1 .. n : hs[k].height = GenesisHeight + k
    /\ \A i \in 1 .. Len(v.blockBFTInfos) :
          /\ v.blockBFTInfos[i].generatorAddress = hs[n - i + 1].generatorAddress
          /\ v.blockBFTInfos[i].maxHeightGenerated = hs[n - i + 1].maxHeightGenerated
          /\ v.blockBFTInfos[i].precommitWeight > 0 =>
                v.blockBFTInfos[i].height <= v.maxHeightPrevoted
    /\ v.maxHeightCertified <= v.maxHeightPrecommitted
    /\ v.maxHeightPrecommitted <= v.maxHeightPrevoted

CountsOK(v, q, pc, hs, n) ==
    /\ ShownOK(v, hs, n)
    /\ ActiveOK(v, q, n)
    /\ PrecommitsOK(v, pc, n)
    /\ \A i \in 1 .. Len(v.blockBFTInfos) : WeightsOK(v.blockBFTInfos[i], q, pc, hs, n)

AllCounts ==
    /\ \A n \in 0 .. (Len(headers) - 1) :
          /\ CountsOK(undo[n + 1].votes, undo[n + 1].history.params,
                   undo[n + 1].history.precommits, headers, n)
          /\ undo[n + 1].votes.maxHeightPrecommitted <= finalizedHeight
    /\ CountsOK(votes, history.params, history.precommits, headers, Len(headers))
    /\ votes.maxHeightPrecommitted <= finalizedHeight

\* The validators of a record are finitely many and its precommit threshold is
\* positive.
LEMMA ValidatorsAreFinite ==
    ASSUME NEW p \in ParametersType
    PROVE  IsFiniteSet(Addresses(p.validators)) /\ p.precommitThreshold > 0
<1>1. PICK u \in AllUpdates : p = ParametersOf(u)
  BY DEF ParametersType
<1>2. p.validators = u.validators /\ p.precommitThreshold = u.precommitThreshold
  BY <1>1 DEF ParametersOf
<1>3. IsFiniteSet(DOMAIN u.validators) /\ AggregateBFTWeight(u.validators) \in Nat
  BY WeightsAssumption DEF AllUpdates
<1> DEFINE f == [i \in DOMAIN u.validators |-> u.validators[i].address]
<1>4. f \in Surjection(DOMAIN u.validators, Addresses(u.validators))
  BY DEF Surjection, Addresses
<1>5. IsFiniteSet(Addresses(u.validators))
  <2> HIDE DEF f
  <2> QED
    BY <1>3, <1>4, FS_Surjection
<1>6. u.precommitThreshold \in ((AggregateBFTWeight(u.validators) \div 3) + 1)
                                  .. AggregateBFTWeight(u.validators)
  BY DEF AllUpdates, IsValidUpdate, ValidBFTParameters
<1> QED
  BY <1>2, <1>3, <1>5, <1>6

\* A vote adds its weight.
LEMMA VoteWeighs ==
    ASSUME NEW q, NEW h, getBFTParameters(q, h) \in ParametersType,
           NEW V \in SUBSET ValidatorsIn(q, h), NEW x \in ValidatorsIn(q, h), x \notin V
    PROVE  WeightIn(q, h, V \cup {x}) =
              WeightIn(q, h, V) + WeightOf(getBFTParameters(q, h).validators, x)
<1> DEFINE W(y) == WeightOf(getBFTParameters(q, h).validators, y)
           f    == [y \in V \cup {x} |-> W(y)]
           g    == [y \in V |-> W(y)]
<1>1. IsFiniteSet(V)
  BY ValidatorsAreFinite, FS_Subset DEF ValidatorsIn
<1>2. IsFiniteSet(V \cup {x})
  BY <1>1, FS_AddElement
<1>3. \A y \in V \cup {x} : W(y) \in Int
  BY ParametersAreTyped DEF ValidatorsIn
<1> HIDE DEF W
<1>4. /\ DOMAIN f = V \cup {x} /\ DOMAIN g = DOMAIN f \ {x} /\ f[x] = W(x)
      /\ \A y \in DOMAIN f : f[y] \in Int
      /\ \A y \in DOMAIN g : g[y] = f[y]
  BY <1>3
<1>5. WeightIn(q, h, V \cup {x}) = SumFunction(f) /\ WeightIn(q, h, V) = SumFunction(g)
  BY DEF WeightIn, W
<1> HIDE DEF f, g
<1>6. SumFunction(f) = f[x] + SumFunction(g) /\ SumFunction(g) \in Int /\ f[x] \in Int
  BY <1>2, <1>4, SumAdd
<1> QED
  BY <1>4, <1>5, <1>6 DEF W

\* No votes weigh nothing.
LEMMA NoVotesWeigh ==
    ASSUME NEW q, NEW h
    PROVE  WeightIn(q, h, {}) = 0
<1> DEFINE f == [x \in {} |-> WeightOf(getBFTParameters(q, h).validators, x)]
<1>1. WeightIn(q, h, {}) = SumFunction(f) /\ DOMAIN f = {}
  BY DEF WeightIn
<1> HIDE DEF f
<1> QED
  BY <1>1, SumEmpty

\* The prevotes that the block n + 1 of gs adds to those of the n blocks hs.
PrevotersAdded(q, hs, gs, n, h) ==
    PrevotersOf(q, gs, n + 1, h) =
        PrevotersOf(q, hs, n, h) \cup PrevoterAt(q, gs[n + 1], h, GenesisHeight + n + 1)

\* The next block adds the prevote of its generator and no other.
LEMMA PrevotersGrow ==
    ASSUME NEW n \in Nat, NEW q, NEW hs, NEW gs, \A k \in 1 .. n : gs[k] = hs[k],
           NEW h \in (GenesisHeight + 1) .. (GenesisHeight + n + 1),
           GenesisHeight + n + 1 - h < WindowLength
    PROVE  PrevotersAdded(q, hs, gs, n, h)
<1> DEFINE K    == GenesisHeight + n + 1
           g    == gs[n + 1].generatorAddress
           Old(x) == \E k \in h .. (GenesisHeight + n) : PrevotesAt(q, hs, x, h, k)
           New(x) == \E k \in h .. (GenesisHeight + (n + 1)) : PrevotesAt(q, gs, x, h, k)
           Tips(x) == /\ x = g /\ gs[n + 1].maxHeightGenerated < h
                      /\ \A j \in h .. K : x \in ValidatorsIn(q, j)
<1>1. GenesisHeight \in Nat /\ K \in Nat /\ h \in Nat /\ K - GenesisHeight = n + 1 /\ h <= K
  BY ConstantsAssumption
<1>2. \A x : PrevotesAt(q, gs, x, h, K) <=> Tips(x)
  BY <1>1 DEF PrevotesAt
<1>3. \A x : \A k \in h .. (GenesisHeight + n) :
          PrevotesAt(q, gs, x, h, k) <=> PrevotesAt(q, hs, x, h, k)
  <2> TAKE x
  <2> TAKE k \in h .. (GenesisHeight + n)
  <2>1. gs[k - GenesisHeight] = hs[k - GenesisHeight]
    BY <1>1
  <2> QED
    BY <2>1 DEF PrevotesAt
<1>4. \A k : k \in h .. (GenesisHeight + (n + 1)) <=> k \in h .. (GenesisHeight + n) \/ k = K
  BY <1>1
<1> HIDE DEF K, Tips
<1>5. \A x : New(x) <=> Old(x) \/ Tips(x)
  BY <1>2, <1>3, <1>4
<1>6. \A x : Tips(x) => x \in ValidatorsIn(q, h)
  BY <1>1 DEF Tips, K
<1> HIDE DEF New, Old
<1>7. \A x : x \in PrevotersOf(q, gs, n + 1, h) <=> x \in ValidatorsIn(q, h) /\ New(x)
  BY DEF PrevotersOf, New
<1>8. \A x : x \in PrevotersOf(q, hs, n, h) <=> x \in ValidatorsIn(q, h) /\ Old(x)
  BY DEF PrevotersOf, Old
<1> QED
  BY <1>5, <1>6, <1>7, <1>8 DEF Tips, K, PrevoterAt, AlwaysIn, PrevotersAdded

\* A generator that does not repeat the heights of its own blocks has not
\* prevoted what its new block prevotes.
LEMMA NotPrevotedBefore ==
    ASSUME NEW n \in Nat, NEW v, WindowOK(v, n), NEW hs, ShownOK(v, hs, n), NEW q,
           NEW g, NEW m \in Nat,
           \A i \in 1 .. Len(v.blockBFTInfos) :
              v.blockBFTInfos[i].generatorAddress = g => v.blockBFTInfos[i].height <= m,
           NEW h \in Nat, h > GenesisHeight + n - Len(v.blockBFTInfos), h > GenesisHeight, m < h
    PROVE  g \notin PrevotersOf(q, hs, n, h)
<1> SUFFICES ASSUME NEW k \in h .. (GenesisHeight + n), PrevotesAt(q, hs, g, h, k) PROVE FALSE
  BY DEF PrevotersOf
<1> DEFINE i == GenesisHeight + n - k + 1
<1>1. GenesisHeight \in Nat /\ Len(v.blockBFTInfos) \in Nat
  BY ConstantsAssumption, WindowSizes DEF WindowOK
<1>2. i \in 1 .. Len(v.blockBFTInfos) /\ n - i + 1 = k - GenesisHeight
      /\ GenesisHeight + n - i + 1 = k
  <2> DEFINE len == Len(v.blockBFTInfos)
  <2>1. len \in Nat
    BY <1>1
  <2>2. h > GenesisHeight + n - len
    OBVIOUS
  <2>3. k \in Nat /\ h <= k /\ k <= GenesisHeight + n
    BY <1>1
  <2> HIDE DEF len
  <2>4. GenesisHeight + n - k + 1 \in 1 .. len
    BY <2>1, <2>2, <2>3, <1>1
  <2>5. n - (GenesisHeight + n - k + 1) + 1 = k - GenesisHeight
        /\ GenesisHeight + n - (GenesisHeight + n - k + 1) + 1 = k
    BY <2>3, <1>1
  <2> QED
    BY <2>4, <2>5 DEF len
<1> HIDE DEF i
<1>3. v.blockBFTInfos[i].generatorAddress = g
  BY <1>2 DEF ShownOK, PrevotesAt
<1>4. v.blockBFTInfos[i].height = k
  BY <1>2 DEF WindowOK
<1> QED
  BY <1>2, <1>3, <1>4

\* What getHeightNotPrevoted follows.
FollowsOwn(f, w, m) ==
    f = [h \in 0 .. m |->
            IF Tip(w).height - h >= Len(w.blockBFTInfos) THEN Oldest(w).height - 1
            ELSE IF \/ w.blockBFTInfos[Tip(w).height - h + 1].generatorAddress
                          # Tip(w).generatorAddress
                    \/ w.blockBFTInfos[Tip(w).height - h + 1].maxHeightGenerated >= h
                 THEN h
                 ELSE f[w.blockBFTInfos[Tip(w).height - h + 1].maxHeightGenerated]]

\* From the height that getHeightNotPrevoted finds on, the tip's generator has
\* prevoted every height of the window, with the tip or a block before it.
LEMMA PrevotedAbove ==
    ASSUME NEW m \in Nat, m >= 1, NEW w, WindowOK(w, m),
           Tip(w).maxHeightGenerated < Tip(w).height
    PROVE  /\ getHeightNotPrevoted(w) \in Int
           /\ \A i \in 1 .. Len(w.blockBFTInfos) :
                 w.blockBFTInfos[i].height > getHeightNotPrevoted(w) =>
                    \E j \in 1 .. i :
                        /\ w.blockBFTInfos[j].generatorAddress = Tip(w).generatorAddress
                        /\ w.blockBFTInfos[j].maxHeightGenerated < w.blockBFTInfos[i].height
<1> DEFINE infos == w.blockBFTInfos
           len   == Len(infos)
           g     == Tip(w).generatorAddress
           K     == Tip(w).height
           At(h) == infos[K - h + 1]
           f     == CHOOSE c : FollowsOwn(c, w, K)
<1>1. getHeightNotPrevoted(w) = f[Tip(w).maxHeightGenerated]
  BY DEF getHeightNotPrevoted, FollowsOwn
<1>2. /\ infos \in Seq(Info) /\ len \in Nat /\ len >= 1 /\ len <= m /\ GenesisHeight \in Nat
      /\ \A i \in 1 .. len : infos[i] \in Info /\ infos[i].height = GenesisHeight + m - i + 1
  BY ConstantsAssumption, WindowSizes DEF WindowOK
<1>3. K = GenesisHeight + m /\ K \in Nat /\ Oldest(w).height = K - len + 1
  <2> DEFINE l == Len(w.blockBFTInfos)
  <2>1. l \in Nat /\ l >= 1 /\ 1 \in 1 .. len /\ l \in 1 .. len
    BY <1>2
  <2>2. infos[1].height = GenesisHeight + m - 1 + 1
        /\ infos[l].height = GenesisHeight + m - l + 1
    BY <1>2, <2>1
  <2>3. K = infos[1].height /\ Oldest(w).height = infos[l].height
    BY DEF Tip, Oldest
  <2> HIDE DEF l
  <2>4. GenesisHeight + m - 1 + 1 = GenesisHeight + m /\ GenesisHeight + m \in Nat
        /\ GenesisHeight + m - l + 1 = (GenesisHeight + m) - l + 1
    BY <1>2, <2>1
  <2> QED
    BY <2>2, <2>3, <2>4 DEF l
<1>4. \A i \in 1 .. len : infos[i].maxHeightGenerated \in Nat
  BY <1>2 DEF Info
<1>5. Tip(w) = infos[1] /\ Tip(w).maxHeightGenerated \in Nat
  BY <1>2, <1>4 DEF Tip
<1> DEFINE Step(c, h) == IF K - h >= len THEN K - len
                         ELSE IF At(h).generatorAddress # g \/ At(h).maxHeightGenerated >= h
                         THEN h ELSE c[At(h).maxHeightGenerated]
<1>6. \A c, x : x \in Nat => (FollowsOwn(c, w, x) <=> c = [h \in 0 .. x |-> Step(c, h)])
  <2>1. Oldest(w).height - 1 = K - len
    BY <1>2, <1>3
  <2> QED
    BY <2>1 DEF FollowsOwn
<1>7. \A x \in Nat : x <= K => \E c : FollowsOwn(c, w, x)
  <2> DEFINE bad == {x \in Nat : x <= K /\ ~\E c : FollowsOwn(c, w, x)}
  <2> SUFFICES ASSUME bad # {} PROVE FALSE
    OBVIOUS
  <2>1. PICK x \in bad : \A y \in bad : x <= y
    <3>1. bad \in SUBSET Nat
      OBVIOUS
    <3> HIDE DEF bad
    <3> QED
      BY <3>1, LeastNatural
  <2>2. x \in Nat /\ x <= K /\ ~\E c : FollowsOwn(c, w, x)
    BY <2>1
  <2>3. PICK c : x = 0 \/ FollowsOwn(c, w, x - 1)
    <3>1. CASE x = 0
      BY <3>1
    <3>2. CASE x # 0
      <4>1. x - 1 \in Nat /\ x - 1 <= K /\ ~(x <= x - 1)
        BY <3>2, <2>2, <1>3
      <4>2. x - 1 \notin bad
        <5> HIDE DEF bad
        <5> QED
          BY <4>1, <2>1
      <4> QED
        BY <4>1, <4>2
    <3> QED
      BY <3>1, <3>2
  <2> DEFINE d == [h \in 0 .. x |-> IF h = x THEN Step(c, h) ELSE c[h]]
  <2>4. \A h \in 0 .. x : K - h < len =>
            /\ K - h + 1 \in 1 .. len
            /\ At(h).maxHeightGenerated \in Nat
    BY <1>2, <1>3, <1>4, <2>2, SMTT(60)
  <2>5. \A h \in 0 .. x : d[h] = Step(d, h)
    <3> TAKE h \in 0 .. x
    <3>1. \A y \in 0 .. (x - 1) : d[y] = c[y]
      BY <2>2, SMTT(60)
    <3>2. h # x => d[h] = Step(c, h)
      <4> SUFFICES ASSUME h # x PROVE d[h] = Step(c, h)
        OBVIOUS
      <4>1. h \in 0 .. (x - 1) /\ x - 1 \in Nat /\ x # 0
        BY <2>2
      <4>2. c = [y \in 0 .. (x - 1) |-> Step(c, y)]
        <5> HIDE DEF Step
        <5> QED
          BY <4>1, <2>3, <1>6
      <4>3. c[h] = Step(c, h)
        <5> HIDE DEF Step
        <5> QED
          BY <4>1, <4>2
      <4> QED
        BY <4>1, <4>3, <3>1
    <3>3. d[h] = Step(c, h)
      BY <3>2
    <3>4. CASE K - h >= len
      BY <3>3, <3>4
    <3>5. CASE ~(K - h >= len)
      <4>1. At(h).maxHeightGenerated \in Nat /\ K - h + 1 \in 1 .. len
        BY <3>5, <2>2, <2>4, <1>2, <1>3
      <4>2. At(h).maxHeightGenerated >= h \/ At(h).maxHeightGenerated \in 0 .. (x - 1)
        BY <4>1, <2>2, SMTT(60)
      <4>3. ~(At(h).maxHeightGenerated >= h) =>
               d[At(h).maxHeightGenerated] = c[At(h).maxHeightGenerated]
        BY <4>2, <3>1
      <4> HIDE DEF d, At
      <4> QED
        BY <3>3, <3>5, <4>3
    <3> QED
      BY <3>4, <3>5, ZenonT(60)
  <2>6. d = [h \in 0 .. x |-> d[h]]
    OBVIOUS
  <2>7. FollowsOwn(d, w, x)
    <3> HIDE DEF d, Step
    <3> QED
      BY <1>6, <2>2, <2>5, <2>6
  <2> QED
    BY <2>2, <2>7
<1>8. FollowsOwn(f, w, K)
  <2>1. \E c : FollowsOwn(c, w, K)
    BY <1>3, <1>7
  <2> HIDE DEF K
  <2> QED
    BY <2>1
<1> HIDE DEF f
<1>9. \A h \in 0 .. K : f[h] = Step(f, h)
  <2> HIDE DEF Step
  <2> QED
    BY <1>3, <1>6, <1>8
<1> DEFINE Voted(x, h) == \E i \in 1 .. len : /\ infos[i].generatorAddress = g
                                              /\ infos[i].maxHeightGenerated < x
                                              /\ infos[i].height >= x
                                              /\ infos[i].height <= h
           Good(h) == f[h] \in Int /\ \A x \in (K - len + 1) .. h : x > f[h] => Voted(x, h)
<1>10. \A h \in Nat : h <= K => Good(h)
  <2> DEFINE bad == {h \in Nat : h <= K /\ ~Good(h)}
  <2> SUFFICES ASSUME bad # {} PROVE FALSE
    OBVIOUS
  <2>1. PICK h \in bad : \A y \in bad : h <= y
    <3>1. bad \in SUBSET Nat
      OBVIOUS
    <3> HIDE DEF bad
    <3> QED
      BY <3>1, LeastNatural
  <2>2. h \in Nat /\ h <= K /\ ~Good(h)
    BY <2>1
  <2>3. \A y \in Nat : y < h => Good(y)
    <3> TAKE y \in Nat
    <3> HAVE y < h
    <3>1. y <= K /\ ~(h <= y)
      BY <2>2, <1>3
    <3>2. y \notin bad
      <4> HIDE DEF bad
      <4> QED
        BY <3>1, <2>1
    <3> HIDE DEF Good
    <3> QED
      BY <3>1, <3>2
  <2>4. f[h] = Step(f, h)
    BY <1>9, <2>2, <1>3
  <2> DEFINE y == At(h).maxHeightGenerated
  <2>5. CASE K - h >= len
    <3>1. f[h] = K - len
      BY <2>4, <2>5
    <3>2. len \in Int /\ K \in Int /\ h \in Int
      BY <1>2, <1>3, <2>2
    <3> HIDE DEF K, len
    <3>3. \A x \in (K - len + 1) .. h : FALSE
      BY <2>5, <3>2
    <3>4. f[h] \in Int
      BY <3>1, <3>2
    <3>5. Good(h)
      <4> HIDE DEF Voted
      <4> QED
        BY <3>3, <3>4
    <3> QED
      BY <3>5, <2>2
  <2>6. CASE ~(K - h >= len) /\ (At(h).generatorAddress # g \/ y >= h)
    <3>1. f[h] = h
      BY <2>4, <2>6, SMTT(60)
    <3> QED
      BY <3>1, <2>2, <1>2, <1>3
  <2>7. CASE ~(K - h >= len) /\ ~(At(h).generatorAddress # g \/ y >= h)
    <3>1. f[h] = f[y]
      BY <2>4, <2>7
    <3>2. K - h + 1 \in 1 .. len
      BY <2>2, <2>7, <1>2, <1>3
    <3>3. y \in Nat /\ At(h).height = h
      BY <3>2, <2>2, <1>2, <1>3, <1>4
    <3>4. y < h /\ At(h).generatorAddress = g
      BY <3>3, <2>2, <2>7
    <3>5. Good(y)
      <4> HIDE DEF Good, y
      <4> QED
        BY <2>3, <3>3, <3>4
    <3>6. ASSUME NEW x \in (K - len + 1) .. h, x > f[h] PROVE Voted(x, h)
      <4>1. CASE x <= y
        <5>1. Voted(x, y)
          <6>1. len \in Int /\ K \in Int /\ h \in Int
            BY <1>2, <1>3, <2>2
          <6>2. x > f[y]
            BY <3>1, <3>6
          <6>3. \A z \in (K - len + 1) .. y : z > f[y] => Voted(z, y)
            BY <3>5
          <6> HIDE DEF Voted, Good, y, K, len
          <6>4. x \in (K - len + 1) .. y
            BY <6>1, <3>3, <3>6, <4>1
          <6> QED
            BY <6>2, <6>3, <6>4
        <5>2. PICK i \in 1 .. len : /\ infos[i].generatorAddress = g
                                    /\ infos[i].maxHeightGenerated < x
                                    /\ infos[i].height >= x
                                    /\ infos[i].height <= y
          BY <5>1
        <5>3. infos[i].height \in Int
          BY <1>2, SMTT(60)
        <5>4. infos[i].height <= h
          <6> HIDE DEF y
          <6> QED
            BY <5>2, <5>3, <3>3, <3>4, <2>2
        <5> QED
          BY <5>2, <5>4
      <4>2. CASE ~(x <= y)
        <5>1. y < x
          BY <4>2, <3>3, <3>6, <1>2, <1>3, SMTT(60)
        <5>2. x <= h /\ At(h).height >= x /\ At(h).height <= h /\ At(h).maxHeightGenerated < x
          BY <5>1, <3>3, <3>6, <2>2, <1>2, <1>3, SMTT(60)
        <5> DEFINE i == K - h + 1
        <5>3. i \in 1 .. len /\ infos[i] = At(h)
          BY <3>2
        <5> HIDE DEF i, At
        <5> QED
          BY <5>2, <5>3, <3>4
      <4> QED
        BY <4>1, <4>2
    <3> QED
      BY <3>1, <3>5, <3>6, <2>2
  <2> QED
    BY <2>5, <2>6, <2>7
<1> DEFINE M == Tip(w).maxHeightGenerated
<1>11. M \in Nat /\ M < K
  BY <1>5
<1>12. Good(M)
  <2> HIDE DEF Good, M, K
  <2> QED
    BY <1>3, <1>10, <1>11
<1>13. ASSUME NEW i \in 1 .. len, infos[i].height > f[M]
       PROVE  \E j \in 1 .. i : /\ infos[j].generatorAddress = g
                                /\ infos[j].maxHeightGenerated < infos[i].height
  <2>0. len \in Int /\ K \in Int /\ i \in 1 .. len
    BY <1>2, <1>3
  <2>1. infos[i].height = K - i + 1 /\ infos[i].height \in (K - len + 1) .. K
    <3>1. infos[i].height = K - i + 1
      BY <1>2, <1>3
    <3> HIDE DEF K, len, infos
    <3>2. K - i + 1 \in (K - len + 1) .. K
      BY <2>0
    <3> QED
      BY <3>1, <3>2
  <2>2. CASE infos[i].height > M
    <3>1. 1 \in 1 .. i /\ infos[1].generatorAddress = g
      BY <1>2, <1>5
    <3>2. infos[1].maxHeightGenerated < infos[i].height
      BY <1>5, <1>11, <2>1, <2>2, <1>3
    <3> QED
      BY <3>1, <3>2
  <2>3. CASE ~(infos[i].height > M)
    <3>1. Voted(infos[i].height, M)
      <4>1. \A z \in (K - len + 1) .. M : z > f[M] => Voted(z, M)
        BY <1>12
      <4> HIDE DEF Voted, Good, M, K, len
      <4>2. infos[i].height \in (K - len + 1) .. M
        BY <2>0, <2>1, <2>3, <1>11
      <4> QED
        BY <4>1, <4>2, <1>13
    <3>2. PICK j \in 1 .. len : /\ infos[j].generatorAddress = g
                                /\ infos[j].maxHeightGenerated < infos[i].height
                                /\ infos[j].height >= infos[i].height
      BY <3>1
    <3>3. infos[j].height = K - j + 1
      BY <1>2, <1>3
    <3>4. j \in 1 .. i
      BY <2>1, <3>2, <3>3, <1>3
    <3> QED
      BY <3>2, <3>4
  <2> QED
    BY <2>2, <2>3
<1> QED
  BY <1>1, <1>12, <1>13

ActiveInfo == [minActiveHeight : Nat, largestHeightPrecommit : Nat]

\* The weight that the tip's generator has at the i-th block of the window.
VoteWeight(w, q, i) ==
    WeightOf(getBFTParameters(q, w.blockBFTInfos[i].height).validators, Tip(w).generatorAddress)

\* c is the block b with the votes of the tip, if it is the i-th of the window.
BlockCounted(b, c, w, q, i) ==
    /\ c.generatorAddress = b.generatorAddress
    /\ c.maxHeightGenerated = b.maxHeightGenerated
    /\ c.height = b.height
    /\ c.precommitWeight = b.precommitWeight
          + (IF i \in PrecommittedBy(w, q) THEN VoteWeight(w, q, i) ELSE 0)
    /\ c.prevoteWeight = b.prevoteWeight
          + (IF i \in PrevotedBy(w) THEN VoteWeight(w, q, i) ELSE 0)

\* The largest precommit of the tip's generator g is the newest block it precommits.
ActiveCounted(w, r, q, g) ==
    LET was == w.activeValidatorsVoteInfo
        now == r.activeValidatorsVoteInfo
        P   == PrecommittedBy(w, q)
    IN  /\ DOMAIN now = DOMAIN was
        /\ \A x \in DOMAIN was : x # g => now[x] = was[x]
        /\ \E z : now[g] = [was[g] EXCEPT !.largestHeightPrecommit = z]
        /\ now[g].minActiveHeight = was[g].minActiveHeight
        /\ now[g].largestHeightPrecommit =
              IF P = {} THEN was[g].largestHeightPrecommit ELSE w.blockBFTInfos[Min(P)].height

\* What updatePrevotesPrecommits changes.
LEMMA VotesAdded ==
    ASSUME NEW m \in Nat, NEW w, WindowOK(w, m), NEW q, ImpliesVotes(w),
           NEW g, g = Tip(w).generatorAddress,
           w.activeValidatorsVoteInfo[g] \in ActiveInfo,
           NEW r, r = updatePrevotesPrecommits(w, q)
    PROVE  /\ \A i \in 1 .. Len(w.blockBFTInfos) :
                 BlockCounted(w.blockBFTInfos[i], r.blockBFTInfos[i], w, q, i)
           /\ ActiveCounted(w, r, q, g)
<1> DEFINE infos == w.blockBFTInfos
           P     == PrecommittedBy(w, q)
           V     == PrevotedBy(w)
           added(i) == [infos[i] EXCEPT
                          !.precommitWeight = @ + (IF i \in P THEN VoteWeight(w, q, i) ELSE 0),
                          !.prevoteWeight   = @ + (IF i \in V THEN VoteWeight(w, q, i) ELSE 0)]
           counted == [i \in DOMAIN infos |-> added(i)]
           active  == w.activeValidatorsVoteInfo
           newest  == IF P = {} THEN active[g].largestHeightPrecommit ELSE infos[Min(P)].height
<1>1. infos \in Seq(Info) /\ DOMAIN infos = 1 .. Len(infos) /\ g \in DOMAIN active
      /\ DOMAIN w = VotesFields
  BY DEF WindowOK, ImpliesVotes
<1>2. \A i \in 1 .. Len(infos) : infos[i] \in Info
  BY <1>1
<1>3. r.blockBFTInfos = counted
  BY <1>1 DEF updatePrevotesPrecommits, VotesFields, VoteWeight
<1>4. r.activeValidatorsVoteInfo =
        [active EXCEPT ![g] = [active[g] EXCEPT !.largestHeightPrecommit = newest]]
  BY <1>1 DEF updatePrevotesPrecommits, VotesFields
<1>5. \A i \in 1 .. Len(infos) : BlockCounted(infos[i], added(i), w, q, i)
  <2>1. \A b \in Info : \A x, y :
            LET c == [b EXCEPT !.precommitWeight = x, !.prevoteWeight = y]
            IN  /\ c.generatorAddress = b.generatorAddress
                /\ c.maxHeightGenerated = b.maxHeightGenerated
                /\ c.height = b.height /\ c.precommitWeight = x /\ c.prevoteWeight = y
    BY DEF Info
  <2> TAKE i \in 1 .. Len(infos)
  <2> DEFINE x == infos[i].precommitWeight + (IF i \in P THEN VoteWeight(w, q, i) ELSE 0)
             y == infos[i].prevoteWeight + (IF i \in V THEN VoteWeight(w, q, i) ELSE 0)
  <2>2. added(i) = [infos[i] EXCEPT !.precommitWeight = x, !.prevoteWeight = y]
    BY <1>2
  <2>3. infos[i] \in Info
    BY <1>2
  <2>4. BlockCounted(infos[i], added(i), w, q, i) <=>
          /\ added(i).generatorAddress = infos[i].generatorAddress
          /\ added(i).maxHeightGenerated = infos[i].maxHeightGenerated
          /\ added(i).height = infos[i].height
          /\ added(i).precommitWeight = x /\ added(i).prevoteWeight = y
    BY DEF BlockCounted
  <2> HIDE DEF added, x, y, infos
  <2> QED
    BY <2>1, <2>2, <2>3, <2>4
<1>6. \A i \in 1 .. Len(infos) : counted[i] = added(i)
  BY <1>1
<1>7. \A z : LET a == [active[g] EXCEPT !.largestHeightPrecommit = z]
             IN  /\ a.minActiveHeight = active[g].minActiveHeight
                 /\ a.largestHeightPrecommit = z
  BY DEF ActiveInfo
<1>8. /\ DOMAIN r.activeValidatorsVoteInfo = DOMAIN active
      /\ \A x \in DOMAIN active : x # g => r.activeValidatorsVoteInfo[x] = active[x]
      /\ r.activeValidatorsVoteInfo[g] = [active[g] EXCEPT !.largestHeightPrecommit = newest]
  <2> HIDE DEF newest
  <2> QED
    BY <1>1, <1>4
<1>9. \A i \in 1 .. Len(infos) : BlockCounted(infos[i], r.blockBFTInfos[i], w, q, i)
  <2> HIDE DEF added, counted
  <2> QED
    BY <1>3, <1>5, <1>6
<1>10. /\ r.activeValidatorsVoteInfo[g].minActiveHeight = active[g].minActiveHeight
       /\ r.activeValidatorsVoteInfo[g].largestHeightPrecommit = newest
  <2> HIDE DEF newest
  <2> QED
    BY <1>7, <1>8
<1>11. \E z : r.activeValidatorsVoteInfo[g] = [active[g] EXCEPT !.largestHeightPrecommit = z]
  <2> HIDE DEF newest
  <2> QED
    BY <1>8
<1>12. ActiveCounted(w, r, q, g)
  BY <1>8, <1>10, <1>11 DEF ActiveCounted
<1> HIDE DEF added, counted
<1> QED
  BY <1>9, <1>12

PrecommitsIn(pc, h) == IF h \in DOMAIN pc THEN pc[h] ELSE {}

\* The block b of the window once the header of the next height is inserted, and
\* before its votes are counted: n blocks hs have voted, gs has the header too.
BlockInserted(b, v, q, pc, hs, gs, n) ==
    /\ b \in Info
    /\ b.height \in (GenesisHeight + 1) .. (GenesisHeight + n + 1)
    /\ b.height > GenesisHeight + n - Len(v.blockBFTInfos)
    /\ GenesisHeight + n + 1 - b.height < WindowLength
    /\ b.generatorAddress = gs[b.height - GenesisHeight].generatorAddress
    /\ b.maxHeightGenerated = gs[b.height - GenesisHeight].maxHeightGenerated
    /\ b.prevoteWeight = WeightIn(q, b.height, PrevotersOf(q, hs, n, b.height))
    /\ PrecommitsIn(pc, b.height) \subseteq PrevotersOf(q, hs, n, b.height)
    /\ b.precommitWeight = WeightIn(q, b.height, PrecommitsIn(pc, b.height))
    /\ b.precommitWeight > 0 => b.height <= v.maxHeightPrevoted

\* Inserting a header shows it and leaves the votes of the others.
LEMMA HeaderInserted ==
    ASSUME NEW n \in Nat, NEW v, NEW q, NEW pc, NEW hs, WindowOK(v, n),
           CountsOK(v, q, pc, hs, n), NEW header \in Header,
           header.height = GenesisHeight + n + 1,
           NEW gs, \A k \in 1 .. n : gs[k] = hs[k], gs[n + 1] = header,
           NEW w, w = insertBlockBFTInfo(v, header, WindowLength)
    PROVE  /\ WindowOK(w, n + 1)
           /\ Len(w.blockBFTInfos) >= 1
           /\ Tip(w) = getBlockBFTProperties(header)
           /\ w.activeValidatorsVoteInfo = v.activeValidatorsVoteInfo
           /\ \A i \in 1 .. Len(w.blockBFTInfos) :
                 BlockInserted(w.blockBFTInfos[i], v, q, pc, hs, gs, n)
<1> DEFINE K    == GenesisHeight + n + 1
           len  == Len(w.blockBFTInfos)
           vlen == Len(v.blockBFTInfos)
<1>1. /\ WindowOK(w, n + 1)
      /\ w.activeValidatorsVoteInfo = v.activeValidatorsVoteInfo
      /\ len >= 1
      /\ w.blockBFTInfos[1] = getBlockBFTProperties(header)
      /\ \A i \in 2 .. len :
            i - 1 \in 1 .. vlen /\ w.blockBFTInfos[i] = v.blockBFTInfos[i - 1]
  <2>1. /\ WindowOK(w, n + 1)
        /\ \A f \in VotesFields \ {"blockBFTInfos"} : w[f] = v[f]
        /\ len >= 1
        /\ w.blockBFTInfos[1] = getBlockBFTProperties(header)
        /\ \A i \in 2 .. len :
              i - 1 \in 1 .. vlen /\ w.blockBFTInfos[i] = v.blockBFTInfos[i - 1]
    BY Inserted
  <2> QED
    BY <2>1 DEF VotesFields
<1>2. /\ GenesisHeight \in Nat /\ len \in Nat /\ vlen \in Nat /\ len <= n + 1 /\ vlen <= n
      /\ len <= WindowLength /\ len <= vlen + 1 /\ WindowLength \in Nat
  BY <1>1, WindowLengthPositive, ConstantsAssumption, SMTT(60) DEF WindowOK, WindowSize
<1>3. \A i \in 1 .. len : w.blockBFTInfos[i] \in Info /\ w.blockBFTInfos[i].height = K - i + 1
  <2>1. w.blockBFTInfos \in Seq(Info)
        /\ \A i \in 1 .. len : w.blockBFTInfos[i].height = GenesisHeight + (n + 1) - i + 1
    BY <1>1 DEF WindowOK
  <2>2. \A i \in 1 .. len : GenesisHeight + (n + 1) - i + 1 = K - i + 1
    BY <1>2
  <2> QED
    BY <2>1, <2>2
<1>4. ASSUME NEW i \in 1 .. len
      PROVE  BlockInserted(w.blockBFTInfos[i], v, q, pc, hs, gs, n)
  <2> DEFINE b == w.blockBFTInfos[i]
             h == K - i + 1
  <2>1. b \in Info /\ b.height = h
    BY <1>3
  <2>2. /\ h \in (GenesisHeight + 1) .. (GenesisHeight + n + 1) /\ h > GenesisHeight + n - vlen
        /\ GenesisHeight + n + 1 - h < WindowLength /\ h - GenesisHeight = n - i + 2 /\ h \in Nat
    <3> HIDE DEF len, vlen
    <3> QED
      BY <1>2
  <2>3. /\ b.generatorAddress = gs[h - GenesisHeight].generatorAddress
        /\ b.maxHeightGenerated = gs[h - GenesisHeight].maxHeightGenerated
        /\ b.prevoteWeight = WeightIn(q, h, PrevotersOf(q, hs, n, h))
        /\ PrecommitsIn(pc, h) \subseteq PrevotersOf(q, hs, n, h)
        /\ b.precommitWeight = WeightIn(q, h, PrecommitsIn(pc, h))
        /\ b.precommitWeight > 0 => h <= v.maxHeightPrevoted
    <3>1. CASE i = 1
      <4>1. h = K /\ h - GenesisHeight = n + 1
        BY <3>1, <2>2, <1>2
      <4>2. b = getBlockBFTProperties(header)
        BY <3>1, <1>1
      <4>3. /\ b.generatorAddress = header.generatorAddress
            /\ b.maxHeightGenerated = header.maxHeightGenerated
            /\ b.prevoteWeight = 0 /\ b.precommitWeight = 0
        BY <4>2 DEF getBlockBFTProperties
      <4>4. PrevotersOf(q, hs, n, K) = {}
        <5>1. K .. (GenesisHeight + n) = {}
          BY <1>2
        <5> QED
          BY <5>1 DEF PrevotersOf
      <4>5. K \notin DOMAIN pc
        <5>1. DOMAIN pc = (GenesisHeight + 1) .. (GenesisHeight + n)
          BY DEF CountsOK, PrecommitsOK
        <5> QED
          BY <5>1, <1>2
      <4>6. PrecommitsIn(pc, K) = {}
        BY <4>5 DEF PrecommitsIn
      <4>7. WeightIn(q, K, {}) = 0
        BY NoVotesWeigh
      <4> HIDE DEF b, h, K
      <4>8. gs[h - GenesisHeight] = header /\ PrevotersOf(q, hs, n, h) = {}
            /\ PrecommitsIn(pc, h) = {} /\ WeightIn(q, h, {}) = 0
        BY <4>1, <4>4, <4>6, <4>7
      <4> QED
        BY <4>3, <4>8
    <3>2. CASE i # 1
      <4>1. i - 1 \in 1 .. vlen /\ b = v.blockBFTInfos[i - 1]
        <5>1. i \in 2 .. len
          BY <3>2, <1>2
        <5> QED
          BY <5>1, <1>1
      <4>2. n - (i - 1) + 1 = h - GenesisHeight /\ h - GenesisHeight \in 1 .. n
        <5>1. i \in Nat /\ i >= 2 /\ i <= n + 1
          BY <3>2, <1>2
        <5> QED
          BY <5>1, <1>2
      <4>3. hs[h - GenesisHeight] = gs[h - GenesisHeight]
        BY <4>2
      <4>4. /\ b.generatorAddress = hs[n - (i - 1) + 1].generatorAddress
            /\ b.maxHeightGenerated = hs[n - (i - 1) + 1].maxHeightGenerated
            /\ b.precommitWeight > 0 => b.height <= v.maxHeightPrevoted
        BY <4>1 DEF CountsOK, ShownOK
      <4>5. WeightsOK(b, q, pc, hs, n)
        BY <4>1 DEF CountsOK
      <4>6. h \in DOMAIN pc
        <5>1. DOMAIN pc = (GenesisHeight + 1) .. (GenesisHeight + n)
          BY DEF CountsOK, PrecommitsOK
        <5> QED
          BY <5>1, <4>2, <2>2, <1>2
      <4>7. PrecommitsIn(pc, h) = pc[h]
        BY <4>6 DEF PrecommitsIn
      <4> HIDE DEF b, h
      <4> QED
        BY <4>2, <4>3, <4>4, <4>5, <4>7, <2>1 DEF WeightsOK
    <3> QED
      BY <3>1, <3>2
  <2> HIDE DEF b, h
  <2>4. BlockInserted(b, v, q, pc, hs, gs, n)
    BY <2>1, <2>2, <2>3 DEF BlockInserted
  <2> QED
    BY <2>4 DEF b
<1> QED
  BY <1>1, <1>4 DEF Tip

\* What is known when the header of the next height is counted: it is from a
\* validator of its height and claims no less than the generator's own blocks.
Counting(n, v, q, pc, hs, header, gs, w) ==
    /\ n \in Nat
    /\ WindowOK(v, n)
    /\ CountsOK(v, q, pc, hs, n)
    /\ header \in Header
    /\ header.height = GenesisHeight + n + 1
    /\ header.generatorAddress \in ValidatorsIn(q, GenesisHeight + n + 1)
    /\ \A i \in 1 .. Len(v.blockBFTInfos) :
          v.blockBFTInfos[i].generatorAddress = header.generatorAddress =>
             v.blockBFTInfos[i].height <= header.maxHeightGenerated
    /\ \A k \in 1 .. n : gs[k] = hs[k]
    /\ gs[n + 1] = header
    /\ w = insertBlockBFTInfo(v, header, WindowLength)
    /\ \A h \in (GenesisHeight + 1) .. (GenesisHeight + n + 1) :
          getBFTParameters(q, h) \in ParametersType

\* The largest of two numbers.
LEMMA AboveTwo ==
    ASSUME NEW a \in Int, NEW b \in Int, NEW x \in Int
    PROVE  x >= Max({a, b}) <=> x >= a /\ x >= b
<1>1. \E z \in {a, b} : \A y \in {a, b} : z >= y
  OBVIOUS
<1>2. Max({a, b}) \in {a, b} /\ \A y \in {a, b} : Max({a, b}) >= y
  BY <1>1 DEF Max
<1> HIDE DEF Max
<1> QED
  BY <1>2

\* The largest of three numbers.
LEMMA AboveThree ==
    ASSUME NEW a \in Int, NEW b \in Int, NEW c \in Int, NEW x \in Int
    PROVE  x >= Max({a, b, c}) <=> x >= a /\ x >= b /\ x >= c
<1>1. \E z \in {a, b, c} : \A y \in {a, b, c} : z >= y
  OBVIOUS
<1>2. Max({a, b, c}) \in {a, b, c} /\ \A y \in {a, b, c} : Max({a, b, c}) >= y
  BY <1>1 DEF Max
<1> HIDE DEF Max
<1> QED
  BY <1>2

\* Which votes a block implies.
LEMMA VotesImplied ==
    ASSUME NEW n, NEW v, NEW q, NEW pc, NEW hs, NEW header, NEW gs, NEW w,
           Counting(n, v, q, pc, hs, header, gs, w),
           NEW g, g = header.generatorAddress, NEW K, K = GenesisHeight + n + 1
    PROVE  /\ Tip(w).generatorAddress = g /\ g \in DOMAIN w.activeValidatorsVoteInfo
           /\ w.activeValidatorsVoteInfo[g] \in ActiveInfo
           /\ ImpliesVotes(w) <=> header.maxHeightGenerated < K
           /\ \A i \in 1 .. Len(w.blockBFTInfos) :
                 i \in PrevotedBy(w) <=>
                    /\ header.maxHeightGenerated < w.blockBFTInfos[i].height
                    /\ AlwaysIn(q, g, w.blockBFTInfos[i].height, K)
<1> DEFINE infos == w.blockBFTInfos
           len   == Len(infos)
           info  == v.activeValidatorsVoteInfo[g]
<1>1. /\ n \in Nat /\ GenesisHeight \in Nat /\ K \in Nat /\ header.maxHeightGenerated \in Nat
      /\ header.height = K /\ g \in ValidatorsIn(q, K)
  BY ConstantsAssumption DEF Counting, Header
<1>2. /\ WindowOK(w, n + 1) /\ len >= 1
      /\ Tip(w) = getBlockBFTProperties(header)
      /\ w.activeValidatorsVoteInfo = v.activeValidatorsVoteInfo
      /\ \A i \in 1 .. len : BlockInserted(infos[i], v, q, pc, hs, gs, n)
  BY HeaderInserted DEF Counting
<1>3. Tip(w).generatorAddress = g /\ Tip(w).maxHeightGenerated = header.maxHeightGenerated
      /\ Tip(w).height = K
  BY <1>1, <1>2 DEF getBlockBFTProperties
<1>4. /\ DOMAIN v.activeValidatorsVoteInfo = ValidatorsIn(q, K)
      /\ \A x \in DOMAIN v.activeValidatorsVoteInfo :
            /\ v.activeValidatorsVoteInfo[x] \in ActiveInfo
            /\ \A h \in (GenesisHeight + 1) .. K :
                  h >= v.activeValidatorsVoteInfo[x].minActiveHeight <=> AlwaysIn(q, x, h, K)
  BY DEF Counting, CountsOK, ActiveOK, ActiveInfo, AlwaysIn
<1>5. info \in ActiveInfo /\ g \in DOMAIN w.activeValidatorsVoteInfo
      /\ w.activeValidatorsVoteInfo[g] = info
  BY <1>1, <1>2, <1>4
<1>6. info.minActiveHeight \in Nat
  BY <1>5 DEF ActiveInfo
<1>7. ImpliesVotes(w) <=> header.maxHeightGenerated < K
  <2>1. len > 0
    BY <1>2 DEF WindowOK
  <2> QED
    BY <2>1, <1>3, <1>5 DEF ImpliesVotes
<1>8. ASSUME NEW i \in 1 .. len
      PROVE  i \in PrevotedBy(w) <=>
                /\ header.maxHeightGenerated < infos[i].height
                /\ AlwaysIn(q, g, infos[i].height, K)
  <2> DEFINE h == infos[i].height
  <2>1. h \in (GenesisHeight + 1) .. K
    BY <1>2, <1>8 DEF BlockInserted
  <2>2. h \in Int /\ header.maxHeightGenerated + 1 \in Int /\ info.minActiveHeight \in Int
    BY <2>1, <1>1, <1>6, SMTT(60)
  <2>3. h >= info.minActiveHeight <=> AlwaysIn(q, g, h, K)
    BY <2>1, <1>1, <1>4
  <2>4. i \in DOMAIN infos
    BY <1>2, <1>8 DEF WindowOK
  <2>5. i \in PrevotedBy(w) <=> h >= Max({header.maxHeightGenerated + 1, info.minActiveHeight})
    BY <2>4, <1>3, <1>5, Zenon DEF PrevotedBy
  <2> HIDE DEF h, info
  <2>6. i \in PrevotedBy(w) <=> h >= header.maxHeightGenerated + 1 /\ h >= info.minActiveHeight
    BY <2>2, <2>5, AboveTwo
  <2>7. h >= header.maxHeightGenerated + 1 <=> header.maxHeightGenerated < h
    BY <2>2, <1>1
  <2> QED
    BY <2>3, <2>6, <2>7 DEF h
<1> QED
  BY <1>3, <1>5, <1>7, <1>8

\* What a block precommits: heights that its generator has not precommitted on
\* this chain, has prevoted, and was a validator at ever since.
LEMMA PrecommitsImplied ==
    ASSUME NEW n, NEW v, NEW q, NEW pc, NEW hs, NEW header, NEW gs, NEW w,
           Counting(n, v, q, pc, hs, header, gs, w),
           NEW g, g = header.generatorAddress, NEW K, K = GenesisHeight + n + 1,
           ImpliesVotes(w), NEW i \in PrecommittedBy(w, q)
    PROVE  /\ i \in 1 .. Len(w.blockBFTInfos)
           /\ AlwaysIn(q, g, w.blockBFTInfos[i].height, K)
           /\ w.blockBFTInfos[i].height > w.activeValidatorsVoteInfo[g].largestHeightPrecommit
           /\ w.blockBFTInfos[i].prevoteWeight
                 >= getBFTParameters(q, w.blockBFTInfos[i].height).prevoteThreshold
           /\ g \in PrevotersOf(q, gs, n + 1, w.blockBFTInfos[i].height)
<1> DEFINE infos == w.blockBFTInfos
           len   == Len(infos)
           info  == w.activeValidatorsVoteInfo[g]
           h     == infos[i].height
           no    == getHeightNotPrevoted(w)
<1>1. /\ n \in Nat /\ GenesisHeight \in Nat /\ K \in Nat /\ header.maxHeightGenerated \in Nat
      /\ header.height = K /\ g \in ValidatorsIn(q, K)
  BY ConstantsAssumption DEF Counting, Header
<1>2. /\ WindowOK(w, n + 1) /\ len >= 1
      /\ Tip(w) = getBlockBFTProperties(header)
      /\ w.activeValidatorsVoteInfo = v.activeValidatorsVoteInfo
      /\ \A j \in 1 .. len : BlockInserted(infos[j], v, q, pc, hs, gs, n)
  BY HeaderInserted DEF Counting
<1>3. /\ Tip(w).generatorAddress = g /\ g \in DOMAIN w.activeValidatorsVoteInfo
      /\ info \in ActiveInfo
  BY VotesImplied
<1>4. i \in 1 .. len
  BY <1>2 DEF WindowOK, PrecommittedBy
<1>5. h \in (GenesisHeight + 1) .. K /\ h \in Int
  BY <1>1, <1>2, <1>4 DEF BlockInserted
<1>6. info.minActiveHeight \in Int /\ info.largestHeightPrecommit + 1 \in Int
      /\ info.largestHeightPrecommit \in Int
  BY <1>3 DEF ActiveInfo
<1>7. /\ no \in Int
      /\ \A j \in 1 .. len : infos[j].height > no =>
            \E k \in 1 .. j : /\ infos[k].generatorAddress = g
                              /\ infos[k].maxHeightGenerated < infos[j].height
  <2>1. Tip(w).maxHeightGenerated < Tip(w).height
    BY DEF ImpliesVotes
  <2>2. n + 1 \in Nat /\ n + 1 >= 1
    BY <1>1
  <2> QED
    BY <1>2, <1>3, <2>1, <2>2, PrevotedAbove
<1>8. /\ h >= Max({info.minActiveHeight, no + 1, info.largestHeightPrecommit + 1})
      /\ infos[i].prevoteWeight >= getBFTParameters(q, h).prevoteThreshold
  BY <1>3, Zenon DEF PrecommittedBy
<1>9. h >= info.minActiveHeight /\ h >= no + 1 /\ h >= info.largestHeightPrecommit + 1
  <2>1. no + 1 \in Int
    BY <1>7
  <2> HIDE DEF h, no, info
  <2> QED
    BY <1>5, <1>6, <1>8, <2>1, AboveThree
<1>10. AlwaysIn(q, g, h, K)
  BY <1>1, <1>2, <1>3, <1>5, <1>9 DEF Counting, CountsOK, ActiveOK, AlwaysIn
<1>11. PICK k \in 1 .. i : infos[k].generatorAddress = g /\ infos[k].maxHeightGenerated < h
  <2>1. h > no
    <3> HIDE DEF h, no
    <3> QED
      BY <1>5, <1>7, <1>9
  <2> QED
    BY <1>4, <1>7, <2>1
<1>12. g \in PrevotersOf(q, gs, n + 1, h)
  <2> DEFINE c == infos[k].height
  <2>1. k \in 1 .. len /\ k \in Int /\ i \in Int /\ k <= i
    BY <1>2, <1>4
  <2>2. c \in (GenesisHeight + 1) .. K /\ GenesisHeight + n + 1 - h < WindowLength
        /\ g = gs[c - GenesisHeight].generatorAddress
        /\ gs[c - GenesisHeight].maxHeightGenerated < h
    BY <1>2, <1>4, <1>11, <2>1 DEF BlockInserted
  <2>3. h <= c
    <3>1. h = GenesisHeight + (n + 1) - i + 1 /\ c = GenesisHeight + (n + 1) - k + 1
      BY <1>2, <1>4, <2>1 DEF WindowOK
    <3> HIDE DEF h, c
    <3> QED
      BY <3>1, <2>1, <1>1
  <2> HIDE DEF c, h
  <2>4. c \in h .. (GenesisHeight + (n + 1)) /\ c - h < WindowLength /\ h \in h .. K
    BY <2>2, <2>3, <1>1, <1>5, WindowLengthPositive
  <2>5. \A j \in h .. c : g \in ValidatorsIn(q, j)
    BY <1>1, <1>5, <1>10, <2>2 DEF AlwaysIn
  <2>6. g \in ValidatorsIn(q, h)
    BY <1>10, <2>4 DEF AlwaysIn
  <2>7. PrevotesAt(q, gs, g, h, c)
    BY <2>2, <2>4, <2>5 DEF PrevotesAt
  <2> QED
    BY <2>4, <2>6, <2>7 DEF PrevotersOf
<1>13. h > info.largestHeightPrecommit
  <2> HIDE DEF h, info
  <2> QED
    BY <1>5, <1>6, <1>9
<1> QED
  BY <1>4, <1>8, <1>10, <1>12, <1>13

\* The positions that the tip precommits, and the precommits of every height with them.
TipPrecommits(w, q) == IF ImpliesVotes(w) THEN PrecommittedBy(w, q) ELSE {}

PrecommitsWith(pc, w, q, K) ==
    [h \in DOMAIN pc \cup {K} |->
        PrecommitsIn(pc, h)
        \cup (IF h \in {w.blockBFTInfos[i].height : i \in TipPrecommits(w, q)}
              THEN {Tip(w).generatorAddress} ELSE {})]

\* The votes that a block implies never make counting throw.
LEMMA VoteStateValid ==
    ASSUME NEW n, NEW v, NEW q, NEW pc, NEW hs, NEW header, NEW gs, NEW w,
           Counting(n, v, q, pc, hs, header, gs, w)
    PROVE  ~InvalidVoteState(w, q)
<1> DEFINE g == header.generatorAddress
           K == GenesisHeight + n + 1
<1> SUFFICES ASSUME ImpliesVotes(w), NEW i \in PrecommittedBy(w, q) \cup PrevotedBy(w)
             PROVE  Tip(w).generatorAddress \in
                       Addresses(getBFTParameters(q, w.blockBFTInfos[i].height).validators)
  BY DEF InvalidVoteState
<1>1. Tip(w).generatorAddress = g
  BY VotesImplied
<1>2. WindowOK(w, n + 1)
      /\ \A j \in 1 .. Len(w.blockBFTInfos) :
            BlockInserted(w.blockBFTInfos[j], v, q, pc, hs, gs, n)
  BY HeaderInserted DEF Counting
<1>3. i \in 1 .. Len(w.blockBFTInfos)
  BY <1>2 DEF WindowOK, PrecommittedBy, PrevotedBy
<1>4. AlwaysIn(q, g, w.blockBFTInfos[i].height, K)
  <2>1. CASE i \in PrecommittedBy(w, q)
    BY <2>1, PrecommitsImplied
  <2>2. CASE i \in PrevotedBy(w)
    BY <2>2, <1>3, VotesImplied
  <2> QED
    BY <2>1, <2>2
<1>5. w.blockBFTInfos[i].height \in w.blockBFTInfos[i].height .. K
  <2>1. w.blockBFTInfos[i].height \in (GenesisHeight + 1) .. K
    BY <1>2, <1>3 DEF BlockInserted
  <2>2. n \in Nat /\ GenesisHeight \in Nat
    BY ConstantsAssumption DEF Counting
  <2> QED
    BY <2>1, <2>2
<1> QED
  BY <1>1, <1>4, <1>5 DEF AlwaysIn, ValidatorsIn

\* The prevote of the tip's generator is counted once.
LEMMA PrevoteCounted ==
    ASSUME NEW n, NEW v, NEW q, NEW pc, NEW hs, NEW header, NEW gs, NEW w,
           Counting(n, v, q, pc, hs, header, gs, w), NEW i \in 1 .. Len(w.blockBFTInfos),
           NEW h, h = w.blockBFTInfos[i].height
    PROVE  WeightIn(q, h, PrevotersOf(q, gs, n + 1, h)) = w.blockBFTInfos[i].prevoteWeight
              + (IF ImpliesVotes(w) /\ i \in PrevotedBy(w) THEN VoteWeight(w, q, i) ELSE 0)
<1> DEFINE g   == header.generatorAddress
           K   == GenesisHeight + n + 1
           mhg == header.maxHeightGenerated
           old == PrevotersOf(q, hs, n, h)
           new == PrevotersOf(q, gs, n + 1, h)
           b   == w.blockBFTInfos[i]
<1>1. /\ n \in Nat /\ GenesisHeight \in Nat /\ K \in Nat /\ mhg \in Nat
  BY ConstantsAssumption DEF Counting, Header
<1>2. Tip(w).generatorAddress = g
      /\ (ImpliesVotes(w) <=> mhg < K)
      /\ (i \in PrevotedBy(w) <=> mhg < h /\ AlwaysIn(q, g, h, K))
  BY VotesImplied
<1>3. BlockInserted(b, v, q, pc, hs, gs, n)
  BY HeaderInserted DEF Counting
<1>4. /\ h \in (GenesisHeight + 1) .. K /\ h > GenesisHeight + n - Len(v.blockBFTInfos)
      /\ GenesisHeight + n + 1 - h < WindowLength
      /\ b.prevoteWeight = WeightIn(q, h, old) /\ b.prevoteWeight \in Nat
  BY <1>3 DEF BlockInserted, Info
<1>5. h \in Nat /\ h > GenesisHeight /\ h <= K
  BY <1>1, <1>4, SMTT(60)
<1>6. new = old \cup PrevoterAt(q, header, h, K)
  <2>0. gs[n + 1] = header
    BY DEF Counting
  <2>1. \A k \in 1 .. n : gs[k] = hs[k]
    BY DEF Counting
  <2>2. PrevotersAdded(q, hs, gs, n, h)
    BY <1>1, <1>4, <2>1, PrevotersGrow
  <2> QED
    BY <2>0, <2>2 DEF PrevotersAdded
<1>7. CASE mhg < h /\ AlwaysIn(q, g, h, K)
  <2>1. ImpliesVotes(w) /\ i \in PrevotedBy(w)
    BY <1>1, <1>2, <1>5, <1>7
  <2>2. g \notin old
    <3>1. WindowOK(v, n) /\ ShownOK(v, hs, n)
      BY DEF Counting, CountsOK
    <3>2. \A j \in 1 .. Len(v.blockBFTInfos) :
              v.blockBFTInfos[j].generatorAddress = g => v.blockBFTInfos[j].height <= mhg
      BY DEF Counting
    <3> HIDE DEF g, mhg
    <3> QED
      BY <3>1, <3>2, <1>1, <1>4, <1>5, <1>7, NotPrevotedBefore
  <2>3. new = old \cup {g}
    BY <1>6, <1>7 DEF PrevoterAt
  <2>4. g \in ValidatorsIn(q, h) /\ old \in SUBSET ValidatorsIn(q, h)
    <3>1. h \in h .. K
      BY <1>1, <1>5
    <3> QED
      BY <3>1, <1>7 DEF AlwaysIn, PrevotersOf
  <2>5. getBFTParameters(q, h) \in ParametersType
    BY <1>4 DEF Counting
  <2> HIDE DEF old, new, g
  <2>6. WeightIn(q, h, old \cup {g}) =
           WeightIn(q, h, old) + WeightOf(getBFTParameters(q, h).validators, g)
    BY <2>2, <2>4, <2>5, VoteWeighs
  <2>7. VoteWeight(w, q, i) = WeightOf(getBFTParameters(q, h).validators, g)
    BY <1>2 DEF VoteWeight
  <2>8. WeightIn(q, h, new) = b.prevoteWeight + VoteWeight(w, q, i)
    BY <2>3, <2>6, <2>7, <1>4
  <2> QED
    BY <2>1, <2>8 DEF new
<1>8. CASE ~(mhg < h /\ AlwaysIn(q, g, h, K))
  <2>1. new = old
    BY <1>6, <1>8 DEF PrevoterAt
  <2>2. i \notin PrevotedBy(w)
    BY <1>2, <1>8
  <2>3. WeightIn(q, h, new) = b.prevoteWeight /\ b.prevoteWeight + 0 = b.prevoteWeight
    BY <2>1, <1>4
  <2> QED
    BY <2>2, <2>3
<1> QED
  BY <1>7, <1>8

\* So is its precommit.
LEMMA PrecommitCounted ==
    ASSUME NEW n, NEW v, NEW q, NEW pc, NEW hs, NEW header, NEW gs, NEW w,
           Counting(n, v, q, pc, hs, header, gs, w), NEW i \in 1 .. Len(w.blockBFTInfos),
           NEW h, h = w.blockBFTInfos[i].height,
           NEW pc2, pc2 = PrecommitsWith(pc, w, q, GenesisHeight + n + 1)
    PROVE  /\ pc2[h] \subseteq PrevotersOf(q, gs, n + 1, h)
           /\ WeightIn(q, h, pc2[h]) = w.blockBFTInfos[i].precommitWeight
                + (IF ImpliesVotes(w) /\ i \in PrecommittedBy(w, q) THEN VoteWeight(w, q, i) ELSE 0)
<1> DEFINE g   == header.generatorAddress
           K   == GenesisHeight + n + 1
           old == PrecommitsIn(pc, h)
           b   == w.blockBFTInfos[i]
           P   == TipPrecommits(w, q)
<1>1. /\ n \in Nat /\ GenesisHeight \in Nat /\ K \in Nat
  BY ConstantsAssumption DEF Counting
<1>2. /\ Tip(w).generatorAddress = g /\ g \in DOMAIN w.activeValidatorsVoteInfo
      /\ w.activeValidatorsVoteInfo[g] \in ActiveInfo
  BY VotesImplied
<1>3. WindowOK(w, n + 1) /\ w.activeValidatorsVoteInfo = v.activeValidatorsVoteInfo
      /\ BlockInserted(b, v, q, pc, hs, gs, n)
  BY HeaderInserted DEF Counting
<1>4. /\ h \in (GenesisHeight + 1) .. K
      /\ old \subseteq PrevotersOf(q, hs, n, h)
      /\ b.precommitWeight = WeightIn(q, h, old) /\ b.precommitWeight \in Nat
      /\ GenesisHeight + n + 1 - h < WindowLength
  BY <1>3 DEF BlockInserted, Info
<1>5. h \in Nat /\ h > GenesisHeight /\ h <= K
  BY <1>1, <1>4, SMTT(60)
<1>6. PrevotersOf(q, hs, n, h) \subseteq PrevotersOf(q, gs, n + 1, h)
  <2>1. \A k \in 1 .. n : gs[k] = hs[k]
    BY DEF Counting
  <2> QED
    BY <1>1, <1>4, <2>1, PrevotersGrow, SMTT(60) DEF PrevotersAdded
<1>7. h \in DOMAIN pc \cup {K}
  <2>1. DOMAIN pc = (GenesisHeight + 1) .. (GenesisHeight + n)
    BY DEF Counting, CountsOK, PrecommitsOK
  <2> QED
    BY <2>1, <1>1, <1>5
<1>8. h \in {w.blockBFTInfos[j].height : j \in P} <=> i \in P
  <2>1. \A j \in P : j \in 1 .. Len(w.blockBFTInfos)
    BY <1>3 DEF TipPrecommits, PrecommittedBy, WindowOK
  <2>2. \A j \in 1 .. Len(w.blockBFTInfos) :
           w.blockBFTInfos[j].height = GenesisHeight + (n + 1) - j + 1
    BY <1>3 DEF WindowOK
  <2>3. \A j \in 1 .. Len(w.blockBFTInfos) : w.blockBFTInfos[j].height = h => j = i
    <3> TAKE j \in 1 .. Len(w.blockBFTInfos)
    <3> HAVE w.blockBFTInfos[j].height = h
    <3>1. GenesisHeight + (n + 1) - j + 1 = GenesisHeight + (n + 1) - i + 1
      BY <2>2
    <3>2. i \in Int /\ j \in Int
      OBVIOUS
    <3> QED
      BY <3>1, <3>2, <1>1, SMTT(60)
  <2> HIDE DEF P
  <2> QED
    BY <2>1, <2>3
<1>9. pc2[h] = old \cup (IF i \in P THEN {g} ELSE {})
  <2> DEFINE joined == {w.blockBFTInfos[j].height : j \in P}
  <2>1. pc2[h] = old \cup (IF h \in joined THEN {g} ELSE {})
    BY <1>2, <1>7 DEF PrecommitsWith
  <2> HIDE DEF joined, old, P
  <2> QED
    BY <2>1, <1>8 DEF joined
<1>10. CASE i \in P
  <2>1. ImpliesVotes(w) /\ i \in PrecommittedBy(w, q)
    BY <1>10 DEF TipPrecommits
  <2>2. /\ AlwaysIn(q, g, h, K)
        /\ h > w.activeValidatorsVoteInfo[g].largestHeightPrecommit
        /\ g \in PrevotersOf(q, gs, n + 1, h)
    BY <2>1, PrecommitsImplied
  <2>3. g \notin old
    <3> SUFFICES ASSUME g \in old PROVE FALSE
      OBVIOUS
    <3>1. h \in DOMAIN pc /\ g \in pc[h]
      BY DEF PrecommitsIn
    <3>2. h <= v.activeValidatorsVoteInfo[g].largestHeightPrecommit
      BY <3>1, <1>2, <1>3 DEF Counting, CountsOK, PrecommitsOK
    <3>3. w.activeValidatorsVoteInfo[g].largestHeightPrecommit \in Nat
      BY <1>2 DEF ActiveInfo
    <3> QED
      BY <3>2, <3>3, <2>2, <1>3, <1>5
  <2>4. g \in ValidatorsIn(q, h) /\ old \in SUBSET ValidatorsIn(q, h)
    <3>1. h \in h .. K
      BY <1>1, <1>5
    <3> QED
      BY <3>1, <2>2, <1>4 DEF AlwaysIn, PrevotersOf
  <2>5. getBFTParameters(q, h) \in ParametersType
    BY <1>4 DEF Counting
  <2>6. pc2[h] = old \cup {g}
    BY <1>9, <1>10
  <2> HIDE DEF old, g
  <2>7. WeightIn(q, h, old \cup {g}) =
           WeightIn(q, h, old) + WeightOf(getBFTParameters(q, h).validators, g)
    BY <2>3, <2>4, <2>5, VoteWeighs
  <2>8. VoteWeight(w, q, i) = WeightOf(getBFTParameters(q, h).validators, g)
    BY <1>2 DEF VoteWeight
  <2>9. pc2[h] \subseteq PrevotersOf(q, gs, n + 1, h)
    BY <2>2, <2>6, <1>4, <1>6
  <2> QED
    BY <2>1, <2>6, <2>7, <2>8, <2>9, <1>4
<1>11. CASE i \notin P
  <2>1. pc2[h] = old
    BY <1>9, <1>11
  <2>2. ~(ImpliesVotes(w) /\ i \in PrecommittedBy(w, q))
    BY <1>11 DEF TipPrecommits
  <2> HIDE DEF old
  <2> QED
    BY <2>1, <2>2, <1>4, <1>6
<1> QED
  BY <1>10, <1>11

\* The blocks of the window after counting weigh what was voted for them, and
\* what has a precommit has its prevotes.
LEMMA BlocksCounted ==
    ASSUME NEW n, NEW v, NEW q, NEW pc, NEW hs, NEW header, NEW gs, NEW w,
           Counting(n, v, q, pc, hs, header, gs, w),
           NEW r, r = updatePrevotesPrecommits(w, q),
           NEW pc2, pc2 = PrecommitsWith(pc, w, q, GenesisHeight + n + 1)
    PROVE  /\ WindowOK(r, n + 1)
           /\ \A i \in 1 .. Len(r.blockBFTInfos) :
                 /\ WeightsOK(r.blockBFTInfos[i], q, pc2, gs, n + 1)
                 /\ r.blockBFTInfos[i].generatorAddress = gs[(n + 1) - i + 1].generatorAddress
                 /\ r.blockBFTInfos[i].maxHeightGenerated = gs[(n + 1) - i + 1].maxHeightGenerated
                 /\ r.blockBFTInfos[i].precommitWeight > 0 =>
                       \/ r.blockBFTInfos[i].height <= v.maxHeightPrevoted
                       \/ r.blockBFTInfos[i].prevoteWeight
                             >= getBFTParameters(q, r.blockBFTInfos[i].height).prevoteThreshold
<1> DEFINE len == Len(w.blockBFTInfos)
           g   == header.generatorAddress
<1>1. /\ WindowOK(w, n + 1)
      /\ \A i \in 1 .. len : BlockInserted(w.blockBFTInfos[i], v, q, pc, hs, gs, n)
  BY HeaderInserted DEF Counting
<1>2. n \in Nat /\ n + 1 \in Nat /\ GenesisHeight \in Nat
  BY ConstantsAssumption DEF Counting
<1>3. \A i \in 1 .. len :
          getBFTParameters(q, w.blockBFTInfos[i].height) \in ParametersType
  BY <1>1 DEF Counting, BlockInserted
<1>4. ~InvalidVoteState(w, q)
  BY VoteStateValid
<1>5. /\ WindowOK(r, n + 1)
      /\ \A i \in 1 .. Len(r.blockBFTInfos) :
            r.blockBFTInfos[i].prevoteWeight >= w.blockBFTInfos[i].prevoteWeight
  BY <1>1, <1>2, <1>3, <1>4, Counted
<1>6. Len(r.blockBFTInfos) = len
  BY <1>1, <1>5 DEF WindowOK
<1>7. /\ Tip(w).generatorAddress = g /\ w.activeValidatorsVoteInfo[g] \in ActiveInfo
  BY VotesImplied
<1>8. ASSUME NEW i \in 1 .. len
      PROVE  /\ WeightsOK(r.blockBFTInfos[i], q, pc2, gs, n + 1)
             /\ r.blockBFTInfos[i].generatorAddress = gs[(n + 1) - i + 1].generatorAddress
             /\ r.blockBFTInfos[i].maxHeightGenerated = gs[(n + 1) - i + 1].maxHeightGenerated
             /\ r.blockBFTInfos[i].precommitWeight > 0 =>
                   \/ r.blockBFTInfos[i].height <= v.maxHeightPrevoted
                   \/ r.blockBFTInfos[i].prevoteWeight
                         >= getBFTParameters(q, r.blockBFTInfos[i].height).prevoteThreshold
  <2> DEFINE b == w.blockBFTInfos[i]
             c == r.blockBFTInfos[i]
             P == ImpliesVotes(w) /\ i \in PrecommittedBy(w, q)
             V == ImpliesVotes(w) /\ i \in PrevotedBy(w)
  <2>1. b \in Info /\ BlockInserted(b, v, q, pc, hs, gs, n)
        /\ b.prevoteWeight \in Nat /\ b.precommitWeight \in Nat
    BY <1>1, <1>8 DEF BlockInserted, Info
  <2>2. /\ c.generatorAddress = b.generatorAddress
        /\ c.maxHeightGenerated = b.maxHeightGenerated
        /\ c.height = b.height
        /\ c.precommitWeight = b.precommitWeight + (IF P THEN VoteWeight(w, q, i) ELSE 0)
        /\ c.prevoteWeight = b.prevoteWeight + (IF V THEN VoteWeight(w, q, i) ELSE 0)
    <3>1. CASE ImpliesVotes(w)
      <4>1. BlockCounted(b, c, w, q, i)
        BY <3>1, <1>1, <1>2, <1>7, <1>8, VotesAdded
      <4> QED
        BY <3>1, <4>1 DEF BlockCounted
    <3>2. CASE ~ImpliesVotes(w)
      <4>1. c = b
        BY <3>2 DEF updatePrevotesPrecommits
      <4> QED
        BY <3>2, <4>1, <2>1
    <3> QED
      BY <3>1, <3>2
  <2>3. c.prevoteWeight = WeightIn(q, c.height, PrevotersOf(q, gs, n + 1, c.height))
    <3>1. WeightIn(q, b.height, PrevotersOf(q, gs, n + 1, b.height)) =
             b.prevoteWeight + (IF V THEN VoteWeight(w, q, i) ELSE 0)
      BY <1>8, PrevoteCounted
    <3> HIDE DEF b, c, V
    <3> QED
      BY <3>1, <2>2
  <2>4. /\ pc2[c.height] \subseteq PrevotersOf(q, gs, n + 1, c.height)
        /\ c.precommitWeight = WeightIn(q, c.height, pc2[c.height])
    <3> DEFINE h == b.height
    <3>0. h = w.blockBFTInfos[i].height
      OBVIOUS
    <3> HIDE DEF h
    <3>1. pc2[h] \subseteq PrevotersOf(q, gs, n + 1, h)
      BY <3>0, <1>8, PrecommitCounted
    <3>2. WeightIn(q, h, pc2[h]) = w.blockBFTInfos[i].precommitWeight
             + (IF P THEN VoteWeight(w, q, i) ELSE 0)
      BY <3>0, <1>8, PrecommitCounted
    <3>3. c.height = h /\ c.precommitWeight = WeightIn(q, h, pc2[h])
      BY <3>2, <2>2 DEF h
    <3> QED
      BY <3>1, <3>3
  <2>5. b.height - GenesisHeight = (n + 1) - i + 1
    <3>1. b.height = GenesisHeight + (n + 1) - i + 1
      BY <1>1, <1>8 DEF WindowOK
    <3>2. i \in Int
      OBVIOUS
    <3> HIDE DEF b, len
    <3> QED
      BY <3>1, <3>2, <1>2
  <2>6. c.generatorAddress = gs[(n + 1) - i + 1].generatorAddress
        /\ c.maxHeightGenerated = gs[(n + 1) - i + 1].maxHeightGenerated
    BY <2>1, <2>2, <2>5 DEF BlockInserted
  <2>7. ASSUME c.precommitWeight > 0
        PROVE  \/ c.height <= v.maxHeightPrevoted
               \/ c.prevoteWeight >= getBFTParameters(q, c.height).prevoteThreshold
    <3>1. CASE P
      <4>1. b.prevoteWeight >= getBFTParameters(q, b.height).prevoteThreshold
        BY <3>1, PrecommitsImplied
      <4>2. c.prevoteWeight >= b.prevoteWeight /\ c.prevoteWeight \in Int
        <5>1. r.blockBFTInfos \in Seq(Info) /\ i \in 1 .. Len(r.blockBFTInfos)
          BY <1>5, <1>6, <1>8 DEF WindowOK
        <5>2. c \in Info
          BY <5>1
        <5>3. c.prevoteWeight \in Int
          BY <5>2 DEF Info
        <5> QED
          BY <5>1, <5>3, <1>5
      <4>3. getBFTParameters(q, b.height).prevoteThreshold \in Int
        BY <1>3, <1>8, ParametersAreTyped
      <4> HIDE DEF b, c
      <4> QED
        BY <4>1, <4>2, <4>3, <2>1, <2>2
    <3>2. CASE ~P
      <4>1. c.precommitWeight = b.precommitWeight
        BY <3>2, <2>1, <2>2
      <4> QED
        BY <4>1, <2>1, <2>2, <2>7 DEF BlockInserted
    <3> QED
      BY <3>1, <3>2
  <2> HIDE DEF c, b
  <2>8. WeightsOK(c, q, pc2, gs, n + 1)
    BY <2>3, <2>4 DEF WeightsOK
  <2> QED
    BY <2>6, <2>7, <2>8 DEF c
<1> QED
  BY <1>5, <1>6, <1>8

\* The largest precommits are recorded.
LEMMA PrecommitsRecorded ==
    ASSUME NEW n, NEW v, NEW q, NEW pc, NEW hs, NEW header, NEW gs, NEW w,
           Counting(n, v, q, pc, hs, header, gs, w),
           NEW r, r = updatePrevotesPrecommits(w, q),
           NEW pc2, pc2 = PrecommitsWith(pc, w, q, GenesisHeight + n + 1)
    PROVE  /\ DOMAIN r.activeValidatorsVoteInfo = DOMAIN v.activeValidatorsVoteInfo
           /\ \A x \in DOMAIN v.activeValidatorsVoteInfo :
                 /\ r.activeValidatorsVoteInfo[x] \in ActiveInfo
                 /\ r.activeValidatorsVoteInfo[x].minActiveHeight
                       = v.activeValidatorsVoteInfo[x].minActiveHeight
           /\ PrecommitsOK(r, pc2, n + 1)
<1> DEFINE g      == header.generatorAddress
           K      == GenesisHeight + n + 1
           infos  == w.blockBFTInfos
           len    == Len(infos)
           P      == PrecommittedBy(w, q)
           was    == v.activeValidatorsVoteInfo
           now    == r.activeValidatorsVoteInfo
           Heights == {infos[i].height : i \in TipPrecommits(w, q)}
<1>1. /\ n \in Nat /\ GenesisHeight \in Nat /\ K \in Nat
  BY ConstantsAssumption DEF Counting
<1>2. /\ WindowOK(w, n + 1) /\ w.activeValidatorsVoteInfo = was
      /\ \A i \in 1 .. len : BlockInserted(infos[i], v, q, pc, hs, gs, n)
  BY HeaderInserted DEF Counting
<1>3. /\ Tip(w).generatorAddress = g /\ g \in DOMAIN was /\ was[g] \in ActiveInfo
  BY <1>2, VotesImplied
<1>4. \A x \in DOMAIN was : was[x] \in ActiveInfo
  BY DEF Counting, CountsOK, ActiveOK, ActiveInfo
<1>5. /\ DOMAIN pc = (GenesisHeight + 1) .. (GenesisHeight + n)
      /\ \A h \in DOMAIN pc : \A x \in pc[h] \cap DOMAIN was :
            h <= was[x].largestHeightPrecommit
  BY DEF Counting, CountsOK, PrecommitsOK
<1>6. /\ DOMAIN pc2 = (GenesisHeight + 1) .. K
      /\ \A h \in (GenesisHeight + 1) .. K :
            pc2[h] = PrecommitsIn(pc, h) \cup (IF h \in Heights THEN {g} ELSE {})
  <2>1. DOMAIN pc \cup {K} = (GenesisHeight + 1) .. K
    BY <1>1, <1>5
  <2> QED
    BY <2>1, <1>3 DEF PrecommitsWith
<1>7. /\ DOMAIN now = DOMAIN was
      /\ \A x \in DOMAIN was : /\ now[x] \in ActiveInfo
                               /\ now[x].minActiveHeight = was[x].minActiveHeight
                               /\ now[x].largestHeightPrecommit >= was[x].largestHeightPrecommit
      /\ \A h \in Heights : h <= now[g].largestHeightPrecommit
  <2>1. CASE ~ImpliesVotes(w)
    <3>1. now = was /\ Heights = {}
      BY <2>1, <1>2 DEF updatePrevotesPrecommits, TipPrecommits
    <3> QED
      BY <3>1, <1>4, SMTT(60) DEF ActiveInfo
  <2>2. CASE ImpliesVotes(w)
    <3>1. /\ DOMAIN now = DOMAIN was
          /\ \A x \in DOMAIN was : x # g => now[x] = was[x]
          /\ \E z : now[g] = [was[g] EXCEPT !.largestHeightPrecommit = z]
          /\ now[g].minActiveHeight = was[g].minActiveHeight
          /\ now[g].largestHeightPrecommit = IF P = {} THEN was[g].largestHeightPrecommit
                                             ELSE infos[Min(P)].height
      <4>1. n + 1 \in Nat
        BY <1>1
      <4>2. WindowOK(w, n + 1) /\ w.activeValidatorsVoteInfo[g] \in ActiveInfo
            /\ g = Tip(w).generatorAddress
        BY <1>2, <1>3
      <4>3. w.activeValidatorsVoteInfo = was
        BY <1>2
      <4> HIDE DEF g, was, now
      <4>4. ActiveCounted(w, r, q, g)
        BY <2>2, <4>1, <4>2, VotesAdded
      <4> QED
        BY <4>3, <4>4 DEF ActiveCounted, now
    <3>2. was[g].minActiveHeight \in Nat /\ was[g].largestHeightPrecommit \in Nat
      BY <1>3 DEF ActiveInfo
    <3>3. \A i \in P : /\ i \in 1 .. len /\ infos[i].height > was[g].largestHeightPrecommit
      BY <2>2, <1>2, PrecommitsImplied
    <3>4. \A i \in 1 .. len : infos[i].height = K - i + 1 /\ infos[i].height \in Nat
      <4>1. \A i \in 1 .. len : infos[i].height = GenesisHeight + (n + 1) - i + 1
                                /\ BlockInserted(infos[i], v, q, pc, hs, gs, n)
        BY <1>2 DEF WindowOK
      <4>2. \A i \in 1 .. len : GenesisHeight + (n + 1) - i + 1 = K - i + 1
        BY <1>1
      <4>3. \A i \in 1 .. len : infos[i].height \in Nat
        BY <4>1 DEF BlockInserted, Info
      <4> QED
        BY <4>1, <4>2, <4>3
    <3>5. Heights = {infos[i].height : i \in P}
      BY <2>2 DEF TipPrecommits
    <3>6. /\ now[g].largestHeightPrecommit \in Nat
          /\ now[g].largestHeightPrecommit >= was[g].largestHeightPrecommit
          /\ \A h \in Heights : h <= now[g].largestHeightPrecommit
      <4>1. CASE P = {}
        BY <4>1, <3>1, <3>2, <3>5, SMTT(60)
      <4>2. CASE P # {}
        <5>1. Min(P) \in P /\ \A i \in P : Min(P) <= i
          <6>1. P \in SUBSET Nat
            BY <3>3
          <6> HIDE DEF P
          <6> QED
            BY <6>1, <4>2, MinOfNaturals
        <5> DEFINE j == Min(P)
        <5>2. j \in 1 .. len /\ infos[j].height > was[g].largestHeightPrecommit
              /\ infos[j].height = K - j + 1 /\ infos[j].height \in Nat
          BY <5>1, <3>3, <3>4
        <5>3. \A i \in P : infos[i].height <= infos[j].height
          <6> TAKE i \in P
          <6>1. infos[i].height = K - i + 1 /\ i \in Int /\ j \in Int /\ j <= i
            BY <5>1, <5>2, <3>3, <3>4
          <6>2. infos[j].height = K - j + 1
            BY <5>2
          <6> HIDE DEF j, infos, P, K
          <6> QED
            BY <6>1, <6>2, <1>1
        <5>4. now[g].largestHeightPrecommit = infos[j].height
          BY <4>2, <3>1
        <5>5. \A h \in Heights : h <= infos[j].height
          BY <5>3, <3>5
        <5> HIDE DEF j, infos, Heights
        <5> QED
          BY <5>2, <5>4, <5>5, <3>2
      <4> QED
        BY <4>1, <4>2
    <3>7. \A x \in DOMAIN was : was[x].largestHeightPrecommit \in Nat
      BY <1>4 DEF ActiveInfo
    <3>8. now[g] \in ActiveInfo
      <4>1. PICK z : now[g] = [was[g] EXCEPT !.largestHeightPrecommit = z]
        BY <3>1
      <4>2. z \in Nat
        <5>1. now[g].largestHeightPrecommit = z
          BY <4>1, <1>3 DEF ActiveInfo
        <5> QED
          BY <5>1, <3>6
      <4> QED
        BY <4>1, <4>2, <1>3 DEF ActiveInfo
    <3>9. \A x \in DOMAIN was : /\ now[x] \in ActiveInfo
                               /\ now[x].minActiveHeight = was[x].minActiveHeight
                               /\ now[x].largestHeightPrecommit >= was[x].largestHeightPrecommit
      <4> TAKE x \in DOMAIN was
      <4>1. CASE x = g
        BY <4>1, <3>1, <3>6, <3>8
      <4>2. CASE x # g
        <5> HIDE DEF was, now
        <5> QED
          BY <4>2, <3>1, <3>7, <1>4
      <4> QED
        BY <4>1, <4>2
    <3> QED
      BY <3>1, <3>6, <3>9
  <2> QED
    BY <2>1, <2>2
<1>8. ASSUME NEW h \in (GenesisHeight + 1) .. K, NEW x \in pc2[h] \cap DOMAIN now
      PROVE  h <= now[x].largestHeightPrecommit
  <2> HIDE DEF Heights, now, was
  <2>1. x \in DOMAIN was /\ h \in Nat
    BY <1>1, <1>7
  <2>2. CASE x \in PrecommitsIn(pc, h)
    <3>1. h \in DOMAIN pc /\ x \in pc[h]
      BY <2>2 DEF PrecommitsIn
    <3>2. h <= was[x].largestHeightPrecommit
      BY <3>1, <2>1, <1>5
    <3>3. was[x].largestHeightPrecommit \in Nat /\ now[x].largestHeightPrecommit \in Nat
          /\ now[x].largestHeightPrecommit >= was[x].largestHeightPrecommit
      BY <2>1, <1>4, <1>7 DEF ActiveInfo
    <3> QED
      BY <3>2, <3>3, <2>1
  <2>3. CASE x \notin PrecommitsIn(pc, h)
    <3>1. h \in Heights /\ x = g
      BY <2>3, <1>6
    <3> QED
      BY <3>1, <1>7
  <2> QED
    BY <2>2, <2>3
<1>9. PrecommitsOK(r, pc2, n + 1)
  <2>1. (GenesisHeight + 1) .. (GenesisHeight + (n + 1)) = (GenesisHeight + 1) .. K
    BY <1>1
  <2> HIDE DEF K
  <2> QED
    BY <2>1, <1>6, <1>8 DEF PrecommitsOK
<1> QED
  BY <1>7, <1>9

\* No parameters are set beyond the last key.
LEMMA LastKeyFound ==
    ASSUME NEW q, NEW K \in Nat, DOMAIN q \subseteq 0 .. K
    PROVE  getBFTParameters(q, K + 1) = getBFTParameters(q, K)
<1>1. {k \in DOMAIN q : k <= K + 1} = {k \in DOMAIN q : k <= K}
  OBVIOUS
<1> QED
  BY <1>1, Zenon DEF getBFTParameters

\* After a block, those that were validators still are.
LEMMA ActiveStill ==
    ASSUME NEW n \in Nat, NEW v, NEW q, ActiveOK(v, q, n),
           DOMAIN q \subseteq (GenesisHeight + 1) .. (GenesisHeight + n + 1), NEW r,
           DOMAIN r.activeValidatorsVoteInfo = DOMAIN v.activeValidatorsVoteInfo,
           \A x \in DOMAIN v.activeValidatorsVoteInfo :
              /\ r.activeValidatorsVoteInfo[x] \in ActiveInfo
              /\ r.activeValidatorsVoteInfo[x].minActiveHeight
                    = v.activeValidatorsVoteInfo[x].minActiveHeight
    PROVE  ActiveOK(r, q, n + 1)
<1> DEFINE K == GenesisHeight + n + 1
           was == v.activeValidatorsVoteInfo
           now == r.activeValidatorsVoteInfo
<1>1. GenesisHeight \in Nat /\ K \in Nat /\ GenesisHeight + (n + 1) + 1 = K + 1
      /\ K \in (GenesisHeight + 1) .. K /\ K .. K = {K} /\ (K + 1) .. (K + 1) = {K + 1}
  BY ConstantsAssumption
<1>2. ValidatorsIn(q, K + 1) = ValidatorsIn(q, K)
  <2>1. DOMAIN q \subseteq 0 .. K
    BY <1>1
  <2> HIDE DEF K
  <2>2. getBFTParameters(q, K + 1) = getBFTParameters(q, K)
    BY <1>1, <2>1, LastKeyFound
  <2> QED
    BY <2>2 DEF ValidatorsIn
<1>3. /\ DOMAIN was = ValidatorsIn(q, K)
      /\ \A x \in DOMAIN was : \A h \in (GenesisHeight + 1) .. K :
            h >= was[x].minActiveHeight <=> AlwaysIn(q, x, h, K)
  BY DEF ActiveOK, AlwaysIn
<1> HIDE DEF K, was, now
<1>4. ASSUME NEW x \in DOMAIN now, NEW h \in (GenesisHeight + 1) .. (K + 1)
      PROVE  h >= now[x].minActiveHeight <=> AlwaysIn(q, x, h, K + 1)
  <2>1. x \in DOMAIN was /\ x \in ValidatorsIn(q, K + 1) /\ x \in ValidatorsIn(q, K)
        /\ now[x].minActiveHeight = was[x].minActiveHeight
        /\ now[x] \in ActiveInfo
    BY <1>2, <1>3 DEF was, now
  <2>2. CASE h \in (GenesisHeight + 1) .. K
    <3>1. AlwaysIn(q, x, h, K + 1) <=> AlwaysIn(q, x, h, K)
      <4>1. \A j : j \in h .. (K + 1) <=> j \in h .. K \/ j = K + 1
        BY <2>2, <1>1
      <4> QED
        BY <4>1, <2>1 DEF AlwaysIn
    <3> QED
      BY <3>1, <2>1, <2>2, <1>3
  <2>3. CASE h = K + 1
    <3>1. AlwaysIn(q, x, K, K) /\ AlwaysIn(q, x, K + 1, K + 1)
      BY <2>1, <1>1 DEF AlwaysIn
    <3>2. K >= was[x].minActiveHeight
      BY <3>1, <2>1, <1>1, <1>3
    <3>3. was[x].minActiveHeight \in Nat
      BY <2>1 DEF ActiveInfo
    <3> QED
      BY <3>1, <3>2, <3>3, <2>1, <2>3, <1>1
  <2> QED
    BY <2>2, <2>3, <1>1
<1>5. DOMAIN now = ValidatorsIn(q, K + 1) /\ \A x \in DOMAIN now : now[x] \in ActiveInfo
  BY <1>2, <1>3 DEF was, now
<1> QED
  BY <1>1, <1>4, <1>5 DEF ActiveOK, AlwaysIn, ActiveInfo, now

\* The newest block of a quorum is no older than any other of it.
LEMMA QuorumHeight ==
    ASSUME NEW m \in Nat, NEW r, WindowOK(r, m),
           NEW Q \in SUBSET (1 .. Len(r.blockBFTInfos)), NEW i \in Q
    PROVE  /\ Min(Q) \in Q /\ r.blockBFTInfos[i].height <= r.blockBFTInfos[Min(Q)].height
<1>1. GenesisHeight \in Nat /\ \A j \in Q : j \in Nat
  BY ConstantsAssumption, WindowSizes DEF WindowOK
<1>2. Min(Q) \in Q /\ \A j \in Q : Min(Q) <= j
  BY <1>1, MinOfNaturals
<1> DEFINE k == Min(Q)
<1>3. k \in Nat /\ i \in Nat /\ k <= i
  BY <1>1, <1>2
<1>4. /\ r.blockBFTInfos[i].height = GenesisHeight + m - i + 1
      /\ r.blockBFTInfos[k].height = GenesisHeight + m - k + 1
  BY <1>2 DEF WindowOK
<1> HIDE DEF k
<1>5. r.blockBFTInfos[i].height <= r.blockBFTInfos[k].height
  BY <1>1, <1>3, <1>4
<1> QED
  BY <1>2, <1>5 DEF k

\* The votes that a verified block leaves count every vote once.
LEMMA CountsNext ==
    ASSUME NEW n, NEW v, NEW q, NEW pc, NEW hs, NEW header, NEW gs, NEW w,
           Counting(n, v, q, pc, hs, header, gs, w), VotesOK(v, q, n),
           DOMAIN q \subseteq (GenesisHeight + 1) .. (GenesisHeight + n + 1),
           NEW a, a = VotesAfter(v, q, header, WindowLength), VotesOK(a, q, n + 1),
           a.maxHeightPrevoted >= v.maxHeightPrevoted,
           a.maxHeightPrecommitted >= v.maxHeightPrecommitted,
           a.maxHeightCertified <= v.maxHeightPrecommitted
    PROVE  CountsOK(a, q, PrecommitsWith(pc, w, q, GenesisHeight + n + 1), gs, n + 1)
<1> DEFINE r   == updatePrevotesPrecommits(w, q)
           v3  == updateMaxHeightPrevoted(r, q)
           v4  == updateMaxHeightPrecommitted(v3, q)
           pc2 == PrecommitsWith(pc, w, q, GenesisHeight + n + 1)
           infos == r.blockBFTInfos
           Qv  == {i \in DOMAIN infos : infos[i].prevoteWeight >=
                        getBFTParameters(q, infos[i].height).prevoteThreshold}
           Qc  == {i \in DOMAIN infos : infos[i].precommitWeight >=
                        getBFTParameters(q, infos[i].height).precommitThreshold}
<1>1. /\ n \in Nat /\ GenesisHeight \in Nat /\ n + 1 \in Nat
      /\ w = insertBlockBFTInfo(v, header, WindowLength)
  BY ConstantsAssumption DEF Counting
<1>2. /\ WindowOK(r, n + 1)
      /\ \A i \in 1 .. Len(infos) :
            /\ WeightsOK(infos[i], q, pc2, gs, n + 1)
            /\ infos[i].generatorAddress = gs[(n + 1) - i + 1].generatorAddress
            /\ infos[i].maxHeightGenerated = gs[(n + 1) - i + 1].maxHeightGenerated
            /\ infos[i].precommitWeight > 0 =>
                  \/ infos[i].height <= v.maxHeightPrevoted
                  \/ infos[i].prevoteWeight >= getBFTParameters(q, infos[i].height).prevoteThreshold
  <2> HIDE DEF pc2, r
  <2> QED
    BY BlocksCounted DEF pc2, r
<1>3. /\ DOMAIN r.activeValidatorsVoteInfo = DOMAIN v.activeValidatorsVoteInfo
      /\ \A x \in DOMAIN v.activeValidatorsVoteInfo :
            /\ r.activeValidatorsVoteInfo[x] \in ActiveInfo
            /\ r.activeValidatorsVoteInfo[x].minActiveHeight
                  = v.activeValidatorsVoteInfo[x].minActiveHeight
      /\ PrecommitsOK(r, pc2, n + 1)
  BY PrecommitsRecorded
<1>4. a = updateMaxHeightCertified(v4, header)
  BY <1>1 DEF VotesAfter
<1>5. DOMAIN r = VotesFields /\ DOMAIN infos = 1 .. Len(infos)
      /\ \A i \in 1 .. Len(infos) : infos[i] \in Info
  BY <1>2 DEF WindowOK
<1> HIDE DEF r, pc2
<1>6. /\ DOMAIN v3 = VotesFields
      /\ v3.maxHeightPrevoted = (IF Qv = {} THEN r.maxHeightPrevoted ELSE infos[Min(Qv)].height)
      /\ v3.blockBFTInfos = infos
      /\ v3.activeValidatorsVoteInfo = r.activeValidatorsVoteInfo
      /\ v3.maxHeightPrecommitted = r.maxHeightPrecommitted
  BY <1>5, SMTT(60) DEF updateMaxHeightPrevoted, VotesFields
<1> HIDE DEF v3
<1>7. /\ DOMAIN v4 = VotesFields
      /\ v4.maxHeightPrecommitted =
            (IF Qc = {} THEN r.maxHeightPrecommitted ELSE infos[Min(Qc)].height)
      /\ v4.blockBFTInfos = infos
      /\ v4.activeValidatorsVoteInfo = r.activeValidatorsVoteInfo
      /\ v4.maxHeightPrevoted = v3.maxHeightPrevoted
  BY <1>6, ZenonT(60) DEF updateMaxHeightPrecommitted, VotesFields
<1> HIDE DEF v4
<1>8. /\ a.blockBFTInfos = infos
      /\ a.activeValidatorsVoteInfo = r.activeValidatorsVoteInfo
      /\ a.maxHeightPrevoted = v3.maxHeightPrevoted
      /\ a.maxHeightPrecommitted = v4.maxHeightPrecommitted
  BY <1>4, <1>7 DEF updateMaxHeightCertified, VotesFields
<1>9. r.maxHeightPrecommitted = v.maxHeightPrecommitted
  <2>1. WindowOK(v, n) /\ header \in Header /\ header.height = GenesisHeight + n + 1
    BY DEF Counting
  <2>2. WindowOK(w, n + 1) /\ \A f \in VotesFields \ {"blockBFTInfos"} : w[f] = v[f]
    BY <1>1, <2>1, Inserted
  <2>3. r.maxHeightPrecommitted = w.maxHeightPrecommitted
    <3>1. DOMAIN w = VotesFields
      BY <2>2 DEF WindowOK
    <3> QED
      BY <3>1 DEF updatePrevotesPrecommits, VotesFields, r
  <2> QED
    BY <2>2, <2>3 DEF VotesFields
<1>10. /\ a.maxHeightPrevoted \in Int /\ a.maxHeightPrecommitted \in Int
       /\ a.maxHeightCertified \in Int /\ v.maxHeightPrevoted \in Int
       /\ v.maxHeightPrecommitted \in Int
  BY <1>1 DEF VotesOK
<1>11. ASSUME NEW i \in 1 .. Len(infos), infos[i].precommitWeight > 0
       PROVE  infos[i].height <= a.maxHeightPrevoted
  <2>1. infos[i].height \in Int
    BY <1>5, <1>11 DEF Info
  <2>2. CASE infos[i].height <= v.maxHeightPrevoted
    BY <2>1, <2>2, <1>10
  <2>3. CASE infos[i].prevoteWeight >= getBFTParameters(q, infos[i].height).prevoteThreshold
    <3>1. i \in Qv /\ Qv \in SUBSET (1 .. Len(infos))
      BY <2>3, <1>5, <1>11, SMTT(60)
    <3>2. a.maxHeightPrevoted = infos[Min(Qv)].height
      BY <3>1, <1>6, <1>8
    <3> HIDE DEF Qv
    <3>3. infos[i].height <= infos[Min(Qv)].height
      BY <3>1, <1>1, <1>2, QuorumHeight, SMTT(60)
    <3> QED
      BY <3>2, <3>3
  <2> QED
    BY <2>2, <2>3, <1>2, <1>11
<1>12. a.maxHeightPrecommitted <= a.maxHeightPrevoted
  <2>1. CASE Qc = {}
    <3>1. a.maxHeightPrecommitted = v.maxHeightPrecommitted
      BY <2>1, <1>7, <1>8, <1>9
    <3>2. v.maxHeightPrecommitted <= v.maxHeightPrevoted
      BY DEF Counting, CountsOK, ShownOK
    <3> QED
      BY <3>1, <3>2, <1>10
  <2>2. CASE Qc # {}
    <3>1. Qc \in SUBSET (1 .. Len(infos))
      BY <1>5
    <3>2. PICK j : j \in Qc
      BY <2>2
    <3>3. Min(Qc) \in Qc
      <4> HIDE DEF Qc
      <4> QED
        BY <3>1, <3>2, <1>1, <1>2, QuorumHeight, SMTT(60)
    <3> DEFINE k == Min(Qc)
    <3>4. k \in 1 .. Len(infos)
          /\ infos[k].precommitWeight >= getBFTParameters(q, infos[k].height).precommitThreshold
      BY <3>1, <3>3
    <3> HIDE DEF k, Qc, Qv
    <3>5. infos[k].height \in (GenesisHeight + 1) .. (GenesisHeight + n + 1)
      <4>1. infos[k].height = GenesisHeight + (n + 1) - k + 1 /\ Len(infos) = WindowSize(n + 1)
        BY <3>4, <1>2 DEF WindowOK
      <4>2. WindowSize(n + 1) \in 0 .. (n + 1)
        BY <1>1, WindowSizes
      <4>3. k \in Int /\ 1 <= k /\ k <= n + 1
        <5>1. k \in 1 .. WindowSize(n + 1)
          BY <3>4, <4>1
        <5> QED
          BY <5>1, <4>2, <1>1
      <4> HIDE DEF k, infos
      <4>4. \A z \in Int : 1 <= z /\ z <= n + 1 =>
               GenesisHeight + (n + 1) - z + 1 \in (GenesisHeight + 1) .. (GenesisHeight + n + 1)
        BY <1>1
      <4> QED
        BY <4>1, <4>3, <4>4
    <3>6. getBFTParameters(q, infos[k].height) \in ParametersType
      BY <3>5 DEF Counting
    <3>7. infos[k].precommitWeight \in Int
          /\ getBFTParameters(q, infos[k].height).precommitThreshold \in Int
          /\ getBFTParameters(q, infos[k].height).precommitThreshold > 0
      <4>1. infos[k].precommitWeight \in Int
        BY <3>4, <1>5 DEF Info
      <4> DEFINE p == getBFTParameters(q, infos[k].height)
      <4>2. p \in ParametersType
        BY <3>6
      <4> HIDE DEF p
      <4>3. p.precommitThreshold \in Int
        BY <4>2, ParametersAreTyped
      <4>5. p.precommitThreshold > 0
        BY <4>2, ValidatorsAreFinite
      <4> QED
        BY <4>1, <4>3, <4>5 DEF p
    <3>8. infos[k].precommitWeight > 0
      <4> HIDE DEF k, infos
      <4> QED
        BY <3>4, <3>7
    <3>9. infos[k].height <= a.maxHeightPrevoted
      BY <3>4, <3>8, <1>11
    <3> QED
      BY <3>9, <2>2, <1>7, <1>8 DEF k
  <2> QED
    BY <2>1, <2>2
<1>13. \A k \in 1 .. (n + 1) : gs[k].height = GenesisHeight + k
  <2>1. \A k \in 1 .. n : gs[k].height = GenesisHeight + k
    BY DEF Counting, CountsOK, ShownOK
  <2>2. gs[n + 1].height = GenesisHeight + (n + 1)
    BY <1>1 DEF Counting
  <2>3. \A k \in 1 .. (n + 1) : k \in 1 .. n \/ k = n + 1
    BY <1>1
  <2> QED
    BY <2>1, <2>2, <2>3
<1>14. ShownOK(a, gs, n + 1)
  <2>1. a.maxHeightCertified <= a.maxHeightPrecommitted
    BY <1>10
  <2> HIDE DEF infos
  <2> QED
    BY <2>1, <1>2, <1>8, <1>11, <1>12, <1>13 DEF ShownOK
<1>15. ActiveOK(a, q, n + 1)
  <2>1. ActiveOK(v, q, n)
    BY DEF Counting, CountsOK
  <2>2. ActiveOK(r, q, n + 1)
    BY <2>1, <1>1, <1>3, ActiveStill
  <2> QED
    BY <2>2, <1>8 DEF ActiveOK
<1>16. PrecommitsOK(a, pc2, n + 1)
  BY <1>3, <1>8 DEF PrecommitsOK
<1> QED
  BY <1>2, <1>8, <1>14, <1>15, <1>16 DEF CountsOK, pc2

\* New parameters, from a height beyond the chain on.
LEMMA NextParametersRead ==
    ASSUME NEW q, NEW first \in Nat, NEW N \in Nat, first < N, DOMAIN q \subseteq first .. (N - 1),
           \A h \in Nat : h >= first => ParametersExist(q, h), NEW r
    PROVE  /\ \A h \in first .. (N - 1) :
                 getBFTParameters(WithKey(q, N, r), h) = getBFTParameters(q, h)
           /\ getBFTParameters(WithKey(q, N, r), N) = r
<1> DEFINE q2 == WithKey(q, N, r)
<1>1. DOMAIN q \subseteq Nat
  OBVIOUS
<1>2. ASSUME NEW h \in first .. (N - 1)
      PROVE  getBFTParameters(q2, h) = getBFTParameters(q, h)
  <2>1. h \in Nat /\ h < N /\ h >= first
    OBVIOUS
  <2>2. ParametersExist(q, h)
    BY <2>1
  <2> QED
    BY <1>1, <2>1, <2>2, LaterKeyUnread
<1>3. DOMAIN q2 \subseteq Nat /\ N \in DOMAIN q2 /\ q2[N] = r /\ N <= N
      /\ \A j \in DOMAIN q2 : j <= N => j <= N
  BY <1>1 DEF WithKey
<1> HIDE DEF q2
<1>4. getBFTParameters(q2, N) = q2[N]
  BY <1>3, LookedUpIs
<1> QED
  BY <1>2, <1>3, <1>4 DEF q2

\* The active validators of w are those of S, with what v knows of them; the
\* others are active from the height N on.
ActiveFrom(w, v, S, N) ==
    /\ DOMAIN w.activeValidatorsVoteInfo = S
    /\ \A x \in S : w.activeValidatorsVoteInfo[x] =
          IF x \in DOMAIN v.activeValidatorsVoteInfo THEN v.activeValidatorsVoteInfo[x]
          ELSE [minActiveHeight |-> N, largestHeightPrecommit |-> N - 1]

\* The active validators after setBFTParameters.
LEMMA ActiveSet ==
    ASSUME NEW v, "activeValidatorsVoteInfo" \in DOMAIN v, NEW N, NextHeight(v) = N, NEW p, NEW u,
           NEW w, w = setBFTParameters(v, p, u.precommitThreshold, u.certificateThreshold,
                                       u.validators).votes
    PROVE  ActiveFrom(w, v, Addresses(u.validators), N)
<1> DEFINE active == v.activeValidatorsVoteInfo
           Entry(a) == IF a \in DOMAIN active THEN active[a]
                       ELSE [minActiveHeight |-> N, largestHeightPrecommit |-> N - 1]
           new == [a \in Addresses(u.validators) |-> Entry(a)]
<1>1. w = [v EXCEPT !.activeValidatorsVoteInfo = new]
  BY DEF setBFTParameters
<1>2. DOMAIN new = Addresses(u.validators)
      /\ \A x \in Addresses(u.validators) : new[x] = Entry(x)
  <2> HIDE DEF Entry
  <2> QED
    OBVIOUS
<1> HIDE DEF new
<1>3. w.activeValidatorsVoteInfo = new
  BY <1>1
<1> QED
  BY <1>2, <1>3 DEF ActiveFrom

\* New validators have not voted yet, and those that stay keep their votes.
LEMMA CountsUpdated ==
    ASSUME NEW m \in Nat, m >= 1, NEW v, NEW q, NEW pc, NEW gs, WindowOK(v, m),
           CountsOK(v, q, pc, gs, m),
           DOMAIN q \subseteq (GenesisHeight + 1) .. (GenesisHeight + m),
           \A h \in Nat : h > GenesisHeight => ParametersExist(q, h), NEW p, NEW u,
           NEW w, w = setBFTParameters(v, p, u.precommitThreshold, u.certificateThreshold,
                                       u.validators).votes,
           NEW q2, q2 = WithKey(q, GenesisHeight + m + 1, ParametersOf(u))
    PROVE  CountsOK(w, q2, pc, gs, m)
<1> DEFINE N    == GenesisHeight + m + 1
           T    == GenesisHeight + m
           was  == v.activeValidatorsVoteInfo
           now  == w.activeValidatorsVoteInfo
           G1   == GenesisHeight + 1
<1>1. /\ GenesisHeight \in Nat /\ N \in Nat /\ T \in Nat /\ N = T + 1 /\ G1 \in Nat /\ G1 <= T
      /\ N - 1 = T
  BY ConstantsAssumption
<1>2. NextHeight(v) = N /\ DOMAIN v = VotesFields
  <2>1. Len(v.blockBFTInfos) >= 1 /\ v.blockBFTInfos \in Seq(Info)
        /\ v.blockBFTInfos[1].height = GenesisHeight + m - 1 + 1 /\ DOMAIN v = VotesFields
    BY WindowSizes DEF WindowOK
  <2>2. v.blockBFTInfos # << >>
    BY <2>1
  <2> QED
    BY <2>1, <2>2, ConstantsAssumption DEF NextHeight, Tip
<1>3. /\ DOMAIN now = Addresses(u.validators)
      /\ \A x \in Addresses(u.validators) :
            now[x] = IF x \in DOMAIN was THEN was[x]
                     ELSE [minActiveHeight |-> N, largestHeightPrecommit |-> N - 1]
  <2>1. "activeValidatorsVoteInfo" \in DOMAIN v
    BY <1>2 DEF VotesFields
  <2>2. NextHeight(v) = N
    BY <1>2
  <2> HIDE DEF N
  <2>3. ActiveFrom(w, v, Addresses(u.validators), N)
    BY <2>1, <2>2, ActiveSet
  <2> QED
    BY <2>3 DEF ActiveFrom
<1>4. \A f \in VotesFields \ {"activeValidatorsVoteInfo"} : w[f] = v[f]
  <2> DEFINE active == v.activeValidatorsVoteInfo
             new == [a \in Addresses(u.validators) |->
                        IF a \in DOMAIN active THEN active[a]
                        ELSE [minActiveHeight |-> NextHeight(v),
                              largestHeightPrecommit |-> NextHeight(v) - 1]]
  <2>1. w = [v EXCEPT !.activeValidatorsVoteInfo = new]
    BY DEF setBFTParameters
  <2> HIDE DEF new
  <2> QED
    BY <2>1, <1>2
<1>5. /\ \A h \in G1 .. T : getBFTParameters(q2, h) = getBFTParameters(q, h)
      /\ getBFTParameters(q2, N) = ParametersOf(u)
  <2>1. DOMAIN q \subseteq G1 .. (N - 1) /\ G1 < N
    BY <1>1
  <2>2. \A h \in Nat : h >= G1 => ParametersExist(q, h)
    BY <1>1
  <2> HIDE DEF G1, N, T
  <2>3. /\ \A h \in G1 .. (N - 1) :
              getBFTParameters(WithKey(q, N, ParametersOf(u)), h) = getBFTParameters(q, h)
        /\ getBFTParameters(WithKey(q, N, ParametersOf(u)), N) = ParametersOf(u)
    BY <2>1, <2>2, <1>1, NextParametersRead
  <2> QED
    BY <2>3, <1>1 DEF N
<1>6. /\ \A h \in G1 .. T : ValidatorsIn(q2, h) = ValidatorsIn(q, h)
      /\ ValidatorsIn(q2, N) = Addresses(u.validators)
      /\ ValidatorsIn(q, N) = ValidatorsIn(q, T)
  <2>1. getBFTParameters(q, T + 1) = getBFTParameters(q, T)
    <3>1. DOMAIN q \subseteq 0 .. T
      BY <1>1
    <3> HIDE DEF T
    <3> QED
      BY <3>1, <1>1, LastKeyFound
  <2>2. \A h \in G1 .. T : ValidatorsIn(q2, h) = ValidatorsIn(q, h)
    BY <1>5 DEF ValidatorsIn
  <2>3. ValidatorsIn(q2, N) = Addresses(u.validators)
    BY <1>5 DEF ValidatorsIn, ParametersOf
  <2>4. ValidatorsIn(q, N) = ValidatorsIn(q, T)
    <3> HIDE DEF N, T
    <3> QED
      BY <2>1, <1>1 DEF ValidatorsIn
  <2> QED
    BY <2>2, <2>3, <2>4
<1>7. /\ DOMAIN was = ValidatorsIn(q, N)
      /\ \A x \in DOMAIN was :
            /\ was[x] \in ActiveInfo
            /\ \A h \in G1 .. N : h >= was[x].minActiveHeight <=> AlwaysIn(q, x, h, N)
  BY DEF CountsOK, ActiveOK, AlwaysIn, ActiveInfo
<1>8. /\ DOMAIN pc = G1 .. T
      /\ \A h \in DOMAIN pc : \A x \in pc[h] \cap DOMAIN was :
            h <= was[x].largestHeightPrecommit
  BY DEF CountsOK, PrecommitsOK
<1>9. ShownOK(v, gs, m) /\ \A i \in 1 .. Len(v.blockBFTInfos) :
            WeightsOK(v.blockBFTInfos[i], q, pc, gs, m)
  BY DEF CountsOK
<1>10. /\ w.blockBFTInfos = v.blockBFTInfos /\ w.maxHeightPrevoted = v.maxHeightPrevoted
       /\ w.maxHeightPrecommitted = v.maxHeightPrecommitted
       /\ w.maxHeightCertified = v.maxHeightCertified
  BY <1>4 DEF VotesFields
<1>11. ShownOK(w, gs, m)
  BY <1>9, <1>10 DEF ShownOK
<1>12. \A h \in G1 .. T : PrevotersOf(q2, gs, m, h) = PrevotersOf(q, gs, m, h)
  <2> TAKE h \in G1 .. T
  <2>1. \A k \in h .. T : \A j \in h .. k : j \in G1 .. T
    BY <1>1
  <2>2. \A x : \A k \in h .. T : PrevotesAt(q2, gs, x, h, k) <=> PrevotesAt(q, gs, x, h, k)
    <3> TAKE x
    <3> TAKE k \in h .. T
    <3>1. \A j \in h .. k : ValidatorsIn(q2, j) = ValidatorsIn(q, j)
      BY <2>1, <1>6
    <3> QED
      BY <3>1 DEF PrevotesAt
  <2>3. ValidatorsIn(q2, h) = ValidatorsIn(q, h)
    BY <1>6
  <2> QED
    BY <2>2, <2>3 DEF PrevotersOf
<1>13. ASSUME NEW i \in 1 .. Len(v.blockBFTInfos)
       PROVE  WeightsOK(v.blockBFTInfos[i], q2, pc, gs, m)
  <2> DEFINE b == v.blockBFTInfos[i]
  <2>1. WeightsOK(b, q, pc, gs, m)
    BY <1>9
  <2>2. b.height \in G1 .. T
    <3>1. b.height = GenesisHeight + m - i + 1 /\ Len(v.blockBFTInfos) \in 0 .. m
      BY WindowSizes DEF WindowOK
    <3>2. i \in Int /\ 1 <= i /\ i <= m
      <4>1. i \in 1 .. Len(v.blockBFTInfos) /\ Len(v.blockBFTInfos) \in 0 .. m
        BY <1>13, <3>1
      <4> QED
        BY <4>1
    <3> HIDE DEF b
    <3>3. GenesisHeight + m - i + 1 \in G1 .. T
      BY <3>2, <1>1
    <3> QED
      BY <3>1, <3>3
  <2> HIDE DEF b
  <2>3. PrevotersOf(q2, gs, m, b.height) = PrevotersOf(q, gs, m, b.height)
        /\ getBFTParameters(q2, b.height) = getBFTParameters(q, b.height)
    BY <2>2, <1>5, <1>12
  <2>4. \A S : WeightIn(q2, b.height, S) = WeightIn(q, b.height, S)
    BY <2>3 DEF WeightIn
  <2>5. WeightsOK(b, q2, pc, gs, m)
    BY <2>1, <2>3, <2>4 DEF WeightsOK
  <2> QED
    BY <2>5 DEF b
<1> HIDE DEF was, now
<1>14. ASSUME NEW x \in DOMAIN now
       PROVE  /\ now[x] \in ActiveInfo
              /\ \A h \in G1 .. N : h >= now[x].minActiveHeight <=> AlwaysIn(q2, x, h, N)
  <2>0. x \in ValidatorsIn(q2, N)
    BY <1>3, <1>6
  <2>1. N .. N = {N} /\ T \in G1 .. T /\ N \in G1 .. N
    BY <1>1
  <2>2. \A h \in G1 .. T : AlwaysIn(q2, x, h, N) <=> AlwaysIn(q, x, h, T)
    <3> TAKE h \in G1 .. T
    <3>1. \A j : j \in h .. N <=> j \in h .. T \/ j = N
      BY <1>1
    <3>2. \A j \in h .. T : ValidatorsIn(q2, j) = ValidatorsIn(q, j)
      <4>1. \A j \in h .. T : j \in G1 .. T
        BY <1>1
      <4> QED
        BY <4>1, <1>6
    <3> HIDE DEF N, T
    <3> QED
      BY <3>1, <3>2, <2>0 DEF AlwaysIn
  <2>3. AlwaysIn(q2, x, N, N)
    BY <2>0, <2>1 DEF AlwaysIn
  <2>4. \A h \in G1 .. N : h \in G1 .. T \/ h = N
    BY <1>1
  <2>5. CASE x \in DOMAIN was
    <3>1. now[x] = was[x] /\ was[x] \in ActiveInfo /\ x \in ValidatorsIn(q, N)
      BY <2>5, <1>3, <1>7
    <3>2. \A h \in G1 .. T : AlwaysIn(q, x, h, N) <=> AlwaysIn(q, x, h, T)
      <4> TAKE h \in G1 .. T
      <4>1. \A j : j \in h .. N <=> j \in h .. T \/ j = N
        BY <1>1
      <4> HIDE DEF N, T
      <4> QED
        BY <4>1, <3>1 DEF AlwaysIn
    <3>3. AlwaysIn(q, x, N, N)
      BY <3>1, <2>1 DEF AlwaysIn
    <3>4. N >= was[x].minActiveHeight
      BY <3>3, <2>1, <2>5, <1>7
    <3>5. ASSUME NEW h \in G1 .. N
          PROVE  h >= now[x].minActiveHeight <=> AlwaysIn(q2, x, h, N)
      <4>1. CASE h \in G1 .. T
        <5>1. h >= was[x].minActiveHeight <=> AlwaysIn(q, x, h, N)
          BY <3>5, <2>5, <1>7
        <5> HIDE DEF N, T, G1
        <5> QED
          BY <5>1, <4>1, <3>1, <3>2, <2>2
      <4>2. CASE h = N
        BY <4>2, <3>1, <3>4, <2>3
      <4> QED
        BY <4>1, <4>2, <3>5, <2>4
    <3> QED
      BY <3>1, <3>5
  <2>6. CASE x \notin DOMAIN was
    <3>1. now[x] = [minActiveHeight |-> N, largestHeightPrecommit |-> N - 1]
      BY <2>6, <1>3
    <3>2. now[x] \in ActiveInfo /\ now[x].minActiveHeight = N
      <4>1. N \in Nat /\ N - 1 \in Nat
        BY <1>1
      <4> HIDE DEF N
      <4> QED
        BY <3>1, <4>1 DEF ActiveInfo
    <3>3. ASSUME NEW h \in G1 .. N
          PROVE  h >= now[x].minActiveHeight <=> AlwaysIn(q2, x, h, N)
      <4>1. CASE h \in G1 .. T
        <5>1. ~(h >= N)
          BY <4>1, <1>1
        <5>2. T \in h .. T
          BY <4>1, <1>1
        <5>3. x \notin ValidatorsIn(q, T)
          BY <2>6, <1>6, <1>7
        <5>4. ~AlwaysIn(q, x, h, T)
          BY <5>2, <5>3 DEF AlwaysIn
        <5> HIDE DEF N, T, G1
        <5> QED
          BY <5>1, <5>4, <4>1, <3>2, <2>2
      <4>2. CASE h = N
        BY <4>2, <3>2, <2>3, <1>1
      <4> QED
        BY <4>1, <4>2, <3>3, <2>4
    <3> QED
      BY <3>2, <3>3
  <2> QED
    BY <2>5, <2>6
<1>15. ActiveOK(w, q2, m)
  BY <1>3, <1>6, <1>14 DEF ActiveOK, AlwaysIn, ActiveInfo, now
<1>16. ASSUME NEW h \in G1 .. T, NEW x \in pc[h] \cap DOMAIN now
       PROVE  h <= now[x].largestHeightPrecommit
  <2>1. CASE x \in DOMAIN was
    BY <2>1, <1>3, <1>8
  <2>2. CASE x \notin DOMAIN was
    <3>1. now[x] = [minActiveHeight |-> N, largestHeightPrecommit |-> N - 1]
      BY <2>2, <1>3
    <3>2. now[x].largestHeightPrecommit = T
      BY <3>1, <1>1
    <3> QED
      BY <3>2, <1>1
  <2> QED
    BY <2>1, <2>2
<1>17. PrecommitsOK(w, pc, m)
  BY <1>8, <1>16 DEF PrecommitsOK, now
<1> QED
  BY <1>10, <1>11, <1>13, <1>15, <1>17 DEF CountsOK

\* Votes are implied by the parameters of the window's heights only.
LEMMA ImpliedAlike ==
    ASSUME NEW w, NEW p, NEW q,
           \A i \in DOMAIN w.blockBFTInfos :
              getBFTParameters(p, w.blockBFTInfos[i].height)
                 = getBFTParameters(q, w.blockBFTInfos[i].height)
    PROVE  /\ PrecommittedBy(w, p) = PrecommittedBy(w, q)
           /\ InvalidVoteState(w, p) <=> InvalidVoteState(w, q)
<1>1. PrecommittedBy(w, p) = PrecommittedBy(w, q)
  BY DEF PrecommittedBy
<1>2. \A i \in PrecommittedBy(w, q) \cup PrevotedBy(w) : i \in DOMAIN w.blockBFTInfos
  BY DEF PrecommittedBy, PrevotedBy
<1> QED
  BY <1>1, <1>2, Zenon DEF InvalidVoteState

\* The parameters that counting the next block reads are none that was deleted.
LEMMA ReadAlike ==
    ASSUME IInv
    PROVE  \A h \in Nat : h >= GenesisHeight + Len(headers) + 1 - WindowSize(Len(headers))
                          /\ h <= GenesisHeight + Len(headers) + 1 /\ h > GenesisHeight =>
              getBFTParameters(params, h) = getBFTParameters(history.params, h)
<1> DEFINE n == Len(headers)
           q == history.params
<1>1. /\ n \in Nat /\ GenesisHeight \in Nat /\ ParametersOK(votes, params, q, n)
  BY ConstantsAssumption DEF IInv, StatesOK, StateOK
<1>2. PICK c \in Nat : Suffix(params, q, c) /\ c <= GenesisHeight + n + 1 - WindowSize(n)
  BY <1>1 DEF ParametersOK
<1>3. DOMAIN q \subseteq Nat /\ \A h \in Nat : h > GenesisHeight => ParametersExist(q, h)
  BY <1>1, ChainHasParameters
<1> TAKE h \in Nat
<1> HAVE h >= GenesisHeight + n + 1 - WindowSize(n)
         /\ h <= GenesisHeight + n + 1 /\ h > GenesisHeight
<1>4. c <= h
  BY <1>2, <1>1, WindowSizes
<1> QED
  BY <1>4, <1>2, <1>3, SuffixLooksUp

\* The window with a verified header in it reads them too.
LEMMA WindowAlike ==
    ASSUME IInv, NEW header \in VerifiedHeaders,
           NEW w, w = insertBlockBFTInfo(votes, header, WindowLength)
    PROVE  \A i \in DOMAIN w.blockBFTInfos :
              getBFTParameters(params, w.blockBFTInfos[i].height)
                 = getBFTParameters(history.params, w.blockBFTInfos[i].height)
<1> DEFINE n == Len(headers)
<1>1. n \in Nat /\ GenesisHeight \in Nat /\ WindowOK(votes, n)
  BY ConstantsAssumption DEF IInv, StatesOK, StateOK, VotesOK
<1>2. header \in Header /\ header.height = GenesisHeight + n + 1
  BY HeaderIsVerified DEF Verified
<1>3. WindowOK(w, n + 1)
  BY <1>1, <1>2, Inserted
<1> TAKE i \in DOMAIN w.blockBFTInfos
<1>4. /\ i \in 1 .. WindowSize(n + 1)
      /\ w.blockBFTInfos[i].height = GenesisHeight + (n + 1) - i + 1
  <2>1. /\ DOMAIN w.blockBFTInfos = 1 .. Len(w.blockBFTInfos)
        /\ Len(w.blockBFTInfos) = WindowSize(n + 1)
        /\ \A j \in 1 .. Len(w.blockBFTInfos) :
              w.blockBFTInfos[j].height = GenesisHeight + (n + 1) - j + 1
    <3> HIDE DEF n
    <3> QED
      BY <1>3 DEF WindowOK
  <2> QED
    BY <2>1
<1>5. WindowSize(n + 1) \in Nat /\ WindowSize(n + 1) <= n + 1 /\ WindowSize(n + 1) <= WindowSize(n) + 1
  BY <1>1, WindowLengthPositive DEF WindowSize
<1>6. WindowSize(n) \in Nat
  BY <1>1, WindowSizes
<1> DEFINE h == w.blockBFTInfos[i].height
<1>7. /\ h \in Nat /\ h >= GenesisHeight + n + 1 - WindowSize(n)
      /\ h <= GenesisHeight + n + 1 /\ h > GenesisHeight
  BY <1>1, <1>4, <1>5, <1>6, SMTT(60)
<1> HIDE DEF h
<1>8. getBFTParameters(params, h) = getBFTParameters(history.params, h)
  BY <1>7, ReadAlike
<1> QED
  BY <1>8 DEF h

\* A verified header names the heights of all its generator's blocks of the window.
LEMMA OwnBlocksCounted ==
    ASSUME IInv, NEW header \in VerifiedHeaders,
           NEW i \in 1 .. Len(votes.blockBFTInfos),
           votes.blockBFTInfos[i].generatorAddress = header.generatorAddress
    PROVE  votes.blockBFTInfos[i].height <= header.maxHeightGenerated
<1> DEFINE infos == votes.blockBFTInfos
           own == {j \in 1 .. Len(infos) : infos[j].generatorAddress = header.generatorAddress}
           k   == Min(own)
<1>1. /\ Len(headers) \in Nat /\ GenesisHeight \in Nat /\ WindowOK(votes, Len(headers))
  BY ConstantsAssumption DEF IInv, StatesOK, StateOK, VotesOK
<1>2. Len(infos) \in Nat
  BY <1>1 DEF WindowOK
<1>3. own \in SUBSET Nat /\ i \in own
  BY <1>2
<1>4. k \in own /\ \A j \in own : k <= j
  <2> HIDE DEF own
  <2> QED
    BY <1>3, MinOfNaturals
<1> HIDE DEF k
<1>5. infos[k].height <= header.maxHeightGenerated
  BY <1>4, OwnBlockCounted
<1>6. /\ infos[k].height = GenesisHeight + Len(headers) - k + 1
      /\ infos[i].height = GenesisHeight + Len(headers) - i + 1
      /\ k \in Nat /\ i \in Nat /\ k <= i
  BY <1>1, <1>3, <1>4 DEF WindowOK
<1>7. header.maxHeightGenerated \in Nat
  BY HeaderIsVerified DEF Verified, Header
<1> QED
  BY <1>1, <1>5, <1>6, <1>7

\* What is known of a verified header suffices to count its votes.
LEMMA VerifiedCounting ==
    ASSUME IInv, CountsOK(votes, history.params, history.precommits, headers, Len(headers)),
           NEW header \in VerifiedHeaders
    PROVE  Counting(Len(headers), votes, history.params, history.precommits, headers, header,
                    Append(headers, header), insertBlockBFTInfo(votes, header, WindowLength))
<1> DEFINE n == Len(headers)
           q == history.params
           K == GenesisHeight + n + 1
<1>1. /\ n \in Nat /\ GenesisHeight \in Nat /\ K \in Nat /\ WindowOK(votes, n)
      /\ headers \in Seq(Header) /\ ParametersOK(votes, params, q, n)
  BY ConstantsAssumption DEF IInv, StatesOK, StateOK, VotesOK
<1>2. header \in Header /\ header.height = K
  BY HeaderIsVerified DEF Verified
<1>3. header.generatorAddress \in ValidatorsIn(q, K)
  <2>1. header.generatorAddress \in Addresses(getBFTParameters(params, K).validators)
    BY <1>2 DEF VerifiedHeaders, HeaderVerified
  <2>2. K >= GenesisHeight + n + 1 - WindowSize(n) /\ K <= GenesisHeight + n + 1 /\ K > GenesisHeight
    BY <1>1, WindowSizes
  <2>3. getBFTParameters(params, K) = getBFTParameters(q, K)
    BY <1>1, <2>2, ReadAlike
  <2> QED
    BY <2>1, <2>3 DEF ValidatorsIn
<1>4. \A i \in 1 .. Len(votes.blockBFTInfos) :
          votes.blockBFTInfos[i].generatorAddress = header.generatorAddress =>
             votes.blockBFTInfos[i].height <= header.maxHeightGenerated
  BY OwnBlocksCounted
<1>5. /\ \A k \in 1 .. n : Append(headers, header)[k] = headers[k]
      /\ Append(headers, header)[n + 1] = header
  BY <1>1, <1>2
<1>6. \A h \in (GenesisHeight + 1) .. K : getBFTParameters(q, h) \in ParametersType
  <2>1. DOMAIN q \subseteq Nat /\ \A h \in Nat : h > GenesisHeight => ParametersExist(q, h)
    BY <1>1, ChainHasParameters
  <2>2. \A k \in DOMAIN q : q[k] \in ParametersType
    BY <1>1 DEF ParametersOK
  <2> TAKE h \in (GenesisHeight + 1) .. K
  <2>3. h \in Nat /\ ParametersExist(q, h)
    BY <1>1, <2>1
  <2> HIDE DEF q
  <2> QED
    BY <2>1, <2>2, <2>3, LookedUp
<1> QED
  BY <1>1, <1>2, <1>3, <1>4, <1>5, <1>6 DEF Counting

\* No verified header makes counting throw.
LEMMA VerifiedVotesValid ==
    ASSUME IInv, CountsOK(votes, history.params, history.precommits, headers, Len(headers)),
           NEW header \in VerifiedHeaders
    PROVE  ~InvalidVoteState(insertBlockBFTInfo(votes, header, WindowLength), params)
<1> DEFINE w == insertBlockBFTInfo(votes, header, WindowLength)
<1>1. ~InvalidVoteState(w, history.params)
  BY VerifiedCounting, VoteStateValid
<1>2. \A i \in DOMAIN w.blockBFTInfos :
              getBFTParameters(params, w.blockBFTInfos[i].height)
                 = getBFTParameters(history.params, w.blockBFTInfos[i].height)
  BY WindowAlike
<1> HIDE DEF w
<1>3. InvalidVoteState(w, params) <=> InvalidVoteState(w, history.params)
  BY <1>2, ImpliedAlike
<1> QED
  BY <1>1, <1>3 DEF w

\* The recorded precommits after a verified block are those counted.
LEMMA PrecommitsAfterwards ==
    ASSUME IInv, NEW header \in VerifiedHeaders,
           NEW w, w = insertBlockBFTInfo(votes, header, WindowLength)
    PROVE  PrecommitsAfter(w) = PrecommitsWith(history.precommits, w, history.params,
                                               GenesisHeight + Len(headers) + 1)
<1>1. PrecommittedBy(w, params) = PrecommittedBy(w, history.params)
  BY WindowAlike, ImpliedAlike
<1>2. TipHeight + 1 = GenesisHeight + Len(headers) + 1
  BY DEF TipHeight
<1> QED
  BY <1>1, <1>2, Zenon DEF PrecommitsAfter, PrecommitsWith, PrecommitsIn, TipPrecommits

\* The votes of the first blocks are counted alike whatever headers follow.
LEMMA CountsKept ==
    ASSUME NEW n \in Nat, NEW v, NEW q, NEW pc, NEW hs, CountsOK(v, q, pc, hs, n), WindowOK(v, n),
           NEW gs, \A k \in 1 .. n : gs[k] = hs[k]
    PROVE  CountsOK(v, q, pc, gs, n)
<1>1. ShownOK(v, gs, n)
  <2>1. GenesisHeight \in Nat /\ \A i \in 1 .. Len(v.blockBFTInfos) : n - i + 1 \in 1 .. n
    <3>1. Len(v.blockBFTInfos) \in 0 .. n
      BY WindowSizes DEF WindowOK
    <3> QED
      BY <3>1, ConstantsAssumption
  <2>2. ShownOK(v, hs, n)
    BY DEF CountsOK
  <2> QED
    BY <2>1, <2>2 DEF ShownOK
<1>2. ASSUME NEW i \in 1 .. Len(v.blockBFTInfos)
      PROVE  PrevotersOf(q, gs, n, v.blockBFTInfos[i].height)
                = PrevotersOf(q, hs, n, v.blockBFTInfos[i].height)
  <2> DEFINE h == v.blockBFTInfos[i].height
  <2>1. GenesisHeight \in Nat /\ h = GenesisHeight + n - i + 1 /\ i \in Nat /\ i <= n
    <3>1. Len(v.blockBFTInfos) \in 0 .. n
      BY WindowSizes DEF WindowOK
    <3> QED
      BY <3>1, ConstantsAssumption DEF WindowOK
  <2> HIDE DEF h
  <2>2. \A k \in h .. (GenesisHeight + n) : k - GenesisHeight \in 1 .. n
    BY <2>1
  <2>3. \A k \in h .. (GenesisHeight + n) : \A x :
           PrevotesAt(q, gs, x, h, k) <=> PrevotesAt(q, hs, x, h, k)
    BY <2>2 DEF PrevotesAt
  <2>4. PrevotersOf(q, gs, n, h) = PrevotersOf(q, hs, n, h)
    BY <2>3 DEF PrevotersOf
  <2> QED
    BY <2>4 DEF h
<1>3. \A i \in 1 .. Len(v.blockBFTInfos) : WeightsOK(v.blockBFTInfos[i], q, pc, gs, n)
  <2> TAKE i \in 1 .. Len(v.blockBFTInfos)
  <2>1. WeightsOK(v.blockBFTInfos[i], q, pc, hs, n)
    BY DEF CountsOK
  <2> QED
    BY <2>1, <1>2 DEF WeightsOK
<1> QED
  BY <1>1, <1>3 DEF CountsOK

\* After the genesis block there is nothing to count.
LEMMA InitCounts == Init => AllCounts
<1> SUFFICES ASSUME Init PROVE AllCounts
  OBVIOUS
<1> DEFINE v0 == initGenesisState(GenesisHeight)
           N  == GenesisHeight + 1
           q  == history.params
<1>1. GenesisHeight \in Nat /\ N \in Nat /\ N - 1 \in Nat
  BY ConstantsAssumption
<1>2. /\ votes = setBFTParameters(v0, << >>, GenesisUpdate.precommitThreshold,
                     GenesisUpdate.certificateThreshold, GenesisUpdate.validators).votes
      /\ history = [params |-> setBFTParameters(v0, << >>, GenesisUpdate.precommitThreshold,
                     GenesisUpdate.certificateThreshold, GenesisUpdate.validators).params,
                    precommits |-> << >>]
      /\ headers = << >> /\ finalizedHeight = GenesisHeight
  BY DEF Init
<1>3. NextHeight(v0) = N
  BY <1>1 DEF NextHeight, initGenesisState
<1>4. q = [h \in {N} |-> ParametersOf(GenesisUpdate)]
  <2>1. DOMAIN << >> = {}
    OBVIOUS
  <2>2. q = [h \in DOMAIN << >> \cup {N} |->
                IF h = N THEN ParametersOf(GenesisUpdate) ELSE << >>[h]]
    BY <1>2, <1>3 DEF setBFTParameters, ParametersOf
  <2> QED
    BY <2>1, <2>2
<1>5. /\ votes.blockBFTInfos = << >>
      /\ votes.maxHeightPrevoted = GenesisHeight /\ votes.maxHeightPrecommitted = GenesisHeight
      /\ votes.maxHeightCertified = GenesisHeight
  BY <1>2 DEF setBFTParameters, initGenesisState
<1>6. ActiveFrom(votes, v0, Addresses(GenesisUpdate.validators), N)
  <2>1. "activeValidatorsVoteInfo" \in DOMAIN v0
    BY DEF initGenesisState
  <2> HIDE DEF v0, N
  <2> QED
    BY <2>1, <1>2, <1>3, ActiveSet
<1>7. ValidatorsIn(q, N) = Addresses(GenesisUpdate.validators)
  <2>1. DOMAIN q \subseteq Nat /\ N \in DOMAIN q /\ q[N] = ParametersOf(GenesisUpdate) /\ N <= N
        /\ \A j \in DOMAIN q : j <= N => j <= N
    BY <1>1, <1>4
  <2>2. getBFTParameters(q, N) = q[N]
    <3> HIDE DEF q
    <3> QED
      BY <2>1, <1>1, LookedUpIs
  <2> QED
    BY <2>1, <2>2 DEF ValidatorsIn, ParametersOf
<1>8. /\ DOMAIN votes.activeValidatorsVoteInfo = ValidatorsIn(q, N)
      /\ \A x \in DOMAIN votes.activeValidatorsVoteInfo :
            votes.activeValidatorsVoteInfo[x]
               = [minActiveHeight |-> N, largestHeightPrecommit |-> N - 1]
  <2>1. DOMAIN v0.activeValidatorsVoteInfo = {}
    BY DEF initGenesisState
  <2> HIDE DEF v0, N, q
  <2> QED
    BY <2>1, <1>6, <1>7 DEF ActiveFrom
<1>9. ActiveOK(votes, q, 0)
  <2>1. GenesisHeight + 0 + 1 = N
    BY <1>1
  <2>2. \A h \in N .. N : h = N /\ h >= N
    BY <1>1
  <2>3. ASSUME NEW x \in DOMAIN votes.activeValidatorsVoteInfo
        PROVE  LET info == votes.activeValidatorsVoteInfo[x]
               IN  /\ info \in [minActiveHeight : Nat, largestHeightPrecommit : Nat]
                   /\ \A h \in N .. N : h >= info.minActiveHeight <=>
                         \A j \in h .. N : x \in ValidatorsIn(q, j)
    <3>1. /\ votes.activeValidatorsVoteInfo[x]
                = [minActiveHeight |-> N, largestHeightPrecommit |-> N - 1]
          /\ x \in ValidatorsIn(q, N)
      BY <1>8
    <3>2. \A h \in N .. N : \A j \in h .. N : j = N
      BY <1>1
    <3> HIDE DEF N, q
    <3> QED
      BY <3>1, <3>2, <2>2, <1>1
  <2> HIDE DEF q
  <2>4. \A x \in DOMAIN votes.activeValidatorsVoteInfo :
          LET info == votes.activeValidatorsVoteInfo[x]
          IN  /\ info \in [minActiveHeight : Nat, largestHeightPrecommit : Nat]
              /\ \A h \in (GenesisHeight + 1) .. (GenesisHeight + 0 + 1) :
                    h >= info.minActiveHeight <=>
                        \A j \in h .. (GenesisHeight + 0 + 1) : x \in ValidatorsIn(q, j)
    BY <2>1, <2>3, Zenon
  <2>5. DOMAIN votes.activeValidatorsVoteInfo = ValidatorsIn(q, GenesisHeight + 0 + 1)
    BY <2>1, <1>8
  <2> QED
    BY <2>4, <2>5, Zenon DEF ActiveOK
<1>10. PrecommitsOK(votes, << >>, 0)
  <2>1. DOMAIN << >> = {} /\ (GenesisHeight + 1) .. (GenesisHeight + 0) = {}
    BY <1>1
  <2> QED
    BY <2>1 DEF PrecommitsOK
<1>11. ShownOK(votes, << >>, 0)
  <2>1. 1 .. Len(votes.blockBFTInfos) = {} /\ 1 .. 0 = {}
    BY <1>5
  <2> QED
    BY <2>1, <1>1, <1>5 DEF ShownOK
<1>12. CountsOK(votes, q, history.precommits, headers, 0)
  <2>1. 1 .. Len(votes.blockBFTInfos) = {} /\ history.precommits = << >>
    BY <1>2, <1>5
  <2> QED
    BY <2>1, <1>2, <1>9, <1>10, <1>11 DEF CountsOK
<1>13. Len(headers) = 0 /\ 0 .. (Len(headers) - 1) = {}
  BY <1>2
<1> QED
  BY <1>1, <1>2, <1>5, <1>12, <1>13 DEF AllCounts

\* A deletion returns to votes that were counted.
LEMMA DeleteCounts == IInv /\ AllCounts /\ DeleteLastBlock => AllCounts'
<1> SUFFICES ASSUME IInv, AllCounts, DeleteLastBlock PROVE AllCounts'
  OBVIOUS
<1> DEFINE len == Len(headers)
<1>1. /\ headers \in Seq(Header) /\ undo \in Seq(Range(undo)) /\ Len(undo) = len
      /\ len \in Nat /\ len >= 1
  BY ConstantsAssumption DEF IInv, DeleteLastBlock, TipHeight
<1>2. /\ votes' = undo[len].votes /\ history' = undo[len].history
      /\ headers' = SubSeq(headers, 1, len - 1) /\ undo' = SubSeq(undo, 1, len - 1)
      /\ finalizedHeight' = finalizedHeight
  BY <1>1 DEF DeleteLastBlock
<1>3. /\ Len(headers') = len - 1 /\ \A k \in 1 .. (len - 1) : headers'[k] = headers[k]
  BY <1>1, <1>2
<1>4. \A k \in 1 .. (len - 1) : undo'[k] = undo[k]
  BY <1>1, <1>2
<1>5. \A n \in 0 .. (len - 1) :
          /\ CountsOK(undo[n + 1].votes, undo[n + 1].history.params,
                      undo[n + 1].history.precommits, headers', n)
          /\ undo[n + 1].votes.maxHeightPrecommitted <= finalizedHeight'
  <2> TAKE n \in 0 .. (len - 1)
  <2>1. /\ CountsOK(undo[n + 1].votes, undo[n + 1].history.params,
                    undo[n + 1].history.precommits, headers, n)
        /\ undo[n + 1].votes.maxHeightPrecommitted <= finalizedHeight
    BY DEF AllCounts
  <2>2. n \in Nat /\ \A k \in 1 .. n : headers'[k] = headers[k]
    BY <1>1, <1>3
  <2>3. WindowOK(undo[n + 1].votes, n)
    BY DEF IInv, StatesOK, StateOK, VotesOK
  <2> QED
    BY <2>1, <2>2, <2>3, <1>2, CountsKept
<1>6. /\ CountsOK(votes', history'.params, history'.precommits, headers', len - 1)
      /\ votes'.maxHeightPrecommitted <= finalizedHeight'
  <2>1. len - 1 \in 0 .. (len - 1) /\ (len - 1) + 1 = len
    BY <1>1
  <2> QED
    BY <2>1, <1>2, <1>5
<1>7. \A n \in 0 .. ((len - 1) - 1) :
          n \in 0 .. (len - 1) /\ undo'[n + 1] = undo[n + 1]
  BY <1>1, <1>4
<1> QED
  BY <1>3, <1>5, <1>6, <1>7 DEF AllCounts

\* The votes that a verified block leaves, before the parameters change.
LEMMA BlockCounts ==
    ASSUME IInv, AllCounts, NEW header \in VerifiedHeaders,
           NEW after, after = VotesAfter(votes, params, header, WindowLength)
    PROVE  /\ CountsOK(after, history.params,
                       PrecommitsAfter(insertBlockBFTInfo(votes, header, WindowLength)),
                       Append(headers, header), Len(headers) + 1)
           /\ VotesOK(after, history.params, Len(headers) + 1)
<1> DEFINE n  == Len(headers)
           q  == history.params
           pc == history.precommits
           w  == insertBlockBFTInfo(votes, header, WindowLength)
           gs == Append(headers, header)
<1>1. /\ n \in Nat /\ GenesisHeight \in Nat /\ VotesOK(votes, q, n)
      /\ ParametersOK(votes, params, q, n)
  BY ConstantsAssumption DEF IInv, StatesOK, StateOK
<1>2. CountsOK(votes, q, pc, headers, n)
  BY DEF AllCounts
<1>3. Counting(n, votes, q, pc, headers, header, gs, w)
  BY <1>2, VerifiedCounting
<1>4. header \in Header /\ header.height = GenesisHeight + n + 1
  BY HeaderIsVerified DEF Verified
<1>5. /\ DOMAIN q \subseteq (GenesisHeight + 1) .. (GenesisHeight + n + 1) /\ DOMAIN q \subseteq Nat
      /\ \A k \in DOMAIN q : q[k] \in ParametersType
      /\ WindowOK(votes, n)
  BY <1>1, ChainHasParameters DEF ParametersOK, VotesOK
<1>6. after = VotesAfter(votes, q, header, WindowLength)
  <2>1. \A h \in Nat : h >= GenesisHeight + n + 1 - WindowSize(n)
                       /\ h <= GenesisHeight + n + 1 /\ h > GenesisHeight =>
            getBFTParameters(params, h) = getBFTParameters(q, h)
    BY ReadAlike
  <2> QED
    BY <2>1, <1>1, <1>4, <1>5, VotesAlike
<1>7. ~InvalidVoteState(w, params)
  BY <1>2, VerifiedVotesValid
<1>8. /\ header.maxHeightPrevoted = votes.maxHeightPrevoted
      /\ IF header.aggregateCommit.signed
            THEN /\ header.aggregateCommit.height > votes.maxHeightCertified
                 /\ header.aggregateCommit.height <= votes.maxHeightPrecommitted
            ELSE header.aggregateCommit.height = votes.maxHeightCertified
  BY HeaderIsVerified DEF Verified
<1>9. PICK c \in Nat : Suffix(params, q, c) /\ c <= GenesisHeight + n + 1 - WindowSize(n)
  BY <1>1 DEF ParametersOK
<1>10. /\ VotesOK(after, q, n + 1)
       /\ after.maxHeightPrevoted >= votes.maxHeightPrevoted
       /\ after.maxHeightPrecommitted >= votes.maxHeightPrecommitted
       /\ after.maxHeightCertified = header.aggregateCommit.height
  <2> HIDE DEF q
  <2> QED
    BY <1>1, <1>4, <1>5, <1>7, <1>8, <1>9, VotesCounted
<1>11. after.maxHeightCertified <= votes.maxHeightPrecommitted
  <2>1. votes.maxHeightCertified <= votes.maxHeightPrecommitted
    BY <1>2 DEF CountsOK, ShownOK
  <2> QED
    BY <2>1, <1>8, <1>10
<1>12. CountsOK(after, q, PrecommitsWith(pc, w, q, GenesisHeight + n + 1), gs, n + 1)
  <2> HIDE DEF n, q, pc, w, gs
  <2> QED
    BY <1>1, <1>3, <1>5, <1>6, <1>10, <1>11, CountsNext
<1>13. PrecommitsAfter(w) = PrecommitsWith(pc, w, q, GenesisHeight + n + 1)
  BY PrecommitsAfterwards
<1> QED
  BY <1>10, <1>12, <1>13

\* Executing a block counts its votes, and those of every state to return to stay.
LEMMA ExecuteCounts ==
    ASSUME IInv, AllCounts, NEW header \in VerifiedHeaders,
           NEW update \in Updates \cup {NoUpdate}, ExecuteBlock(header, update)
    PROVE  AllCounts'
<1> DEFINE n     == Len(headers)
           after == VotesAfter(votes, params, header, WindowLength)
           kept  == ParamsAfter(after, params, getMaxRemovalHeight)
           q     == history.params
           w     == insertBlockBFTInfo(votes, header, WindowLength)
           pc2   == PrecommitsAfter(w)
           m     == n + 1
           s     == setBFTParameters(after, kept, update.precommitThreshold,
                                     update.certificateThreshold, update.validators)
           t     == setBFTParameters(after, q, update.precommitThreshold,
                                     update.certificateThreshold, update.validators)
<1>1. /\ headers \in Seq(Header) /\ undo \in Seq(Range(undo)) /\ Len(undo) = n /\ n \in Nat
      /\ GenesisHeight \in Nat /\ ParametersOK(votes, params, q, n) /\ WindowOK(votes, n)
      /\ finalizedHeight \in Nat
  BY ConstantsAssumption DEF IInv, StatesOK, StateOK, VotesOK, TipHeight
<1>2. header \in Header
  BY HeaderIsVerified DEF Verified
<1>3. /\ headers' = Append(headers, header) /\ undo' = Append(undo, State)
      /\ votes' = IF update = NoUpdate THEN after ELSE s.votes
      /\ history' = [params |-> IF update = NoUpdate THEN q ELSE t.params, precommits |-> pc2]
      /\ finalizedHeight' = Max({finalizedHeight, after.maxHeightPrecommitted})
  BY DEF ExecuteBlock
<1>4. /\ Len(headers') = n + 1 /\ \A k \in 1 .. n : headers'[k] = headers[k]
  BY <1>1, <1>2, <1>3
<1>5. undo'[n + 1] = State /\ \A k \in 1 .. n : undo'[k] = undo[k]
  <2>1. undo \in Seq(Range(undo) \cup {State})
    BY <1>1
  <2> HIDE DEF State
  <2> QED
    BY <2>1, <1>1, <1>3
<1>6. CountsOK(after, q, pc2, headers', n + 1) /\ VotesOK(after, q, n + 1)
  BY <1>3, BlockCounts
<1>7. /\ history'.params = (IF update = NoUpdate THEN q ELSE t.params)
      /\ history'.precommits = pc2
  BY <1>3
<1>8. /\ DOMAIN q \subseteq (GenesisHeight + 1) .. (GenesisHeight + n + 1)
      /\ \A h \in Nat : h > GenesisHeight => ParametersExist(q, h)
      /\ WindowOK(after, n + 1)
  BY <1>1, <1>6, ChainHasParameters DEF ParametersOK, VotesOK
<1> HIDE DEF after, kept, q, pc2
<1>9. CountsOK(votes', history'.params, history'.precommits, headers', n + 1)
      /\ votes'.maxHeightPrecommitted = after.maxHeightPrecommitted
  <2>1. CASE update = NoUpdate
    BY <2>1, <1>3, <1>6, <1>7
  <2>2. CASE update # NoUpdate
    <3>1. /\ m \in Nat /\ m >= 1 /\ WindowOK(after, m) /\ CountsOK(after, q, pc2, headers', m)
          /\ DOMAIN q \subseteq (GenesisHeight + 1) .. (GenesisHeight + m)
      BY <1>1, <1>6, <1>8
    <3>2. /\ votes' = s.votes /\ history'.params = t.params
      BY <2>2, <1>3, <1>7
    <3>3. s = setBFTParameters(after, kept, update.precommitThreshold,
                               update.certificateThreshold, update.validators)
          /\ t = setBFTParameters(after, q, update.precommitThreshold,
                                  update.certificateThreshold, update.validators)
      OBVIOUS
    <3> HIDE DEF s, t, m
    <3>4. t.params = WithKey(q, GenesisHeight + m + 1, ParametersOf(update))
      BY <3>1, <3>3, ParametersSet
    <3>5. DOMAIN after = VotesFields
      BY <3>1 DEF WindowOK
    <3>6. s.votes.maxHeightPrecommitted = after.maxHeightPrecommitted
      BY <3>3, <3>5 DEF VotesFields, setBFTParameters
    <3> DEFINE w2 == s.votes
    <3>7. w2 = setBFTParameters(after, kept, update.precommitThreshold,
                               update.certificateThreshold, update.validators).votes
      BY <3>3
    <3> HIDE DEF w2
    <3>8. CountsOK(w2, WithKey(q, GenesisHeight + m + 1, ParametersOf(update)), pc2, headers', m)
      BY <3>1, <3>7, <1>8, CountsUpdated
    <3> QED
      BY <3>2, <3>4, <3>6, <3>8, <1>7 DEF w2, m
  <2> QED
    BY <2>1, <2>2
<1>10. /\ finalizedHeight' \in Nat /\ finalizedHeight' >= finalizedHeight
       /\ after.maxHeightPrecommitted <= finalizedHeight'
  <2> DEFINE h == after.maxHeightPrecommitted
  <2>1. finalizedHeight \in Int /\ h \in Nat
    BY <1>1, <1>6 DEF VotesOK
  <2> HIDE DEF h
  <2>2. finalizedHeight' = Max({finalizedHeight, h})
    BY <1>3 DEF h
  <2>3. /\ Max({finalizedHeight, h}) >= finalizedHeight /\ Max({finalizedHeight, h}) >= h
        /\ Max({finalizedHeight, h}) = finalizedHeight \/ Max({finalizedHeight, h}) = h
    BY <2>1, MaxOfTwo
  <2> DEFINE f == finalizedHeight'
  <2>4. f >= finalizedHeight /\ f >= h /\ (f = finalizedHeight \/ f = h)
    BY <2>2, <2>3
  <2> HIDE DEF f
  <2>5. f \in Nat /\ f >= finalizedHeight /\ h <= f
    BY <2>1, <2>4, <1>1
  <2> QED
    BY <2>5 DEF f, h
<1>11. \A k \in 0 .. n :
          /\ CountsOK(undo'[k + 1].votes, undo'[k + 1].history.params,
                      undo'[k + 1].history.precommits, headers', k)
          /\ undo'[k + 1].votes.maxHeightPrecommitted <= finalizedHeight'
  <2> TAKE k \in 0 .. n
  <2>1. k \in Nat /\ \A j \in 1 .. k : headers'[j] = headers[j]
    BY <1>1, <1>4
  <2> DEFINE f == finalizedHeight'
  <2>2. f \in Nat /\ f >= finalizedHeight
    BY <1>10
  <2> HIDE DEF f
  <2>3. CASE k = n
    <3>1. /\ undo'[k + 1].votes = votes /\ undo'[k + 1].history = history
      BY <2>3, <1>5 DEF State
    <3>2. /\ CountsOK(votes, history.params, history.precommits, headers, k)
          /\ votes.maxHeightPrecommitted <= finalizedHeight /\ WindowOK(votes, k)
      BY <2>3, <1>1 DEF AllCounts
    <3>3. CountsOK(votes, history.params, history.precommits, headers', k)
      BY <2>1, <3>2, CountsKept
    <3>4. votes.maxHeightPrecommitted \in Nat
      BY <1>1 DEF IInv, StatesOK, StateOK, VotesOK
    <3>5. votes.maxHeightPrecommitted <= f
      BY <3>2, <3>4, <2>2, <1>1
    <3> QED
      BY <3>1, <3>3, <3>5 DEF f
  <2>4. CASE k # n
    <3> DEFINE u == undo[k + 1]
    <3>1. k \in 0 .. (n - 1) /\ k + 1 \in 1 .. n
      BY <2>4, <1>1
    <3>2. /\ CountsOK(u.votes, u.history.params, u.history.precommits, headers, k)
          /\ u.votes.maxHeightPrecommitted <= finalizedHeight
      BY <3>1 DEF AllCounts
    <3>3. VotesOK(u.votes, u.history.params, k)
      BY <3>1 DEF IInv, StatesOK, StateOK
    <3>4. WindowOK(u.votes, k) /\ u.votes.maxHeightPrecommitted \in Nat
      BY <3>3, <1>1, <2>1 DEF VotesOK
    <3>5. undo'[k + 1] = u
      BY <3>1, <1>5
    <3> HIDE DEF u
    <3>6. CountsOK(u.votes, u.history.params, u.history.precommits, headers', k)
      BY <2>1, <3>2, <3>4, CountsKept
    <3>7. u.votes.maxHeightPrecommitted <= f
      BY <3>2, <3>4, <2>2, <1>1
    <3> QED
      BY <3>5, <3>6, <3>7 DEF f
  <2> QED
    BY <2>3, <2>4
<1>12. (n + 1) - 1 = n
  BY <1>1
<1>13. votes'.maxHeightPrecommitted <= finalizedHeight'
  BY <1>9, <1>10
<1> QED
  BY <1>4, <1>9, <1>11, <1>12, <1>13 DEF AllCounts

\* Counting is exact from block to block and from deletion to deletion.
LEMMA NextCounts == IInv /\ AllCounts /\ [Next]_vars => AllCounts'
<1> SUFFICES ASSUME IInv, AllCounts, [Next]_vars PROVE AllCounts'
  OBVIOUS
<1>1. ASSUME NEW header \in VerifiedHeaders, NEW update \in Updates \cup {NoUpdate},
             ExecuteBlock(header, update)
      PROVE  AllCounts'
  BY <1>1, ExecuteCounts
<1>2. CASE DeleteLastBlock
  BY <1>2, DeleteCounts
<1>3. CASE UNCHANGED vars
  BY <1>3 DEF vars, AllCounts
<1> QED
  BY <1>1, <1>2, <1>3 DEF Next

\* The invariants give what the run checks.
LEMMA CountsExact ==
    ASSUME IInv, AllCounts
    PROVE  VotesExact
<1> DEFINE n == Len(headers)
           q == history.params
           infos == votes.blockBFTInfos
<1>1. /\ n \in Nat /\ GenesisHeight \in Nat /\ VotesOK(votes, q, n) /\ WindowOK(votes, n)
      /\ ParametersOK(votes, params, q, n) /\ headers \in Seq(Header) /\ Len(undo) = n
      /\ finalizedHeight \in GenesisHeight .. (GenesisHeight + n)
  BY ConstantsAssumption DEF IInv, StatesOK, StateOK, VotesOK, TipHeight
<1>2. /\ CountsOK(votes, q, history.precommits, headers, n)
      /\ votes.maxHeightPrecommitted <= finalizedHeight
  BY DEF AllCounts
<1>3. /\ infos \in Seq(Info) /\ DOMAIN infos = 1 .. Len(infos) /\ Len(infos) = WindowSize(n)
      /\ \A i \in 1 .. Len(infos) : infos[i].height = GenesisHeight + n - i + 1
      /\ \A i \in 1 .. Len(infos) : infos[i] \in Info
  <2> HIDE DEF n
  <2> QED
    BY <1>1 DEF WindowOK
<1>4. Len(infos) \in 0 .. n
  BY <1>1, <1>3, WindowSizes
<1>5. TypeOK
  <2>1. Len(infos) = Min({Len(headers), WindowLength})
    BY <1>1, <1>3, MinOfTwo, WindowLengthPositive DEF WindowSize
  <2>2. DOMAIN params \subseteq Nat \ {0}
    <3>1. PICK c \in Nat : Suffix(params, q, c)
      BY <1>1 DEF ParametersOK
    <3>2. DOMAIN q \subseteq (GenesisHeight + 1) .. (GenesisHeight + n + 1)
      BY <1>1 DEF ParametersOK
    <3>3. DOMAIN params \subseteq DOMAIN q
      BY <3>1 DEF Suffix
    <3> QED
      BY <3>2, <3>3, <1>1
  <2>3. /\ votes.maxHeightPrevoted \in Nat /\ votes.maxHeightPrecommitted \in Nat
        /\ votes.maxHeightCertified \in Nat /\ finalizedHeight \in Nat
    BY <1>1 DEF VotesOK
  <2>4. ASSUME NEW i \in DOMAIN infos
        PROVE  /\ infos[i].height = TipHeight - i + 1
               /\ infos[i].generatorAddress = HeaderAt(infos[i].height).generatorAddress
               /\ infos[i].prevoteWeight \in Nat /\ infos[i].precommitWeight \in Nat
    <3>0. i \in 1 .. Len(infos)
      BY <1>3
    <3>1. infos[i].height = TipHeight - i + 1
      <4>1. infos[i].height = GenesisHeight + n - i + 1
        BY <3>0, <1>3, Zenon
      <4>2. i \in Nat
        BY <3>0, <1>4
      <4> QED
        BY <4>1, <4>2, <1>1, SMTT(60) DEF TipHeight
    <3>2. infos[i] \in Info
      BY <1>3
    <3>3. infos[i].generatorAddress = headers[n - i + 1].generatorAddress
      BY <1>2, <1>3 DEF CountsOK, ShownOK
    <3>4. infos[i].height - GenesisHeight = n - i + 1
      <4>1. i \in Nat
        BY <3>0, <1>4
      <4> QED
        BY <3>1, <4>1, <1>1 DEF TipHeight
    <3> QED
      BY <3>1, <3>2, <3>3, <3>4 DEF HeaderAt, Info
  <2> QED
    BY <2>1, <2>2, <2>3, <2>4, <1>1 DEF TypeOK
<1>6. \A h \in Nat : Prevoters(h) = PrevotersOf(q, headers, n, h)
  BY DEF Prevoters, PrevotersOf, PrevotesAt, HeaderAt, ValidatorsAt, ValidatorsIn, TipHeight
<1>7. \A S, h : WeightOfSet(S, h) = WeightIn(q, h, S)
  BY DEF WeightOfSet, WeightIn
<1>8. PrevoteWeightExact /\ PrecommitWeightExact
  <2>1. ASSUME NEW i \in DOMAIN infos
        PROVE  /\ infos[i].prevoteWeight = WeightOfSet(Prevoters(infos[i].height), infos[i].height)
               /\ history.precommits[infos[i].height] \subseteq Prevoters(infos[i].height)
               /\ infos[i].precommitWeight =
                     WeightOfSet(history.precommits[infos[i].height], infos[i].height)
    <3>1. WeightsOK(infos[i], q, history.precommits, headers, n)
      BY <1>2, <1>3 DEF CountsOK
    <3>2. infos[i].height \in Nat
      <4>1. infos[i] \in Info
        <5> HIDE DEF infos
        <5> QED
          BY <1>3
      <4> QED
        BY <4>1 DEF Info
    <3> QED
      BY <3>1, <3>2, <1>6, <1>7 DEF WeightsOK
  <2> QED
    BY <2>1 DEF PrevoteWeightExact, PrecommitWeightExact
<1>9. HeightsOrdered
  <2>1. /\ votes.maxHeightCertified <= votes.maxHeightPrecommitted
        /\ votes.maxHeightPrecommitted <= votes.maxHeightPrevoted
    BY <1>2 DEF CountsOK, ShownOK
  <2>2. votes.maxHeightPrevoted <= TipHeight
    BY <1>1 DEF VotesOK, TipHeight
  <2> QED
    BY <2>1, <2>2, <1>1, <1>2 DEF HeightsOrdered, TipHeight
<1>10. NoInvalidVoteState
  BY <1>2, VerifiedVotesValid DEF NoInvalidVoteState
<1> QED
  BY <1>5, <1>8, <1>9, <1>10 DEF VotesExact

\* updatePrevotesPrecommits counts every prevote and every precommit exactly once
\* and with the weight of its height, and never throws on a block that passed
\* verification, whatever maxHeightGenerated generators claim, however the
\* validators change and whichever blocks are deleted; the certified, precommitted,
\* prevoted and finalized heights stay in order.
THEOREM VotesAreExact == Spec => []VotesExact
<1>1. Spec => []AllCounts
  BY InitCounts, NextCounts, Invariance, PTL DEF Spec
<1>2. IInv /\ AllCounts => VotesExact
  BY CountsExact
<1> QED
  BY <1>1, <1>2, Invariance, PTL
=============================================================================
