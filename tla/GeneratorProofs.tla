--------------------------- MODULE GeneratorProofs ---------------------------
(***************************************************************************)
(* Theorems about Generator, for every number of forks, heights and        *)
(* published blocks.  Keys are encrypted and a chain is not replaced by a  *)
(* shorter one: without either, TLC finds a validator that contradicts     *)
(* itself.                                                                 *)
(***************************************************************************)
EXTENDS Generator, TLAPS

(* ------------------------- the inductive invariant --------------------- *)

\* A height and a prevoted height that the chain of the tip has reached; the
\* chain is never left for one that has not.
Reached(maxHeightPrevoted, height) ==
    \/ maxHeightPrevoted < tip.maxHeightPrevoted
    \/ maxHeightPrevoted = tip.maxHeightPrevoted /\ height <= tip.height

\* The stored info and the published headers, which it covers: those that failed
\* only by their height.
PublishedSound ==
    /\ info # None => info.height <= tip.height + 1
    /\ \A i \in DOMAIN published :
          /\ published[i].maxHeightGenerated <= published[i].height
          /\ published[i].height = published[i].previousBlockID[2] + 1
          /\ info # None /\ published[i].height <= info.height
          /\ i \notin failed => published[i].maxHeightPrevoted <= info.maxHeightPrevoted

\* The validator's newest header on the chain is one that it published.
OwnSound ==
    tip.own # None => /\ tip.own \in Range(published)
                      /\ tip.own.height <= tip.height
                      /\ tip.own.maxHeightPrevoted <= tip.maxHeightPrevoted

\* While updateStatus waits, the chain goes on from where isSynced saw it.
EnablingSound ==
    enabling # None => Reached(enabling.request.maxHeightPrevoted, enabling.request.height)

\* A validator whose keys are enabled, or still in use, has a chain that reached
\* what it published, except for the block that consensus is executing.
CaughtUp ==
    enabled \/ generation.at # "idle" =>
        \A i \in DOMAIN published \ failed :
            \/ generation.at = "broadcast" /\ i = Len(published)
            \/ Reached(published[i].maxHeightPrevoted, published[i].height)

\* What has been read for a header covers everything that was published before.
Covers(height, maxHeightPrevoted, maxHeightGenerated) ==
    /\ maxHeightGenerated <= height /\ height <= tip.height + 1
    /\ \A i \in DOMAIN published :
          /\ published[i].height <= maxHeightGenerated
          /\ i \notin failed => published[i].maxHeightPrevoted <= maxHeightPrevoted

GenerationSound ==
    /\ generation.at \notin {"idle", "broadcast"} => Len(published) < MaxPublished
    /\ generation.at = "heights" =>
          /\ generation.height <= tip.height + 1
          /\ info # None => info.height <= generation.height
    /\ generation.at = "header" =>
          Covers(generation.height, generation.maxHeightPrevoted, generation.maxHeightGenerated)
    /\ generation.at \in {"generating", "execute"} =>
          Covers(generation.header.height, generation.header.maxHeightPrevoted,
                 generation.header.maxHeightGenerated)
    /\ generation.at = "execute" => info = InfoOf(generation.header)
    /\ generation.at = "broadcast" =>
          /\ published # << >> /\ published[Len(published)] = generation.header
          /\ Extends(generation.header)

IInv == /\ TypeOK /\ PublishedSound /\ OwnSound /\ EnablingSound /\ CaughtUp /\ GenerationSound
        /\ NeverContradictsItself

(* -------------------------------- lemmas ------------------------------- *)

\* A stored info is not the absence of one, and a header is not either.
LEMMA NotNone ==
    ASSUME NEW r \in GeneratedInfo \cup Header
    PROVE  r # None
<1>1. "height" \in DOMAIN r
  BY DEF GeneratedInfo, Header
<1>2. "height" \notin DOMAIN None
  BY DEF None
<1> QED
  BY <1>1, <1>2

\* What the types say of the header in the making, by where the loop is.
LEMMA Shapes ==
    ASSUME TypeOK
    PROVE  /\ generation.at = "heights" => generation.height \in Heights
           /\ generation.at = "header" =>
                 /\ generation.height \in Heights
                 /\ generation.maxHeightPrevoted \in Heights
                 /\ generation.maxHeightGenerated \in Heights
           /\ generation.at \in {"generating", "execute", "broadcast"} =>
                 /\ generation.header \in Header
                 /\ generation = [at |-> generation.at, header |-> generation.header]
           /\ generation.at \in {"idle", "heights", "header", "generating", "execute",
                                 "broadcast"}
  BY DEF TypeOK, Idle

\* Heights are naturals.
LEMMA HeightsAreNaturals == Heights \subseteq Nat /\ 0 \in Heights
  BY GeneratorAssumption DEF Heights

\* The fields of a header are numbers.
LEMMA HeaderTyped ==
    ASSUME NEW header \in Header
    PROVE  /\ header.height \in Nat /\ header.maxHeightGenerated \in Nat
           /\ header.maxHeightPrevoted \in Nat
           /\ InfoOf(header) \in GeneratedInfo
<1>1. /\ header.height \in Heights /\ header.maxHeightGenerated \in Heights
      /\ header.maxHeightPrevoted \in Heights
  BY DEF Header
<1> QED
  BY <1>1, HeightsAreNaturals DEF InfoOf, GeneratedInfo

\* The tip and the info are made of naturals.
LEMMA TipTyped ==
    ASSUME TypeOK
    PROVE  /\ tip.height \in Nat /\ tip.maxHeightPrevoted \in Nat /\ tip.prevoted \in Nat
           /\ tip.maxHeightPrevoted <= tip.prevoted /\ tip.prevoted <= tip.height
           /\ info # None => info.height \in Nat /\ info.maxHeightPrevoted \in Nat
           /\ \A i \in DOMAIN published : published[i] \in Header
<1>1. tip.height \in Nat /\ tip.maxHeightPrevoted \in Nat /\ tip.prevoted \in Nat
  BY HeightsAreNaturals DEF TypeOK, TipType
<1>2. info # None => info.height \in Nat /\ info.maxHeightPrevoted \in Nat
  BY HeightsAreNaturals DEF TypeOK, GeneratedInfo
<1>3. \A i \in DOMAIN published : published[i] \in Header
  BY DEF TypeOK
<1> QED
  BY <1>1, <1>2, <1>3 DEF TypeOK

\* The fields of the info that is used when there is none.
LEMMA InfoTyped ==
    ASSUME TypeOK
    PROVE  /\ getOrDefaultLastGeneratedInfo \in GeneratedInfo
           /\ info # None => getOrDefaultLastGeneratedInfo = info
           /\ info = None => getOrDefaultLastGeneratedInfo = ZeroInfo
  BY HeightsAreNaturals DEF TypeOK, getOrDefaultLastGeneratedInfo, ZeroInfo, GeneratedInfo

\* Two headers of one generator do not contradict each other when the later one
\* counts the height of the earlier one as generated and has a larger prevoted
\* height, or the same and a larger height.
LEMMA NotContradicting ==
    ASSUME NEW earlier \in Header, NEW later \in Header,
           earlier.maxHeightGenerated <= earlier.height,
           earlier.height <= later.maxHeightGenerated,
           \/ earlier.maxHeightPrevoted < later.maxHeightPrevoted
           \/ /\ earlier.maxHeightPrevoted = later.maxHeightPrevoted
              /\ earlier.height < later.height
    PROVE  ~areDistinctHeadersContradicting(earlier, later)
<1>1. /\ earlier.maxHeightGenerated \in Int /\ earlier.height \in Int
      /\ earlier.maxHeightPrevoted \in Int
      /\ later.maxHeightGenerated \in Int /\ later.height \in Int
      /\ later.maxHeightPrevoted \in Int
  BY HeaderTyped
<1>2. ProducedBefore(earlier, later)
  BY <1>1 DEF ProducedBefore
<1> QED
  BY <1>1, <1>2 DEF areDistinctHeadersContradicting

\* The chain only goes on: to a block on the tip, or to a preferred chain that is
\* not shorter.  What was reached stays reached.
TipGoesOn ==
    /\ tip'.height \in Nat /\ tip'.maxHeightPrevoted \in Nat
    /\ tip.height <= tip'.height
    /\ \/ tip.maxHeightPrevoted < tip'.maxHeightPrevoted
       \/ tip.maxHeightPrevoted = tip'.maxHeightPrevoted

\* A tip that goes on does not fall behind what was reached.
LEMMA ReachedStays ==
    ASSUME TypeOK, TipGoesOn, NEW p \in Nat, NEW h \in Nat, Reached(p, h)
    PROVE  Reached(p, h)'
  BY TipTyped DEF TipGoesOn, Reached

\* A step of the chain while consensus is not in the middle of an own block.
LEMMA TipStep ==
    ASSUME IInv, MutexFree, TipGoesOn, tip' \in TipType,
           tip'.maxHeightPrevoted <= tip'.prevoted, tip'.prevoted <= tip'.height,
           OwnSound', UNCHANGED <<info, enabled, enabling, generation, published, failed, up>>
    PROVE  IInv'
<1> USE DEF IInv
<1>1. TypeOK'
  BY DEF TypeOK
<1>2. PublishedSound'
  BY TipTyped DEF PublishedSound, TipGoesOn
<1>3. EnablingSound'
  <2>1. enabling # None => /\ enabling.request.maxHeightPrevoted \in Nat
                           /\ enabling.request.height \in Nat
    BY HeightsAreNaturals DEF TypeOK, GeneratedInfo
  <2> QED
    BY <2>1, ReachedStays DEF EnablingSound
<1>4. CaughtUp'
  <2> SUFFICES ASSUME enabled \/ generation.at # "idle", NEW i \in DOMAIN published \ failed
               PROVE  Reached(published[i].maxHeightPrevoted, published[i].height)'
    BY DEF CaughtUp
  <2>1. Reached(published[i].maxHeightPrevoted, published[i].height)
    BY DEF CaughtUp, MutexFree
  <2> QED
    BY <2>1, TipTyped, HeaderTyped, ReachedStays
<1>5. GenerationSound'
  <2>1. /\ generation.at = "header" => generation.height \in Nat
        /\ generation.at = "heights" => generation.height \in Nat
        /\ generation.at \in {"generating", "execute"} => generation.header.height \in Nat
    BY Shapes, HeightsAreNaturals, HeaderTyped
  <2>2. \A h \in Nat : h <= tip.height + 1 => h <= tip'.height + 1
    BY TipTyped DEF TipGoesOn
  <2> QED
    BY <2>1, <2>2 DEF GenerationSound, Covers, MutexFree
<1>6. NeverContradictsItself'
  BY DEF NeverContradictsItself
<1> QED
  BY <1>1, <1>2, <1>3, <1>4, <1>5, <1>6

\* What a block on the tip does to it.
LEMMA ExtendedTip ==
    ASSUME TypeOK, tip.height < MaxHeight, NEW own \in Header \cup {None},
           NEW prevoted \in PrevotedNext, tip' = Extended(own, prevoted)
    PROVE  /\ TipGoesOn /\ tip' \in TipType
           /\ tip'.maxHeightPrevoted <= tip'.prevoted /\ tip'.prevoted <= tip'.height
           /\ tip'.height = tip.height + 1 /\ tip'.maxHeightPrevoted = tip.prevoted
           /\ tip'.own = own
<1>1. tip' = [branch |-> tip.branch, height |-> tip.height + 1,
              maxHeightPrevoted |-> tip.prevoted, prevoted |-> prevoted, own |-> own]
  BY DEF TypeOK, TipType, Extended
<1>2. /\ prevoted \in Nat /\ tip.prevoted <= prevoted /\ prevoted <= tip.height + 1
      /\ tip.branch \in Branches
  BY TipTyped DEF PrevotedNext, TypeOK, TipType
<1>3. /\ tip.height + 1 \in Heights /\ tip.prevoted \in Heights /\ prevoted \in Heights
  BY <1>2, TipTyped, GeneratorAssumption DEF Heights
<1>4. tip' \in TipType
  BY <1>1, <1>2, <1>3 DEF TipType
<1> QED
  BY <1>1, <1>2, <1>4, TipTyped DEF TipGoesOn

\* A block of another validator moves the tip.
LEMMA ReceiveBlockStep ==
    ASSUME IInv, ReceiveBlock
    PROVE  IInv'
<1>1. PICK prevoted \in PrevotedNext,
          own \in {tip.own} \cup {header \in Range(published) :
                        /\ header.previousBlockID = Id(tip)
                        /\ header.maxHeightPrevoted = tip.prevoted} :
        tip' = Extended(own, prevoted)
  BY DEF ReceiveBlock
<1>2. own \in Header \cup {None} /\ (own = tip.own \/ own \in Range(published))
  BY TipTyped DEF IInv, TypeOK, TipType, Range
<1>3. /\ TipGoesOn /\ tip' \in TipType
      /\ tip'.maxHeightPrevoted <= tip'.prevoted /\ tip'.prevoted <= tip'.height
      /\ tip'.height = tip.height + 1 /\ tip'.maxHeightPrevoted = tip.prevoted
      /\ tip'.own = own
  BY <1>1, <1>2, ExtendedTip DEF IInv, ReceiveBlock
<1>4. OwnSound'
  <2>1. UNCHANGED published
    BY DEF ReceiveBlock
  <2>2. CASE own = tip.own
    <3>1. own # None => /\ own \in Range(published) /\ own.height <= tip.height
                        /\ own.maxHeightPrevoted <= tip.maxHeightPrevoted
      BY <2>2 DEF IInv, OwnSound
    <3>2. own # None => own.height \in Nat /\ own.maxHeightPrevoted \in Nat
      BY <1>2, HeaderTyped
    <3> QED
      BY <1>3, <2>1, <3>1, <3>2, TipTyped DEF IInv, OwnSound
  <2>3. CASE own # tip.own
    <3>1. /\ own \in Range(published) /\ own.previousBlockID = Id(tip)
          /\ own.maxHeightPrevoted = tip.prevoted
      BY <1>1, <2>3
    <3>2. own.height = own.previousBlockID[2] + 1
      BY <3>1 DEF IInv, PublishedSound, Range
    <3>3. own.height = tip.height + 1
      BY <3>1, <3>2 DEF Id
    <3> QED
      BY <1>3, <2>1, <3>1, <3>3, TipTyped DEF IInv, OwnSound
  <2> QED
    BY <2>2, <2>3
<1> QED
  BY <1>3, <1>4, TipStep DEF ReceiveBlock

\* The node switches to a preferred chain.
LEMMA SwitchChainStep ==
    ASSUME IInv, ~LowerTips, SwitchChain
    PROVE  IInv'
<1>1. PICK new \in [branch : Branches \ {tip.branch}, height : Heights,
                    maxHeightPrevoted : Heights, prevoted : Heights,
                    own : Range(published) \cup {None}] :
          /\ isDifferentChain(tip, new) /\ new.height >= tip.height
          /\ new.maxHeightPrevoted <= new.prevoted /\ new.prevoted <= new.height
          /\ new.own # None => /\ new.own.height <= new.height
                               /\ new.own.maxHeightPrevoted <= new.maxHeightPrevoted
          /\ tip' = new
  BY DEF SwitchChain
<1>2. new \in TipType
  <2>1. Range(published) \subseteq Header
    BY TipTyped DEF IInv, Range
  <2> QED
    BY <2>1 DEF TipType
<1>3. TipGoesOn
  <2>1. new.height \in Nat /\ new.maxHeightPrevoted \in Nat
    BY HeightsAreNaturals
  <2> QED
    BY <1>1, <2>1, TipTyped DEF IInv, TipGoesOn, isDifferentChain
<1>4. OwnSound'
  BY <1>1 DEF OwnSound, SwitchChain
<1> QED
  BY <1>1, <1>2, <1>3, <1>4, TipStep DEF SwitchChain

(* ------------------------------ generation ----------------------------- *)

GenerationType ==
    {Idle} \cup [at : {"heights"}, height : Heights]
    \cup [at : {"header"}, height : Heights, maxHeightPrevoted : Heights,
          maxHeightGenerated : Heights]
    \cup [at : {"generating", "execute", "broadcast"}, header : Header]

\* A step of the loop that publishes nothing and leaves the info alone.
LEMMA LoopStep ==
    ASSUME IInv, GenerationOnly, generation' \in GenerationType, GenerationSound',
           enabled \/ generation.at # "idle", generation.at # "broadcast"
    PROVE  IInv'
<1> USE DEF GenerationOnly
<1>1. TypeOK'
  BY DEF IInv, TypeOK, GenerationType
<1>2. PublishedSound' /\ OwnSound' /\ NeverContradictsItself'
  BY DEF IInv, PublishedSound, OwnSound, NeverContradictsItself
<1>3. EnablingSound'
  BY DEF IInv, EnablingSound, Reached
<1>4. CaughtUp'
  BY DEF IInv, CaughtUp, Reached
<1> QED
  BY <1>1, <1>2, <1>3, <1>4 DEF IInv

\* _generateLoop finds that it is its turn.
LEMMA GenerateLoopStep ==
    ASSUME IInv, GenerateLoop
    PROVE  IInv'
<1>1. /\ generation.at = "idle" /\ enabled /\ tip.height < MaxHeight
      /\ Len(published) < MaxPublished /\ GenerationOnly
      /\ generation' = [at |-> "heights", height |-> tip.height + 1]
  BY DEF GenerateLoop, At
<1>2. generation' \in GenerationType
  <2>1. tip.height + 1 \in Heights
    BY <1>1, TipTyped, GeneratorAssumption DEF IInv, Heights
  <2> QED
    BY <1>1, <2>1 DEF GenerationType
<1>3. GenerationSound'
  BY <1>1, TipTyped DEF IInv, GenerationSound, PublishedSound, GenerationOnly
<1> QED
  BY <1>1, <1>2, <1>3, LoopStep

\* _generateBlock reads the BFT heights and the last generated info.
LEMMA ReadHeightsStep ==
    ASSUME IInv, ReadHeights
    PROVE  IInv'
<1> DEFINE last == getOrDefaultLastGeneratedInfo
<1>1. /\ generation.at = "heights" /\ GenerationOnly
      /\ generation' = [at |-> "header", height |-> generation.height,
                        maxHeightPrevoted |-> tip.prevoted,
                        maxHeightGenerated |-> last.height]
  BY DEF ReadHeights, At
<1>2. /\ generation.height \in Heights /\ tip.prevoted \in Heights /\ last \in GeneratedInfo
      /\ last.height \in Heights
  BY <1>1, Shapes, InfoTyped DEF IInv, TypeOK, TipType, GeneratedInfo
<1>3. generation' \in GenerationType
  BY <1>1, <1>2 DEF GenerationType
<1>4. /\ last.height <= generation.height /\ generation.height <= tip.height + 1
      /\ Len(published) < MaxPublished
  <2>1. info = None => last.height = 0
    BY InfoTyped DEF IInv, ZeroInfo
  <2>2. info # None => last.height = info.height
    BY InfoTyped DEF IInv
  <2>3. /\ generation.height <= tip.height + 1 /\ Len(published) < MaxPublished
        /\ info # None => info.height <= generation.height
    BY <1>1 DEF IInv, GenerationSound
  <2>4. generation.height \in Nat
    BY <1>2, HeightsAreNaturals
  <2> QED
    BY <2>1, <2>2, <2>3, <2>4
<1>5. \A i \in DOMAIN published :
          /\ published[i].height <= last.height
          /\ i \notin failed => published[i].maxHeightPrevoted <= tip.prevoted
  <2> SUFFICES ASSUME NEW i \in DOMAIN published
               PROVE  /\ published[i].height <= last.height
                      /\ i \notin failed => published[i].maxHeightPrevoted <= tip.prevoted
    OBVIOUS
  <2>1. published[i].height <= last.height
    BY InfoTyped DEF IInv, PublishedSound
  <2>2. i \notin failed => Reached(published[i].maxHeightPrevoted, published[i].height)
    BY <1>1 DEF IInv, CaughtUp
  <2>3. published[i].maxHeightPrevoted \in Nat
    BY TipTyped, HeaderTyped DEF IInv
  <2> QED
    BY <2>1, <2>2, <2>3, TipTyped DEF IInv, Reached
<1> HIDE DEF last
<1>6. GenerationSound'
  BY <1>1, <1>4, <1>5 DEF GenerationSound, Covers, GenerationOnly
<1> QED
  BY <1>1, <1>3, <1>6, LoopStep

\* _generateBlock creates the header on the tip of that moment.
LEMMA CreateHeaderStep ==
    ASSUME IInv, CreateHeader
    PROVE  IInv'
<1> DEFINE header == [generatorAddress |-> "self", height |-> generation.height,
                      maxHeightGenerated |-> generation.maxHeightGenerated,
                      maxHeightPrevoted |-> generation.maxHeightPrevoted,
                      previousBlockID |-> Id(tip)]
<1>1. /\ generation.at = "header" /\ GenerationOnly
      /\ generation' = [at |-> "generating", header |-> header]
  BY DEF CreateHeader, At
<1>2. header \in Header
  <2>1. Id(tip) \in Ids
    BY DEF IInv, TypeOK, TipType, Id, Ids
  <2>2. /\ generation.height \in Heights /\ generation.maxHeightPrevoted \in Heights
        /\ generation.maxHeightGenerated \in Heights
    BY <1>1, Shapes DEF IInv
  <2> QED
    BY <2>1, <2>2 DEF Header
<1>3. generation' \in GenerationType
  BY <1>1, <1>2 DEF GenerationType
<1>4. GenerationSound'
  <2>1. Covers(header.height, header.maxHeightPrevoted, header.maxHeightGenerated)
        /\ Len(published) < MaxPublished
    BY <1>1 DEF IInv, GenerationSound
  <2> QED
    BY <1>1, <2>1 DEF GenerationSound, Covers, GenerationOnly
<1> QED
  BY <1>1, <1>3, <1>4, LoopStep

\* A hook or a transaction of the new block throws.
LEMMA AbandonStep ==
    ASSUME IInv, Abandon
    PROVE  IInv'
<1>1. generation.at = "generating" /\ GenerationOnly /\ generation' = Idle
  BY DEF Abandon, At
<1>2. GenerationSound'
  BY <1>1 DEF GenerationSound, Idle
<1> QED
  BY <1>1, <1>2, LoopStep DEF GenerationType

\* The info that is written covers what the one before covered.
LEMMA PersistInfoStep ==
    ASSUME IInv, PersistInfo
    PROVE  IInv'
<1> DEFINE header == generation.header
<1>1. /\ generation.at = "generating" /\ info' = InfoOf(header) /\ header \in Header
      /\ generation' = [at |-> "execute", header |-> header]
      /\ UNCHANGED <<tip, enabled, enabling, published, failed, up>>
  BY Shapes DEF IInv, PersistInfo, At
<1>2. /\ info' \in GeneratedInfo /\ info' # None /\ info'.height = header.height
      /\ info'.maxHeightPrevoted = header.maxHeightPrevoted
  BY <1>1, HeaderTyped, NotNone DEF InfoOf
<1>3. /\ Covers(header.height, header.maxHeightPrevoted, header.maxHeightGenerated)
      /\ Len(published) < MaxPublished
  BY <1>1 DEF IInv, GenerationSound
<1>4. TypeOK'
  <2>1. generation' \in GenerationType
    BY <1>1 DEF GenerationType
  <2> QED
    BY <1>1, <1>2, <2>1 DEF IInv, TypeOK, GenerationType
<1>5. PublishedSound'
  <2>1. \A i \in DOMAIN published : published[i].height \in Nat
    BY TipTyped, HeaderTyped DEF IInv
  <2>2. \A i \in DOMAIN published : published[i].height <= header.height
    BY <1>1, <1>3, <2>1, HeaderTyped DEF Covers
  <2> QED
    BY <1>1, <1>2, <1>3, <2>2 DEF IInv, PublishedSound, Covers
<1>6. OwnSound' /\ NeverContradictsItself'
  BY <1>1 DEF IInv, OwnSound, NeverContradictsItself
<1>7. EnablingSound'
  BY <1>1 DEF IInv, EnablingSound, Reached
<1>8. CaughtUp'
  BY <1>1 DEF IInv, CaughtUp, Reached
<1>9. GenerationSound'
  BY <1>1, <1>3 DEF GenerationSound, Covers
<1> QED
  BY <1>4, <1>5, <1>6, <1>7, <1>8, <1>9 DEF IInv

\* A header that is published counts everything that was published before.
LEMMA ExecuteOwnStep ==
    ASSUME IInv, ExecuteOwn
    PROVE  IInv'
<1> DEFINE header == generation.header
<1>1. /\ generation.at = "execute" /\ header \in Header
      /\ generation = [at |-> "execute", header |-> header]
      /\ UNCHANGED <<tip, info, enabled, enabling, failed, up>>
  BY Shapes DEF IInv, ExecuteOwn, At
<1>2. CASE generation' = Idle /\ UNCHANGED published
  <2>1. GenerationSound'
    BY <1>2 DEF GenerationSound, Idle
  <2> QED
    BY <1>1, <1>2, <2>1, LoopStep DEF GenerationType, GenerationOnly
<1>3. CASE ~(generation' = Idle /\ UNCHANGED published)
  <2> DEFINE n == Len(published)
  <2>1. /\ Extends(header) /\ published' = Append(published, header)
        /\ generation' = [at |-> "broadcast", header |-> header]
    BY <1>1, <1>3 DEF ExecuteOwn
  <2>2. /\ published \in Seq(Header) /\ n \in Nat /\ DOMAIN published = 1 .. n
        /\ failed \subseteq 1 .. n /\ n < MaxPublished
    BY <1>1 DEF IInv, TypeOK, GenerationSound
  <2>3. /\ published' \in Seq(Header) /\ Len(published') = n + 1
        /\ DOMAIN published' = 1 .. (n + 1) /\ published'[n + 1] = header
        /\ \A i \in 1 .. n : published'[i] = published[i]
    BY <1>1, <2>1, <2>2
  <2>4. /\ Covers(header.height, header.maxHeightPrevoted, header.maxHeightGenerated)
        /\ info = InfoOf(header) /\ info # None
    BY <1>1, HeaderTyped, NotNone DEF IInv, GenerationSound
  <2>5. header.height = tip.height + 1 /\ header.maxHeightPrevoted = tip.prevoted
        /\ header.previousBlockID = <<tip.branch, tip.height>>
    BY <2>1 DEF Extends, Id
  <2>6. \A i \in 1 .. n : published[i] \in Header
    BY <2>2
  <2> HIDE DEF n, header
  <2>7. TypeOK'
    <3>1. generation' \in GenerationType
      BY <1>1, <2>1 DEF GenerationType
    <3>2. failed \subseteq DOMAIN published' /\ Len(published') <= MaxPublished
      BY <2>2, <2>3, GeneratorAssumption
    <3> QED
      BY <1>1, <2>3, <3>1, <3>2 DEF IInv, TypeOK, GenerationType
  <2>8. PublishedSound'
    <3>1. /\ header.maxHeightGenerated <= header.height
          /\ header.height = header.previousBlockID[2] + 1
          /\ header.height <= info.height /\ header.maxHeightPrevoted <= info.maxHeightPrevoted
      BY <1>1, <2>4, <2>5, HeaderTyped DEF Covers, InfoOf
    <3>2. \A i \in 1 .. n :
          /\ published'[i].maxHeightGenerated <= published'[i].height
          /\ published'[i].height = published'[i].previousBlockID[2] + 1
          /\ published'[i].height <= info.height
          /\ i \notin failed => published'[i].maxHeightPrevoted <= info.maxHeightPrevoted
      BY <2>2, <2>3 DEF IInv, PublishedSound
    <3>3. \A i \in DOMAIN published' : i \in 1 .. n \/ i = n + 1
      BY <2>2, <2>3
    <3> QED
      BY <1>1, <2>3, <2>4, <3>1, <3>2, <3>3 DEF IInv, PublishedSound
  <2>9. OwnSound'
    <3>1. Range(published) \subseteq Range(published')
      BY <2>2, <2>3 DEF Range
    <3> QED
      BY <1>1, <3>1 DEF IInv, OwnSound
  <2>10. EnablingSound'
    BY <1>1 DEF IInv, EnablingSound, Reached
  <2>11. CaughtUp'
    <3>1. \A i \in 1 .. n : i \notin failed =>
            Reached(published[i].maxHeightPrevoted, published[i].height)
      BY <1>1, <2>2 DEF IInv, CaughtUp
    <3>2. \A i \in 1 .. n : i \notin failed =>
            Reached(published[i].maxHeightPrevoted, published[i].height)'
      BY <1>1, <2>3, <3>1 DEF Reached
    <3>3. \A i \in DOMAIN published' : i \in 1 .. n \/ i = Len(published')
      BY <2>2, <2>3
    <3> QED
      BY <1>1, <2>1, <3>2, <3>3 DEF CaughtUp
  <2>12. GenerationSound'
    BY <1>1, <2>1, <2>2, <2>3 DEF GenerationSound, Extends, Id
  <2>13. NeverContradictsItself'
    <3>1. ASSUME NEW i \in 1 .. n, i \notin failed
          PROVE  ~areDistinctHeadersContradicting(published[i], header)
      <4>1. Reached(published[i].maxHeightPrevoted, published[i].height)
        BY <1>1, <2>2, <3>1 DEF IInv, CaughtUp
      <4>2. /\ published[i].maxHeightGenerated <= published[i].height
            /\ published[i].height <= header.maxHeightGenerated
        BY <2>2, <2>4 DEF IInv, PublishedSound, Covers
      <4>3. published[i].maxHeightPrevoted \in Nat /\ published[i].height \in Nat
        BY <2>6, HeaderTyped
      <4>4. \/ published[i].maxHeightPrevoted < header.maxHeightPrevoted
            \/ /\ published[i].maxHeightPrevoted = header.maxHeightPrevoted
               /\ published[i].height < header.height
        BY <4>1, <4>3, <2>5, TipTyped DEF IInv, Reached
      <4> QED
        BY <1>1, <2>6, <4>2, <4>4, NotContradicting
    <3>2. ASSUME NEW i \in 1 .. n, NEW j \in 1 .. n, i < j, i \notin failed
          PROVE  ~areDistinctHeadersContradicting(published[i], published[j])
      BY <2>2, <3>2 DEF IInv, NeverContradictsItself
    <3>3. ASSUME NEW i \in DOMAIN published', NEW j \in DOMAIN published', i < j,
                 i \notin failed
          PROVE  ~areDistinctHeadersContradicting(published'[i], published'[j])
      <4>1. i \in 1 .. n /\ (j \in 1 .. n \/ j = n + 1)
        BY <2>2, <2>3, <3>3
      <4> QED
        BY <2>3, <3>1, <3>2, <3>3, <4>1
    <3> QED
      BY <1>1, <3>3 DEF NeverContradictsItself, areDistinctHeadersContradicting, ProducedBefore
  <2> QED
    BY <2>7, <2>8, <2>9, <2>10, <2>11, <2>12, <2>13 DEF IInv
<1> QED
  BY <1>2, <1>3

\* The chain reaches the block that was broadcast ...
LEMMA SaveOwnStep ==
    ASSUME IInv, SaveOwn
    PROVE  IInv'
<1> DEFINE header == generation.header
           n == Len(published)
<1>1. /\ generation.at = "broadcast" /\ header \in Header /\ generation' = Idle
      /\ UNCHANGED <<info, enabled, enabling, published, failed, up>>
  BY Shapes DEF IInv, SaveOwn, At
<1>2. PICK prevoted \in PrevotedNext : tip' = Extended(header, prevoted)
  BY DEF SaveOwn
<1>3. /\ n \in DOMAIN published /\ published[n] = header
      /\ header.height = tip.height + 1 /\ header.maxHeightPrevoted = tip.prevoted
  BY <1>1 DEF IInv, TypeOK, GenerationSound, Extends
<1>4. tip.height < MaxHeight
  BY <1>1, <1>3, TipTyped, GeneratorAssumption DEF IInv, Header, Heights
<1>5. /\ TipGoesOn /\ tip' \in TipType
      /\ tip'.maxHeightPrevoted <= tip'.prevoted /\ tip'.prevoted <= tip'.height
      /\ tip'.height = tip.height + 1 /\ tip'.maxHeightPrevoted = tip.prevoted
      /\ tip'.own = header
  BY <1>1, <1>2, <1>4, ExtendedTip DEF IInv
<1> HIDE DEF header, n
<1>6. TypeOK'
  BY <1>1, <1>5 DEF IInv, TypeOK
<1>7. PublishedSound'
  BY <1>1, <1>5, TipTyped DEF IInv, PublishedSound, TipGoesOn
<1>8. OwnSound'
  <2>1. header \in Range(published)
    BY <1>3 DEF Range
  <2> QED
    BY <1>1, <1>3, <1>5, <2>1, TipTyped DEF IInv, OwnSound
<1>9. EnablingSound'
  <2>1. enabling # None => /\ enabling.request.maxHeightPrevoted \in Nat
                           /\ enabling.request.height \in Nat
    BY HeightsAreNaturals DEF IInv, TypeOK, GeneratedInfo
  <2> QED
    BY <1>1, <1>5, <2>1, ReachedStays DEF IInv, EnablingSound
<1>10. CaughtUp'
  <2> SUFFICES ASSUME NEW i \in DOMAIN published \ failed
               PROVE  Reached(published[i].maxHeightPrevoted, published[i].height)'
    BY <1>1 DEF CaughtUp
  <2>1. CASE i = n
    BY <1>1, <1>3, <1>5, <2>1, TipTyped DEF IInv, Reached
  <2>2. CASE i # n
    <3>1. Reached(published[i].maxHeightPrevoted, published[i].height)
      BY <1>1, <2>2 DEF IInv, CaughtUp, n
    <3>2. published[i].maxHeightPrevoted \in Nat /\ published[i].height \in Nat
      BY TipTyped, HeaderTyped DEF IInv
    <3> QED
      BY <1>1, <1>5, <3>1, <3>2, ReachedStays DEF IInv
  <2> QED
    BY <2>1, <2>2
<1>11. GenerationSound' /\ NeverContradictsItself'
  BY <1>1 DEF IInv, GenerationSound, NeverContradictsItself, Idle
<1> QED
  BY <1>6, <1>7, <1>8, <1>9, <1>10, <1>11 DEF IInv

\* ... or the block counts as failed.
LEMMA FailOwnStep ==
    ASSUME IInv, FailOwn
    PROVE  IInv'
<1>1. /\ generation.at = "broadcast" /\ generation' = Idle
      /\ failed' = failed \cup {Len(published)}
      /\ UNCHANGED <<tip, info, enabled, enabling, published, up>>
  BY DEF FailOwn, At
<1>2. Len(published) \in DOMAIN published
  BY <1>1 DEF IInv, TypeOK, GenerationSound
<1>3. TypeOK'
  BY <1>1, <1>2 DEF IInv, TypeOK
<1>4. PublishedSound' /\ OwnSound'
  BY <1>1 DEF IInv, PublishedSound, OwnSound
<1>5. EnablingSound' /\ CaughtUp'
  BY <1>1 DEF IInv, EnablingSound, CaughtUp, Reached
<1>6. GenerationSound' /\ NeverContradictsItself'
  BY <1>1 DEF IInv, GenerationSound, NeverContradictsItself, Idle
<1> QED
  BY <1>3, <1>4, <1>5, <1>6 DEF IInv

(* ------------------------- enabling and restarts ----------------------- *)

\* What isSynced accepts, the chain has reached.
LEMMA UpdateStatusStep ==
    ASSUME IInv, UpdateStatus
    PROVE  IInv'
<1> DEFINE last == getOrDefaultLastGeneratedInfo
<1>1. /\ enabling' = [request |-> last] /\ isSynced(last)
      /\ UNCHANGED <<tip, info, enabled, generation, published, failed, up>>
  BY DEF UpdateStatus
<1>2. last \in GeneratedInfo
  BY InfoTyped DEF IInv
<1>3. last.height \in Nat /\ last.maxHeightPrevoted \in Nat
  BY <1>2, HeightsAreNaturals DEF GeneratedInfo
<1> HIDE DEF last
<1>4. Reached(last.maxHeightPrevoted, last.height)
  BY <1>1, <1>3, TipTyped DEF IInv, isSynced, Reached
<1>5. TypeOK'
  BY <1>1, <1>2 DEF IInv, TypeOK
<1>6. PublishedSound' /\ OwnSound' /\ NeverContradictsItself'
  BY <1>1 DEF IInv, PublishedSound, OwnSound, NeverContradictsItself
<1>7. EnablingSound'
  BY <1>1, <1>4 DEF EnablingSound, Reached
<1>8. CaughtUp'
  BY <1>1 DEF IInv, CaughtUp, Reached
<1>9. GenerationSound'
  BY <1>1 DEF IInv, GenerationSound, Covers, Extends, Id
<1> QED
  BY <1>5, <1>6, <1>7, <1>8, <1>9 DEF IInv

\* The keys are enabled when the info is still the one that isSynced accepted.
LEMMA UpdateStatusDoneStep ==
    ASSUME IInv, UpdateStatusDone
    PROVE  IInv'
<1>1. /\ enabling # None /\ enabling' = None
      /\ enabled' = (enabled \/ enabling.request = getOrDefaultLastGeneratedInfo)
      /\ UNCHANGED <<tip, info, generation, published, failed, up>>
  BY DEF UpdateStatusDone
<1>2. TypeOK'
  <2>1. enabled' \in BOOLEAN
    BY <1>1
  <2> QED
    BY <1>1, <2>1 DEF IInv, TypeOK
<1>3. PublishedSound' /\ OwnSound' /\ NeverContradictsItself' /\ EnablingSound'
  BY <1>1 DEF IInv, PublishedSound, OwnSound, NeverContradictsItself, EnablingSound
<1>4. CaughtUp'
  <2>1. CASE enabled \/ ~enabled'
    BY <1>1, <2>1 DEF IInv, CaughtUp, Reached
  <2>2. CASE enabling.request = getOrDefaultLastGeneratedInfo
    <3> SUFFICES ASSUME NEW i \in DOMAIN published \ failed
                 PROVE  Reached(published[i].maxHeightPrevoted, published[i].height)
      BY <1>1 DEF CaughtUp, Reached
    <3>1. /\ info # None /\ published[i].height <= info.height
          /\ published[i].maxHeightPrevoted <= info.maxHeightPrevoted
      BY DEF IInv, PublishedSound
    <3>2. Reached(info.maxHeightPrevoted, info.height)
      BY <1>1, <2>2, <3>1, InfoTyped DEF IInv, EnablingSound
    <3>3. published[i].maxHeightPrevoted \in Nat /\ published[i].height \in Nat
      BY TipTyped, HeaderTyped DEF IInv
    <3> QED
      BY <3>1, <3>2, <3>3, TipTyped DEF IInv, Reached
  <2> QED
    BY <1>1, <2>1, <2>2
<1>5. GenerationSound'
  BY <1>1 DEF IInv, GenerationSound, Covers, Extends, Id
<1> QED
  BY <1>2, <1>3, <1>4, <1>5 DEF IInv

\* The steps that take the keys away, and the start, which does not give them.
LEMMA DisabledStep ==
    ASSUME IInv, ~PlainKeys, DisableStatus \/ Crash \/ Start
    PROVE  IInv'
<1>1. /\ enabled' = FALSE /\ up' \in BOOLEAN /\ generation' \in {generation, Idle}
      /\ enabling' \in {enabling, None}
      /\ UNCHANGED <<tip, info, published, failed>>
  <2>1. CASE DisableStatus
    BY <2>1 DEF DisableStatus, IInv, TypeOK
  <2>2. CASE Crash
    BY <2>2 DEF Crash
  <2>3. CASE Start
    <3>1. PlainKeys = FALSE
      BY GeneratorAssumption
    <3> QED
      BY <2>3, <3>1 DEF Start
  <2> QED
    BY <2>1, <2>2, <2>3
<1>2. TypeOK'
  BY <1>1 DEF IInv, TypeOK
<1>3. PublishedSound' /\ OwnSound' /\ NeverContradictsItself'
  BY <1>1 DEF IInv, PublishedSound, OwnSound, NeverContradictsItself
<1>4. EnablingSound'
  BY <1>1 DEF IInv, EnablingSound, Reached
<1>5. CaughtUp'
  BY <1>1 DEF IInv, CaughtUp, Reached, Idle
<1>6. GenerationSound'
  BY <1>1 DEF IInv, GenerationSound, Covers, Extends, Id, Idle
<1> QED
  BY <1>2, <1>3, <1>4, <1>5, <1>6 DEF IInv

(* ------------------------------- theorems ------------------------------ *)

\* The strengthened invariant holds in every reachable state.
THEOREM Invariance ==
    ASSUME ~PlainKeys, ~LowerTips
    PROVE  Spec => []IInv
<1>1. Init => IInv
  <2> SUFFICES ASSUME Init PROVE IInv
    OBVIOUS
  <2>1. PICK b \in Branches : tip = [branch |-> b, height |-> 0, maxHeightPrevoted |-> 0,
                                      prevoted |-> 0, own |-> None]
    BY DEF Init
  <2>2. /\ info = None /\ enabled = FALSE /\ enabling = None /\ generation = Idle
        /\ published = << >> /\ failed = {} /\ up = TRUE
    BY GeneratorAssumption DEF Init
  <2>3. TypeOK
    <3>1. tip \in TipType
      BY <2>1, HeightsAreNaturals DEF TipType
    <3>2. published \in Seq(Header) /\ Len(published) <= MaxPublished
      BY <2>2, GeneratorAssumption
    <3>3. tip.maxHeightPrevoted <= tip.prevoted /\ tip.prevoted <= tip.height
      BY <2>1
    <3>4. failed \subseteq DOMAIN published /\ enabled \in BOOLEAN /\ up \in BOOLEAN
      BY <2>2, Zenon
    <3> QED
      BY <2>2, <3>1, <3>2, <3>3, <3>4 DEF TypeOK
  <2>4. PublishedSound /\ OwnSound /\ EnablingSound /\ NeverContradictsItself
    BY <2>1, <2>2 DEF PublishedSound, OwnSound, EnablingSound, NeverContradictsItself
  <2>5. CaughtUp /\ GenerationSound
    BY <2>2 DEF CaughtUp, GenerationSound, Idle
  <2> QED
    BY <2>3, <2>4, <2>5 DEF IInv
<1>2. IInv /\ [Next]_vars => IInv'
  <2> SUFFICES ASSUME IInv, [Next]_vars PROVE IInv'
    OBVIOUS
  <2>1. CASE UNCHANGED vars
    BY <2>1 DEF vars, IInv, TypeOK, PublishedSound, OwnSound, EnablingSound, CaughtUp,
                GenerationSound, NeverContradictsItself, Reached, Covers, Extends, Id
  <2>2. CASE ReceiveBlock \/ SwitchChain
    BY <2>2, ReceiveBlockStep, SwitchChainStep
  <2>3. CASE GenerateLoop \/ ReadHeights \/ CreateHeader \/ Abandon \/ PersistInfo
    BY <2>3, GenerateLoopStep, ReadHeightsStep, CreateHeaderStep, AbandonStep, PersistInfoStep
  <2>4. CASE ExecuteOwn \/ SaveOwn \/ FailOwn
    BY <2>4, ExecuteOwnStep, SaveOwnStep, FailOwnStep
  <2>5. CASE UpdateStatus \/ UpdateStatusDone \/ DisableStatus \/ Crash \/ Start
    BY <2>5, UpdateStatusStep, UpdateStatusDoneStep, DisabledStep
  <2> QED
    BY <2>1, <2>2, <2>3, <2>4, <2>5 DEF Next
<1> QED
  BY <1>1, <1>2, PTL DEF Spec

\* A validator never signs two headers that contradict each other, whatever
\* crashes, switches of chains and calls of updateStatus there are; only a block
\* its node failed to execute after the broadcast may be contradicted.
THEOREM NoContradiction ==
    ASSUME ~PlainKeys, ~LowerTips
    PROVE  Spec => []NeverContradictsItself
<1>1. IInv => NeverContradictsItself
  BY DEF IInv
<1> QED
  BY <1>1, Invariance, PTL

\* What setLastGeneratedInfo stored covers every block that was published and
\* executed, at every moment.
THEOREM InfoCovers ==
    ASSUME ~PlainKeys, ~LowerTips
    PROVE  Spec => []InfoCoversPublished
<1>1. IInv => InfoCoversPublished
  BY DEF IInv, PublishedSound, InfoCoversPublished
<1> QED
  BY <1>1, Invariance, PTL

\* A header for the tip is not refused as contradicting the node's own chain, even
\* when that chain has a block of the validator that the node failed to execute.
THEOREM OwnBlocksAccepted ==
    ASSUME ~PlainKeys, ~LowerTips
    PROVE  Spec => []OwnBlockAccepted
<1>1. IInv => OwnBlockAccepted
  <2> SUFFICES ASSUME IInv, generation.at = "execute", Extends(generation.header),
                      tip.own # None
               PROVE  ~areDistinctHeadersContradicting(tip.own, generation.header)
    BY DEF OwnBlockAccepted, ContradictsChain
  <2> DEFINE header == generation.header
  <2>1. header \in Header /\ header.height = tip.height + 1
        /\ header.maxHeightPrevoted = tip.prevoted
    BY Shapes DEF IInv, Extends
  <2>2. PICK i \in DOMAIN published : tip.own = published[i]
    BY DEF IInv, OwnSound, Range
  <2>3. tip.own \in Header /\ tip.own.height \in Nat /\ tip.own.maxHeightPrevoted \in Nat
    BY <2>2, TipTyped, HeaderTyped DEF IInv
  <2>4. /\ tip.own.maxHeightGenerated <= tip.own.height
        /\ tip.own.height <= header.maxHeightGenerated
    BY <2>2 DEF IInv, PublishedSound, GenerationSound, Covers
  <2>5. \/ tip.own.maxHeightPrevoted < header.maxHeightPrevoted
        \/ /\ tip.own.maxHeightPrevoted = header.maxHeightPrevoted
           /\ tip.own.height < header.height
    BY <2>1, <2>3, TipTyped DEF IInv, OwnSound
  <2> QED
    BY <2>1, <2>3, <2>4, <2>5, NotContradicting
<1> QED
  BY <1>1, Invariance, PTL
==============================================================================
