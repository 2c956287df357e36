------------------------------ MODULE PoSProofs ------------------------------
(***************************************************************************)
(* Theorems about PoS, for every set of addresses, every choice of stakes, *)
(* periods and windows, every number of active validators and cap, and     *)
(* every sequence of blocks: punished stakes stay locked, the eligible     *)
(* validators are exact, every round gets a list of validators that is     *)
(* sound, the stores never disagree, and what is locked covers what is     *)
(* staked, pending and claimable.                                          *)
(***************************************************************************)
EXTENDS PoS, TLAPS, FiniteSetTheorems, FunctionTheorems, WellFoundedInduction

(* ------------------------- the inductive invariant --------------------- *)

AppFields == {"ledger", "validators", "stakers", "eligible"}

ValidatorFields ==
    {"name", "total", "self", "lastGenerated", "banned", "reports", "missed", "commission",
     "increased", "coefficient"}

\* Reports are in order and a punishment window apart, and none is of a later block.
ReportsOK(reports, height) ==
    /\ reports \in Seq(Nat)
    /\ \A i \in 1 .. Len(reports) : reports[i] <= height
    /\ \A i \in 1 .. Len(reports), j \in 1 .. Len(reports) :
           i < j => reports[i] + PunishmentWindowSelf <= reports[j]

ValidatorOK(v, height) ==
    /\ DOMAIN v = ValidatorFields /\ v.banned \in BOOLEAN /\ ReportsOK(v.reports, height)
    /\ v.self \in Int /\ v.total \in Int

ValidatorsOK(validators, height) ==
    /\ DOMAIN validators \subseteq Address
    /\ \A a \in DOMAIN validators : ValidatorOK(validators[a], height)

\* A pending unlock counts at least once and is of a validator that exists.
UnlocksOK(unlocks, validators) ==
    \A u \in DOMAIN unlocks : unlocks[u] \in Nat /\ u.validator \in DOMAIN validators

StakersOK(stakers, validators) ==
    \A a \in DOMAIN stakers :
        /\ DOMAIN stakers[a] = {"stakes", "unlocks"} /\ IsFiniteSet(DOMAIN stakers[a].stakes)
        /\ UnlocksOK(stakers[a].unlocks, validators)

Listed(validators) ==
    {a \in DOMAIN validators : /\ ~validators[a].banned
                               /\ ~(getValidatorWeight(validators[a]) < MinWeightStandby)}

Keys(validators) == {<<getValidatorWeight(validators[a]), a>> : a \in Listed(validators)}

EligibleIs(validators, eligible) ==
    eligible = [k \in Keys(validators) |-> LastReport(validators[k[2]])]

AppOK(s, height) ==
    /\ DOMAIN s = AppFields
    /\ ValidatorsOK(s.validators, height) /\ StakersOK(s.stakers, s.validators)
    /\ EligibleIs(s.validators, s.eligible)

IInv ==
    /\ DOMAIN block = {"height", "slot", "previous", "roundSlot", "transactions"}
    /\ block.height \in Nat
    /\ AppOK(app, block.height)

\* No validator and no pending unlock of s is missing in t.
Kept(s, t) ==
    /\ DOMAIN s.validators \subseteq DOMAIN t.validators
    /\ DOMAIN s.stakers \subseteq DOMAIN t.stakers
    /\ \A a \in DOMAIN s.stakers : \A u \in DOMAIN s.stakers[a].unlocks :
           s.stakers[a].unlocks[u] <= Copies(u, t.stakers[a].unlocks)

(* -------------------------------- sums --------------------------------- *)

\* A nonempty set of naturals has a least element.
LEMMA LeastNatural ==
    ASSUME NEW S \in SUBSET Nat, S # {}
    PROVE  \E m \in S : \A n \in S : m <= n
<1> DEFINE R == {ss \in Nat \X Nat : ss[1] < ss[2]}
<1>1. IsWellFoundedOn(R, Nat)
  BY NatLessThanWellFounded, Zenon DEF OpToRel
<1> HIDE DEF R
<1>2. \E x \in S : \A y \in S : <<y, x>> \notin R
  BY <1>1, WFMin, Zenon
<1>3. \A x \in Nat, y \in Nat : <<y, x>> \notin R => x <= y
  BY DEF R
<1> QED
  BY <1>2, <1>3

AnyOf(s) == CHOOSE x \in s : TRUE

\* g sums f over the sets of C, which are closed under taking an element out.
Sums(g, f, C) ==
    g = [s \in C |-> IF s = {} THEN 0 ELSE f[AnyOf(s)] + g[s \ {AnyOf(s)}]]

\* What SumFunction denotes.
LEMMA SumUnfolded ==
    ASSUME NEW f
    PROVE  SumFunction(f) = (CHOOSE g : Sums(g, f, SUBSET DOMAIN f))[DOMAIN f]
  BY DEF SumFunction, SumFunctionOnSet, FoldFunctionOnSet, MapThenFoldSet, Sums, AnyOf

\* The subsets of a finite set have sums.
LEMMA SumsExist ==
    ASSUME NEW f, NEW S, IsFiniteSet(S)
    PROVE  \E g : Sums(g, f, SUBSET S)
<1> DEFINE Small(n) == {s \in SUBSET S : Cardinality(s) <= n}
           bad == {n \in Nat : ~\E g : Sums(g, f, Small(n))}
<1>1. \A s \in SUBSET S :
          IsFiniteSet(s) /\ Cardinality(s) \in Nat /\ Cardinality(s) <= Cardinality(S)
  BY FS_Subset, FS_CardinalityType
<1>2. Cardinality(S) \in Nat /\ Small(Cardinality(S)) = SUBSET S
  BY <1>1
<1>3. \A s \in SUBSET S : s # {} =>
          /\ AnyOf(s) \in s /\ s \ {AnyOf(s)} \in SUBSET S
          /\ Cardinality(s \ {AnyOf(s)}) = Cardinality(s) - 1
  <2> TAKE s \in SUBSET S
  <2> HAVE s # {}
  <2>1. AnyOf(s) \in s
    BY DEF AnyOf
  <2> QED
    BY <2>1, <1>1, FS_RemoveElement
<1>4. bad = {}
  <2> SUFFICES ASSUME bad # {} PROVE FALSE
    OBVIOUS
  <2>1. PICK m \in bad : \A n \in bad : m <= n
    <3>1. bad \in SUBSET Nat
      OBVIOUS
    <3> HIDE DEF bad
    <3> QED
      BY <3>1, LeastNatural
  <2>2. m \in Nat /\ ~\E g : Sums(g, f, Small(m))
    BY <2>1
  <2>3. m # 0
    <3> SUFFICES ASSUME m = 0 PROVE FALSE
      OBVIOUS
    <3>1. \A s \in Small(0) : s = {}
      BY <1>1, FS_EmptySet
    <3>2. Sums([s \in Small(0) |-> 0], f, Small(0))
      BY <3>1 DEF Sums
    <3> QED
      BY <3>2, <2>2
  <2>4. m - 1 \in Nat /\ m - 1 \notin bad
    <3>1. m - 1 \in Nat /\ ~(m <= m - 1)
      BY <2>2, <2>3
    <3> HIDE DEF bad
    <3> QED
      BY <3>1, <2>1
  <2>5. PICK g : Sums(g, f, Small(m - 1))
    BY <2>4
  <2> DEFINE h == [s \in Small(m) |-> IF s = {} THEN 0
                     ELSE f[AnyOf(s)] + g[s \ {AnyOf(s)}]]
  <2>6. \A s \in Small(m - 1) : s \in Small(m) /\ h[s] = g[s]
    <3> TAKE s \in Small(m - 1)
    <3>1. s \in Small(m)
      BY <1>1, <2>2
    <3>2. g[s] = IF s = {} THEN 0 ELSE f[AnyOf(s)] + g[s \ {AnyOf(s)}]
      BY <2>5 DEF Sums
    <3> QED
      BY <3>1, <3>2
  <2>7. \A s \in Small(m) : s # {} => s \ {AnyOf(s)} \in Small(m - 1)
    BY <1>1, <1>3, <2>2
  <2>8. \A s \in Small(m) : h[s] = IF s = {} THEN 0 ELSE f[AnyOf(s)] + h[s \ {AnyOf(s)}]
    <3> TAKE s \in Small(m)
    <3>1. h[s] = IF s = {} THEN 0 ELSE f[AnyOf(s)] + g[s \ {AnyOf(s)}]
      OBVIOUS
    <3>2. s # {} => h[s \ {AnyOf(s)}] = g[s \ {AnyOf(s)}]
      BY <2>6, <2>7
    <3> HIDE DEF h
    <3> QED
      BY <3>1, <3>2
  <2>9. Sums(h, f, Small(m))
    <3>1. h = [s \in Small(m) |-> h[s]]
      OBVIOUS
    <3> HIDE DEF h, Small
    <3> QED
      BY <2>8, <3>1 DEF Sums
  <2> QED
    BY <2>9, <2>2
<1> QED
  BY <1>2, <1>4

\* A sum of naturals is a natural, no smaller than any of them, and no smaller than
\* their number if they are positive.
LEMMA SumOfNaturals ==
    ASSUME NEW f, IsFiniteSet(DOMAIN f), \A y \in DOMAIN f : f[y] \in Nat
    PROVE  /\ SumFunction(f) \in Nat /\ \A x \in DOMAIN f : f[x] <= SumFunction(f)
           /\ (\A x \in DOMAIN f : f[x] >= 1) => Cardinality(DOMAIN f) <= SumFunction(f)
<1> DEFINE S == DOMAIN f
           g == CHOOSE c : Sums(c, f, SUBSET S)
           positive == \A x \in S : f[x] >= 1
           Good(s) == /\ g[s] \in Nat /\ \A x \in s : f[x] <= g[s]
                      /\ positive => Cardinality(s) <= g[s]
           bad == {n \in Nat : \E s \in SUBSET S : Cardinality(s) = n /\ ~Good(s)}
<1>1. SumFunction(f) = g[S]
  BY SumUnfolded
<1>2. Sums(g, f, SUBSET S)
  BY SumsExist
<1> HIDE DEF g
<1>3. \A s \in SUBSET S : g[s] = IF s = {} THEN 0 ELSE f[AnyOf(s)] + g[s \ {AnyOf(s)}]
  BY <1>2 DEF Sums
<1>4. \A s \in SUBSET S : IsFiniteSet(s) /\ Cardinality(s) \in Nat
  BY FS_Subset, FS_CardinalityType
<1>5. bad = {}
  <2> SUFFICES ASSUME bad # {} PROVE FALSE
    OBVIOUS
  <2>1. PICK m \in bad : \A n \in bad : m <= n
    <3>1. bad \in SUBSET Nat
      OBVIOUS
    <3> HIDE DEF bad
    <3> QED
      BY <3>1, LeastNatural
  <2>2. PICK s \in SUBSET S : Cardinality(s) = m /\ ~Good(s)
    BY <2>1
  <2>3. s # {} /\ AnyOf(s) \in s
    <3>1. Good({})
      <4>1. {} \in SUBSET S
        OBVIOUS
      <4>2. g[{}] = 0
        BY <1>3, <4>1
      <4>3. Cardinality({}) = 0
        BY FS_EmptySet
      <4> HIDE DEF positive
      <4> QED
        BY <4>2, <4>3
    <3>2. s # {}
      BY <2>2, <3>1
    <3> QED
      BY <3>2 DEF AnyOf
  <2> DEFINE y == AnyOf(s)
             t == s \ {y}
  <2>4. t \in SUBSET S /\ Cardinality(t) = m - 1 /\ m \in Nat /\ Cardinality(t) \in Nat
    BY <2>2, <2>3, <1>4, FS_RemoveElement
  <2>5. Cardinality(t) \notin bad
    <3> HIDE DEF bad, t
    <3> QED
      BY <2>1, <2>4
  <2>6. Good(t)
    BY <2>4, <2>5
  <2>7. g[s] = f[y] + g[t] /\ f[y] \in Nat /\ g[t] \in Nat /\ \A x \in s : x = y \/ x \in t
    BY <1>3, <2>3, <2>6
  <2>8. \A x \in t : f[x] \in Nat /\ f[x] <= g[t]
    BY <2>6
  <2>9. positive => f[y] >= 1 /\ Cardinality(t) <= g[t]
    BY <2>3, <2>6
  <2> HIDE DEF t, y, positive
  <2>10. positive => Cardinality(s) <= g[s]
    BY <2>2, <2>4, <2>7, <2>9
  <2>11. Good(s)
    BY <2>7, <2>8, <2>10
  <2> QED
    BY <2>2, <2>11
<1>6. Good(S)
  <2> HIDE DEF Good
  <2> QED
    BY <1>4, <1>5
<1> QED
  BY <1>1, <1>6

(* ------------------------------- sorting ------------------------------- *)

\* A one to one function between finite sets of the same size reaches every element.
LEMMA OneToOneIsOnto ==
    ASSUME NEW S, NEW T, IsFiniteSet(S), IsFiniteSet(T), Cardinality(S) = Cardinality(T),
           NEW f \in [S -> T], \A x \in S, y \in S : f[x] = f[y] => x = y
    PROVE  \A y \in T : \E x \in S : f[x] = y
<1> SUFFICES ASSUME NEW y \in T, \A x \in S : f[x] # y PROVE FALSE
  OBVIOUS
<1> DEFINE U == T \ {y}
<1>1. IsFiniteSet(U) /\ Cardinality(U) = Cardinality(T) - 1 /\ Cardinality(T) \in Nat
  BY FS_RemoveElement, FS_CardinalityType
<1>2. f \in [S -> U]
  OBVIOUS
<1> HIDE DEF U
<1>3. Cardinality(U) < Cardinality(S)
  BY <1>1
<1> QED
  BY <1>1, <1>2, <1>3, FS_PigeonHole

\* A list of the elements of a finite set has every element.
LEMMA SeqsHaveAll ==
    ASSUME NEW S, IsFiniteSet(S), NEW o \in SetToSeqs(S)
    PROVE  /\ o \in [1 .. Cardinality(S) -> S] /\ Cardinality(S) \in Nat /\ o \in Seq(S)
           /\ \A i, j \in DOMAIN o : o[i] = o[j] => i = j
           /\ \A x \in S : \E i \in DOMAIN o : o[i] = x
<1> DEFINE n == Cardinality(S)
<1>1. n \in Nat
  BY FS_CardinalityType
<1>2. o \in [1 .. n -> S] /\ \A i, j \in 1 .. n : i # j => o[i] # o[j]
  BY DEF SetToSeqs
<1>3. IsFiniteSet(1 .. n) /\ Cardinality(1 .. n) = n
  BY <1>1, FS_Interval
<1>4. \A x \in S : \E i \in 1 .. n : o[i] = x
  <2> DEFINE I == 1 .. n
  <2>1. \A i \in I, j \in I : o[i] = o[j] => i = j
    BY <1>2
  <2>2. IsFiniteSet(I) /\ Cardinality(I) = Cardinality(S) /\ o \in [I -> S]
    BY <1>2, <1>3
  <2> HIDE DEF I
  <2>3. \A x \in S : \E i \in I : o[i] = x
    BY <2>1, <2>2, OneToOneIsOnto
  <2> QED
    BY <2>3 DEF I
<1> HIDE DEF n
<1>5. o \in Seq(S)
  BY <1>1, <1>2
<1> QED
  BY <1>1, <1>2, <1>4, <1>5 DEF n

\* A finite set can be sorted by a strict total order.
LEMMA SortedIsSorted ==
    ASSUME NEW S, IsFiniteSet(S), NEW R,
           \A a, b \in S : a # b => <<a, b>> \in R \/ <<b, a>> \in R,
           \A a, b, c \in S : <<a, b>> \in R /\ <<b, c>> \in R => <<a, c>> \in R,
           \A a \in S : <<a, a>> \notin R
    PROVE  Sorted(S, R) \in SetToSeqs(S)
<1> DEFINE n == Cardinality(S)
           Before(a) == {b \in S : <<b, a>> \in R}
           rank == [a \in S |-> Cardinality(Before(a)) + 1]
<1>1. n \in Nat /\ IsFiniteSet(1 .. n) /\ Cardinality(1 .. n) = n
  BY FS_CardinalityType, FS_Interval
<1>2. \A a \in S : IsFiniteSet(Before(a)) /\ Cardinality(Before(a)) \in Nat
  BY FS_Subset, FS_CardinalityType
<1>3. ASSUME NEW a \in S, NEW T, T \subseteq S, IsFiniteSet(T), Before(a) \subseteq T \ {a}, a \in T
      PROVE  Cardinality(Before(a)) + 1 <= Cardinality(T)
  <2>1. IsFiniteSet(T \ {a}) /\ Cardinality(T \ {a}) = Cardinality(T) - 1
    BY <1>3, FS_RemoveElement
  <2> HIDE DEF Before
  <2>2. Cardinality(Before(a)) <= Cardinality(T \ {a})
    BY <1>3, <2>1, FS_Subset
  <2>3. Cardinality(Before(a)) \in Nat /\ Cardinality(T) \in Nat
    BY <1>2, <1>3, FS_CardinalityType
  <2> QED
    BY <2>1, <2>2, <2>3
<1>4. \A a \in S : rank[a] \in 1 .. n
  <2> TAKE a \in S
  <2>1. Before(a) \subseteq S \ {a}
    OBVIOUS
  <2> HIDE DEF Before
  <2>2. Cardinality(Before(a)) + 1 <= n
    BY <1>3, <2>1
  <2> HIDE DEF n
  <2> QED
    BY <1>1, <1>2, <2>2
<1>5. \A a, b \in S : <<a, b>> \in R => rank[a] < rank[b]
  <2> SUFFICES ASSUME NEW a \in S, NEW b \in S, <<a, b>> \in R PROVE rank[a] < rank[b]
    OBVIOUS
  <2>1. Before(a) \subseteq Before(b) \ {a} /\ a \in Before(b) /\ Before(b) \subseteq S
    OBVIOUS
  <2>2. IsFiniteSet(Before(b))
    BY <1>2
  <2>3. rank[a] = Cardinality(Before(a)) + 1 /\ rank[b] = Cardinality(Before(b)) + 1
    OBVIOUS
  <2> HIDE DEF Before, rank
  <2>4. Cardinality(Before(a)) + 1 <= Cardinality(Before(b))
    BY <1>3, <2>1, <2>2
  <2> QED
    BY <1>2, <2>3, <2>4
<1>6. rank \in [S -> 1 .. n]
  BY <1>4
<1> HIDE DEF rank, Before
<1>7. \A a \in S, b \in S : rank[a] = rank[b] => a = b
  <2> SUFFICES ASSUME NEW a \in S, NEW b \in S, a # b PROVE rank[a] # rank[b]
    OBVIOUS
  <2>1. rank[a] < rank[b] \/ rank[b] < rank[a]
    BY <1>5
  <2>2. rank[a] \in 1 .. n /\ rank[b] \in 1 .. n
    BY <1>4
  <2> QED
    BY <1>1, <2>1, <2>2
<1>8. \A k \in 1 .. n : \E a \in S : rank[a] = k
  <2> DEFINE I == 1 .. n
  <2>1. Cardinality(S) = Cardinality(I) /\ IsFiniteSet(I) /\ rank \in [S -> I]
    BY <1>1, <1>6
  <2> HIDE DEF I
  <2>2. \A k \in I : \E a \in S : rank[a] = k
    BY <2>1, <1>7, OneToOneIsOnto
  <2> QED
    BY <2>2 DEF I
<1> HIDE DEF n
<1> DEFINE o == [k \in 1 .. n |-> CHOOSE a \in S : rank[a] = k]
<1>9. o \in [1 .. n -> S] /\ \A k \in 1 .. n : rank[o[k]] = k
  BY <1>8
<1> HIDE DEF o
<1>10. o \in SetToSeqs(S)
  BY <1>9 DEF SetToSeqs, n
<1>11. \A i, j \in DOMAIN o : i < j => <<o[i], o[j]>> \in R
  <2> SUFFICES ASSUME NEW i \in 1 .. n, NEW j \in 1 .. n, i < j PROVE <<o[i], o[j]>> \in R
    BY <1>9
  <2>1. o[i] \in S /\ o[j] \in S /\ rank[o[i]] < rank[o[j]]
    BY <1>9
  <2>2. o[i] # o[j] /\ ~(rank[o[j]] < rank[o[i]])
    BY <1>9
  <2> QED
    BY <1>5, <2>1, <2>2
<1> QED
  BY <1>10, <1>11 DEF Sorted

(* --------------------------- lists of validators ----------------------- *)

\* A list of distinct validators of D that have a weight of low or more.
ListOK(s, D, low) ==
    /\ s \in Seq([address : D, weight : Nat])
    /\ \A i \in DOMAIN s : s[i].weight >= low
    /\ \A i, j \in DOMAIN s : s[i].address = s[j].address => i = j

\* The members of a list.
LEMMA MemberOK ==
    ASSUME NEW D, NEW s \in Seq([address : D, weight : Nat]), NEW i \in DOMAIN s
    PROVE  s[i] \in [address : D, weight : Nat] /\ s[i].address \in D /\ s[i].weight \in Nat
<1> DEFINE X == [address : D, weight : Nat]
<1>1. s \in Seq(X)
  OBVIOUS
<1> HIDE DEF X
<1>2. s[i] \in X
  BY <1>1
<1> QED
  BY <1>2 DEF X

\* Somebody in the list has a weight.
HasWeight(s) == \E i \in DOMAIN s : s[i].weight > 0

\* The smaller of two numbers.
LEMMA MinOfTwo ==
    ASSUME NEW a \in Int, NEW b \in Int
    PROVE  Min({a, b}) = (IF a <= b THEN a ELSE b) /\ Min({a, b}) \in Int
<1> DEFINE m == IF a <= b THEN a ELSE b
<1>1. m \in {a, b} /\ \A y \in {a, b} : m =< y
  OBVIOUS
<1>2. \A x \in {a, b} : (\A y \in {a, b} : x =< y) => x = m
  OBVIOUS
<1> HIDE DEF m
<1>3. Min({a, b}) = m
  BY <1>1, <1>2 DEF Min
<1> QED
  BY <1>1, <1>3 DEF m

\* The largest of finitely many positive numbers.
LEMMA MaxExists ==
    ASSUME NEW n \in Int, NEW S \in SUBSET (1 .. n), S # {}
    PROVE  Max(S) \in S
<1> DEFINE T == {n - x : x \in S}
<1>1. T \in SUBSET Nat /\ T # {}
  OBVIOUS
<1> HIDE DEF T
<1>2. PICK m \in T : \A k \in T : m <= k
  BY <1>1, LeastNatural
<1>3. PICK x \in S : m = n - x
  BY DEF T
<1>4. \A y \in S : n - x <= n - y
  BY <1>2, <1>3 DEF T
<1>5. \A y \in S : x >= y
  BY <1>4
<1> QED
  BY <1>5 DEF Max

\* The first n of a list.
LEMMA TakeOK ==
    ASSUME NEW X, NEW s \in Seq(X), NEW n \in Nat
    PROVE  /\ Take(s, n) \in Seq(X) /\ Len(Take(s, n)) = IF n <= Len(s) THEN n ELSE Len(s)
           /\ DOMAIN Take(s, n) \subseteq DOMAIN s
           /\ \A i \in DOMAIN Take(s, n) : Take(s, n)[i] = s[i]
<1> DEFINE m == Min({n, Len(s)})
<1>1. m = (IF n <= Len(s) THEN n ELSE Len(s)) /\ m \in 0 .. Len(s)
  BY MinOfTwo
<1>2. Take(s, n) = SubSeq(s, 1, m)
  BY DEF Take
<1> HIDE DEF m
<1> QED
  BY <1>1, <1>2

\* Division by a positive number, rounded up.
LEMMA CeilingOK ==
    ASSUME NEW x \in Nat, NEW y \in Nat \ {0}
    PROVE  /\ Ceiling(x, y) \in Nat /\ (x >= 1 => Ceiling(x, y) >= 1)
           /\ (Ceiling(x, y) - 1) * y < x /\ x <= Ceiling(x, y) * y
<1> DEFINE q == (x + y - 1) \div y
<1>1. q \in Int /\ q * y <= x + y - 1 /\ x + y - 1 < (q + 1) * y
  OBVIOUS
<1>2. Ceiling(x, y) = q
  BY DEF Ceiling
<1> HIDE DEF q
<1>3. (q - 1) * y = q * y - y /\ (q + 1) * y = q * y + y
  BY <1>1
<1>4. q * y \in Int
  BY <1>1
<1>5. q >= 0
  <2> SUFFICES ASSUME q <= -1 PROVE FALSE
    BY <1>1
  <2>1. (q + 1) * y <= 0
    BY <1>1
  <2> QED
    BY <1>1, <2>1
<1>6. x >= 1 => q >= 1
  <2> SUFFICES ASSUME x >= 1, q = 0 PROVE FALSE
    BY <1>1, <1>5
  <2>1. (q + 1) * y = y
    OBVIOUS
  <2> QED
    BY <1>1, <2>1
<1>7. (q - 1) * y < x /\ x <= q * y
  BY <1>1, <1>3, <1>4
<1> QED
  BY <1>1, <1>2, <1>5, <1>6, <1>7

\* The scaled weights of a snapshot.
LEMMA ScaledOK ==
    ASSUME NEW D, NEW s, ListOK(s, D, 1)
    PROVE  ListOK(Scaled(s), D, 1) /\ Len(Scaled(s)) = Len(s)
<1> DEFINE t == Scaled(s)
<1>1. s \in Seq([address : D, weight : Nat]) /\ \A i \in DOMAIN s : s[i].weight >= 1
  BY DEF ListOK
<1>2. DOMAIN t = 1 .. Len(s) /\ \A i \in 1 .. Len(s) :
          t[i] = [address |-> s[i].address, weight |-> Ceiling(s[i].weight, ScaleFactor)]
  BY <1>1 DEF Scaled, Validator
<1>3. \A i \in 1 .. Len(s) :
          Ceiling(s[i].weight, ScaleFactor) \in Nat /\ Ceiling(s[i].weight, ScaleFactor) >= 1
  <2> TAKE i \in 1 .. Len(s)
  <2>1. s[i].weight \in Nat /\ s[i].weight >= 1
    BY <1>1, MemberOK
  <2>2. ScaleFactor \in Nat \ {0}
    BY SelectionAssumption
  <2> QED
    BY <2>1, <2>2, CeilingOK
<1>4. t = [i \in 1 .. Len(s) |-> t[i]]
  BY <1>1 DEF Scaled
<1> HIDE DEF t
<1>5. \A i \in 1 .. Len(s) : /\ t[i] \in [address : D, weight : Nat] /\ t[i].weight >= 1
                             /\ t[i].address = s[i].address
  <2> TAKE i \in 1 .. Len(s)
  <2>1. s[i].address \in D
    BY <1>1, MemberOK
  <2> QED
    BY <2>1, <1>2, <1>3
<1>6. t \in Seq([address : D, weight : Nat]) /\ Len(t) = Len(s)
  <2>1. Len(s) \in Nat
    BY <1>1
  <2> QED
    BY <1>4, <1>5, <2>1
<1> QED
  BY <1>1, <1>2, <1>5, <1>6, SMTT(60) DEF ListOK, t

\* A part of a list at its beginning.
LEMMA FirstOK ==
    ASSUME NEW D, NEW s, NEW low \in Nat, ListOK(s, D, low), NEW n \in Nat
    PROVE  ListOK(Take(s, n), D, low) /\ (Take(s, n) = <<>> => n = 0 \/ s = <<>>)
<1>1. s \in Seq([address : D, weight : Nat])
  BY DEF ListOK
<1>2. /\ Take(s, n) \in Seq([address : D, weight : Nat])
      /\ Len(Take(s, n)) = IF n <= Len(s) THEN n ELSE Len(s)
      /\ DOMAIN Take(s, n) \subseteq DOMAIN s
      /\ \A i \in DOMAIN Take(s, n) : Take(s, n)[i] = s[i]
  BY <1>1, TakeOK
<1>3. Take(s, n) = <<>> => n = 0 \/ s = <<>>
  BY <1>1, <1>2
<1> QED
  BY <1>2, <1>3 DEF ListOK

\* The sum of the weights of a list.
LEMMA TotalOK ==
    ASSUME NEW D, NEW s \in Seq([address : D, weight : Nat])
    PROVE  /\ TotalWeight(s) \in Nat /\ \A i \in DOMAIN s : s[i].weight <= TotalWeight(s)
           /\ (\A i \in DOMAIN s : s[i].weight >= 1) => Len(s) <= TotalWeight(s)
<1> DEFINE f == [i \in DOMAIN s |-> s[i].weight]
<1>1. DOMAIN f = DOMAIN s /\ \A i \in DOMAIN f : f[i] = s[i].weight /\ f[i] \in Nat
  BY MemberOK
<1>2. IsFiniteSet(DOMAIN f) /\ Cardinality(DOMAIN f) = Len(s)
  <2>1. DOMAIN f = 1 .. Len(s) /\ Len(s) \in Nat
    OBVIOUS
  <2> QED
    BY <2>1, FS_Interval, SMTT(60)
<1>3. TotalWeight(s) = SumFunction(f)
  BY DEF TotalWeight
<1> HIDE DEF f
<1> QED
  BY <1>1, <1>2, <1>3, SumOfNaturals

\* The capped weight is a natural: fewer validators are capped than would divide by 0.
LEMMA CappedWeightOK ==
    ASSUME NEW D, NEW s \in Seq([address : D, weight : Nat]), NEW i \in 1 .. MaxCappedElements
    PROVE  CappedWeight(s, i) \in Nat
<1>1. /\ Percent \in Nat \ {0} /\ MaxCap = Percent * Percent /\ WeightCap \in Nat \ {0}
      /\ MaxCap \in Nat
  BY SelectionAssumption
<1> DEFINE rest == SubSeq(s, i + 1, Len(s))
           c == Ceiling(MaxCap, WeightCap)
<1>2. c \in Nat /\ (c - 1) * WeightCap < MaxCap
  BY <1>1, CeilingOK
<1>3. i \in Nat /\ i <= c - 1
  BY <1>2 DEF MaxCappedElements
<1> HIDE DEF c
<1>4. WeightCap * i < MaxCap
  <2>1. (c - 1 - i) * WeightCap >= 0
    BY <1>1, <1>2, <1>3
  <2>2. (c - 1 - i) * WeightCap = (c - 1) * WeightCap - WeightCap * i
    BY <1>1, <1>2, <1>3
  <2>3. (c - 1) * WeightCap \in Int /\ WeightCap * i \in Int
    BY <1>1, <1>2, <1>3
  <2> QED
    BY <1>1, <1>2, <2>1, <2>2, <2>3
<1>5. (WeightCap * i) \div Percent < Percent /\ (WeightCap * i) \div Percent \in Nat
  <2> DEFINE n == WeightCap * i
             q == n \div Percent
  <2>1. n \in Nat /\ n < Percent * Percent
    BY <1>1, <1>3, <1>4
  <2> HIDE DEF n
  <2>2. q \in Int /\ q * Percent <= n /\ n < (q + 1) * Percent
    BY <1>1, <2>1
  <2> HIDE DEF q
  <2>3. q < Percent
    <3> SUFFICES ASSUME q >= Percent PROVE FALSE
      BY <1>1, <2>2
    <3>1. (q - Percent) * Percent >= 0
      BY <1>1, <2>2
    <3>2. (q - Percent) * Percent = q * Percent - Percent * Percent
      BY <1>1, <2>2
    <3>3. q * Percent \in Int /\ Percent * Percent \in Int
      BY <1>1, <2>2
    <3> QED
      BY <2>1, <2>2, <3>1, <3>2, <3>3
  <2>4. q >= 0
    <3> SUFFICES ASSUME q + 1 <= 0 PROVE FALSE
      BY <2>2
    <3>1. (q + 1) * Percent <= 0
      BY <1>1, <2>2
    <3>2. (q + 1) * Percent \in Int
      BY <1>1, <2>2
    <3> QED
      BY <2>1, <2>2, <3>1, <3>2
  <2> QED
    BY <2>2, <2>3, <2>4 DEF q, n
<1>6. rest \in Seq([address : D, weight : Nat])
  <2>1. \A j \in i + 1 .. Len(s) : s[j] \in [address : D, weight : Nat]
    BY <1>3, MemberOK
  <2> QED
    BY <1>3, <2>1
<1>7. TotalWeight(rest) \in Nat
  BY <1>6, TotalOK
<1>8. \A x \in Nat, y \in Nat \ {0} : x \div y \in Nat
  OBVIOUS
<1> DEFINE a == (WeightCap * TotalWeight(rest)) \div Percent
           b == Percent - (WeightCap * i) \div Percent
<1>9. a \in Nat
  <2>1. WeightCap * TotalWeight(rest) \in Nat
    BY <1>1, <1>7
  <2> QED
    BY <2>1, <1>1, <1>8
<1>10. b \in Nat \ {0}
  BY <1>1, <1>5
<1>11. CappedWeight(s, i) = a \div b
  BY DEF CappedWeight
<1> HIDE DEF a, b
<1> QED
  BY <1>8, <1>9, <1>10, <1>11

\* A function on 1 .. n that is a list.
LEMMA MakeList ==
    ASSUME NEW D, NEW n \in Nat, NEW low \in Nat, NEW t, t = [i \in 1 .. n |-> t[i]],
           \A i \in 1 .. n : t[i] \in [address : D, weight : Nat] /\ t[i].weight >= low,
           \A i, j \in 1 .. n : t[i].address = t[j].address => i = j
    PROVE  ListOK(t, D, low) /\ Len(t) = n /\ DOMAIN t = 1 .. n
<1> DEFINE X == [address : D, weight : Nat]
<1>1. \A i \in 1 .. n : t[i] \in X
  OBVIOUS
<1> HIDE DEF X
<1>2. t \in Seq(X) /\ Len(t) = n /\ DOMAIN t = 1 .. n
  BY <1>1
<1> QED
  BY <1>2 DEF ListOK, X

\* A list with weights, at least one of which is not reduced by the cap.
LEMMA CapOK ==
    ASSUME NEW D, NEW s, ListOK(s, D, 1)
    PROVE  /\ ListOK(capWeightIfNeeded(s), D, 0) /\ Len(capWeightIfNeeded(s)) = Len(s)
           /\ s # <<>> => HasWeight(capWeightIfNeeded(s))
<1> DEFINE t       == capWeightIfNeeded(s)
           binding == {i \in 1 .. MaxCappedElements : CappedWeight(s, i) < s[i].weight}
           m       == Max(binding)
           w       == CappedWeight(s, m)
<1>1. /\ s \in Seq([address : D, weight : Nat]) /\ \A i \in DOMAIN s : s[i].weight >= 1
      /\ \A i, j \in DOMAIN s : s[i].address = s[j].address => i = j
  BY DEF ListOK
<1>2. Len(s) \in Nat /\ DOMAIN s = 1 .. Len(s) /\ (s # <<>> => Len(s) >= 1)
  BY <1>1
<1>3. MaxCappedElements \in Int
  <2>1. MaxCap \in Nat /\ WeightCap \in Nat \ {0}
    BY SelectionAssumption
  <2> QED
    BY <2>1, CeilingOK DEF MaxCappedElements
<1>4. CASE Len(s) <= MaxCappedElements \/ binding = {}
  <2>1. t = s
    BY <1>4 DEF capWeightIfNeeded
  <2>2. ListOK(s, D, 0)
    BY <1>1, MemberOK DEF ListOK
  <2>3. s # <<>> => HasWeight(s)
    <3> SUFFICES ASSUME s # <<>> PROVE HasWeight(s)
      OBVIOUS
    <3>1. 1 \in DOMAIN s
      BY <1>2
    <3>2. s[1].weight \in Nat /\ s[1].weight >= 1
      BY <1>1, <3>1, MemberOK
    <3> QED
      BY <3>1, <3>2 DEF HasWeight
  <2> QED
    BY <2>1, <2>2, <2>3
<1>5. CASE ~(Len(s) <= MaxCappedElements \/ binding = {})
  <2>1. t = [i \in DOMAIN s |-> IF i <= m THEN Validator(s[i].address, w) ELSE s[i]]
    BY <1>5 DEF capWeightIfNeeded
  <2>2. binding \in SUBSET (1 .. MaxCappedElements) /\ binding # {}
    BY <1>5
  <2> HIDE DEF binding
  <2>3. m \in 1 .. MaxCappedElements
    BY <1>3, <2>2, MaxExists
  <2>4. w \in Nat
    BY <1>1, <2>3, CappedWeightOK
  <2> HIDE DEF m, w
  <2>5. m \in Nat /\ m < Len(s)
    BY <1>2, <1>3, <1>5, <2>3
  <2> HIDE DEF t
  <2>6. \A i \in 1 .. Len(s) : /\ t[i] \in [address : D, weight : Nat] /\ t[i].weight >= 0
                               /\ t[i].address = s[i].address
    <3> TAKE i \in 1 .. Len(s)
    <3>1. s[i] \in [address : D, weight : Nat] /\ s[i].address \in D /\ s[i].weight \in Nat
      BY <1>1, <1>2, MemberOK
    <3>2. t[i] = IF i <= m THEN Validator(s[i].address, w) ELSE s[i]
      BY <1>2, <2>1
    <3> QED
      BY <3>1, <3>2, <2>4 DEF Validator
  <2>7. t = [i \in 1 .. Len(s) |-> t[i]]
    BY <1>2, <2>1
  <2>8. \A i, j \in 1 .. Len(s) : t[i].address = t[j].address => i = j
    BY <1>1, <1>2, <2>6
  <2>9. ListOK(t, D, 0) /\ Len(t) = Len(s) /\ DOMAIN t = 1 .. Len(s)
    BY <1>2, <2>6, <2>7, <2>8, MakeList
  <2>10. HasWeight(t)
    <3>1. Len(s) \in DOMAIN s /\ ~(Len(s) <= m)
      BY <1>2, <2>5
    <3>2. t[Len(s)] = s[Len(s)]
      BY <2>1, <3>1
    <3>3. s[Len(s)].weight >= 1 /\ s[Len(s)].weight \in Nat
      BY <1>1, <3>1, MemberOK
    <3> QED
      BY <1>2, <2>9, <3>1, <3>2, <3>3 DEF HasWeight
  <2> QED
    BY <2>9, <2>10 DEF t
<1> QED
  BY <1>4, <1>5

\* What is left of a list of distinct addresses.
LEMMA WithoutOK ==
    ASSUME NEW D, NEW l \in Seq(D), \A i, j \in DOMAIN l : l[i] = l[j] => i = j, NEW taken
    PROVE  /\ Without(l, taken) \in Seq(D)
           /\ \A i \in DOMAIN Without(l, taken) : Without(l, taken)[i] \notin taken
           /\ \A i, j \in DOMAIN Without(l, taken) :
                  Without(l, taken)[i] = Without(l, taken)[j] => i = j
<1> DEFINE left  == {i \in DOMAIN l : l[i] \notin taken}
           R     == {p \in left \X left : p[1] < p[2]}
           order == Sorted(left, R)
           t     == Without(l, taken)
<1>1. t = [k \in DOMAIN order |-> l[order[k]]]
  BY DEF Without
<1>2. left \subseteq DOMAIN l /\ DOMAIN l = 1 .. Len(l) /\ Len(l) \in Nat
  OBVIOUS
<1>3. IsFiniteSet(left)
  <2>1. IsFiniteSet(1 .. Len(l))
    BY <1>2, FS_Interval
  <2> QED
    BY <1>2, <2>1, FS_Subset
<1>4. \A i \in left : i \in Nat /\ l[i] \in D /\ l[i] \notin taken
  BY <1>2
<1>5. \A i, j \in left : <<i, j>> \in R <=> i < j
  OBVIOUS
<1> HIDE DEF left, R
<1>6. order \in SetToSeqs(left)
  <2>1. \A a, b \in left : a # b => <<a, b>> \in R \/ <<b, a>> \in R
    BY <1>4, <1>5
  <2>2. \A a, b, c \in left : <<a, b>> \in R /\ <<b, c>> \in R => <<a, c>> \in R
    BY <1>4, <1>5
  <2>3. \A a \in left : <<a, a>> \notin R
    BY <1>4, <1>5
  <2> QED
    BY <1>3, <2>1, <2>2, <2>3, SortedIsSorted
<1> HIDE DEF order, t
<1>7. /\ order \in [1 .. Cardinality(left) -> left] /\ Cardinality(left) \in Nat
      /\ \A i, j \in DOMAIN order : order[i] = order[j] => i = j
  BY <1>3, <1>6, SeqsHaveAll
<1>8. \A k \in 1 .. Cardinality(left) :
          t[k] = l[order[k]] /\ t[k] \in D /\ t[k] \notin taken /\ order[k] \in DOMAIN l
  BY <1>1, <1>2, <1>4, <1>7
<1>9. t \in Seq(D) /\ DOMAIN t = 1 .. Cardinality(left)
  BY <1>1, <1>7, <1>8
<1>10. \A i, j \in DOMAIN t : t[i] = t[j] => i = j
  BY <1>7, <1>8, <1>9
<1> QED
  BY <1>8, <1>9, <1>10 DEF t

\* A list of distinct addresses that all get the same weight.
LEMMA SameWeightOK ==
    ASSUME NEW D, NEW l \in Seq(D), \A i, j \in DOMAIN l : l[i] = l[j] => i = j, NEW w \in Nat \ {0}
    PROVE  /\ ListOK([i \in DOMAIN l |-> Validator(l[i], w)], D, 1)
           /\ Len([i \in DOMAIN l |-> Validator(l[i], w)]) = Len(l)
<1> DEFINE t == [i \in DOMAIN l |-> Validator(l[i], w)]
<1>1. DOMAIN l = 1 .. Len(l) /\ Len(l) \in Nat
  OBVIOUS
<1>2. \A i \in 1 .. Len(l) : t[i] = [address |-> l[i], weight |-> w] /\ l[i] \in D
  BY <1>1 DEF Validator
<1>3. t = [i \in 1 .. Len(l) |-> t[i]]
  BY <1>1
<1> HIDE DEF t
<1>4. \A i \in 1 .. Len(l) : /\ t[i] \in [address : D, weight : Nat] /\ t[i].weight >= 1
                             /\ t[i].address = l[i]
  <2> TAKE i \in 1 .. Len(l)
  <2>1. t[i] = [address |-> l[i], weight |-> w] /\ l[i] \in D
    BY <1>2
  <2> QED
    BY <2>1
<1>5. \A i, j \in 1 .. Len(l) : t[i].address = t[j].address => i = j
  BY <1>1, <1>4
<1>6. ListOK(t, D, 1) /\ Len(t) = Len(l)
  <2> DEFINE n == Len(l)
  <2>1. /\ n \in Nat /\ t = [i \in 1 .. n |-> t[i]]
        /\ \A i \in 1 .. n : t[i] \in [address : D, weight : Nat] /\ t[i].weight >= 1
        /\ \A i, j \in 1 .. n : t[i].address = t[j].address => i = j
    BY <1>1, <1>3, <1>4, <1>5
  <2> HIDE DEF n
  <2>2. ListOK(t, D, 1) /\ Len(t) = n
    BY ONLY <2>1, MakeList
  <2> QED
    BY <2>2 DEF n
<1> QED
  BY <1>6 DEF t

\* Two lists with different addresses, one after the other.
LEMMA JoinOK ==
    ASSUME NEW D, NEW s, NEW t, ListOK(s, D, 1), ListOK(t, D, 1),
           \A i \in DOMAIN t : t[i].address \notin Addresses(s)
    PROVE  ListOK(s \o t, D, 1) /\ (s # <<>> => s \o t # <<>>)
<1> DEFINE X == [address : D, weight : Nat]
           u == s \o t
<1>1. s \in Seq(X) /\ t \in Seq(X)
  BY DEF ListOK
<1>2. /\ \A i \in DOMAIN s : s[i].weight >= 1
      /\ \A i, j \in DOMAIN s : s[i].address = s[j].address => i = j
      /\ \A i \in DOMAIN t : t[i].weight >= 1
      /\ \A i, j \in DOMAIN t : t[i].address = t[j].address => i = j
  BY DEF ListOK
<1> HIDE DEF X
<1>3. /\ u \in Seq(X) /\ Len(u) = Len(s) + Len(t) /\ Len(s) \in Nat /\ Len(t) \in Nat
      /\ DOMAIN u = 1 .. Len(s) + Len(t)
      /\ DOMAIN s = 1 .. Len(s) /\ DOMAIN t = 1 .. Len(t)
  BY <1>1
<1>4. \A i \in DOMAIN u : \/ i \in DOMAIN s /\ u[i] = s[i]
                          \/ i - Len(s) \in DOMAIN t /\ u[i] = t[i - Len(s)]
  BY <1>1, <1>3
<1> HIDE DEF u
<1>5. \A i \in DOMAIN u : u[i].weight >= 1
  BY <1>2, <1>4
<1>6. \A i \in DOMAIN s : s[i].address \in Addresses(s)
  BY DEF Addresses
<1>7. \A i, j \in DOMAIN u : u[i].address = u[j].address => i = j
  <2> SUFFICES ASSUME NEW i \in DOMAIN u, NEW j \in DOMAIN u, u[i].address = u[j].address
               PROVE  i = j
    OBVIOUS
  <2>1. CASE i \in DOMAIN s /\ u[i] = s[i]
    BY <2>1, <1>2, <1>4, <1>6
  <2>2. CASE i - Len(s) \in DOMAIN t /\ u[i] = t[i - Len(s)]
    <3>1. ~(j \in DOMAIN s /\ u[j] = s[j])
      BY <2>2, <1>6
    <3>2. j - Len(s) \in DOMAIN t /\ u[j] = t[j - Len(s)]
      BY <3>1, <1>4
    <3>3. i - Len(s) = j - Len(s)
      BY <2>2, <3>2, <1>2
    <3> QED
      BY <3>3, <1>3
  <2> QED
    BY <2>1, <2>2, <1>4
<1>8. s # <<>> => u # <<>>
  BY <1>1, <1>3
<1>9. ListOK(u, D, 1)
  BY <1>3, <1>5, <1>7 DEF ListOK, X
<1> QED
  BY <1>8, <1>9 DEF u

\* The active validators of a round: distinct, with a weight that is not 0 together,
\* unless there are none.
LEMMA ActiveOK ==
    ASSUME NEW D, NEW snapshot, ListOK(snapshot, D, 1), NEW l \in Seq(D), l # <<>>,
           \A i, j \in DOMAIN l : l[i] = l[j] => i = j, NEW round \in Nat, round > InitRounds
    PROVE  /\ ListOK(getActiveValidators(snapshot, round, l), D, 0)
           /\ \/ HasWeight(getActiveValidators(snapshot, round, l))
              \/ getActiveValidators(snapshot, round, l) = <<>> /\ snapshot = <<>>
<1> DEFINE numInit == InitRounds + NumActive - round
           elected == Scaled(Take(snapshot, NumActive - numInit))
           average == TotalWeight(elected) \div Len(elected)
           others  == Without(l, Addresses(elected))
           initial(m, w) == [i \in DOMAIN m |-> Validator(m[i], w)]
           t == getActiveValidators(snapshot, round, l)
<1>0. NumActive \in Nat \ {0} /\ InitRounds \in Nat
  BY SelectionAssumption
<1>1. t = IF round >= InitRounds + NumActive
          THEN capWeightIfNeeded(Scaled(Take(snapshot, NumActive)))
          ELSE IF elected = <<>> THEN initial(Take(l, numInit), 1)
          ELSE capWeightIfNeeded(elected \o initial(Take(others, numInit), average))
  BY DEF getActiveValidators
<1> HIDE DEF t
<1>2. CASE round >= InitRounds + NumActive
  <2> DEFINE first == Take(snapshot, NumActive)
  <2>1. ListOK(first, D, 1) /\ (first = <<>> => snapshot = <<>>)
    BY <1>0, FirstOK
  <2> HIDE DEF first
  <2>2. ListOK(Scaled(first), D, 1) /\ Len(Scaled(first)) = Len(first)
    BY <2>1, ScaledOK
  <2>3. Scaled(first) = <<>> => first = <<>>
    <3>1. first \in Seq([address : D, weight : Nat])
      BY <2>1 DEF ListOK
    <3> HIDE DEF ListOK
    <3> QED
      BY <3>1, <2>2
  <2>4. t = capWeightIfNeeded(Scaled(first))
    BY <1>1, <1>2 DEF first
  <2>5. /\ ListOK(t, D, 0) /\ Len(t) = Len(Scaled(first))
        /\ Scaled(first) # <<>> => HasWeight(t)
    BY <2>2, <2>4, CapOK
  <2>6. Scaled(first) = <<>> => t = <<>>
    <3> DEFINE X == [address : D, weight : Nat]
    <3>1. t \in Seq(X)
      BY <2>5 DEF ListOK
    <3> HIDE DEF X
    <3> QED
      BY <2>5, <3>1
  <2> QED
    BY <2>1, <2>3, <2>5, <2>6 DEF t
<1>3. CASE ~(round >= InitRounds + NumActive)
  <2>1. numInit \in Nat \ {0} /\ NumActive - numInit \in Nat \ {0}
    BY <1>0, <1>3
  <2> HIDE DEF numInit
  <2>2. ListOK(elected, D, 1)
    BY <2>1, FirstOK, ScaledOK
  <2>3. CASE elected = <<>>
    <3> DEFINE m == Take(l, numInit)
    <3>1. /\ m \in Seq(D) /\ DOMAIN m \subseteq DOMAIN l /\ \A i \in DOMAIN m : m[i] = l[i]
          /\ Len(m) = IF numInit <= Len(l) THEN numInit ELSE Len(l)
      BY <2>1, TakeOK
    <3>2. Len(m) # 0
      BY <2>1, <3>1
    <3>3. t = initial(m, 1)
      BY <1>1, <1>3, <2>3
    <3> HIDE DEF m
    <3>4. \A i, j \in DOMAIN m : m[i] = m[j] => i = j
      BY <3>1
    <3>5. ListOK(t, D, 1) /\ Len(t) = Len(m)
      BY <3>1, <3>3, <3>4, SameWeightOK
    <3>6. 1 \in DOMAIN t /\ t \in Seq([address : D, weight : Nat])
      <4> DEFINE X == [address : D, weight : Nat]
      <4>1. t \in Seq(X)
        BY <3>5 DEF ListOK
      <4> HIDE DEF X
      <4>2. 1 \in DOMAIN t
        BY <3>1, <3>2, <3>5, <4>1
      <4> QED
        BY <4>1, <4>2 DEF X
    <3>7. ListOK(t, D, 0)
      BY <3>5, <3>6, MemberOK DEF ListOK
    <3>8. t[1].weight >= 1 /\ t[1].weight \in Nat
      BY <3>5, <3>6, MemberOK DEF ListOK
    <3> QED
      BY <3>6, <3>7, <3>8 DEF HasWeight, t
  <2>4. CASE elected # <<>>
    <3>1. elected \in Seq([address : D, weight : Nat])
      BY <2>2 DEF ListOK
    <3>2. Len(elected) \in Nat \ {0}
      <4> DEFINE X == [address : D, weight : Nat]
      <4> HIDE DEF X
      <4>1. elected \in Seq(X)
        BY <3>1 DEF X
      <4> HIDE DEF elected
      <4> QED
        BY <4>1, <2>4
    <3>3. TotalWeight(elected) \in Nat /\ Len(elected) <= TotalWeight(elected)
      BY <2>2, <3>1, TotalOK DEF ListOK
    <3> HIDE DEF elected
    <3>4. average \in Nat \ {0}
      <4>1. \A x \in Nat, y \in Nat \ {0} : y <= x => x \div y \in Nat \ {0}
        <5> SUFFICES ASSUME NEW x \in Nat, NEW y \in Nat \ {0}, y <= x PROVE x \div y \in Nat \ {0}
          OBVIOUS
        <5> DEFINE q == x \div y
        <5>1. q \in Int /\ x < (q + 1) * y
          OBVIOUS
        <5> HIDE DEF q
        <5>2. q > 0
          <6> SUFFICES ASSUME q + 1 <= 1 PROVE FALSE
            BY <5>1
          <6>1. (1 - (q + 1)) * y >= 0
            BY <5>1
          <6>2. (1 - (q + 1)) * y = y - (q + 1) * y /\ (q + 1) * y \in Int
            BY <5>1
          <6> QED
            BY <5>1, <6>1, <6>2
        <5> QED
          BY <5>1, <5>2 DEF q
      <4> QED
        BY <3>2, <3>3, <4>1
    <3>5. /\ others \in Seq(D) /\ \A i \in DOMAIN others : others[i] \notin Addresses(elected)
          /\ \A i, j \in DOMAIN others : others[i] = others[j] => i = j
      BY WithoutOK
    <3> HIDE DEF others, average
    <3> DEFINE m == Take(others, numInit)
    <3>6. m \in Seq(D) /\ DOMAIN m \subseteq DOMAIN others /\ \A i \in DOMAIN m : m[i] = others[i]
      BY <2>1, <3>5, TakeOK
    <3>7. t = capWeightIfNeeded(elected \o initial(m, average))
      BY <1>1, <1>3, <2>4
    <3> HIDE DEF m
    <3>8. /\ \A i, j \in DOMAIN m : m[i] = m[j] => i = j
          /\ \A i \in DOMAIN m : m[i] \notin Addresses(elected)
      BY <3>5, <3>6
    <3>9. ListOK(initial(m, average), D, 1)
      BY <3>4, <3>6, <3>8, SameWeightOK
    <3>10. \A i \in DOMAIN initial(m, average) :
              initial(m, average)[i].address \notin Addresses(elected)
      BY <3>8 DEF Validator
    <3> HIDE DEF initial
    <3>11. /\ ListOK(elected \o initial(m, average), D, 1)
           /\ elected \o initial(m, average) # <<>>
      BY <2>2, <2>4, <3>9, <3>10, JoinOK
    <3> QED
      BY <3>7, <3>11, CapOK DEF t
  <2> QED
    BY <2>3, <2>4
<1> QED
  BY <1>2, <1>3

\* The elements of a list are finitely many, and so are their images.
LEMMA ImagesFinite ==
    ASSUME NEW S, IsFiniteSet(S), NEW f, DOMAIN f = S, f = [x \in S |-> f[x]]
    PROVE  IsFiniteSet({f[x] : x \in S})
<1>1. f \in Surjection(S, {f[x] : x \in S})
  BY DEF Surjection
<1> QED
  BY <1>1, FS_Surjection

\* The list of a round: whatever the draw of the standby validators and the order, they
\* are distinct and have a weight, unless there are none.
LEMMA NextListOK ==
    ASSUME NEW D, NEW snapshot, ListOK(snapshot, D, 1), NEW l \in Seq(D), l # <<>>,
           \A i, j \in DOMAIN l : l[i] = l[j] => i = j, NEW round \in Nat, round > InitRounds,
           NEW list \in NextValidators(snapshot, round, l)
    PROVE  list = <<>> \/ (ListOK(list, D, 0) /\ HasWeight(list))
<1> DEFINE t       == getActiveValidators(snapshot, round, l)
           active  == ToSet(t)
           waiting == Addresses(snapshot) \ {v.address : v \in active}
           standby == IF round >= InitRounds + NumActive THEN selectStandbyValidators(waiting)
                                                         ELSE {{}}
           None(C) == {Validator(a, 0) : a \in C}
           X       == [address : D, weight : Nat]
<1>1. ListOK(t, D, 0) /\ (HasWeight(t) \/ (t = <<>> /\ snapshot = <<>>))
  BY ActiveOK
<1>2. PICK s \in standby : list \in SetToSeqs(active \cup s)
  BY DEF NextValidators
<1>3. PICK C \in SUBSET waiting : s = None(C)
  <2>1. CASE round >= InitRounds + NumActive
    BY <1>2, <2>1 DEF selectStandbyValidators, kSubset
  <2>2. CASE ~(round >= InitRounds + NumActive)
    <3>1. s = None({})
      BY <1>2, <2>2
    <3> QED
      BY <3>1
  <2> QED
    BY <2>1, <2>2
<1> DEFINE U == active \cup None(C)
<1>4. list \in SetToSeqs(U)
  BY <1>2, <1>3
<1> HIDE DEF t, standby
<1>5. /\ t \in Seq(X) /\ \A i, j \in DOMAIN t : t[i].address = t[j].address => i = j
      /\ snapshot \in Seq(X)
  BY <1>1 DEF ListOK
<1>6. active = {t[i] : i \in DOMAIN t}
  BY DEF ToSet
<1>7. \A i \in DOMAIN t : t[i] \in X /\ t[i].address \in D /\ t[i].weight \in Nat
  BY <1>5, MemberOK
<1>8. \A i \in DOMAIN snapshot : snapshot[i].address \in D
  BY <1>5, MemberOK
<1>9. \A a \in C : a \in D /\ \A i \in DOMAIN t : t[i].address # a
  BY <1>6, <1>8 DEF Addresses
<1>10. IsFiniteSet(DOMAIN t) /\ IsFiniteSet(DOMAIN snapshot)
  <2> HIDE DEF X
  <2>1. /\ DOMAIN t = 1 .. Len(t) /\ Len(t) \in Nat
        /\ DOMAIN snapshot = 1 .. Len(snapshot) /\ Len(snapshot) \in Nat
    BY <1>5
  <2> QED
    BY <2>1, FS_Interval
<1>11. IsFiniteSet(C)
  <2> DEFINE f == [i \in DOMAIN snapshot |-> snapshot[i].address]
  <2>1. DOMAIN f = DOMAIN snapshot /\ f = [i \in DOMAIN snapshot |-> f[i]]
    OBVIOUS
  <2>2. Addresses(snapshot) = {f[i] : i \in DOMAIN snapshot}
    BY DEF Addresses
  <2> HIDE DEF f
  <2>3. IsFiniteSet(Addresses(snapshot))
    BY <1>10, <2>1, <2>2, ImagesFinite
  <2> QED
    BY <2>3, FS_Subset
<1> HIDE DEF active, waiting
<1>12. IsFiniteSet(U)
  <2>1. IsFiniteSet(active)
    <3>1. t = [i \in DOMAIN t |-> t[i]]
      <4> HIDE DEF X
      <4> QED
        BY <1>5
    <3> QED
      BY <1>6, <1>10, <3>1, ImagesFinite
  <2>2. IsFiniteSet(None(C))
    <3> DEFINE f == [a \in C |-> Validator(a, 0)]
    <3>1. DOMAIN f = C /\ f = [a \in C |-> f[a]] /\ None(C) = {f[a] : a \in C}
      OBVIOUS
    <3> HIDE DEF f, None
    <3> QED
      BY <1>11, <3>1, ImagesFinite
  <2> QED
    BY <2>1, <2>2, FS_Union
<1>13. /\ \A u \in None(C) : /\ u \in X /\ u.address \in C /\ u = Validator(u.address, 0)
                             /\ u.weight >= 0
  BY <1>9 DEF Validator
<1>14. \A u \in active : u \in X /\ u.weight >= 0 /\ u.address \notin C
  BY <1>6, <1>7, <1>9
<1>15. \A u, v \in U : u.address = v.address => u = v
  <2>1. ASSUME NEW u \in active, NEW v \in active, u.address = v.address PROVE u = v
    <3>1. PICK i \in DOMAIN t : u = t[i]
      BY <1>6
    <3>2. PICK j \in DOMAIN t : v = t[j]
      BY <1>6
    <3>3. i = j
      BY <2>1, <3>1, <3>2, <1>5
    <3> QED
      BY <3>1, <3>2, <3>3
  <2>2. \A u, v \in None(C) : u.address = v.address => u = v
    BY <1>13
  <2> HIDE DEF None
  <2> QED
    BY <2>1, <2>2, <1>13, <1>14
<1>16. \A u \in U : u \in X /\ u.weight >= 0
  BY <1>13, <1>14
<1>17. t = <<>> /\ snapshot = <<>> => U = {}
  BY <1>6 DEF Addresses, waiting
<1> DEFINE n == Cardinality(U)
<1> HIDE DEF U
<1>18. /\ list \in [1 .. n -> U] /\ n \in Nat
       /\ \A i, j \in DOMAIN list : list[i] = list[j] => i = j
       /\ \A x \in U : \E i \in DOMAIN list : list[i] = x
  BY <1>4, <1>12, SeqsHaveAll
<1>19. CASE t = <<>> /\ snapshot = <<>>
  <2>1. n = 0
    BY <1>17, <1>19, FS_EmptySet
  <2> HIDE DEF n
  <2> QED
    BY <1>18, <2>1
<1>20. CASE HasWeight(t)
  <2> HIDE DEF n
  <2>1. list = [i \in 1 .. n |-> list[i]] /\ DOMAIN list = 1 .. n
    BY <1>18
  <2>2. \A i \in 1 .. n : list[i] \in X /\ list[i].weight >= 0
    BY <1>16, <1>18
  <2>3. \A i, j \in 1 .. n : list[i].address = list[j].address => i = j
    BY <1>15, <1>18
  <2>4. ListOK(list, D, 0)
    BY <1>18, <2>1, <2>2, <2>3, MakeList
  <2>5. PICK i \in DOMAIN t : t[i].weight > 0
    BY <1>20 DEF HasWeight
  <2>6. t[i] \in U
    BY <1>6 DEF U
  <2>7. HasWeight(list)
    BY <1>18, <2>5, <2>6 DEF HasWeight
  <2> QED
    BY <2>4, <2>7
<1> QED
  BY <1>1, <1>19, <1>20

(* ----------------------------- the stores ------------------------------ *)

\* update of the eligible store: when the account of b becomes v and the old key,
\* if there is one, is deleted, the store is exact again.
LEMMA EligibleUpdated ==
    ASSUME NEW validators, NEW eligible, EligibleIs(validators, eligible),
           NEW b \in DOMAIN validators, NEW w, NEW v,
           b \in Listed(validators) => w = getValidatorWeight(validators[b])
    PROVE  EligibleIs([validators EXCEPT ![b] = v], updateEligible(eligible, b, w, v))
<1> DEFINE new     == [validators EXCEPT ![b] = v]
           without == Drop(eligible, <<w, b>>)
           key     == <<getValidatorWeight(v), b>>
<1>1. /\ DOMAIN new = DOMAIN validators /\ new[b] = v
      /\ \A a \in DOMAIN validators : a # b => new[a] = validators[a]
  OBVIOUS
<1> HIDE DEF new
<1>2. DOMAIN without = {k \in Keys(validators) : k[2] # b}
  <2>1. DOMAIN without = Keys(validators) \ {<<w, b>>}
    BY DEF EligibleIs, Drop, Restrict
  <2>2. \A k \in Keys(validators) : k[2] = b => k = <<w, b>>
    BY DEF Keys
  <2> QED
    BY <2>1, <2>2
<1>3. \A k \in DOMAIN without : without[k] = LastReport(new[k[2]])
  <2> TAKE k \in DOMAIN without
  <2>1. k \in Keys(validators) /\ k[2] # b
    BY <1>2
  <2>2. k[2] \in DOMAIN validators
    BY <2>1 DEF Keys, Listed
  <2>3. without[k] = eligible[k]
    BY DEF Drop, Restrict
  <2>4. eligible[k] = LastReport(validators[k[2]])
    BY <2>1 DEF EligibleIs
  <2> QED
    BY <1>1, <2>1, <2>2, <2>3, <2>4
<1>4. \A a \in DOMAIN validators : a # b => (a \in Listed(new) <=> a \in Listed(validators))
  BY <1>1 DEF Listed
<1>5. {k \in Keys(new) : k[2] # b} = {k \in Keys(validators) : k[2] # b}
  <2>1. \A a \in Listed(new) \cup Listed(validators) : a \in DOMAIN validators
    BY <1>1 DEF Listed
  <2>2. \A a \in Listed(new) : a # b => <<getValidatorWeight(new[a]), a>> \in Keys(validators)
    BY <1>1, <1>4, <2>1 DEF Keys
  <2>3. \A a \in Listed(validators) : a # b => <<getValidatorWeight(validators[a]), a>> \in Keys(new)
    BY <1>1, <1>4, <2>1 DEF Keys
  <2> QED
    BY <2>2, <2>3 DEF Keys
<1> DEFINE unlisted == v.banned \/ getValidatorWeight(v) < MinWeightStandby
<1>6. CASE unlisted
  <2>1. b \notin Listed(new)
    BY <1>1, <1>6 DEF Listed
  <2>2. Keys(new) = DOMAIN without
    <3>1. \A k \in Keys(new) : k[2] # b
      BY <2>1 DEF Keys
    <3> QED
      BY <3>1, <1>2, <1>5
  <2>3. updateEligible(eligible, b, w, v) = without
    BY <1>6 DEF updateEligible
  <2>4. without = [k \in DOMAIN without |-> without[k]]
    BY DEF Drop, Restrict
  <2> HIDE DEF without
  <2> QED
    BY <2>2, <2>3, <2>4, <1>3 DEF EligibleIs, new
<1>7. CASE ~unlisted
  <2>1. b \in Listed(new)
    BY <1>1, <1>7 DEF Listed
  <2>2. Keys(new) = DOMAIN without \cup {key}
    <3>1. key \in Keys(new)
      BY <2>1, <1>1 DEF Keys
    <3>2. \A k \in Keys(new) : k[2] = b => k = key
      BY <1>1 DEF Keys
    <3> QED
      BY <3>1, <3>2, <1>2, <1>5
  <2>3. updateEligible(eligible, b, w, v) = Put(without, key, LastReport(v))
    BY <1>7 DEF updateEligible
  <2> HIDE DEF without
  <2>4. \A k \in Keys(new) : (IF k = key THEN LastReport(v) ELSE without[k]) = LastReport(new[k[2]])
    BY <2>2, <1>1, <1>3
  <2>5. Put(without, key, LastReport(v)) =
            [k \in Keys(new) |-> IF k = key THEN LastReport(v) ELSE without[k]]
    BY <2>2 DEF Put
  <2> HIDE DEF key
  <2> QED
    BY <2>3, <2>4, <2>5 DEF EligibleIs, new
<1> QED
  BY <1>6, <1>7

\* A new account v of a validator keeps the stores sound.
LEMMA WithValidatorOK ==
    ASSUME NEW s, NEW h, AppOK(s, h), NEW b \in DOMAIN s.validators, NEW v, ValidatorOK(v, h)
    PROVE  /\ AppOK(withValidator(s, b, v), h)
           /\ withValidator(s, b, v).stakers = s.stakers
           /\ DOMAIN withValidator(s, b, v).validators = DOMAIN s.validators
<1> DEFINE t == withValidator(s, b, v)
<1>1. /\ DOMAIN t = AppFields /\ t.stakers = s.stakers
      /\ t.validators = [s.validators EXCEPT ![b] = v]
      /\ t.eligible = updateEligible(s.eligible, b, getValidatorWeight(s.validators[b]), v)
  BY DEF AppOK, AppFields, withValidator
<1> HIDE DEF t
<1>2. EligibleIs(t.validators, t.eligible)
  BY <1>1, EligibleUpdated DEF AppOK
<1>3. ValidatorsOK(t.validators, h)
  BY <1>1 DEF AppOK, ValidatorsOK
<1>4. StakersOK(t.stakers, t.validators)
  BY <1>1 DEF AppOK, StakersOK, UnlocksOK
<1> QED
  BY <1>1, <1>2, <1>3, <1>4 DEF AppOK, t

\* A state with other stakers, whatever happens to the ledger.
LEMMA OtherStakersOK ==
    ASSUME NEW s, NEW h, AppOK(s, h), NEW t, DOMAIN t = DOMAIN s, t.validators = s.validators,
           t.eligible = s.eligible, StakersOK(t.stakers, s.validators)
    PROVE  AppOK(t, h)
  BY DEF AppOK

\* States with the same pending unlocks.
LEMMA SameUnlocksKept ==
    ASSUME NEW s, NEW h, AppOK(s, h), NEW t, DOMAIN t.stakers = DOMAIN s.stakers,
           DOMAIN s.validators \subseteq DOMAIN t.validators,
           \A a \in DOMAIN s.stakers : t.stakers[a].unlocks = s.stakers[a].unlocks
    PROVE  Kept(s, t)
<1>1. \A a \in DOMAIN s.stakers : \A u \in DOMAIN s.stakers[a].unlocks : s.stakers[a].unlocks[u] \in Nat
  BY DEF AppOK, StakersOK, UnlocksOK
<1> QED
  BY <1>1 DEF Kept, Copies

\* Pending unlocks are kept by a sequence of steps that keep them.
LEMMA KeptTransitive ==
    ASSUME NEW s, NEW t, NEW r, NEW h, AppOK(s, h), AppOK(t, h), AppOK(r, h), Kept(s, t), Kept(t, r)
    PROVE  Kept(s, r)
<1>1. DOMAIN s.stakers \subseteq DOMAIN r.stakers /\ DOMAIN s.validators \subseteq DOMAIN r.validators
  BY DEF Kept
<1> SUFFICES ASSUME NEW a \in DOMAIN s.stakers, NEW u \in DOMAIN s.stakers[a].unlocks
             PROVE  s.stakers[a].unlocks[u] <= Copies(u, r.stakers[a].unlocks)
  BY <1>1 DEF Kept
<1> DEFINE before == s.stakers[a].unlocks
           middle == t.stakers[a].unlocks
           after  == r.stakers[a].unlocks
<1>2. a \in DOMAIN t.stakers /\ a \in DOMAIN r.stakers
  BY DEF Kept
<1>3. /\ u \in DOMAIN before
      /\ \A x \in DOMAIN before : before[x] \in Nat
      /\ \A x \in DOMAIN middle : middle[x] \in Nat
      /\ \A x \in DOMAIN after : after[x] \in Nat
  BY <1>2 DEF AppOK, StakersOK, UnlocksOK
<1>4. before[u] <= Copies(u, middle) /\ \A x \in DOMAIN middle : middle[x] <= Copies(x, after)
  BY <1>2 DEF Kept
<1> HIDE DEF before, middle, after
<1>5. before[u] \in Nat /\ Copies(u, middle) \in Nat /\ Copies(u, after) \in Nat
  BY <1>3 DEF Copies
<1>6. Copies(u, middle) <= Copies(u, after)
  <2>1. CASE u \in DOMAIN middle
    BY <2>1, <1>4 DEF Copies
  <2>2. CASE u \notin DOMAIN middle
    <3>1. Copies(u, middle) = 0
      BY <2>2 DEF Copies
    <3> QED
      BY <3>1, <1>5
  <2> QED
    BY <2>1, <2>2
<1>7. before[u] <= Copies(u, after)
  BY <1>4, <1>5, <1>6
<1> QED
  BY <1>7 DEF before, after

(* ------------------------------- commands ------------------------------ *)

\* The result of a command: it threw, or the stores are sound and every pending
\* unlock is still there.
Keeps(r, s, h) == r.ok => AppOK(r.s, h) /\ Kept(s, r.s)

\* An upstake or downstake by a on b.
LEMMA StakeOnKeeps ==
    ASSUME NEW s, NEW h, AppOK(s, h), NEW a, NEW b, NEW x \in Int
    PROVE  Keeps(stakeOn(s, a, b, x), s, h)
<1> SUFFICES ASSUME stakeOn(s, a, b, x).ok
             PROVE  AppOK(stakeOn(s, a, b, x).s, h) /\ Kept(s, stakeOn(s, a, b, x).s)
  BY DEF Keeps
<1> DEFINE data    == getOrDefault(s, a)
           v       == s.validators[b]
           has     == b \in DOMAIN data.stakes
           before  == IF has THEN data.stakes[b].amount ELSE 0
           locked  == IF x > 0 THEN lock(s.ledger, a, "pos", KLY, x) ELSE s.ledger
           rewards == IF has THEN assignStakeRewards(locked, a, b, data.stakes[b], v)
                             ELSE [ok |-> TRUE, l |-> locked]
           staked  == IF before + x = 0 /\ x < 0 THEN Drop(data.stakes, b)
                      ELSE Put(data.stakes, b, [amount |-> before + x, coefficient |-> v.coefficient])
           pending == [validator |-> b, amount |-> 0 - x, height |-> block.height]
           unlocks == IF x > 0 THEN data.unlocks
                      ELSE Put(data.unlocks, pending, Copies(pending, data.unlocks) + 1)
           changed == [v EXCEPT !.self = IF a = b THEN @ + x ELSE @, !.total = @ + x]
           account == [stakes |-> staked, unlocks |-> unlocks]
           t       == [s EXCEPT !.ledger = rewards.l, !.stakers = Put(@, a, account)]
           ok      == /\ b \in DOMAIN s.validators
                      /\ x < 0 => has /\ before + x >= 0
                      /\ spendable(s.ledger, a, KLY, x)
                      /\ rewards.ok
                      /\ x < 0 => PendingUnlocks(unlocks) <= MaxPendingUnlocks
                      /\ x > 0 => Cardinality(DOMAIN staked) <= MaxSentStakes
<1>1. stakeOn(s, a, b, x) = IF ok THEN Done(withValidator(t, b, changed)) ELSE Throw(s)
  BY Zenon DEF stakeOn
<1>2. unlocks = data.unlocks \/ unlocks = Put(data.unlocks, pending, Copies(pending, data.unlocks) + 1)
  OBVIOUS
<1>3. b \in DOMAIN s.validators => ValidatorOK(changed, h)
  BY DEF AppOK, ValidatorsOK, ValidatorOK, ValidatorFields
<1>4. pending.validator = b
  OBVIOUS
<1>5. /\ account.unlocks = unlocks /\ account.stakes = staked
      /\ DOMAIN account = {"stakes", "unlocks"}
  OBVIOUS
<1>0. IsFiniteSet(DOMAIN staked)
  <2>1. IsFiniteSet(DOMAIN data.stakes)
    BY FS_EmptySet DEF getOrDefault, NoKeys, AppOK, StakersOK
  <2>2. DOMAIN staked = DOMAIN data.stakes \ {b} \/ DOMAIN staked = DOMAIN data.stakes \cup {b}
    BY DEF Drop, Restrict, Put
  <2> HIDE DEF staked
  <2> QED
    BY <2>1, <2>2, FS_AddElement, FS_RemoveElement
<1> DEFINE stakers == Put(s.stakers, a, account)
<1>6. /\ DOMAIN t = DOMAIN s /\ t.stakers = stakers
      /\ t.validators = s.validators /\ t.eligible = s.eligible
  BY DEF AppOK, AppFields
<1> HIDE DEF unlocks, changed, staked, rewards, pending, account, t
<1>7. ok
  BY <1>1 DEF Throw
<1>8. b \in DOMAIN s.validators
  BY <1>7
<1> HIDE DEF ok
<1>9. stakeOn(s, a, b, x).s = withValidator(t, b, changed)
  BY <1>1, <1>7 DEF Done
<1>10. UnlocksOK(data.unlocks, s.validators)
  BY DEF getOrDefault, NoKeys, AppOK, StakersOK, UnlocksOK
<1>11. UnlocksOK(unlocks, s.validators)
  BY <1>2, <1>4, <1>8, <1>10 DEF UnlocksOK, Put, Copies
<1>12. \A u \in DOMAIN data.unlocks : data.unlocks[u] <= Copies(u, unlocks)
  BY <1>2, <1>10 DEF UnlocksOK, Put, Copies
<1>13. /\ DOMAIN stakers = DOMAIN s.stakers \cup {a} /\ stakers[a] = account
       /\ \A c \in DOMAIN s.stakers : c # a => stakers[c] = s.stakers[c]
  BY DEF Put
<1> HIDE DEF stakers
<1>14. StakersOK(stakers, s.validators)
  BY <1>0, <1>5, <1>11, <1>13 DEF AppOK, StakersOK
<1>15. AppOK(t, h)
  BY <1>6, <1>14, OtherStakersOK
<1>16. /\ AppOK(withValidator(t, b, changed), h)
       /\ withValidator(t, b, changed).stakers = stakers
       /\ DOMAIN withValidator(t, b, changed).validators = DOMAIN s.validators
  BY <1>3, <1>6, <1>8, <1>15, WithValidatorOK
<1>17. a \in DOMAIN s.stakers => data = s.stakers[a]
  BY DEF getOrDefault
<1>18. \A c \in DOMAIN s.stakers : \A u \in DOMAIN s.stakers[c].unlocks :
          s.stakers[c].unlocks[u] \in Nat
  BY DEF AppOK, StakersOK, UnlocksOK
<1> HIDE DEF data
<1>19. \A c \in DOMAIN s.stakers : \A u \in DOMAIN s.stakers[c].unlocks :
          s.stakers[c].unlocks[u] <= Copies(u, stakers[c].unlocks)
  <2> TAKE c \in DOMAIN s.stakers
  <2> TAKE u \in DOMAIN s.stakers[c].unlocks
  <2>1. CASE c = a
    BY <2>1, <1>5, <1>12, <1>13, <1>17
  <2>2. CASE c # a
    BY <2>2, <1>13, <1>18 DEF Copies
  <2> QED
    BY <2>1, <2>2
<1>20. Kept(s, withValidator(t, b, changed))
  BY <1>13, <1>16, <1>19 DEF Kept
<1> QED
  BY <1>9, <1>16, <1>20

\* What holds of a state after no step and is kept by one step holds after n.
LEMMA StepsKeep ==
    ASSUME NEW n \in Nat, NEW good, 0 \in good, \A i \in 1 .. n : i - 1 \in good => i \in good
    PROVE  n \in good
<1> DEFINE bad == {i \in 0 .. n : i \notin good}
<1> SUFFICES ASSUME bad # {} PROVE FALSE
  OBVIOUS
<1>0. bad \in SUBSET Nat
  OBVIOUS
<1>1. PICK m \in bad : \A i \in bad : m <= i
  <2> HIDE DEF bad
  <2> QED
    BY <1>0, LeastNatural
<1>2. m \in 1 .. n /\ m - 1 \in 0 .. n /\ m - 1 \notin bad
  BY <1>1
<1> QED
  BY <1>1, <1>2

\* The results of the stakes of a transaction, one after the other.
StakeSteps(s, a, stakes, order, after) ==
    LET n == Cardinality(DOMAIN stakes)
    IN  /\ n \in Nat /\ \A i \in 1 .. n : order[i] \in DOMAIN stakes
        /\ stake(s, a, stakes, order) = after[n] /\ after[0] = Done(s)
        /\ \A i \in 1 .. n : after[i] = stakeNext(after[i - 1], a, order[i], stakes[order[i]])

\* A stake transaction is such a chain of steps.
LEMMA StakeUnfolded ==
    ASSUME NEW s, NEW a, NEW stakes, IsFiniteSet(DOMAIN stakes), NEW order \in SetToSeqs(DOMAIN stakes)
    PROVE  \E after : StakeSteps(s, a, stakes, order, after)
<1> DEFINE n == Cardinality(DOMAIN stakes)
           After(m, f) == f = [i \in 0 .. m |-> IF i = 0 THEN Done(s)
                                ELSE stakeNext(f[i - 1], a, order[i], stakes[order[i]])]
           after == CHOOSE f : After(n, f)
<1>1. stake(s, a, stakes, order) = after[n]
  BY DEF stake
<1>2. n \in Nat /\ \A i \in 1 .. n : order[i] \in DOMAIN stakes
  BY SeqsHaveAll
<1> HIDE DEF n
<1>3. \E f : After(n, f)
  <2> DEFINE good == {m \in Nat : \E f : After(m, f)}
  <2>1. 0 \in good
    <3>1. After(0, [i \in 0 .. 0 |-> Done(s)])
      OBVIOUS
    <3> QED
      BY <3>1
  <2>2. ASSUME NEW m \in 1 .. n, m - 1 \in good PROVE m \in good
    <3>1. PICK f : After(m - 1, f)
      BY <2>2
    <3> DEFINE g == [i \in 0 .. m |-> IF i = m THEN stakeNext(f[m - 1], a, order[m], stakes[order[m]]) ELSE f[i]]
    <3>2. \A i \in 0 .. m - 1 : g[i] = f[i]
      OBVIOUS
    <3>3. \A i \in 0 .. m : g[i] = IF i = 0 THEN Done(s)
                                   ELSE stakeNext(g[i - 1], a, order[i], stakes[order[i]])
      <4> TAKE i \in 0 .. m
      <4>1. CASE i = m
        BY <4>1, <3>2
      <4>2. CASE i # m
        <5>1. i \in 0 .. m - 1
          BY <4>2
        <5>2. f[i] = IF i = 0 THEN Done(s) ELSE stakeNext(f[i - 1], a, order[i], stakes[order[i]])
          BY <3>1, <5>1
        <5>3. i # 0 => i - 1 \in 0 .. m - 1
          BY <5>1
        <5> QED
          BY <3>2, <5>1, <5>2, <5>3
      <4> QED
        BY <4>1, <4>2
    <3>4. g = [i \in 0 .. m |-> g[i]]
      OBVIOUS
    <3> HIDE DEF g
    <3>5. After(m, g)
      BY <3>3, <3>4
    <3>6. m \in Nat
      BY <1>2
    <3> HIDE DEF After
    <3> QED
      BY <3>5, <3>6
  <2> HIDE DEF good
  <2>3. n \in good
    BY <1>2, <2>1, <2>2, StepsKeep
  <2> QED
    BY <2>3 DEF good
<1>4. After(n, after)
  BY <1>3
<1> HIDE DEF after
<1>5. /\ after[0] = Done(s)
      /\ \A i \in 1 .. n : after[i] = stakeNext(after[i - 1], a, order[i], stakes[order[i]])
  BY <1>2, <1>4
<1>6. StakeSteps(s, a, stakes, order, after)
  BY <1>1, <1>2, <1>5 DEF n, StakeSteps
<1> QED
  BY <1>6

\* A stake transaction.
LEMMA StakeKeeps ==
    ASSUME NEW s, NEW h, AppOK(s, h), NEW a, NEW stakes, IsFiniteSet(DOMAIN stakes),
           \A b \in DOMAIN stakes : stakes[b] \in Int, NEW order \in SetToSeqs(DOMAIN stakes)
    PROVE  Keeps(stake(s, a, stakes, order), s, h)
<1> DEFINE n == Cardinality(DOMAIN stakes)
<1>0. PICK after : StakeSteps(s, a, stakes, order, after)
  BY StakeUnfolded
<1>1. /\ stake(s, a, stakes, order) = after[n] /\ after[0] = Done(s)
      /\ \A i \in 1 .. n : after[i] = stakeNext(after[i - 1], a, order[i], stakes[order[i]])
  BY <1>0 DEF StakeSteps
<1>2. n \in Nat /\ \A i \in 1 .. n : order[i] \in DOMAIN stakes
  BY <1>0 DEF StakeSteps
<1> HIDE DEF n
<1> DEFINE good == {i \in Nat : Keeps(after[i], s, h)}
<1>6. 0 \in good
  BY <1>1, SameUnlocksKept DEF Keeps, Done
<1>7. ASSUME NEW i \in 1 .. n, i - 1 \in good PROVE i \in good
  <2>1. Keeps(after[i - 1], s, h)
    BY <1>7
  <2>2. CASE ~after[i - 1].ok
    BY <1>1, <2>1, <2>2 DEF stakeNext
  <2>3. CASE after[i - 1].ok
    <3> DEFINE r == after[i - 1].s
    <3>1. AppOK(r, h) /\ Kept(s, r)
      BY <2>1, <2>3 DEF Keeps
    <3>2. Keeps(after[i], r, h)
      <4>1. stakes[order[i]] \in Int
        BY <1>2
      <4> QED
        BY <1>1, <2>3, <3>1, <4>1, StakeOnKeeps DEF stakeNext
    <3> HIDE DEF r
    <3> QED
      BY <3>1, <3>2, KeptTransitive DEF Keeps
  <2> QED
    BY <2>2, <2>3
<1> HIDE DEF good
<1>8. n \in good
  BY <1>2, <1>6, <1>7, StepsKeep
<1> QED
  BY <1>1, <1>8 DEF good

\* The claim of the rewards of a from b.
LEMMA ClaimFromKeeps ==
    ASSUME NEW s, NEW h, AppOK(s, h), NEW a, NEW b
    PROVE  Keeps(claimFrom(s, a, b), s, h)
<1> DEFINE got == assignStakeRewards(s.ledger, a, b, s.stakers[a].stakes[b], s.validators[b])
           c   == s.validators[b].coefficient
           t   == [s EXCEPT !.ledger = got.l, !.stakers[a].stakes[b].coefficient = c]
<1>1. claimFrom(s, a, b) = IF got.ok THEN Done(t) ELSE Throw(s)
  BY DEF claimFrom
<1> HIDE DEF got, c
<1>2. /\ DOMAIN t = DOMAIN s /\ t.validators = s.validators /\ t.eligible = s.eligible
      /\ t.stakers = [s.stakers EXCEPT ![a].stakes[b].coefficient = c]
  BY DEF AppOK, AppFields
<1> HIDE DEF t
<1>3. /\ DOMAIN t.stakers = DOMAIN s.stakers
      /\ \A d \in DOMAIN s.stakers : d # a => t.stakers[d] = s.stakers[d]
      /\ a \in DOMAIN s.stakers => t.stakers[a] = [s.stakers[a] EXCEPT !.stakes[b].coefficient = c]
  BY <1>2
<1>4. \A d \in DOMAIN s.stakers : /\ DOMAIN t.stakers[d] = DOMAIN s.stakers[d]
                                  /\ DOMAIN t.stakers[d].stakes = DOMAIN s.stakers[d].stakes
                                  /\ t.stakers[d].unlocks = s.stakers[d].unlocks
  BY <1>3 DEF AppOK, StakersOK
<1>5. StakersOK(t.stakers, s.validators)
  BY <1>3, <1>4 DEF AppOK, StakersOK
<1>6. AppOK(t, h)
  BY <1>2, <1>5, OtherStakersOK
<1>7. Kept(s, t)
  BY <1>2, <1>3, <1>4, SameUnlocksKept, ZenonT(60)
<1> QED
  BY <1>1, <1>6, <1>7 DEF Keeps, Done, Throw

\* The results of the claims of a transaction, one after the other.
ClaimSteps(s, a, order, after) ==
    LET staked == DOMAIN s.stakers[a].stakes
        n      == Cardinality(staked)
    IN  /\ n \in Nat /\ \A i \in 1 .. n : order[i] \in staked
        /\ claimRewards(s, a) = after[n] /\ after[0] = Done(s)
        /\ \A i \in 1 .. n : after[i] = claimNext(after[i - 1], a, order[i])

\* A claim is such a chain of steps.
LEMMA ClaimUnfolded ==
    ASSUME NEW s, NEW a \in DOMAIN s.stakers, IsFiniteSet(DOMAIN s.stakers[a].stakes)
    PROVE  \E order, after : ClaimSteps(s, a, order, after)
<1> DEFINE order == SetToSeq(DOMAIN s.stakers[a].stakes)
           n     == Cardinality(DOMAIN s.stakers[a].stakes)
           After(m, f) == f = [i \in 0 .. m |-> IF i = 0 THEN Done(s)
                                ELSE claimNext(f[i - 1], a, order[i])]
           after == CHOOSE f : After(n, f)
<1>1. claimRewards(s, a) = after[n]
  BY DEF claimRewards
<1>2. n \in Nat
  BY FS_CardinalityType
<1>6. \A i \in 1 .. n : order[i] \in DOMAIN s.stakers[a].stakes
  <2> DEFINE S == DOMAIN s.stakers[a].stakes
  <2>1. \E f \in [1 .. n -> S] : IsInjective(f)
    <3>1. PICK k \in Nat : ExistsBijection(1 .. k, S)
      BY FS_NatBijection
    <3>2. n = k
      BY <3>1, FS_CountingElements
    <3>3. PICK f \in Bijection(1 .. n, S) : TRUE
      BY <3>1, <3>2 DEF ExistsBijection
    <3> HIDE DEF n, S
    <3> QED
      BY <3>3 DEF Bijection, Injection, IsInjective
  <2>2. order = CHOOSE f \in [1 .. n -> S] : IsInjective(f)
    BY DEF SetToSeq
  <2>3. order \in [1 .. n -> S]
    <3> HIDE DEF order, n, S
    <3> QED
      BY <2>1, <2>2
  <2> QED
    BY <2>3
<1> HIDE DEF n, order
<1>3. \E f : After(n, f)
  <2> DEFINE good == {m \in Nat : \E f : After(m, f)}
  <2>1. 0 \in good
    <3>1. After(0, [i \in 0 .. 0 |-> Done(s)])
      OBVIOUS
    <3> QED
      BY <3>1
  <2>2. ASSUME NEW m \in 1 .. n, m - 1 \in good PROVE m \in good
    <3>1. PICK f : After(m - 1, f)
      BY <2>2
    <3> DEFINE g == [i \in 0 .. m |-> IF i = m THEN claimNext(f[m - 1], a, order[m]) ELSE f[i]]
    <3>2. \A i \in 0 .. m - 1 : g[i] = f[i]
      OBVIOUS
    <3>3. \A i \in 0 .. m : g[i] = IF i = 0 THEN Done(s)
                                   ELSE claimNext(g[i - 1], a, order[i])
      <4> TAKE i \in 0 .. m
      <4>1. CASE i = m
        BY <4>1, <3>2
      <4>2. CASE i # m
        <5>1. i \in 0 .. m - 1
          BY <4>2
        <5>2. f[i] = IF i = 0 THEN Done(s) ELSE claimNext(f[i - 1], a, order[i])
          BY <3>1, <5>1
        <5>3. i # 0 => i - 1 \in 0 .. m - 1
          BY <5>1
        <5> QED
          BY <3>2, <5>1, <5>2, <5>3
      <4> QED
        BY <4>1, <4>2
    <3>4. g = [i \in 0 .. m |-> g[i]]
      OBVIOUS
    <3> HIDE DEF g
    <3>5. After(m, g)
      BY <3>3, <3>4
    <3> QED
      BY <3>5
  <2> HIDE DEF good
  <2>3. n \in good
    BY <1>2, <2>1, <2>2, StepsKeep
  <2> QED
    BY <2>3 DEF good
<1>4. After(n, after)
  BY <1>3
<1> HIDE DEF after
<1>5. /\ after[0] = Done(s)
      /\ \A i \in 1 .. n : after[i] = claimNext(after[i - 1], a, order[i])
  BY <1>2, <1>4
<1>7. ClaimSteps(s, a, order, after)
  BY <1>1, <1>2, <1>5, <1>6 DEF n, ClaimSteps
<1> QED
  BY <1>7

\* The claim of all the rewards of a, as for the stakes.
LEMMA ClaimKeeps ==
    ASSUME NEW s, NEW h, AppOK(s, h), NEW a, a \in DOMAIN s.stakers
    PROVE  Keeps(claimRewards(s, a), s, h)
<1> DEFINE n == Cardinality(DOMAIN s.stakers[a].stakes)
<1>0. IsFiniteSet(DOMAIN s.stakers[a].stakes)
  BY DEF AppOK, StakersOK
<1>3. PICK order, after : ClaimSteps(s, a, order, after)
  BY <1>0, ClaimUnfolded
<1>1. /\ claimRewards(s, a) = after[n] /\ after[0] = Done(s)
      /\ \A i \in 1 .. n : after[i] = claimNext(after[i - 1], a, order[i])
  BY <1>3 DEF ClaimSteps
<1>2. n \in Nat
  BY <1>3 DEF ClaimSteps
<1> HIDE DEF n
<1> DEFINE good == {i \in Nat : Keeps(after[i], s, h)}
<1>6. 0 \in good
  BY <1>1, SameUnlocksKept DEF Keeps, Done
<1>7. ASSUME NEW i \in 1 .. n, i - 1 \in good PROVE i \in good
  <2>1. Keeps(after[i - 1], s, h)
    BY <1>7
  <2>2. CASE ~after[i - 1].ok
    BY <1>1, <2>1, <2>2 DEF claimNext
  <2>3. CASE after[i - 1].ok
    <3> DEFINE r == after[i - 1].s
    <3>1. AppOK(r, h) /\ Kept(s, r)
      BY <2>1, <2>3 DEF Keeps
    <3>2. Keeps(after[i], r, h)
      BY <1>1, <2>3, <3>1, ClaimFromKeeps DEF claimNext
    <3> HIDE DEF r
    <3> QED
      BY <3>1, <3>2, KeptTransitive DEF Keeps
  <2> QED
    BY <2>2, <2>3
<1> HIDE DEF good
<1>8. n \in good
  BY <1>2, <1>6, <1>7, StepsKeep
<1> QED
  BY <1>1, <1>8 DEF good

(* ------------------------- accounts of validators ---------------------- *)

\* Accounts that differ in nothing that the weight, the ban or the reports show.
LEMMA OtherAccountsOK ==
    ASSUME NEW s, NEW h, AppOK(s, h), NEW t, DOMAIN t = DOMAIN s, t.stakers = s.stakers,
           t.eligible = s.eligible, DOMAIN t.validators = DOMAIN s.validators,
           \A a \in DOMAIN s.validators :
               LET v == s.validators[a] w == t.validators[a]
               IN  /\ DOMAIN w = DOMAIN v /\ w.self = v.self /\ w.total = v.total
                   /\ w.banned = v.banned /\ w.reports = v.reports
    PROVE  AppOK(t, h)
<1>1. ValidatorsOK(t.validators, h)
  BY DEF AppOK, ValidatorsOK, ValidatorOK
<1>2. StakersOK(t.stakers, t.validators)
  BY DEF AppOK, StakersOK, UnlocksOK
<1>3. \A a \in DOMAIN s.validators :
          /\ getValidatorWeight(t.validators[a]) = getValidatorWeight(s.validators[a])
          /\ LastReport(t.validators[a]) = LastReport(s.validators[a])
  BY DEF getValidatorWeight, LastReport
<1>4. Listed(t.validators) = Listed(s.validators)
  BY <1>3 DEF Listed
<1>5. \A a \in Listed(s.validators) : a \in DOMAIN s.validators
  BY DEF Listed
<1>6. Keys(t.validators) = Keys(s.validators)
  BY <1>3, <1>4, <1>5 DEF Keys
<1>7. \A k \in Keys(s.validators) : k[2] \in DOMAIN s.validators
  BY <1>5 DEF Keys
<1>8. EligibleIs(t.validators, t.eligible)
  BY <1>3, <1>6, <1>7 DEF EligibleIs, AppOK
<1> QED
  BY <1>1, <1>2, <1>8 DEF AppOK

\* An account without stakes is below the minimum weight.
LEMMA NoStakesNoWeight ==
    ASSUME NEW name, NEW height
    PROVE  getValidatorWeight(NewValidator(name, height)) < MinWeightStandby
<1>1. NewValidator(name, height).self * FactorSelfStakes = 0 /\ NewValidator(name, height).total = 0
  BY PoSAssumption DEF NewValidator
<1>2. Min({0, 0}) = 0
  BY DEF Min
<1>3. MinWeightStandby \in Nat \ {0}
  BY PoSAssumption
<1> QED
  BY <1>1, <1>2, <1>3 DEF getValidatorWeight

\* A new account is well formed.
LEMMA NewValidatorOK ==
    ASSUME NEW name, NEW height, NEW h
    PROVE  ValidatorOK(NewValidator(name, height), h)
  BY DEF ValidatorOK, ValidatorFields, NewValidator, ReportsOK

\* Registration of a validator.
LEMMA RegistrationOK ==
    ASSUME NEW s, NEW h \in Nat, AppOK(s, h), NEW a \in Address, a \notin DOMAIN s.validators,
           NEW name, NEW t,
           DOMAIN t = DOMAIN s, t.stakers = s.stakers, t.eligible = s.eligible,
           t.validators = Put(s.validators, a, NewValidator(name, h))
    PROVE  AppOK(t, h)
<1> DEFINE v == NewValidator(name, h)
<1>1. /\ DOMAIN t.validators = DOMAIN s.validators \cup {a} /\ t.validators[a] = v
      /\ \A b \in DOMAIN s.validators : t.validators[b] = s.validators[b]
  BY DEF Put
<1>2. ValidatorOK(v, h)
  BY NewValidatorOK
<1>3. getValidatorWeight(v) < MinWeightStandby
  BY NoStakesNoWeight
<1> HIDE DEF v
<1>4. ValidatorsOK(t.validators, h)
  BY <1>1, <1>2 DEF AppOK, ValidatorsOK
<1>5. StakersOK(t.stakers, t.validators)
  BY <1>1 DEF AppOK, StakersOK, UnlocksOK
<1>6. Listed(t.validators) = Listed(s.validators)
  BY <1>1, <1>3 DEF Listed
<1>7. \A b \in Listed(s.validators) : b \in DOMAIN s.validators
  BY DEF Listed
<1>8. Keys(t.validators) = Keys(s.validators)
  BY <1>1, <1>6, <1>7 DEF Keys
<1>9. \A k \in Keys(s.validators) : t.validators[k[2]] = s.validators[k[2]]
  BY <1>1, <1>7 DEF Keys
<1>10. EligibleIs(t.validators, t.eligible)
  BY <1>8, <1>9 DEF EligibleIs, AppOK
<1> QED
  BY <1>4, <1>5, <1>10 DEF AppOK

\* The stores stay sound as the height grows.
LEMMA HeightGrows ==
    ASSUME NEW s, NEW h \in Nat, AppOK(s, h)
    PROVE  AppOK(s, h + 1)
<1>1. \A reports : ReportsOK(reports, h) => ReportsOK(reports, h + 1)
  BY DEF ReportsOK
<1> QED
  BY <1>1 DEF AppOK, ValidatorsOK, ValidatorOK

\* One more report, at the height h, a punishment window after the last.
LEMMA ReportAdded ==
    ASSUME NEW h \in Nat, NEW reports, ReportsOK(reports, h),
           reports # <<>> => Last(reports) + PunishmentWindowSelf <= h
    PROVE  ReportsOK(Append(reports, h), h)
<1> DEFINE n == Len(reports)
           new == Append(reports, h)
<1>1. reports \in Seq(Nat) /\ n \in Nat
  BY DEF ReportsOK
<1>2. /\ new \in Seq(Nat) /\ Len(new) = n + 1 /\ new[n + 1] = h
      /\ \A i \in 1 .. n : new[i] = reports[i]
  BY <1>1
<1> HIDE DEF new
<1>3. \A i \in 1 .. n : reports[i] \in Nat
  BY <1>1
<1>4. \A i \in 1 .. n : reports[i] + PunishmentWindowSelf <= h
  <2> TAKE i \in 1 .. n
  <2>1. reports # <<>> /\ Last(reports) = reports[n]
    BY <1>1 DEF Last
  <2>2. reports[n] + PunishmentWindowSelf <= h
    BY <2>1
  <2>3. i = n \/ reports[i] + PunishmentWindowSelf <= reports[n]
    BY <1>1 DEF ReportsOK
  <2>4. PunishmentWindowSelf \in Nat
    BY PoSAssumption
  <2>5. reports[i] \in Nat /\ n \in 1 .. n /\ reports[n] \in Nat
    BY <1>1, <1>3
  <2> QED
    BY <2>2, <2>3, <2>4, <2>5
<1>5. \A i \in 1 .. n + 1 : new[i] <= h
  BY <1>2, <1>1, SMTT(60) DEF ReportsOK
<1>6. \A i \in 1 .. n + 1, j \in 1 .. n + 1 : i < j => new[i] + PunishmentWindowSelf <= new[j]
  <2> SUFFICES ASSUME NEW i \in 1 .. n + 1, NEW j \in 1 .. n + 1, i < j
               PROVE  new[i] + PunishmentWindowSelf <= new[j]
    OBVIOUS
  <2>1. i \in 1 .. n
    BY <1>1
  <2>2. CASE j = n + 1
    BY <2>1, <2>2, <1>2, <1>4
  <2>3. CASE j \in 1 .. n
    BY <2>1, <2>3, <1>2 DEF ReportsOK
  <2> QED
    BY <2>2, <2>3, <1>1
<1> QED
  BY <1>2, <1>5, <1>6 DEF ReportsOK, new

(* ---------------------------- punished stakes -------------------------- *)

\* The pending unlock u of a is not held by any report of its validator: not by the
\* last, and not by an earlier one unless the next could be made a window later.
Free(u, reports, a) ==
    \A i \in DOMAIN reports :
        reports[i] < u.height + WaitTime(a, u.validator) =>
            \/ block.height >= reports[i] + PunishTime(a, u.validator)
            \/ i < Len(reports) /\ block.height >= reports[i] + PunishmentWindowSelf

\* No report holds the pending unlock u of a.
HeldByNoReport(a, u) ==
    \A h \in Range(app.validators[u.validator].reports) :
        h < u.height + WaitTime(a, u.validator) => block.height >= h + PunishTime(a, u.validator)

\* What a step from the stores s to the stores t may do: no validator is gone, and
\* what PunishedStaysLocked says.
Releases(s, t) ==
    /\ DOMAIN s.validators \subseteq DOMAIN t.validators
    /\ \A a \in DOMAIN s.stakers : \A u \in DOMAIN s.stakers[a].unlocks :
           Copies(u, t.stakers[a].unlocks) < Copies(u, s.stakers[a].unlocks) =>
               Free(u, s.validators[u.validator].reports, a)

\* isPunished looks at the last report only: since reports are a window apart, an
\* earlier one has held the unlock for that window.
LEMMA LastReportDecides ==
    ASSUME block.height \in Nat, NEW u, NEW a, NEW reports, ReportsOK(reports, block.height),
           ~isPunished(u, reports, a)
    PROVE  Free(u, reports, a)
<1> DEFINE n == Len(reports)
           w == PunishTime(a, u.validator)
<1>1. reports \in Seq(Nat) /\ n \in Nat /\ DOMAIN reports = 1 .. n
  BY DEF ReportsOK
<1>2. w \in Nat /\ PunishmentWindowSelf \in Nat
  BY PoSAssumption DEF PunishTime
<1> SUFFICES ASSUME NEW i \in 1 .. n, reports[i] < u.height + WaitTime(a, u.validator)
             PROVE  \/ block.height >= reports[i] + w
                    \/ i < n /\ block.height >= reports[i] + PunishmentWindowSelf
  BY <1>1 DEF Free
<1>3. reports # <<>> /\ Last(reports) = reports[n] /\ n \in 1 .. n
  BY <1>1 DEF Last
<1>4. reports[i] \in Nat /\ reports[n] \in Nat /\ reports[n] <= block.height
  BY <1>1, <1>3 DEF ReportsOK
<1>5. CASE i = n
  <2>1. ~(block.height - Last(reports) < w)
    BY <1>3, <1>5 DEF isPunished
  <2> HIDE DEF w
  <2> QED
    BY <2>1, <1>2, <1>3, <1>4, <1>5
<1>6. CASE i # n
  <2>1. i < n
    <3> HIDE DEF n, w
    <3> QED
      BY <1>1, <1>6
  <2>2. reports[i] + PunishmentWindowSelf <= reports[n]
    BY <1>3, <2>1 DEF ReportsOK
  <2> HIDE DEF w, n
  <2> QED
    BY <2>1, <2>2, <1>2, <1>4, SMTT(60)
<1> QED
  BY <1>5, <1>6

\* A step that keeps the pending unlocks releases none.
LEMMA KeptReleases ==
    ASSUME NEW s, NEW h, AppOK(s, h), NEW t, AppOK(t, h), Kept(s, t)
    PROVE  Releases(s, t)
<1> SUFFICES ASSUME NEW a \in DOMAIN s.stakers, NEW u \in DOMAIN s.stakers[a].unlocks
             PROVE  ~(Copies(u, t.stakers[a].unlocks) < Copies(u, s.stakers[a].unlocks))
  BY DEF Releases, Kept
<1>1. /\ \A x \in DOMAIN s.stakers[a].unlocks : s.stakers[a].unlocks[x] \in Nat
      /\ a \in DOMAIN t.stakers
      /\ \A x \in DOMAIN t.stakers[a].unlocks : t.stakers[a].unlocks[x] \in Nat
  BY DEF AppOK, StakersOK, UnlocksOK, Kept
<1>2. s.stakers[a].unlocks[u] <= Copies(u, t.stakers[a].unlocks)
  BY DEF Kept
<1>3. Copies(u, s.stakers[a].unlocks) = s.stakers[a].unlocks[u]
  BY DEF Copies
<1>4. Copies(u, t.stakers[a].unlocks) \in Nat
  BY <1>1 DEF Copies
<1> QED
  BY <1>1, <1>2, <1>3, <1>4

\* What a command may do to the stores.
CommandOK(r, s) == r.ok => AppOK(r.s, block.height) /\ Releases(s, r.s)

\* An unlock releases only what is not punished.
LEMMA UnlockOK ==
    ASSUME block.height \in Nat, NEW s, AppOK(s, block.height), NEW a, NEW certified
    PROVE  CommandOK(unlockStakes(s, a, certified), s)
<1> DEFINE unlocks == s.stakers[a].unlocks
           free    == Unlockable(s, a, certified)
           amount  == SumFunction([u \in free |-> u.amount * unlocks[u]])
           fails   == a \notin DOMAIN s.stakers \/ free = {} \/ ~unlockable(s.ledger, a, "pos", KLY, amount)
           t       == [s EXCEPT !.ledger = unlock(@, a, "pos", KLY, amount),
                                !.stakers[a].unlocks = Restrict(@, DOMAIN @ \ free)]
<1>1. unlockStakes(s, a, certified) = IF fails THEN Throw(s) ELSE Done(t)
  BY DEF unlockStakes
<1> SUFFICES ASSUME ~fails PROVE AppOK(t, block.height) /\ Releases(s, t)
  <2> HIDE DEF t, fails
  <2> QED
    BY <1>1 DEF CommandOK, Throw, Done
<1>2. a \in DOMAIN s.stakers
  OBVIOUS
<1>3. free \subseteq DOMAIN unlocks /\ \A u \in free : ~isPunished(u, s.validators[u.validator].reports, a)
  BY DEF Unlockable
<1> HIDE DEF free, fails, amount
<1>4. /\ DOMAIN t = DOMAIN s /\ t.validators = s.validators /\ t.eligible = s.eligible
      /\ t.stakers = [s.stakers EXCEPT ![a].unlocks = Restrict(@, DOMAIN @ \ free)]
  BY DEF AppOK, AppFields
<1> HIDE DEF t
<1> DEFINE left == Restrict(unlocks, DOMAIN unlocks \ free)
<1>5. /\ DOMAIN t.stakers = DOMAIN s.stakers
      /\ \A d \in DOMAIN s.stakers : d # a => t.stakers[d] = s.stakers[d]
      /\ t.stakers[a] = [s.stakers[a] EXCEPT !.unlocks = left]
  BY <1>2, <1>4
<1>6. /\ DOMAIN t.stakers[a] = DOMAIN s.stakers[a] /\ t.stakers[a].stakes = s.stakers[a].stakes
      /\ t.stakers[a].unlocks = left
  BY <1>2, <1>5 DEF AppOK, StakersOK
<1>7. UnlocksOK(unlocks, s.validators)
  BY <1>2 DEF AppOK, StakersOK
<1>8. DOMAIN left = DOMAIN unlocks \ free /\ \A u \in DOMAIN left : left[u] = unlocks[u]
  BY DEF Restrict
<1> HIDE DEF left
<1>9. UnlocksOK(left, s.validators)
  BY <1>7, <1>8 DEF UnlocksOK
<1>10. StakersOK(t.stakers, s.validators)
  BY <1>2, <1>5, <1>6, <1>9 DEF AppOK, StakersOK
<1>11. AppOK(t, block.height)
  BY <1>4, <1>10, OtherStakersOK
<1>12. ASSUME NEW c \in DOMAIN s.stakers, NEW u \in DOMAIN s.stakers[c].unlocks,
              Copies(u, t.stakers[c].unlocks) < Copies(u, s.stakers[c].unlocks)
       PROVE  Free(u, s.validators[u.validator].reports, c)
  <2>1. s.stakers[c].unlocks[u] \in Nat /\ u.validator \in DOMAIN s.validators
    BY DEF AppOK, StakersOK, UnlocksOK
  <2>2. Copies(u, t.stakers[c].unlocks) # Copies(u, s.stakers[c].unlocks)
    BY <1>12, <2>1 DEF Copies
  <2>3. c = a /\ u \in free
    BY <2>2, <1>5, <1>6, <1>8 DEF Copies
  <2>4. ReportsOK(s.validators[u.validator].reports, block.height)
    BY <2>1 DEF AppOK, ValidatorsOK, ValidatorOK
  <2> QED
    BY <2>3, <2>4, <1>3, LastReportDecides
<1> QED
  BY <1>4, <1>11, <1>12 DEF Releases

\* A report of misbehaviour of b.
LEMMA ReportOK ==
    ASSUME block.height \in Nat, NEW s, AppOK(s, block.height), NEW a, NEW b, verifyReport(s, b)
    PROVE  CommandOK(reportMisbehavior(s, a, b), s)
<1> DEFINE v       == s.validators[b]
           reports == Append(v.reports, block.height)
           reward  == Min({ReportReward, v.self})
           ledger  == transfer(unlock(s.ledger, b, "pos", KLY, reward), b, a, KLY, reward)
           changed == [v EXCEPT !.reports = reports, !.banned = @ \/ Len(reports) = ReportLimit,
                                !.self = @ - reward, !.total = @ - reward]
           t       == [s EXCEPT !.ledger = ledger, !.stakers[b].stakes[b].amount = @ - reward]
           ok      == /\ unlockable(s.ledger, b, "pos", KLY, reward)
                      /\ b \in DOMAIN s.stakers /\ b \in DOMAIN s.stakers[b].stakes
<1>1. reportMisbehavior(s, a, b) = IF ok THEN Done(withValidator(t, b, changed)) ELSE Throw(s)
  BY DEF reportMisbehavior
<1> SUFFICES ASSUME ok
             PROVE  /\ AppOK(withValidator(t, b, changed), block.height)
                    /\ Releases(s, withValidator(t, b, changed))
  <2> HIDE DEF t, ok, changed
  <2> QED
    BY <1>1 DEF CommandOK, Throw, Done
<1>2. b \in DOMAIN s.validators
  BY DEF verifyReport
<1>3. ValidatorOK(v, block.height)
  BY <1>2 DEF AppOK, ValidatorsOK
<1>4. ReportsOK(reports, block.height)
  BY <1>3, ReportAdded DEF verifyReport, ValidatorOK
<1>12. reward \in Int
  <2>1. v.self \in Int
    BY <1>3 DEF ValidatorOK
  <2>2. ReportReward \in Int
    BY PoSAssumption
  <2> QED
    BY <2>1, <2>2, MinOfTwo
<1> HIDE DEF reports, reward, ledger, ok
<1>5. ValidatorOK(changed, block.height)
  BY <1>3, <1>4, <1>12 DEF ValidatorOK, ValidatorFields
<1> HIDE DEF changed
<1>6. /\ DOMAIN t = DOMAIN s /\ t.validators = s.validators /\ t.eligible = s.eligible
      /\ t.stakers = [s.stakers EXCEPT ![b].stakes[b].amount = @ - reward]
  BY DEF AppOK, AppFields
<1> HIDE DEF t
<1>7. /\ DOMAIN t.stakers = DOMAIN s.stakers
      /\ \A d \in DOMAIN s.stakers : /\ DOMAIN t.stakers[d] = DOMAIN s.stakers[d]
                                     /\ DOMAIN t.stakers[d].stakes = DOMAIN s.stakers[d].stakes
                                     /\ t.stakers[d].unlocks = s.stakers[d].unlocks
  BY <1>6 DEF AppOK, StakersOK
<1>8. StakersOK(t.stakers, s.validators)
  BY <1>7 DEF AppOK, StakersOK
<1>9. AppOK(t, block.height)
  BY <1>6, <1>8, OtherStakersOK
<1>10. /\ AppOK(withValidator(t, b, changed), block.height)
       /\ withValidator(t, b, changed).stakers = t.stakers
       /\ DOMAIN withValidator(t, b, changed).validators = DOMAIN s.validators
  BY <1>2, <1>5, <1>6, <1>9, WithValidatorOK
<1>11. Kept(s, withValidator(t, b, changed))
  BY <1>7, <1>10, SameUnlocksKept
<1> QED
  BY <1>10, <1>11, KeptReleases

\* Registration and commission: the stakers are as before.
LEMMA RegisterOK ==
    ASSUME block.height \in Nat, NEW s, AppOK(s, block.height), NEW a \in Address, NEW name,
           verifyRegistration(s, a, name)
    PROVE  CommandOK(registerValidator(s, a, name), s)
<1> DEFINE r == registerValidator(s, a, name)
<1>1. r.s = [s EXCEPT !.validators = Put(@, a, NewValidator(name, block.height))]
  BY DEF registerValidator, Done
<1>2. /\ DOMAIN r.s = DOMAIN s /\ r.s.stakers = s.stakers /\ r.s.eligible = s.eligible
      /\ r.s.validators = Put(s.validators, a, NewValidator(name, block.height))
  BY <1>1 DEF AppOK, AppFields
<1> HIDE DEF r
<1>3. a \notin DOMAIN s.validators
  BY DEF verifyRegistration
<1>4. AppOK(r.s, block.height)
  BY <1>2, <1>3, RegistrationOK
<1>5. Kept(s, r.s)
  BY <1>2, SameUnlocksKept DEF Put
<1> QED
  BY <1>4, <1>5, KeptReleases DEF CommandOK, r

\* A change of the commission.
LEMMA CommissionOK ==
    ASSUME block.height \in Nat, NEW s, AppOK(s, block.height), NEW a, NEW c
    PROVE  CommandOK(changeCommission(s, a, c), s)
<1> DEFINE r == changeCommission(s, a, c)
           i == IF c >= s.validators[a].commission THEN block.height ELSE s.validators[a].increased
<1>1. r.s = [s EXCEPT !.validators[a].commission = c,
                      !.validators[a].increased  = IF c >= s.validators[a].commission
                                                   THEN block.height ELSE @]
  BY DEF changeCommission, Done
<1>2. /\ DOMAIN r.s = DOMAIN s /\ r.s.stakers = s.stakers /\ r.s.eligible = s.eligible
      /\ DOMAIN r.s.validators = DOMAIN s.validators
      /\ \A b \in DOMAIN s.validators : b # a => r.s.validators[b] = s.validators[b]
      /\ a \in DOMAIN s.validators =>
             LET v == s.validators[a] w == r.s.validators[a]
             IN  /\ DOMAIN w = DOMAIN v /\ w.self = v.self /\ w.total = v.total
                 /\ w.banned = v.banned /\ w.reports = v.reports
  BY <1>1 DEF AppOK, AppFields, ValidatorsOK, ValidatorOK, ValidatorFields
<1> HIDE DEF r
<1>3. AppOK(r.s, block.height)
  BY <1>2, OtherAccountsOK
<1>4. Kept(s, r.s)
  BY <1>2, SameUnlocksKept
<1> QED
  BY <1>3, <1>4, KeptReleases DEF CommandOK, r

(* --------------------------- the end of a block ------------------------ *)

\* Missed blocks: who is banned for them loses its key.
LEMMA ProductivityOK ==
    ASSUME block.height \in Nat, NEW s, AppOK(s, block.height)
    PROVE  /\ AppOK(updateProductivity(s), block.height)
           /\ updateProductivity(s).stakers = s.stakers
           /\ DOMAIN updateProductivity(s).validators = DOMAIN s.validators
<1> DEFINE g       == GeneratorAt(block.slot)
           banned  == {a \in Addresses(params) : isBannedByMissing(s.validators[a], a)}
           counted == [a \in DOMAIN s.validators |->
                          IF a \in Addresses(params) THEN missBlocks(s.validators[a], a)
                                                     ELSE s.validators[a]]
           lost    == {<<getValidatorWeight(s.validators[a]), a>> : a \in banned}
           new     == [counted EXCEPT ![g].missed = 0, ![g].lastGenerated = block.height]
           t       == [s EXCEPT !.validators = new, !.eligible = Restrict(@, DOMAIN @ \ lost)]
<1>1. updateProductivity(s) = t
  BY DEF updateProductivity
<1>2. /\ DOMAIN t = AppFields /\ t.stakers = s.stakers /\ t.validators = new
      /\ t.eligible = Restrict(s.eligible, DOMAIN s.eligible \ lost)
  BY DEF AppOK, AppFields
<1> HIDE DEF t
<1>3. /\ DOMAIN counted = DOMAIN s.validators
      /\ \A a \in DOMAIN s.validators :
            LET v == s.validators[a] w == counted[a]
            IN  /\ DOMAIN w = ValidatorFields /\ w.self = v.self /\ w.total = v.total
                /\ w.reports = v.reports /\ w.banned = (v.banned \/ a \in banned)
  <2> SUFFICES ASSUME NEW a \in DOMAIN s.validators
               PROVE  LET v == s.validators[a] w == counted[a]
                      IN  /\ DOMAIN w = ValidatorFields /\ w.self = v.self /\ w.total = v.total
                          /\ w.reports = v.reports /\ w.banned = (v.banned \/ a \in banned)
    OBVIOUS
  <2>1. DOMAIN s.validators[a] = ValidatorFields /\ s.validators[a].banned \in BOOLEAN
    BY DEF AppOK, ValidatorsOK, ValidatorOK
  <2>2. CASE a \in Addresses(params)
    <3>1. counted[a] = missBlocks(s.validators[a], a)
      BY <2>2
    <3>2. isBannedByMissing(s.validators[a], a) <=> a \in banned
      BY <2>2
    <3> HIDE DEF banned, counted
    <3> QED
      BY <2>1, <3>1, <3>2 DEF missBlocks, ValidatorFields
  <2>3. CASE a \notin Addresses(params)
    BY <2>1, <2>3
  <2> QED
    BY <2>2, <2>3
<1> HIDE DEF counted
<1>4. /\ DOMAIN new = DOMAIN s.validators
      /\ \A a \in DOMAIN s.validators :
            LET v == s.validators[a] w == new[a]
            IN  /\ DOMAIN w = ValidatorFields /\ w.self = v.self /\ w.total = v.total
                /\ w.reports = v.reports /\ w.banned = (v.banned \/ a \in banned)
  BY <1>3 DEF ValidatorFields
<1> HIDE DEF new, banned
<1>5. ValidatorsOK(t.validators, block.height)
  BY <1>2, <1>4 DEF AppOK, ValidatorsOK, ValidatorOK
<1>6. StakersOK(t.stakers, t.validators)
  BY <1>2, <1>4 DEF AppOK, StakersOK, UnlocksOK
<1>7. \A a \in DOMAIN s.validators :
          /\ getValidatorWeight(new[a]) = getValidatorWeight(s.validators[a])
          /\ LastReport(new[a]) = LastReport(s.validators[a])
  BY <1>4 DEF getValidatorWeight, LastReport
<1>8. Listed(new) = Listed(s.validators) \ banned
  BY <1>4, <1>7 DEF Listed
<1>9. \A a \in Listed(s.validators) : a \in DOMAIN s.validators
  BY DEF Listed
<1>10. Keys(new) = Keys(s.validators) \ lost
  <2>1. \A a \in Listed(new) : <<getValidatorWeight(new[a]), a>> \in Keys(s.validators) \ lost
    BY <1>7, <1>8, <1>9 DEF Keys
  <2>2. \A a \in Listed(s.validators) :
            \/ <<getValidatorWeight(s.validators[a]), a>> \in lost
            \/ <<getValidatorWeight(s.validators[a]), a>> \in Keys(new)
    BY <1>7, <1>8, <1>9 DEF Keys
  <2> HIDE DEF lost
  <2> QED
    BY <2>1, <2>2 DEF Keys
<1> HIDE DEF lost
<1>11. \A k \in Keys(s.validators) : k[2] \in DOMAIN s.validators
  BY <1>9 DEF Keys
<1>12. EligibleIs(t.validators, t.eligible)
  BY <1>2, <1>7, <1>10, <1>11 DEF EligibleIs, AppOK, Restrict
<1> QED
  BY <1>1, <1>2, <1>4, <1>5, <1>6, <1>12 DEF AppOK

\* The reward changes the ledger and a sharing coefficient.
LEMMA RewardOK ==
    ASSUME NEW s, NEW h, AppOK(s, h), NEW reduction
    PROVE  /\ AppOK(rewarded(s, reduction), h) /\ rewarded(s, reduction).stakers = s.stakers
           /\ DOMAIN rewarded(s, reduction).validators = DOMAIN s.validators
<1> DEFINE t == rewarded(s, reduction)
<1>1. /\ DOMAIN t = DOMAIN s /\ t.stakers = s.stakers /\ t.eligible = s.eligible
      /\ DOMAIN t.validators = DOMAIN s.validators
      /\ \A a \in DOMAIN s.validators :
             LET v == s.validators[a] w == t.validators[a]
             IN  /\ DOMAIN w = DOMAIN v /\ w.self = v.self /\ w.total = v.total
                 /\ w.banned = v.banned /\ w.reports = v.reports
  BY DEF AppOK, AppFields, rewarded, updateSharedRewards, ValidatorsOK, ValidatorOK, ValidatorFields
<1> HIDE DEF t
<1>2. AppOK(t, h)
  BY <1>1, OtherAccountsOK
<1> QED
  BY <1>1, <1>2 DEF t

(* ------------------------------- the steps ----------------------------- *)

\* What every step does.
StepOK == IInv' /\ Releases(app, app')

\* Locking the fee changes nothing but the ledger.
LEMMA FeeLockedOK ==
    ASSUME IInv, NEW a
    PROVE  /\ AppOK(feeLocked(a), block.height)
           /\ feeLocked(a).stakers = app.stakers /\ feeLocked(a).validators = app.validators
<1> DEFINE t == feeLocked(a)
<1>1. /\ DOMAIN t = DOMAIN app /\ t.stakers = app.stakers
      /\ t.validators = app.validators /\ t.eligible = app.eligible
  BY DEF IInv, AppOK, AppFields, feeLocked
<1> HIDE DEF t
<1> QED
  BY <1>1 DEF IInv, AppOK, t

\* A transaction whose command does to the stores what it may.
LEMMA TransactionOK ==
    ASSUME IInv, NEW a, NEW r, CommandOK(r, feeLocked(a)), executeTransaction(a, r)
    PROVE  StepOK
<1> DEFINE s == IF r.ok THEN r.s ELSE feeLocked(a)
<1>1. AppOK(s, block.height) /\ Releases(app, s)
  <2>1. CASE r.ok
    BY <2>1, FeeLockedOK DEF CommandOK, Releases
  <2>2. CASE ~r.ok
    <3>1. Kept(app, feeLocked(a))
      BY FeeLockedOK, SameUnlocksKept DEF IInv
    <3> QED
      BY <2>2, <3>1, FeeLockedOK, KeptReleases DEF IInv
  <2> QED
    BY <2>1, <2>2
<1>2. app' = feeProcessed(s, a, r.paid) /\ block' = [block EXCEPT !.transactions = @ + 1]
  BY DEF executeTransaction
<1> HIDE DEF s
<1>3. /\ DOMAIN app' = DOMAIN s /\ app'.stakers = s.stakers
      /\ app'.validators = s.validators /\ app'.eligible = s.eligible
  BY <1>1, <1>2 DEF feeProcessed, AppOK, AppFields
<1>4. DOMAIN block' = DOMAIN block /\ block'.height = block.height
  BY <1>2 DEF IInv
<1>5. IInv'
  BY <1>1, <1>3, <1>4 DEF IInv, AppOK
<1>6. Releases(app, app')
  BY <1>1, <1>3 DEF Releases
<1> QED
  BY <1>5, <1>6 DEF StepOK

\* What keeps the pending unlocks is allowed to a command.
LEMMA KeepsOK ==
    ASSUME NEW r, NEW s, AppOK(s, block.height), Keeps(r, s, block.height)
    PROVE  CommandOK(r, s)
  BY KeptReleases DEF Keeps, CommandOK

\* A ban is lifted: the validator had no key, so 0 does as the weight of the old one.
LEMMA UnbanOK ==
    ASSUME IInv, NEW b, UnbanValidator(b)
    PROVE  StepOK
<1> DEFINE v == [app.validators[b] EXCEPT !.banned = FALSE]
<1>1. /\ b \in DOMAIN app.validators /\ app.validators[b].banned /\ block' = block
      /\ app' = [app EXCEPT !.validators[b] = v, !.eligible = updateEligible(@, b, 0, v)]
  BY DEF UnbanValidator
<1>2. ValidatorOK(v, block.height)
  BY <1>1 DEF IInv, AppOK, ValidatorsOK, ValidatorOK, ValidatorFields
<1> HIDE DEF v
<1>3. /\ DOMAIN app' = AppFields /\ app'.stakers = app.stakers
      /\ app'.validators = [app.validators EXCEPT ![b] = v]
      /\ app'.eligible = updateEligible(app.eligible, b, 0, v)
  BY <1>1 DEF IInv, AppOK, AppFields
<1>4. b \notin Listed(app.validators)
  BY <1>1 DEF Listed
<1>5. EligibleIs(app'.validators, app'.eligible)
  BY <1>1, <1>3, <1>4, EligibleUpdated DEF IInv, AppOK
<1>6. ValidatorsOK(app'.validators, block.height)
  BY <1>2, <1>3 DEF IInv, AppOK, ValidatorsOK
<1>7. StakersOK(app'.stakers, app'.validators)
  BY <1>3 DEF IInv, AppOK, StakersOK, UnlocksOK
<1>8. AppOK(app', block.height)
  BY <1>3, <1>5, <1>6, <1>7 DEF AppOK
<1>9. Kept(app, app')
  BY <1>3, SameUnlocksKept DEF IInv
<1> QED
  BY <1>1, <1>8, <1>9, KeptReleases DEF StepOK, IInv

\* The end of a block.
LEMMA EndBlockOK ==
    ASSUME IInv, NEW reduction, NEW gap, EndBlock(reduction, gap)
    PROVE  StepOK
<1> DEFINE s == updateProductivity(app)
<1>1. /\ AppOK(s, block.height) /\ s.stakers = app.stakers
      /\ DOMAIN s.validators = DOMAIN app.validators
  BY ProductivityOK DEF IInv
<1>2. /\ app' = rewarded(s, reduction) /\ block'.height = block.height + 1
      /\ DOMAIN block' = {"height", "slot", "previous", "roundSlot", "transactions"}
  BY DEF EndBlock
<1> HIDE DEF s
<1>3. /\ AppOK(app', block.height) /\ app'.stakers = app.stakers
      /\ DOMAIN app'.validators = DOMAIN app.validators
  BY <1>1, <1>2, RewardOK
<1>4. AppOK(app', block.height + 1)
  BY <1>3, HeightGrows DEF IInv
<1>5. Kept(app, app')
  BY <1>3, SameUnlocksKept DEF IInv
<1>6. Releases(app, app')
  BY <1>3, <1>5, KeptReleases DEF IInv
<1> QED
  BY <1>2, <1>4, <1>6 DEF StepOK, IInv

\* The initial validators have distinct addresses.
LEMMA InitialAddresses ==
    /\ Range(InitValidators) \subseteq Address /\ InitValidators \in Seq(Range(InitValidators))
    /\ InitValidators # <<>>
    /\ \A i, j \in DOMAIN InitValidators : InitValidators[i] = InitValidators[j] => i = j
  BY PoSAssumption DEF Range, IsInjective

\* The genesis block.
LEMMA InitOK == Init => IInv
<1> SUFFICES ASSUME Init PROVE IInv
  OBVIOUS
<1> DEFINE validators == [a \in Range(InitValidators) |-> NewValidator(a, 0)]
<1>1. /\ DOMAIN app = AppFields /\ app.validators = validators
      /\ app.stakers = NoKeys /\ app.eligible = NoKeys
  BY DEF Init, AppFields
<1>2. block.height = 1 /\ DOMAIN block = {"height", "slot", "previous", "roundSlot", "transactions"}
  BY DEF Init
<1>3. ValidatorsOK(validators, 1)
  BY NewValidatorOK, InitialAddresses DEF ValidatorsOK
<1>4. StakersOK(NoKeys, validators)
  BY DEF StakersOK, NoKeys
<1>5. Listed(validators) = {}
  BY NoStakesNoWeight DEF Listed
<1> HIDE DEF validators
<1>6. EligibleIs(validators, NoKeys)
  BY <1>5 DEF EligibleIs, Keys, NoKeys
<1> QED
  BY <1>1, <1>2, <1>3, <1>4, <1>6 DEF IInv, AppOK

\* Every step.
LEMMA NextOK ==
    ASSUME IInv, [Next]_vars
    PROVE  StepOK
<1>1. CASE UNCHANGED vars
  <2>1. app' = app /\ block' = block
    BY <1>1 DEF vars
  <2>2. Kept(app, app')
    BY <2>1, SameUnlocksKept DEF IInv
  <2>3. Releases(app, app')
    BY <2>1, <2>2, KeptReleases DEF IInv
  <2> QED
    BY <2>1, <2>3 DEF StepOK, IInv
<1>2. ASSUME NEW a \in Address, NEW b \in SUBSET Address, NEW stakes \in [b -> Stakes], Stake(a, stakes)
      PROVE  StepOK
  <2>0. PICK order \in stakeOrders(stakes) :
            executeTransaction(a, stake(feeLocked(a), a, stakes, order))
    BY <1>2 DEF Stake
  <2> DEFINE r == stake(feeLocked(a), a, stakes, order)
  <2>1. /\ IsFiniteSet(DOMAIN stakes) /\ order \in SetToSeqs(DOMAIN stakes)
        /\ \A c \in DOMAIN stakes : stakes[c] \in Int
    BY PoSAssumption, FS_Subset DEF stakeOrders
  <2>2. Keeps(r, feeLocked(a), block.height)
    BY <2>1, FeeLockedOK, StakeKeeps
  <2>3. executeTransaction(a, r)
    BY <2>0
  <2> HIDE DEF r
  <2> QED
    BY <2>2, <2>3, FeeLockedOK, KeepsOK, TransactionOK
<1>3. ASSUME NEW a \in Address, ClaimRewards(a) PROVE StepOK
  <2> DEFINE r == claimRewards(feeLocked(a), a)
  <2>1. Keeps(r, feeLocked(a), block.height)
    <3>1. CASE a \in DOMAIN feeLocked(a).stakers
      BY <3>1, FeeLockedOK, ClaimKeeps
    <3>2. CASE a \notin DOMAIN feeLocked(a).stakers
      BY <3>2 DEF claimRewards, Throw, Keeps
    <3> QED
      BY <3>1, <3>2
  <2>2. executeTransaction(a, r)
    BY <1>3 DEF ClaimRewards
  <2> HIDE DEF r
  <2> QED
    BY <2>1, <2>2, FeeLockedOK, KeepsOK, TransactionOK
<1>4. ASSUME NEW a \in Address, NEW certified, Unlock(a, certified) PROVE StepOK
  <2> DEFINE r == unlockStakes(feeLocked(a), a, certified)
  <2>1. CommandOK(r, feeLocked(a))
    BY FeeLockedOK, UnlockOK DEF IInv
  <2>2. executeTransaction(a, r)
    BY <1>4 DEF Unlock
  <2> HIDE DEF r
  <2> QED
    BY <2>1, <2>2, TransactionOK
<1>5. ASSUME NEW a \in Address, NEW b \in Address, ReportMisbehavior(a, b) PROVE StepOK
  <2> DEFINE r == reportMisbehavior(feeLocked(a), a, b)
  <2>1. verifyReport(feeLocked(a), b)
    BY <1>5, FeeLockedOK DEF ReportMisbehavior, verifyReport
  <2>2. CommandOK(r, feeLocked(a))
    BY <2>1, FeeLockedOK, ReportOK DEF IInv
  <2>3. executeTransaction(a, r)
    BY <1>5 DEF ReportMisbehavior
  <2> HIDE DEF r
  <2> QED
    BY <2>2, <2>3, TransactionOK
<1>6. ASSUME NEW a \in Address, NEW name \in Names, RegisterValidator(a, name) PROVE StepOK
  <2> DEFINE r == registerValidator(feeLocked(a), a, name)
  <2>1. verifyRegistration(feeLocked(a), a, name)
    BY <1>6, FeeLockedOK DEF RegisterValidator, verifyRegistration
  <2>2. CommandOK(r, feeLocked(a))
    BY <2>1, FeeLockedOK, RegisterOK DEF IInv
  <2>3. executeTransaction(a, r)
    BY <1>6 DEF RegisterValidator
  <2> HIDE DEF r
  <2> QED
    BY <2>2, <2>3, TransactionOK
<1>7. ASSUME NEW a \in Address, NEW c \in Commissions, ChangeCommission(a, c) PROVE StepOK
  <2> DEFINE r == changeCommission(feeLocked(a), a, c)
  <2>1. CommandOK(r, feeLocked(a))
    BY FeeLockedOK, CommissionOK DEF IInv
  <2>2. executeTransaction(a, r)
    BY <1>7 DEF ChangeCommission
  <2> HIDE DEF r
  <2> QED
    BY <2>1, <2>2, TransactionOK
<1> QED
  BY <1>1, <1>2, <1>3, <1>4, <1>5, <1>6, <1>7, UnbanOK, EndBlockOK, Zenon DEF Next

(* -------------------------------- rounds ------------------------------- *)

\* Quotient and remainder determine each other.
LEMMA DivisionUnique ==
    ASSUME NEW L \in Nat \ {0}, NEW q \in Int, NEW m \in Int, 0 <= m, m < L
    PROVE  (q * L + m) \div L = q
<1> DEFINE x == q * L + m
           p == x \div L
<1>1. q * L \in Int /\ x \in Int
  OBVIOUS
<1>2. x = q * L + m
  OBVIOUS
<1> HIDE DEF x
<1>3. p \in Int /\ p * L <= x /\ x < (p + 1) * L
  BY <1>1
<1> HIDE DEF p
<1>4. ~(p < q)
  <2> SUFFICES ASSUME p < q PROVE FALSE
    OBVIOUS
  <2>1. (q - (p + 1)) * L >= 0
    BY <1>3
  <2>2. (q - (p + 1)) * L = q * L - (p + 1) * L /\ (p + 1) * L \in Int
    BY <1>3
  <2> QED
    BY <1>1, <1>2, <1>3, <2>1, <2>2
<1>5. ~(q < p)
  <2> SUFFICES ASSUME q < p PROVE FALSE
    OBVIOUS
  <2>1. (p - (q + 1)) * L >= 0
    BY <1>3
  <2>2. (p - (q + 1)) * L = p * L - (q * L + L) /\ p * L \in Int
    BY <1>3
  <2> QED
    BY <1>1, <1>2, <1>3, <2>1, <2>2
<1>6. p = q
  BY <1>3, <1>4, <1>5
<1> QED
  BY <1>6 DEF p, x

\* A round ends at the heights that its length divides, and the next one begins.
LEMMA RoundSteps ==
    ASSUME NEW h \in Nat
    PROVE  /\ Round(h) \in Nat
           /\ Round(h + 1) = IF isEndOfRound(h) THEN Round(h) + 1 ELSE Round(h)
<1> DEFINE L == RoundLength
           k == h \div L
           m == h % L
<1>1. L \in Nat \ {0}
  BY SelectionAssumption DEF RoundLength
<1> HIDE DEF L
<1>2. k \in Int /\ m \in Int /\ 0 <= m /\ m < L /\ h = k * L + m
  BY <1>1
<1>3. Round(h) = (h + L - 1) \div L /\ Round(h + 1) = (h + 1 + L - 1) \div L
  BY DEF Round, Ceiling, L
<1>4. isEndOfRound(h) <=> m = 0
  BY DEF isEndOfRound, L
<1>5. Round(h) \in Nat
  <2>1. Round(h) = Ceiling(h, L)
    BY DEF Round, L
  <2> QED
    BY <1>1, <2>1, CeilingOK
<1> HIDE DEF k, m
<1>6. k * L \in Int /\ (k + 1) * L = k * L + L
  BY <1>1, <1>2
<1>7. CASE m = 0
  <2>1. h + L - 1 = k * L + (L - 1) /\ h + 1 + L - 1 = (k + 1) * L + 0
    BY <1>1, <1>2, <1>6, <1>7
  <2>2. (k * L + (L - 1)) \div L = k
    BY <1>1, <1>2, DivisionUnique
  <2>3. ((k + 1) * L + 0) \div L = k + 1
    BY <1>1, <1>2, DivisionUnique
  <2> QED
    BY <1>3, <1>4, <1>5, <1>7, <2>1, <2>2, <2>3
<1>8. CASE m # 0
  <2>1. h + L - 1 = (k + 1) * L + (m - 1) /\ h + 1 + L - 1 = (k + 1) * L + m
    BY <1>1, <1>2, <1>6
  <2>2. ((k + 1) * L + (m - 1)) \div L = k + 1
    BY <1>1, <1>2, <1>8, DivisionUnique
  <2>3. ((k + 1) * L + m) \div L = k + 1
    BY <1>1, <1>2, DivisionUnique
  <2> QED
    BY <1>3, <1>4, <1>5, <1>8, <2>1, <2>2, <2>3
<1> QED
  BY <1>7, <1>8

\* The keys of the eligible validators: one for a validator, with a positive weight.
LEMMA KeysOK ==
    ASSUME NEW validators, NEW h, ValidatorsOK(validators, h)
    PROVE  /\ IsFiniteSet(Keys(validators))
           /\ \A k \in Keys(validators) : /\ k = <<k[1], k[2]>> /\ k[1] \in Nat /\ k[1] >= 1
                                          /\ k[2] \in DOMAIN validators /\ k[2] \in Nat
           /\ \A k, l \in Keys(validators) : k[2] = l[2] => k = l
<1> DEFINE f == [a \in Listed(validators) |-> <<getValidatorWeight(validators[a]), a>>]
<1>1. Listed(validators) \subseteq DOMAIN validators /\ DOMAIN validators \subseteq Address
  BY DEF Listed, ValidatorsOK
<1>2. IsFiniteSet(Listed(validators)) /\ Address \subseteq Nat
  BY <1>1, PoSAssumption, FS_Subset
<1>3. IsFiniteSet(Keys(validators))
  <2>1. /\ DOMAIN f = Listed(validators) /\ f = [a \in Listed(validators) |-> f[a]]
        /\ Keys(validators) = {f[a] : a \in Listed(validators)}
    BY DEF Keys
  <2> HIDE DEF f
  <2> QED
    BY <1>2, <2>1, ImagesFinite
<1>4. \A a \in Listed(validators) :
          getValidatorWeight(validators[a]) \in Nat /\ getValidatorWeight(validators[a]) >= 1
  <2> TAKE a \in Listed(validators)
  <2> DEFINE v == validators[a]
  <2>1. v.self \in Int /\ v.total \in Int
    BY <1>1 DEF ValidatorsOK, ValidatorOK
  <2>2. FactorSelfStakes \in Nat /\ MinWeightStandby \in Nat \ {0}
    BY PoSAssumption
  <2>3. ~(getValidatorWeight(v) < MinWeightStandby)
    BY DEF Listed
  <2> HIDE DEF v
  <2>4. v.self * FactorSelfStakes \in Int
    BY <2>1, <2>2
  <2>5. getValidatorWeight(v) \in Int
    BY <2>1, <2>4, MinOfTwo DEF getValidatorWeight
  <2>6. getValidatorWeight(v) \in Nat /\ getValidatorWeight(v) >= 1
    BY <2>2, <2>3, <2>5
  <2> QED
    BY <2>6 DEF v
<1>5. \A k \in Keys(validators) : /\ k = <<k[1], k[2]>> /\ k[1] \in Nat /\ k[1] >= 1
                                  /\ k[2] \in DOMAIN validators /\ k[2] \in Nat
  BY <1>1, <1>2, <1>4 DEF Keys
<1>6. \A k, l \in Keys(validators) : k[2] = l[2] => k = l
  BY DEF Keys
<1> QED
  BY <1>3, <1>5, <1>6

\* A snapshot is a list of distinct registered validators with weights.
LEMMA SnapshotOK ==
    ASSUME NEW s, NEW h, AppOK(s, h)
    PROVE  ListOK(createStakeWeightSnapshot(s), DOMAIN s.validators, 1)
<1> DEFINE K      == Keys(s.validators)
           D      == DOMAIN s.validators
           listed == {k \in DOMAIN s.eligible :
                         \/ s.eligible[k] = 0
                         \/ s.eligible[k] < block.height + 1 - PunishmentWindowSelf}
           above  == {p \in listed \X listed : \/ p[1][1] > p[2][1]
                                               \/ p[1][1] = p[2][1] /\ p[1][2] > p[2][2]}
           order  == Sorted(listed, above)
           t      == createStakeWeightSnapshot(s)
<1>1. t = [i \in DOMAIN order |-> Validator(order[i][2], order[i][1])]
  BY DEF createStakeWeightSnapshot
<1>2. listed \subseteq K
  BY DEF AppOK, EligibleIs
<1>3. \A k, l \in listed : <<k, l>> \in above <=> \/ k[1] > l[1]
                                                  \/ k[1] = l[1] /\ k[2] > l[2]
  OBVIOUS
<1> HIDE DEF listed, above
<1>4. /\ IsFiniteSet(K)
      /\ \A k \in K : k = <<k[1], k[2]>> /\ k[1] \in Nat /\ k[1] >= 1 /\ k[2] \in D /\ k[2] \in Nat
      /\ \A k, l \in K : k[2] = l[2] => k = l
  BY KeysOK DEF AppOK
<1> HIDE DEF K, t
<1>5. IsFiniteSet(listed)
  BY <1>2, <1>4, FS_Subset
<1>6. order \in SetToSeqs(listed)
  <2>1. \A k \in listed : k \in K /\ k[1] \in Nat /\ k[2] \in Nat
    BY <1>2, <1>4
  <2>2. \A a, b \in listed : a # b => <<a, b>> \in above \/ <<b, a>> \in above
    <3> SUFFICES ASSUME NEW a \in listed, NEW b \in listed, a # b
                 PROVE  <<a, b>> \in above \/ <<b, a>> \in above
      OBVIOUS
    <3>1. a[2] # b[2]
      BY <2>1, <1>4
    <3> QED
      BY <3>1, <2>1, <1>3
  <2>3. \A a, b, c \in listed : <<a, b>> \in above /\ <<b, c>> \in above => <<a, c>> \in above
    BY <2>1, <1>3
  <2>4. \A a \in listed : <<a, a>> \notin above
    BY <2>1, <1>3
  <2> QED
    BY <1>5, <2>2, <2>3, <2>4, SortedIsSorted
<1> DEFINE n == Cardinality(listed)
<1> HIDE DEF order
<1>7. /\ order \in [1 .. n -> listed] /\ n \in Nat
      /\ \A i, j \in DOMAIN order : order[i] = order[j] => i = j
  BY <1>5, <1>6, SeqsHaveAll
<1> HIDE DEF n
<1>8. t = [i \in 1 .. n |-> t[i]]
  BY <1>1, <1>7
<1>9. \A i \in 1 .. n : /\ t[i] \in [address : D, weight : Nat] /\ t[i].weight >= 1
                        /\ t[i].address = order[i][2]
  <2> TAKE i \in 1 .. n
  <2>1. order[i] \in K
    BY <1>2, <1>7
  <2>2. t[i] = [address |-> order[i][2], weight |-> order[i][1]]
    BY <1>1, <1>7 DEF Validator
  <2>3. order[i][2] \in D /\ order[i][1] \in Nat /\ order[i][1] >= 1
    BY <2>1, <1>4
  <2> QED
    BY <2>2, <2>3
<1>10. \A i, j \in 1 .. n : t[i].address = t[j].address => i = j
  <2> SUFFICES ASSUME NEW i \in 1 .. n, NEW j \in 1 .. n, t[i].address = t[j].address PROVE i = j
    OBVIOUS
  <2>1. order[i] \in K /\ order[j] \in K /\ order[i][2] = order[j][2]
    BY <1>2, <1>7, <1>9
  <2>2. order[i] = order[j]
    BY <2>1, <1>4
  <2> QED
    BY <2>2, <1>7
<1>11. ListOK(t, D, 1)
  <2> HIDE DEF D
  <2>1. \A i \in 1 .. n : t[i] \in [address : D, weight : Nat] /\ t[i].weight >= 1
    BY <1>9
  <2> QED
    BY <1>7, <1>8, <1>10, <2>1, MakeList
<1> QED
  BY <1>11 DEF t

\* The snapshots of the rounds that are still to be chosen are there, except for the
\* first three rounds, and list registered validators.
SnapshotsOK ==
    /\ \A round \in DOMAIN snapshots : ListOK(snapshots[round], DOMAIN app.validators, 1)
    /\ \A round \in Nat :
           /\ 4 <= round /\ Round(block.height) <= round /\ round <= Round(block.height) + 2
           => round \in DOMAIN snapshots

\* The validators of the round.
ParamsOK == ListOK(params, DOMAIN app.validators, 0) /\ HasWeight(params)

\* The initial validators stay registered.
RoundsInv == SnapshotsOK /\ ParamsOK /\ Range(InitValidators) \subseteq DOMAIN app.validators

\* A list stays sound when validators register.
LEMMA ListGrows ==
    ASSUME NEW s, NEW D, NEW low, ListOK(s, D, low), NEW E, D \subseteq E
    PROVE  ListOK(s, E, low)
<1> DEFINE X == [address : D, weight : Nat]
           Y == [address : E, weight : Nat]
<1>1. s \in Seq(X)
  BY DEF ListOK
<1>2. \A x \in X : x \in Y
  OBVIOUS
<1> HIDE DEF X, Y
<1>3. s \in Seq(Y)
  BY <1>1, <1>2
<1> QED
  BY <1>3 DEF ListOK, Y

\* What the end of a round does to the snapshots: the one of the next round stays, and
\* the one of the third round from now joins.
LEMMA SnapshotsAfterOK ==
    ASSUME IInv, SnapshotsOK, NEW s, AppOK(s, block.height), DOMAIN s.validators = DOMAIN app.validators
    PROVE  /\ \A round \in DOMAIN snapshotsAfter(s) :
                  ListOK(snapshotsAfter(s)[round], DOMAIN app.validators, 1)
           /\ \A round \in Nat :
                  /\ 4 <= round /\ Round(block.height + 1) <= round
                  /\ round <= Round(block.height + 1) + 2
                  => round \in DOMAIN snapshotsAfter(s)
<1> DEFINE h    == block.height
           last == Round(h + 1) + 2
           c    == createStakeWeightSnapshot(s)
           kept == {r \in DOMAIN snapshots \cup {last} : r > last - 3}
           t    == snapshotsAfter(s)
<1>1. h \in Nat
  BY DEF IInv
<1>2. /\ Round(h) \in Nat
      /\ Round(h + 1) = IF isEndOfRound(h) THEN Round(h) + 1 ELSE Round(h)
  BY <1>1, RoundSteps
<1>3. ListOK(c, DOMAIN app.validators, 1)
  BY SnapshotOK
<1>4. t = IF isEndOfRound(h) THEN Restrict(Put(snapshots, last, c), kept) ELSE snapshots
  BY DEF snapshotsAfter
<1> HIDE DEF t, c
<1>5. CASE ~isEndOfRound(h)
  BY <1>2, <1>4, <1>5 DEF SnapshotsOK, t
<1>6. CASE isEndOfRound(h)
  <2>1. /\ DOMAIN t = kept
        /\ \A r \in kept : t[r] = IF r = last THEN c ELSE snapshots[r]
    BY <1>4, <1>6 DEF Restrict, Put
  <2>2. \A r \in kept : r = last \/ r \in DOMAIN snapshots
    OBVIOUS
  <2>3. \A r \in DOMAIN t : ListOK(t[r], DOMAIN app.validators, 1)
    <3> HIDE DEF kept, last
    <3> QED
      BY <1>3, <2>1, <2>2 DEF SnapshotsOK
  <2>4. ASSUME NEW r \in Nat, 4 <= r, Round(h + 1) <= r, r <= Round(h + 1) + 2
        PROVE  r \in kept
    <3>1. Round(h + 1) = Round(h) + 1
      BY <1>2, <1>6
    <3>2. r > last - 3
      BY <1>2, <2>4, <3>1
    <3>3. CASE r = last
      BY <3>2, <3>3
    <3>4. CASE r # last
      <4>1. Round(h) <= r /\ r <= Round(h) + 2
        BY <1>2, <2>4, <3>1, <3>4
      <4>2. r \in DOMAIN snapshots
        BY <2>4, <4>1 DEF SnapshotsOK
      <4> QED
        BY <3>2, <4>2
    <3> QED
      BY <3>3, <3>4
  <2> HIDE DEF kept
  <2> QED
    BY <2>1, <2>3, <2>4 DEF t
<1> QED
  BY <1>5, <1>6

\* The snapshot that the end of a round reads.
LEMMA NextSnapshotThere ==
    ASSUME IInv, SnapshotsOK, UpdatesValidators, NEW s, AppOK(s, block.height),
           DOMAIN s.validators = DOMAIN app.validators
    PROVE  /\ Round(block.height) + 1 \in DOMAIN snapshotsAfter(s)
           /\ Round(block.height) + 1 \in Nat /\ Round(block.height) + 1 > InitRounds
<1> DEFINE h == block.height
<1>1. h \in Nat
  BY DEF IInv
<1>2. Round(h) \in Nat /\ Round(h + 1) = Round(h) + 1
  BY <1>1, RoundSteps DEF UpdatesValidators
<1>3. Round(h) + 1 > InitRounds /\ InitRounds \in Nat
  BY <1>2, SelectionAssumption DEF UpdatesValidators
<1>4. InitRounds >= 3
  BY PoSAssumption
<1>5. Round(h) + 1 \in Nat /\ 4 <= Round(h) + 1
  BY <1>2, <1>3, <1>4
<1>6. Round(h) + 1 \in DOMAIN snapshotsAfter(s)
  BY <1>2, <1>5, SnapshotsAfterOK
<1> QED
  BY <1>3, <1>5, <1>6

\* The end of a block keeps the rounds sound.
LEMMA EndBlockRounds ==
    ASSUME IInv, RoundsInv, NEW reduction, NEW gap, EndBlock(reduction, gap)
    PROVE  RoundsInv'
<1> DEFINE s     == updateProductivity(app)
           D     == DOMAIN app.validators
           round == Round(block.height) + 1
           lists == NextValidators(snapshotsAfter(s)[round], round, InitValidators)
<1>1. AppOK(s, block.height) /\ DOMAIN s.validators = DOMAIN app.validators
  BY ProductivityOK DEF IInv
<1>2. /\ snapshots' = snapshotsAfter(s) /\ block'.height = block.height + 1
      /\ app' = rewarded(s, reduction)
      /\ IF UpdatesValidators THEN \E list \in lists : params' = IF list = <<>> THEN params ELSE list
                              ELSE params' = params
  BY DEF EndBlock
<1>3. DOMAIN app'.validators = D
  BY <1>1, <1>2, RewardOK
<1> HIDE DEF s
<1>4. SnapshotsOK'
  <2>1. /\ \A r \in DOMAIN snapshots' : ListOK(snapshots'[r], D, 1)
        /\ \A r \in Nat : /\ 4 <= r /\ Round(block.height + 1) <= r
                          /\ r <= Round(block.height + 1) + 2
                          => r \in DOMAIN snapshots'
    BY <1>1, <1>2, SnapshotsAfterOK DEF RoundsInv
  <2> QED
    BY <1>2, <1>3, <2>1 DEF SnapshotsOK
<1>5. ListOK(params', D, 0) /\ HasWeight(params')
  <2>1. ListOK(params, D, 0) /\ HasWeight(params)
    BY DEF RoundsInv, ParamsOK
  <2>2. CASE ~UpdatesValidators
    BY <1>2, <2>1, <2>2
  <2>3. CASE UpdatesValidators
    <3>1. PICK list \in lists : params' = IF list = <<>> THEN params ELSE list
      BY <1>2, <2>3
    <3>2. round \in DOMAIN snapshotsAfter(s) /\ round \in Nat /\ round > InitRounds
      BY <1>1, <2>3, NextSnapshotThere DEF RoundsInv
    <3>3. ListOK(snapshotsAfter(s)[round], D, 1)
      BY <1>1, <3>2, SnapshotsAfterOK DEF RoundsInv
    <3>4. /\ InitValidators \in Seq(D) /\ InitValidators # <<>>
          /\ \A i, j \in DOMAIN InitValidators : InitValidators[i] = InitValidators[j] => i = j
      BY InitialAddresses DEF RoundsInv
    <3>5. list = <<>> \/ (ListOK(list, D, 0) /\ HasWeight(list))
      <4> HIDE DEF round, D
      <4> QED
        BY <3>1, <3>2, <3>3, <3>4, NextListOK
    <3> QED
      BY <2>1, <3>1, <3>5
  <2> QED
    BY <2>2, <2>3
<1>6. ParamsOK'
  BY <1>3, <1>5 DEF ParamsOK
<1>7. Range(InitValidators) \subseteq DOMAIN app'.validators
  BY <1>3 DEF RoundsInv
<1> QED
  BY <1>4, <1>6, <1>7 DEF RoundsInv

\* The genesis block: its validators have the weight 1, and no snapshot is due.
LEMMA RoundsInit == Init => RoundsInv
<1> SUFFICES ASSUME Init PROVE RoundsInv
  OBVIOUS
<1> DEFINE D == DOMAIN app.validators
<1>1. D = Range(InitValidators) /\ snapshots = NoKeys /\ block.height = 1
  BY DEF Init
<1>2. params = [i \in DOMAIN InitValidators |-> Validator(InitValidators[i], 1)]
  BY DEF Init
<1>3. /\ InitValidators \in Seq(D) /\ InitValidators # <<>>
      /\ \A i, j \in DOMAIN InitValidators : InitValidators[i] = InitValidators[j] => i = j
  BY <1>1, InitialAddresses
<1> HIDE DEF D
<1>4. ListOK(params, D, 1) /\ Len(params) = Len(InitValidators)
  BY <1>2, <1>3, SameWeightOK
<1>5. ListOK(params, D, 0)
  <2>1. params \in Seq([address : D, weight : Nat]) /\ \A i \in DOMAIN params : params[i].weight >= 1
    BY <1>4 DEF ListOK
  <2>2. \A i \in DOMAIN params : params[i].weight \in Nat
    BY <2>1, MemberOK
  <2>3. \A i \in DOMAIN params : params[i].weight >= 0
    BY <2>2
  <2> QED
    BY <1>4, <2>3 DEF ListOK
<1>6. HasWeight(params)
  <2>1. 1 \in DOMAIN params
    BY <1>2, <1>3
  <2>2. params[1].weight = 1
    BY <1>2, <2>1 DEF Validator
  <2> QED
    BY <2>1, <2>2 DEF HasWeight
<1>7. Round(1) = 1
  <2> DEFINE L == RoundLength
  <2>1. L \in Nat \ {0}
    BY SelectionAssumption DEF RoundLength
  <2>2. Round(1) = (1 + L - 1) \div L
    BY DEF Round, Ceiling
  <2> HIDE DEF L
  <2>3. 1 + L - 1 = 1 * L + 0
    BY <2>1
  <2>4. (1 * L + 0) \div L = 1
    BY <2>1, DivisionUnique
  <2> QED
    BY <2>2, <2>3, <2>4
<1>8. SnapshotsOK
  BY <1>1, <1>7 DEF SnapshotsOK, NoKeys
<1> QED
  BY <1>1, <1>5, <1>6, <1>8 DEF RoundsInv, ParamsOK, D

\* A step inside a block leaves the lists alone.
LEMMA SameListsOK ==
    ASSUME RoundsInv, snapshots' = snapshots, params' = params, block'.height = block.height,
           DOMAIN app.validators \subseteq DOMAIN app'.validators
    PROVE  RoundsInv'
<1>1. \A r \in DOMAIN snapshots' : ListOK(snapshots'[r], DOMAIN app'.validators, 1)
  BY ListGrows DEF RoundsInv, SnapshotsOK
<1>2. SnapshotsOK'
  BY <1>1 DEF RoundsInv, SnapshotsOK
<1>3. ListOK(params', DOMAIN app'.validators, 0)
  BY ListGrows DEF RoundsInv, ParamsOK
<1> QED
  BY <1>2, <1>3 DEF RoundsInv, ParamsOK

\* Every step.
LEMMA RoundsNext ==
    ASSUME IInv, RoundsInv, [Next]_vars
    PROVE  RoundsInv'
<1> DEFINE same == snapshots' = snapshots /\ params' = params /\ block'.height = block.height
<1>1. DOMAIN app.validators \subseteq DOMAIN app'.validators
  BY NextOK DEF StepOK, Releases
<1>2. ASSUME NEW a, NEW r, executeTransaction(a, r) PROVE same
  BY <1>2 DEF executeTransaction, IInv
<1>3. ASSUME NEW a \in Address, NEW stakes, Stake(a, stakes) PROVE same
  <2> HIDE DEF same
  <2> QED
    BY <1>2, <1>3 DEF Stake
<1>4. ASSUME NEW a \in Address,
             \/ ClaimRewards(a)
             \/ \E certified \in {0, block.height - 1} : Unlock(a, certified)
             \/ \E b \in Address : ReportMisbehavior(a, b)
             \/ \E name \in Names : RegisterValidator(a, name)
             \/ \E c \in Commissions : ChangeCommission(a, c)
      PROVE  same
  <2> HIDE DEF same
  <2> QED
    BY <1>2, <1>4, Zenon
       DEF ClaimRewards, Unlock, ReportMisbehavior, RegisterValidator, ChangeCommission
<1>5. ASSUME NEW a \in Address, UnbanValidator(a) PROVE same
  BY <1>5 DEF UnbanValidator
<1>6. same \/ \E reduction \in Reductions, gap \in Gaps : EndBlock(reduction, gap)
  <2> HIDE DEF same
  <2>1. CASE UNCHANGED vars
    BY <2>1 DEF vars, same
  <2>2. CASE Next
    BY <2>2, <1>3, <1>4, <1>5, Zenon DEF Next
  <2> QED
    BY <2>1, <2>2
<1> QED
  BY <1>1, <1>6, SameListsOK, EndBlockRounds

\* As many addresses as places in a list of distinct validators.
LEMMA AddressesCounted ==
    ASSUME NEW D, NEW s, ListOK(s, D, 0)
    PROVE  Addresses(s) \subseteq D /\ Cardinality(Addresses(s)) = Len(s)
<1> DEFINE I == DOMAIN s
           f == [i \in I |-> s[i].address]
<1>1. s \in Seq([address : D, weight : Nat])
  BY DEF ListOK
<1>2. \A i \in I : s[i].address \in D
  BY <1>1, MemberOK
<1>3. IsFiniteSet(I) /\ Cardinality(I) = Len(s)
  <2>1. I = 1 .. Len(s) /\ Len(s) \in Nat
    BY <1>1
  <2> HIDE DEF I
  <2>2. IsFiniteSet(1 .. Len(s)) /\ Cardinality(1 .. Len(s)) = Len(s)
    BY <2>1, FS_Interval, SMTT(60)
  <2> QED
    BY <2>1, <2>2
<1>4. Addresses(s) = {s[i].address : i \in I}
  BY DEF Addresses
<1>5. \A i, j \in I : s[i].address = s[j].address => i = j
  BY DEF ListOK
<1> HIDE DEF I
<1>6. f \in Bijection(I, Addresses(s))
  <2>1. f \in [I -> Addresses(s)] /\ \A b \in Addresses(s) : \E i \in I : f[i] = b
    BY <1>4
  <2>2. \A i, j \in I : f[i] = f[j] => i = j
    BY <1>5
  <2> HIDE DEF f
  <2> QED
    BY <2>1, <2>2 DEF Bijection, Injection, Surjection, IsInjective
<1>7. ExistsBijection(I, Addresses(s))
  BY <1>6 DEF ExistsBijection
<1>8. Cardinality(Addresses(s)) = Cardinality(I)
  BY <1>3, <1>7, FS_Bijection
<1> QED
  BY <1>2, <1>3, <1>4, <1>8

\* The precommit and certificate threshold of a list with a weight is within its weight.
LEMMA ThresholdWithin ==
    ASSUME NEW D, NEW s, ListOK(s, D, 0), HasWeight(s)
    PROVE  Threshold(s) <= TotalWeight(s)
<1> DEFINE T == TotalWeight(s)
<1>1. s \in Seq([address : D, weight : Nat])
  BY DEF ListOK
<1>2. PICK i \in DOMAIN s : s[i].weight > 0
  BY DEF HasWeight
<1>3. T \in Nat /\ s[i].weight <= T /\ s[i].weight \in Nat
  BY <1>1, TotalOK, MemberOK
<1>4. Threshold(s) = (2 * T) \div 3 + 1
  BY DEF Threshold
<1> HIDE DEF T
<1> QED
  BY <1>2, <1>3, <1>4 DEF T

(* -------------------------- sums in any order -------------------------- *)

\* What holds of the empty set and is kept when an element joins holds of every
\* finite set.
LEMMA FiniteSetsReached ==
    ASSUME NEW S, IsFiniteSet(S), NEW good, {} \in good,
           \A T \in SUBSET S : \A x \in S \ T : T \in good => T \cup {x} \in good
    PROVE  S \in good
<1> DEFINE bad == {n \in Nat : \E T \in SUBSET S : Cardinality(T) = n /\ T \notin good}
<1> SUFFICES ASSUME S \notin good PROVE FALSE
  OBVIOUS
<1>1. Cardinality(S) \in bad
  BY FS_CardinalityType
<1>2. bad \in SUBSET Nat /\ bad # {}
  BY <1>1
<1> HIDE DEF bad
<1>3. PICK m \in bad : \A n \in bad : m <= n
  BY <1>2, LeastNatural
<1>4. PICK T \in SUBSET S : Cardinality(T) = m /\ T \notin good
  BY DEF bad
<1>5. IsFiniteSet(T) /\ T # {}
  BY <1>4, FS_Subset
<1>6. PICK x \in T : TRUE
  BY <1>5
<1> DEFINE U == T \ {x}
<1>7. IsFiniteSet(U) /\ Cardinality(U) = m - 1 /\ m \in Nat
  BY <1>2, <1>4, <1>5, FS_RemoveElement
<1>8. m - 1 \in Nat /\ U \in SUBSET S /\ x \in S \ U /\ U \cup {x} = T
  BY <1>7, FS_CardinalityType
<1>9. m - 1 \notin bad
  BY <1>3, <1>7, <1>8
<1>10. U \in good
  BY <1>7, <1>8, <1>9 DEF bad
<1> QED
  BY <1>4, <1>8, <1>10

\* The sum of s may begin with any of its elements.
AnyOrder(g, f, s) == \A x \in s : g[s] = f[x] + g[s \ {x}]

\* The order of the elements does not matter for a sum.
LEMMA SumsAnyOrder ==
    ASSUME NEW f, NEW S, IsFiniteSet(S), \A x \in S : f[x] \in Int,
           NEW g, Sums(g, f, SUBSET S)
    PROVE  \A s \in SUBSET S : g[s] \in Int /\ AnyOrder(g, f, s)
<1> DEFINE Typed(s) == g[s] \in Int
           Split(s) == \A x \in s : g[s] = f[x] + g[s \ {x}]
           bad      == {n \in Nat :
                           \E s \in SUBSET S : Cardinality(s) = n /\ ~(Typed(s) /\ Split(s))}
<1>1. \A s \in SUBSET S : IsFiniteSet(s) /\ Cardinality(s) \in Nat
  BY FS_Subset, FS_CardinalityType
<1>2. \A s \in SUBSET S : g[s] = IF s = {} THEN 0 ELSE f[AnyOf(s)] + g[s \ {AnyOf(s)}]
  BY DEF Sums
<1>3. bad = {}
  <2> SUFFICES ASSUME bad # {} PROVE FALSE
    OBVIOUS
  <2>1. PICK m \in bad : \A n \in bad : m <= n
    <3>1. bad \in SUBSET Nat
      OBVIOUS
    <3> HIDE DEF bad
    <3> QED
      BY <3>1, LeastNatural
  <2>2. PICK s \in SUBSET S : Cardinality(s) = m /\ ~(Typed(s) /\ Split(s))
    BY <2>1
  <2>3. \A t \in SUBSET S : Cardinality(t) < m => Typed(t) /\ Split(t)
    <3> TAKE t \in SUBSET S
    <3> HAVE Cardinality(t) < m
    <3>1. Cardinality(t) \notin bad /\ Cardinality(t) \in Nat
      BY <1>1, <2>1
    <3> HIDE DEF Typed, Split
    <3> QED
      BY <3>1
  <2>4. s # {}
    <3> SUFFICES ASSUME s = {} PROVE FALSE
      OBVIOUS
    <3>1. g[s] = 0 /\ Split(s)
      BY <1>2
    <3> QED
      BY <3>1, <2>2
  <2> DEFINE y == AnyOf(s)
  <2>5. y \in s
    BY <2>4 DEF AnyOf
  <2>6. g[s] = f[y] + g[s \ {y}]
    BY <1>2, <2>4
  <2> HIDE DEF y
  <2>7. \A x \in s : s \ {x} \in SUBSET S /\ Cardinality(s \ {x}) < m
    <3> TAKE x \in s
    <3>1. IsFiniteSet(s) /\ Cardinality(s \ {x}) = Cardinality(s) - 1
      BY <1>1, FS_RemoveElement
    <3> QED
      BY <3>1, <2>2, <1>1
  <2>8. \A x \in s : Typed(s \ {x}) /\ Split(s \ {x})
    <3> HIDE DEF Typed, Split
    <3> QED
      BY <2>3, <2>7
  <2>9. Typed(s)
    <3>1. f[y] \in Int /\ g[s \ {y}] \in Int
      BY <2>5, <2>8
    <3> QED
      BY <3>1, <2>6
  <2>10. ASSUME NEW x \in s
         PROVE  g[s] = f[x] + g[s \ {x}]
    <3>1. CASE x = y
      BY <3>1, <2>6
    <3>2. CASE x # y
      <4> DEFINE both == (s \ {x}) \ {y}
      <4>1. both = (s \ {y}) \ {x} /\ x \in s \ {y} /\ y \in s \ {x}
        BY <3>2, <2>5
      <4>2. g[s \ {y}] = f[x] + g[both]
        BY <4>1, <2>5, <2>8
      <4>3. g[s \ {x}] = f[y] + g[both]
        BY <4>1, <2>8
      <4>4. g[both] \in Int /\ f[x] \in Int /\ f[y] \in Int
        <5>1. Cardinality(both) < m /\ both \in SUBSET S
          <6>1. IsFiniteSet(s \ {x}) /\ Cardinality(both) = Cardinality(s \ {x}) - 1
            BY <4>1, <2>7, <1>1, FS_RemoveElement, ZenonT(60)
          <6> QED
            BY <6>1, <2>7, <2>2, <1>1
        <5> QED
          BY <5>1, <2>3, <2>5
      <4> HIDE DEF both
      <4> QED
        BY <4>2, <4>3, <4>4, <2>6
    <3> QED
      BY <3>1, <3>2
  <2> QED
    BY <2>2, <2>9, <2>10
<1> HIDE DEF Typed, Split
<1>4. \A s \in SUBSET S : Typed(s) /\ Split(s)
  BY <1>1, <1>3
<1> QED
  BY <1>4 DEF Typed, Split, AnyOrder

\* Sums of functions that agree on the subsets of a set agree there.
LEMMA SumsAgree ==
    ASSUME NEW f, NEW g, NEW S, NEW h, NEW k, NEW T, IsFiniteSet(T), T \subseteq S,
           \A x \in T : f[x] = h[x], Sums(g, f, SUBSET S), Sums(k, h, SUBSET T)
    PROVE  g[T] = k[T]
<1> DEFINE bad == {n \in Nat : \E s \in SUBSET T : Cardinality(s) = n /\ g[s] # k[s]}
<1>1. \A s \in SUBSET T : IsFiniteSet(s) /\ Cardinality(s) \in Nat
  BY FS_Subset, FS_CardinalityType
<1>2. bad = {}
  <2> SUFFICES ASSUME bad # {} PROVE FALSE
    OBVIOUS
  <2>1. PICK m \in bad : \A n \in bad : m <= n
    <3>1. bad \in SUBSET Nat
      OBVIOUS
    <3> HIDE DEF bad
    <3> QED
      BY <3>1, LeastNatural
  <2>2. PICK s \in SUBSET T : Cardinality(s) = m /\ g[s] # k[s]
    BY <2>1
  <2>3. /\ g[s] = IF s = {} THEN 0 ELSE f[AnyOf(s)] + g[s \ {AnyOf(s)}]
        /\ k[s] = IF s = {} THEN 0 ELSE h[AnyOf(s)] + k[s \ {AnyOf(s)}]
    BY DEF Sums
  <2>4. s # {} /\ AnyOf(s) \in s
    BY <2>2, <2>3 DEF AnyOf
  <2>5. s \ {AnyOf(s)} \in SUBSET T /\ Cardinality(s \ {AnyOf(s)}) = m - 1 /\ m \in Nat
    BY <2>2, <2>4, <1>1, FS_RemoveElement
  <2>6. Cardinality(s \ {AnyOf(s)}) \notin bad /\ Cardinality(s \ {AnyOf(s)}) \in Nat
    <3>1. Cardinality(s \ {AnyOf(s)}) \in Nat /\ ~(m <= Cardinality(s \ {AnyOf(s)}))
      BY <2>5, <1>1
    <3> HIDE DEF bad
    <3> QED
      BY <3>1, <2>1
  <2>7. g[s \ {AnyOf(s)}] = k[s \ {AnyOf(s)}]
    BY <2>5, <2>6
  <2> QED
    BY <2>2, <2>3, <2>4, <2>7
<1> QED
  BY <1>1, <1>2

\* The sum of a function with one more argument.
LEMMA SumAdd ==
    ASSUME NEW f, IsFiniteSet(DOMAIN f), \A y \in DOMAIN f : f[y] \in Int, NEW x \in DOMAIN f,
           NEW h, DOMAIN h = DOMAIN f \ {x}, \A y \in DOMAIN h : h[y] = f[y]
    PROVE  /\ SumFunction(f) = f[x] + SumFunction(h)
           /\ SumFunction(f) \in Int /\ SumFunction(h) \in Int
<1> DEFINE S == DOMAIN f
           T == DOMAIN h
           g == CHOOSE c : Sums(c, f, SUBSET S)
           k == CHOOSE c : Sums(c, h, SUBSET T)
<1>1. IsFiniteSet(S) /\ IsFiniteSet(T) /\ T \subseteq S /\ T = S \ {x} /\ x \in S
      /\ (\A y \in S : f[y] \in Int) /\ \A y \in T : f[y] = h[y]
  BY FS_Subset
<1>2. SumFunction(f) = g[S] /\ SumFunction(h) = k[T]
  BY SumUnfolded
<1> HIDE DEF S, T
<1>3. Sums(g, f, SUBSET S)
  BY <1>1, SumsExist
<1>4. Sums(k, h, SUBSET T)
  BY <1>1, SumsExist
<1> HIDE DEF g, k
<1>5. g[T] = k[T]
  <2>1. \A x1 \in T : f[x1] = h[x1]
    BY <1>1
  <2>2. IsFiniteSet(T) /\ T \subseteq S
    BY <1>1
  <2> QED
    BY <2>1, <2>2, <1>3, <1>4, SumsAgree
<1>6. \A s \in SUBSET S : g[s] \in Int /\ AnyOrder(g, f, s)
  <2>1. \A y \in S : f[y] \in Int
    BY <1>1
  <2>2. IsFiniteSet(S)
    BY <1>1
  <2> QED
    BY <2>1, <2>2, <1>3, SumsAnyOrder
<1>7. g[S] = f[x] + g[T] /\ g[S] \in Int /\ g[T] \in Int
  BY <1>1, <1>6 DEF AnyOrder
<1> QED
  BY <1>2, <1>5, <1>7

\* The sum of the empty function.
LEMMA SumEmpty ==
    ASSUME NEW f, DOMAIN f = {}
    PROVE  SumFunction(f) = 0
<1>1. IsFiniteSet({}) 
  BY FS_EmptySet
<1>2. Sums(CHOOSE g : Sums(g, f, SUBSET {}), f, SUBSET {})
  BY <1>1, SumsExist
<1>3. SumFunction(f) = (CHOOSE g : Sums(g, f, SUBSET {}))[{}]
  BY SumUnfolded
<1> QED
  BY <1>2, <1>3 DEF Sums

\* The sum of one more value.
LEMMA SumOneMore ==
    ASSUME NEW f, NEW T, IsFiniteSet(T), NEW x, x \notin T, \A y \in T \cup {x} : f[y] \in Int
    PROVE  SumFunction(Restrict(f, T \cup {x})) = f[x] + SumFunction(Restrict(f, T))
<1> DEFINE big == Restrict(f, T \cup {x})
           small == Restrict(f, T)
<1>1. DOMAIN big = T \cup {x} /\ IsFiniteSet(DOMAIN big) /\ x \in DOMAIN big
  BY FS_AddElement DEF Restrict
<1>2. (\A y \in DOMAIN big : big[y] \in Int) /\ big[x] = f[x]
  BY DEF Restrict
<1>3. DOMAIN small = DOMAIN big \ {x} /\ \A y \in DOMAIN small : small[y] = big[y]
  BY <1>1 DEF Restrict
<1> HIDE DEF big, small
<1>4. SumFunction(big) = big[x] + SumFunction(small)
  BY <1>1, <1>2, <1>3, SumAdd, ZenonT(60)
<1> QED
  BY <1>2, <1>4 DEF big, small

\* A sum of integers is an integer.
LEMMA SumTyped ==
    ASSUME NEW f, IsFiniteSet(DOMAIN f), \A y \in DOMAIN f : f[y] \in Int
    PROVE  SumFunction(f) \in Int
<1>1. CASE DOMAIN f = {}
  BY <1>1, SumEmpty
<1>2. CASE DOMAIN f # {}
  <2>1. PICK x \in DOMAIN f : TRUE
    BY <1>2
  <2> DEFINE h == [y \in DOMAIN f \ {x} |-> f[y]]
  <2>2. DOMAIN h = DOMAIN f \ {x} /\ \A y \in DOMAIN h : h[y] = f[y]
    OBVIOUS
  <2> HIDE DEF h
  <2> QED
    BY <2>2, SumAdd
<1> QED
  BY <1>1, <1>2

\* Changing one value changes the sum by the difference.
LEMMA SumOneChanged ==
    ASSUME NEW f, IsFiniteSet(DOMAIN f), \A y \in DOMAIN f : f[y] \in Int, NEW x \in DOMAIN f,
           NEW h, DOMAIN h = DOMAIN f, h[x] \in Int, \A y \in DOMAIN f \ {x} : h[y] = f[y]
    PROVE  SumFunction(h) = SumFunction(f) - f[x] + h[x] /\ SumFunction(f) \in Int
<1> DEFINE g == [y \in DOMAIN f \ {x} |-> f[y]]
<1>1. DOMAIN g = DOMAIN f \ {x} /\ \A y \in DOMAIN g : g[y] = f[y] /\ g[y] = h[y]
  OBVIOUS
<1> HIDE DEF g
<1>2. SumFunction(f) = f[x] + SumFunction(g) /\ SumFunction(f) \in Int /\ SumFunction(g) \in Int
  BY <1>1, SumAdd
<1>3. /\ IsFiniteSet(DOMAIN h) /\ x \in DOMAIN h /\ \A y \in DOMAIN h : h[y] \in Int
      /\ DOMAIN g = DOMAIN h \ {x} /\ \A y \in DOMAIN g : g[y] = h[y]
  BY <1>1
<1>4. SumFunction(h) = h[x] + SumFunction(g)
  BY <1>3, SumAdd
<1> QED
  BY <1>2, <1>4

\* A sum is the sum of two parts.
LEMMA SumSplit ==
    ASSUME NEW f, IsFiniteSet(DOMAIN f), \A y \in DOMAIN f : f[y] \in Int, NEW T \in SUBSET DOMAIN f
    PROVE  /\ SumFunction(f) = SumFunction(Restrict(f, T)) + SumFunction(Restrict(f, DOMAIN f \ T))
           /\ SumFunction(Restrict(f, T)) \in Int /\ SumFunction(Restrict(f, DOMAIN f \ T)) \in Int
<1> DEFINE S == DOMAIN f
           sum(U) == SumFunction(Restrict(f, U))
           Splits(U) == sum(S) = sum(U) + sum(S \ U)
           good == {U \in SUBSET T : Splits(U)}
<1>1. \A U \in SUBSET S : sum(U) \in Int
  <2> TAKE U \in SUBSET S
  <2>1. DOMAIN Restrict(f, U) = U /\ IsFiniteSet(U) /\ \A y \in U : Restrict(f, U)[y] \in Int
    BY FS_Subset DEF Restrict
  <2> QED
    BY <2>1, SumTyped
<1>2. {} \in good
  <2>1. DOMAIN Restrict(f, {}) = {} /\ S \ {} = S
    BY DEF Restrict
  <2>2. sum({}) = 0
    BY <2>1, SumEmpty
  <2>3. sum(S) = sum({}) + sum(S)
    BY <1>1, <2>2
  <2> HIDE DEF sum
  <2> QED
    BY <2>1, <2>3
<1>3. ASSUME NEW U \in SUBSET T, NEW x \in T \ U, U \in good
      PROVE  U \cup {x} \in good
  <2> DEFINE V == S \ (U \cup {x})
  <2>1. S \ U = V \cup {x} /\ x \notin V /\ x \notin U /\ x \in S /\ V \in SUBSET S /\ U \in SUBSET S
    OBVIOUS
  <2>2. IsFiniteSet(U) /\ IsFiniteSet(V)
    BY <2>1, FS_Subset
  <2>3. (\A y \in U \cup {x} : f[y] \in Int) /\ \A y \in V \cup {x} : f[y] \in Int
    OBVIOUS
  <2>4. V = S \ (U \cup {x})
    OBVIOUS
  <2> HIDE DEF V
  <2>5. sum(U \cup {x}) = f[x] + sum(U)
    BY <2>1, <2>2, <2>3, SumOneMore
  <2>6. sum(V \cup {x}) = f[x] + sum(V)
    BY <2>1, <2>2, <2>3, SumOneMore
  <2>7. sum(U) \in Int /\ sum(V) \in Int /\ f[x] \in Int /\ sum(S) \in Int
    BY <1>1, <2>1, <2>3
  <2>8. sum(S) = sum(U) + sum(S \ U)
    BY <1>3
  <2>9. sum(S \ U) = sum(V \cup {x}) /\ sum(S \ (U \cup {x})) = sum(V)
    BY <2>1, <2>4
  <2> HIDE DEF sum, S
  <2>10. sum(S) = sum(U \cup {x}) + sum(S \ (U \cup {x}))
    BY <2>5, <2>6, <2>7, <2>8, <2>9
  <2>11. Splits(U \cup {x})
    BY <2>10
  <2> HIDE DEF Splits
  <2> QED
    BY <1>3, <2>11
<1>4. IsFiniteSet(T)
  BY FS_Subset
<1>5. T \in good
  <2>1. \A U \in SUBSET T : \A x \in T \ U : U \in good => U \cup {x} \in good
    BY <1>3
  <2> HIDE DEF good
  <2> QED
    BY <1>2, <1>4, <2>1, FiniteSetsReached
<1>6. Splits(T)
  <2> HIDE DEF Splits
  <2> QED
    BY <1>5
<1>7. sum(S) = SumFunction(f)
  <2>0. CASE S = {}
    <3>1. DOMAIN Restrict(f, S) = {}
      BY <2>0 DEF Restrict
    <3> QED
      BY <2>0, <3>1, SumEmpty
  <2>1. CASE S # {}
    <3>1. PICK x \in S : TRUE
      BY <2>1
    <3> DEFINE h == Restrict(f, S \ {x})
               k == Restrict(f, S)
    <3>2. DOMAIN h = S \ {x} /\ DOMAIN k = S /\ (\A y \in S : k[y] = f[y]) /\ \A y \in DOMAIN h : h[y] = f[y]
      BY DEF Restrict
    <3> HIDE DEF h, k
    <3>3. SumFunction(f) = f[x] + SumFunction(h)
      BY <3>2, SumAdd
    <3>4. /\ IsFiniteSet(DOMAIN k) /\ x \in DOMAIN k /\ \A y \in DOMAIN k : k[y] \in Int
          /\ DOMAIN h = DOMAIN k \ {x} /\ \A y \in DOMAIN h : h[y] = k[y]
      BY <3>2
    <3>5. SumFunction(k) = k[x] + SumFunction(h)
      BY <3>4, SumAdd
    <3> QED
      BY <3>2, <3>3, <3>5 DEF k
  <2> QED
    BY <2>0, <2>1
<1>8. T \in SUBSET S /\ S \ T \in SUBSET S
  OBVIOUS
<1>9. sum(T) \in Int /\ sum(S \ T) \in Int
  BY <1>1, <1>8
<1> QED
  BY <1>6, <1>7, <1>9

\* The sum of a sum with multiples.
LEMMA SumLinear ==
    ASSUME NEW S, IsFiniteSet(S), NEW f, NEW g, NEW h, NEW k \in Int,
           DOMAIN f = S, DOMAIN g = S, DOMAIN h = S,
           \A x \in S : f[x] \in Int /\ g[x] \in Int /\ h[x] = f[x] + k * g[x]
    PROVE  SumFunction(h) = SumFunction(f) + k * SumFunction(g)
<1> DEFINE sum(e, U) == SumFunction(Restrict(e, U))
           Linear(U) == /\ sum(f, U) \in Int /\ sum(g, U) \in Int
                        /\ sum(h, U) = sum(f, U) + k * sum(g, U)
           good == {U \in SUBSET S : Linear(U)}
<1>0. \A x \in S : k * g[x] \in Int /\ h[x] \in Int
  OBVIOUS
<1>1. {} \in good
  <2>1. DOMAIN Restrict(f, {}) = {} /\ DOMAIN Restrict(g, {}) = {} /\ DOMAIN Restrict(h, {}) = {}
    BY DEF Restrict
  <2>2. sum(f, {}) = 0 /\ sum(g, {}) = 0 /\ sum(h, {}) = 0
    BY <2>1, SumEmpty
  <2> HIDE DEF sum
  <2> QED
    BY <2>2
<1>2. ASSUME NEW U \in SUBSET S, NEW x \in S \ U, U \in good
      PROVE  U \cup {x} \in good
  <2>1. IsFiniteSet(U) /\ x \notin U /\ x \in S
    BY FS_Subset
  <2>2. \A y \in U \cup {x} : f[y] \in Int /\ g[y] \in Int /\ h[y] \in Int
    BY <1>0
  <2>3. sum(f, U \cup {x}) = f[x] + sum(f, U)
    BY <2>1, <2>2, SumOneMore
  <2>4. sum(g, U \cup {x}) = g[x] + sum(g, U)
    BY <2>1, <2>2, SumOneMore
  <2>5. sum(h, U \cup {x}) = h[x] + sum(h, U)
    BY <2>1, <2>2, SumOneMore
  <2>6. Linear(U)
    BY <1>2
  <2>7. f[x] \in Int /\ g[x] \in Int /\ h[x] = f[x] + k * g[x]
    BY <2>1
  <2> HIDE DEF sum
  <2>8. k * (g[x] + sum(g, U)) = k * g[x] + k * sum(g, U) /\ k * g[x] \in Int /\ k * sum(g, U) \in Int
    BY <2>6, <2>7
  <2>9. Linear(U \cup {x})
    BY <2>3, <2>4, <2>5, <2>6, <2>7, <2>8
  <2> HIDE DEF Linear
  <2> QED
    BY <2>9
<1>3. S \in good
  <2>1. \A U \in SUBSET S : \A x \in S \ U : U \in good => U \cup {x} \in good
    BY <1>2
  <2> HIDE DEF good
  <2> QED
    BY <1>1, <2>1, FiniteSetsReached
<1>4. \A e : DOMAIN e = S /\ (\A x \in S : e[x] \in Int) => sum(e, S) = SumFunction(e)
  <2> SUFFICES ASSUME NEW e, DOMAIN e = S, \A x \in S : e[x] \in Int PROVE sum(e, S) = SumFunction(e)
    OBVIOUS
  <2>1. SumFunction(e) = sum(e, S) + sum(e, S \ S) /\ sum(e, S) \in Int
    BY SumSplit, ZenonT(60)
  <2>2. DOMAIN Restrict(e, S \ S) = {}
    BY DEF Restrict
  <2>3. sum(e, S \ S) = 0
    BY <2>2, SumEmpty
  <2> HIDE DEF sum
  <2> QED
    BY <2>1, <2>3
<1>5. sum(f, S) = SumFunction(f) /\ sum(g, S) = SumFunction(g) /\ sum(h, S) = SumFunction(h)
  BY <1>0, <1>4
<1>6. Linear(S)
  <2> HIDE DEF Linear
  <2> QED
    BY <1>3
<1> QED
  BY <1>5, <1>6

(* ------------------------------ the ledger ----------------------------- *)

AccountType == [available : Nat, locked : [LockModules -> Nat]]

LedgerStores == {"own", "users", "supply", "escrow", "allTokens", "supported"}

Accounts == Address \X {KLY}

\* Every address has an account.
LedgerOK(l) ==
    /\ DOMAIN l = LedgerStores /\ l.own = Mainchain
    /\ l.users \in [Accounts -> AccountType] /\ l.supply \in [{KLY} -> Int]

\* The supply is what the accounts hold.
Exact(l) == LedgerOK(l) /\ l.supply[KLY] = UsersTotal(l, KLY)

Balance(l, a) == l.users[<<a, KLY>>].available

LockedOf(l, a, m) == l.users[<<a, KLY>>].locked[m]

\* From l to r the account of a gains y available and z locked by module m.
Gains(l, r, a, y, m, z) ==
    /\ LedgerOK(r) /\ r.supply = l.supply
    /\ UsersTotal(r, KLY) = UsersTotal(l, KLY) + y + z
    /\ \A c \in Address : Balance(r, c) = IF c = a THEN Balance(l, c) + y ELSE Balance(l, c)
    /\ \A c \in Address, n \in LockModules :
           LockedOf(r, c, n) = IF c = a /\ n = m THEN LockedOf(l, c, n) + z ELSE LockedOf(l, c, n)

\* The locks are those of l, but a has z more by module m.
LocksBut(l, r, a, m, z) ==
    \A c \in Address, n \in LockModules :
        LockedOf(r, c, n) = IF c = a /\ n = m THEN LockedOf(l, c, n) + z ELSE LockedOf(l, c, n)

SameLocks(l, r) == \A c \in Address, n \in LockModules : LockedOf(r, c, n) = LockedOf(l, c, n)

\* The modules that lock tokens here.
LEMMA LockModulesOK == "pos" \in LockModules /\ "fee" \in LockModules /\ IsFiniteSet(LockModules)
  BY PoSAssumption

\* The account of an address.
LEMMA AccountOK ==
    ASSUME NEW l, LedgerOK(l), NEW a \in Address
    PROVE  /\ userSubstoreExists(l, a, KLY) /\ getAvailableBalance(l, a, KLY) = Balance(l, a)
           /\ <<a, KLY>> \in DOMAIN l.users /\ l.users[<<a, KLY>>] \in AccountType
           /\ \A m \in LockModules : /\ getLockedAmount(l, a, m, KLY) = LockedOf(l, a, m)
                                     /\ LockedOf(l, a, m) \in Nat
           /\ Balance(l, a) \in Nat
<1> DEFINE k == <<a, KLY>>
<1>1. k \in Accounts
  BY DEF Accounts
<1>2. k \in DOMAIN l.users /\ l.users[k] \in AccountType
  BY <1>1 DEF LedgerOK
<1>3. Account(l, a, KLY) = l.users[k]
  BY <1>2 DEF Account, userSubstoreExists
<1>4. l.users[k].available \in Nat /\ \A m \in LockModules : l.users[k].locked[m] \in Nat
  BY <1>2 DEF AccountType
<1> QED
  BY <1>2, <1>3, <1>4 DEF userSubstoreExists, getAvailableBalance, getLockedAmount, Balance, LockedOf

\* What an account holds.
Holding(v) == v.available + SumFunction(v.locked)

\* What an account holds is a natural, and grows by what is locked.
LEMMA HoldingOK ==
    ASSUME NEW v \in AccountType
    PROVE  Holding(v) \in Nat /\ SumFunction(v.locked) \in Nat
<1>1. DOMAIN v.locked = LockModules /\ (\A m \in LockModules : v.locked[m] \in Nat) /\ v.available \in Nat
  BY DEF AccountType
<1>2. SumFunction(v.locked) \in Nat
  BY <1>1, LockModulesOK, SumOfNaturals
<1> QED
  BY <1>1, <1>2 DEF Holding

\* The total is a sum over the accounts.
LEMMA TotalUnfolded ==
    ASSUME NEW l, LedgerOK(l)
    PROVE  /\ UsersTotal(l, KLY) = SumFunction([k \in Accounts |-> Holding(l.users[k])])
           /\ UsersTotal(l, KLY) \in Nat /\ IsFiniteSet(Accounts)
           /\ \A k \in Accounts : l.users[k] \in AccountType /\ Holding(l.users[k]) \in Nat
<1> DEFINE f == [k \in Accounts |-> Holding(l.users[k])]
<1>1. {u \in DOMAIN l.users : u[2] = KLY} = Accounts
  BY DEF LedgerOK, Accounts
<1>2. UsersTotal(l, KLY) = SumFunction(f)
  BY <1>1 DEF UsersTotal, Holding
<1>3. IsFiniteSet(Address)
  BY PoSAssumption
<1>4. IsFiniteSet(Accounts)
  BY <1>3, FS_Singleton, FS_Product DEF Accounts
<1>5. \A k \in Accounts : l.users[k] \in AccountType /\ Holding(l.users[k]) \in Nat
  BY HoldingOK DEF LedgerOK
<1>6. SumFunction(f) \in Nat
  <2>1. DOMAIN f = Accounts /\ \A k \in Accounts : f[k] \in Nat
    BY <1>5
  <2> HIDE DEF f
  <2> QED
    BY <1>4, <2>1, SumOfNaturals
<1> QED
  BY <1>2, <1>4, <1>5, <1>6

\* One account changes.
LEMMA AccountChanged ==
    ASSUME NEW l, LedgerOK(l), NEW a \in Address, NEW m \in LockModules, NEW y \in Int, NEW z \in Int,
           NEW v \in AccountType, v.available = Balance(l, a) + y, v.locked[m] = LockedOf(l, a, m) + z,
           \A n \in LockModules \ {m} : v.locked[n] = LockedOf(l, a, n),
           NEW r, DOMAIN r = DOMAIN l, r.own = l.own, r.supply = l.supply,
           r.users = [l.users EXCEPT ![<<a, KLY>>] = v]
    PROVE  Gains(l, r, a, y, m, z)
<1> DEFINE k == <<a, KLY>>
           old == l.users[k]
           f == [c \in Accounts |-> Holding(l.users[c])]
           h == [c \in Accounts |-> Holding(r.users[c])]
<1>1. k \in Accounts /\ l.users \in [Accounts -> AccountType] /\ old \in AccountType
  BY DEF Accounts, LedgerOK
<1>2. /\ r.users \in [Accounts -> AccountType] /\ r.users[k] = v
      /\ \A c \in Accounts \ {k} : r.users[c] = l.users[c]
  BY <1>1
<1>3. LedgerOK(r)
  BY <1>2 DEF LedgerOK
<1>4. Holding(v) = Holding(old) + y + z
  <2>1. /\ DOMAIN v.locked = LockModules /\ DOMAIN old.locked = LockModules
        /\ \A n \in LockModules : v.locked[n] \in Nat /\ old.locked[n] \in Nat
        /\ v.available \in Nat /\ old.available \in Nat
    BY <1>1 DEF AccountType
  <2>2. v.available = old.available + y /\ v.locked[m] = old.locked[m] + z
        /\ \A n \in LockModules \ {m} : v.locked[n] = old.locked[n]
    BY DEF Balance, LockedOf
  <2> HIDE DEF old
  <2>3. /\ SumFunction(v.locked) = SumFunction(old.locked) - old.locked[m] + v.locked[m]
        /\ SumFunction(old.locked) \in Int
    BY <2>1, <2>2, LockModulesOK, SumOneChanged
  <2> QED
    BY <2>1, <2>2, <2>3 DEF Holding
<1>5. UsersTotal(l, KLY) = SumFunction(f) /\ UsersTotal(r, KLY) = SumFunction(h)
  BY <1>3, TotalUnfolded
<1>6. /\ DOMAIN f = Accounts /\ DOMAIN h = Accounts /\ IsFiniteSet(Accounts)
      /\ \A c \in Accounts : f[c] \in Int /\ h[c] \in Int
      /\ f[k] = Holding(old) /\ h[k] = Holding(v) /\ \A c \in Accounts \ {k} : h[c] = f[c]
  <2>1. /\ IsFiniteSet(Accounts)
        /\ \A c \in Accounts : Holding(l.users[c]) \in Nat /\ Holding(r.users[c]) \in Nat
    BY <1>3, TotalUnfolded
  <2>2. k \in Accounts
    BY <1>1
  <2> HIDE DEF k
  <2> QED
    BY <1>2, <2>1, <2>2
<1>7. SumFunction(h) = SumFunction(f) + y + z
  <2> HIDE DEF f, h, k, old
  <2>1. SumFunction(h) = SumFunction(f) - f[k] + h[k] /\ SumFunction(f) \in Int
    BY <1>1, <1>6, SumOneChanged
  <2> QED
    BY <1>1, <1>4, <1>6, <2>1
<1>8. \A c \in Address : c # a => <<c, KLY>> \in Accounts \ {k}
  BY DEF Accounts
<1>9. \A c \in Address : Balance(r, c) = IF c = a THEN Balance(l, c) + y ELSE Balance(l, c)
  <2> HIDE DEF k
  <2> QED
    BY <1>2, <1>8 DEF Balance, k
<1>10. \A c \in Address, n \in LockModules :
          LockedOf(r, c, n) = IF c = a /\ n = m THEN LockedOf(l, c, n) + z ELSE LockedOf(l, c, n)
  <2> TAKE c \in Address, n \in LockModules
  <2>1. CASE c = a
    BY <1>2, <2>1 DEF LockedOf
  <2>2. CASE c # a
    BY <1>2, <1>8, <2>2 DEF LockedOf
  <2> QED
    BY <2>1, <2>2
<1> QED
  BY <1>3, <1>5, <1>7, <1>9, <1>10 DEF Gains

\* An amount is available or locked in one account.
Move(l, k, p, m, q) == [l EXCEPT !.users[k].available = p, !.users[k].locked[m] = q]

\* One account has other amounts.
LEMMA MoveOK ==
    ASSUME NEW l, LedgerOK(l), NEW a \in Address, NEW m \in LockModules, NEW p \in Nat, NEW q \in Nat,
           NEW r, r = Move(l, <<a, KLY>>, p, m, q)
    PROVE  Gains(l, r, a, p - Balance(l, a), m, q - LockedOf(l, a, m))
<1> DEFINE k  == <<a, KLY>>
           v1 == [l.users[k] EXCEPT !.available = p]
           l1 == [l EXCEPT !.users[k].available = p]
           v  == [v1 EXCEPT !.locked[m] = q]
<1>1. l.users[k] \in AccountType /\ Balance(l, a) = l.users[k].available /\ LockedOf(l, a, m) = l.users[k].locked[m]
  BY AccountOK DEF Balance, LockedOf
<1>2. v1 \in AccountType /\ v1.available = p /\ v1.locked = l.users[k].locked
  BY <1>1 DEF AccountType
<1>3. /\ DOMAIN l1 = LedgerStores /\ l1.users = [l.users EXCEPT ![k] = v1]
      /\ l1.own = l.own /\ l1.supply = l.supply
  BY DEF LedgerOK, LedgerStores
<1>4. r = [l1 EXCEPT !.users[k].locked[m] = q]
  BY DEF Move
<1> HIDE DEF v1, l1
<1>5. /\ v \in AccountType /\ v.available = p /\ v.locked[m] = q
      /\ \A n \in LockModules \ {m} : v.locked[n] = l.users[k].locked[n]
  BY <1>1, <1>2 DEF AccountType
<1>6. l1.users[k] = v1
  <2>1. k \in DOMAIN l.users
    BY AccountOK
  <2> HIDE DEF k
  <2> QED
    BY <1>3, <2>1
<1>7. /\ DOMAIN r = LedgerStores /\ r.users = [l1.users EXCEPT ![k] = v]
      /\ r.own = l.own /\ r.supply = l.supply
  BY <1>3, <1>4, <1>6 DEF LedgerStores
<1> HIDE DEF v
<1>8. r.users = [l.users EXCEPT ![k] = v]
  BY <1>3, <1>7
<1>9. DOMAIN r = DOMAIN l
  BY <1>7 DEF LedgerOK
<1>10. \A n \in LockModules \ {m} : v.locked[n] = LockedOf(l, a, n)
  BY <1>5 DEF LockedOf
<1>11. Balance(l, a) \in Nat /\ LockedOf(l, a, m) \in Nat
  BY AccountOK
<1>12. /\ p - Balance(l, a) \in Int /\ q - LockedOf(l, a, m) \in Int
       /\ v.available = Balance(l, a) + (p - Balance(l, a))
       /\ v.locked[m] = LockedOf(l, a, m) + (q - LockedOf(l, a, m))
  BY <1>5, <1>11
<1> QED
  BY <1>5, <1>7, <1>8, <1>9, <1>10, <1>12, AccountChanged

\* Locking.
LEMMA LockOK ==
    ASSUME NEW l, Exact(l), NEW a \in Address, NEW m \in LockModules, NEW x \in Nat, Balance(l, a) >= x,
           NEW r, r = lock(l, a, m, KLY, x)
    PROVE  Exact(r) /\ LocksBut(l, r, a, m, x)
<1>0. LedgerOK(l)
  BY DEF Exact
<1>1. CASE x = 0
  <2>1. r = l
    BY <1>1 DEF lock
  <2>2. \A c \in Address, n \in LockModules : LockedOf(l, c, n) \in Nat
    BY <1>0, AccountOK
  <2> QED
    BY <1>1, <2>1, <2>2 DEF LocksBut
<1>2. CASE x # 0
  <2> DEFINE k == <<a, KLY>>
             p == l.users[k].available - x
             q == l.users[k].locked[m] + x
  <2>1. /\ Balance(l, a) \in Nat /\ LockedOf(l, a, m) \in Nat
        /\ p = Balance(l, a) - x /\ q = LockedOf(l, a, m) + x
    BY <1>0, AccountOK DEF Balance, LockedOf
  <2>2. p \in Nat /\ q \in Nat /\ p - Balance(l, a) = 0 - x /\ q - LockedOf(l, a, m) = x
    BY <2>1
  <2>3. r = Move(l, k, p, m, q)
    BY <1>2 DEF lock, Move
  <2> HIDE DEF p, q
  <2>4. Gains(l, r, a, 0 - x, m, x)
    BY <1>0, <2>2, <2>3, MoveOK
  <2>5. UsersTotal(l, KLY) \in Nat
    BY <1>0, TotalUnfolded
  <2> QED
    BY <2>4, <2>5 DEF Gains, Exact, LocksBut
<1> QED
  BY <1>1, <1>2

\* Unlocking.
LEMMA UnlockedOK ==
    ASSUME NEW l, Exact(l), NEW a \in Address, NEW m \in LockModules, NEW x \in Nat,
           LockedOf(l, a, m) >= x, NEW r, r = unlock(l, a, m, KLY, x)
    PROVE  Exact(r) /\ LocksBut(l, r, a, m, 0 - x) /\ Balance(r, a) >= x
<1>0. LedgerOK(l)
  BY DEF Exact
<1>1. CASE x = 0
  <2>1. r = l
    BY <1>1 DEF unlock
  <2>2. \A c \in Address, n \in LockModules : LockedOf(l, c, n) \in Nat
    BY <1>0, AccountOK
  <2>3. Balance(l, a) \in Nat
    BY <1>0, AccountOK
  <2> QED
    BY <1>1, <2>1, <2>2, <2>3 DEF LocksBut
<1>2. CASE x # 0
  <2> DEFINE k == <<a, KLY>>
             p == l.users[k].available + x
             q == l.users[k].locked[m] - x
  <2>1. /\ Balance(l, a) \in Nat /\ LockedOf(l, a, m) \in Nat
        /\ p = Balance(l, a) + x /\ q = LockedOf(l, a, m) - x
    BY <1>0, AccountOK DEF Balance, LockedOf
  <2>2. p \in Nat /\ q \in Nat /\ p - Balance(l, a) = x /\ q - LockedOf(l, a, m) = 0 - x
    BY <2>1
  <2>3. r = Move(l, k, p, m, q)
    BY <1>2 DEF unlock, Move
  <2> HIDE DEF p, q
  <2>4. Gains(l, r, a, x, m, 0 - x)
    BY <1>0, <2>2, <2>3, MoveOK
  <2>5. UsersTotal(l, KLY) \in Nat
    BY <1>0, TotalUnfolded
  <2> QED
    BY <2>1, <2>4, <2>5 DEF Gains, Exact, LocksBut
<1> QED
  BY <1>1, <1>2

\* An available amount changes.
LEMMA AddOK ==
    ASSUME NEW l, LedgerOK(l), NEW a \in Address, NEW x \in Int, Balance(l, a) + x >= 0,
           NEW r, r = addAvailableBalance(l, a, KLY, x)
    PROVE  /\ LedgerOK(r) /\ r.supply = l.supply /\ SameLocks(l, r)
           /\ UsersTotal(r, KLY) = UsersTotal(l, KLY) + x
           /\ \A c \in Address : Balance(r, c) = IF c = a THEN Balance(l, c) + x ELSE Balance(l, c)
<1> DEFINE k == <<a, KLY>>
           v == [l.users[k] EXCEPT !.available = @ + x]
<1>1. /\ l.users[k] \in AccountType /\ Balance(l, a) = l.users[k].available
      /\ \A n \in LockModules : LockedOf(l, a, n) = l.users[k].locked[n] /\ LockedOf(l, a, n) \in Nat
  BY AccountOK DEF Balance, LockedOf
<1>2. v \in AccountType /\ v.available = Balance(l, a) + x /\ v.locked = l.users[k].locked
  BY <1>1 DEF AccountType
<1>3. /\ DOMAIN r = DOMAIN l /\ r.own = l.own /\ r.supply = l.supply
      /\ r.users = [l.users EXCEPT ![k] = v]
  BY DEF addAvailableBalance, LedgerOK, LedgerStores
<1>4. /\ v.locked["pos"] = LockedOf(l, a, "pos") + 0
      /\ \A n \in LockModules \ {"pos"} : v.locked[n] = LockedOf(l, a, n)
  BY <1>1, <1>2, LockModulesOK
<1> HIDE DEF v
<1>5. Gains(l, r, a, x, "pos", 0)
  BY <1>2, <1>3, <1>4, LockModulesOK, AccountChanged
<1>6. \A c \in Address, n \in LockModules : LockedOf(l, c, n) \in Nat
  BY AccountOK
<1>7. UsersTotal(l, KLY) \in Nat
  BY TotalUnfolded
<1> QED
  BY <1>5, <1>6, <1>7 DEF Gains, SameLocks

\* An account that exists stays as it is.
LEMMA InitializeOK ==
    ASSUME NEW l, Exact(l), NEW a \in Address, NEW r, r = initializeUserAccount(l, a, KLY)
    PROVE  Exact(r) /\ SameLocks(l, r) /\ \A c \in Address : Balance(r, c) = Balance(l, c)
<1> DEFINE k == <<a, KLY>>
<1>0. LedgerOK(l)
  BY DEF Exact
<1>1. k \in DOMAIN l.users /\ Account(l, a, KLY) = l.users[k]
  BY <1>0, AccountOK DEF Account
<1>2. Put(l.users, k, l.users[k]) = l.users
  <2>1. l.users = [u \in DOMAIN l.users |-> l.users[u]]
    BY <1>0 DEF LedgerOK
  <2> HIDE DEF k
  <2>2. DOMAIN l.users \cup {k} = DOMAIN l.users
    BY <1>1
  <2>3. Put(l.users, k, l.users[k]) = [u \in DOMAIN l.users |-> l.users[u]]
    BY <2>2 DEF Put
  <2> QED
    BY <2>1, <2>3
<1>3. r = [l EXCEPT !.users = l.users]
  BY <1>1, <1>2 DEF initializeUserAccount
<1>4. DOMAIN r = DOMAIN l /\ r.users = l.users /\ r.supply = l.supply /\ r.own = l.own
  BY <1>0, <1>3 DEF LedgerOK, LedgerStores
<1> QED
  BY <1>0, <1>4 DEF Exact, LedgerOK, UsersTotal, SameLocks, LockedOf, Balance

\* A transfer.
LEMMA TransferOK ==
    ASSUME NEW l, Exact(l), NEW a \in Address, NEW b \in Address, NEW x \in Nat, Balance(l, a) >= x,
           NEW r, r = transfer(l, a, b, KLY, x)
    PROVE  Exact(r) /\ SameLocks(l, r) /\ Balance(r, a) >= Balance(l, a) - x
<1>0. LedgerOK(l) /\ Balance(l, a) \in Nat /\ UsersTotal(l, KLY) \in Nat
  BY AccountOK, TotalUnfolded DEF Exact
<1>1. CASE x = 0
  <2>1. r = l
    BY <1>1 DEF transfer
  <2> QED
    BY <1>0, <1>1, <2>1 DEF SameLocks
<1>2. CASE x # 0
  <2> DEFINE l0 == initializeUserAccount(l, b, KLY)
             l1 == addAvailableBalance(l0, a, KLY, 0 - x)
  <2>1. r = addAvailableBalance(l1, b, KLY, x)
    BY <1>2 DEF transfer
  <2>2. Exact(l0) /\ SameLocks(l, l0) /\ \A c \in Address : Balance(l0, c) = Balance(l, c)
    BY InitializeOK
  <2>3. LedgerOK(l0) /\ UsersTotal(l0, KLY) \in Nat
    BY <2>2, TotalUnfolded DEF Exact
  <2>4. 0 - x \in Int /\ Balance(l0, a) + (0 - x) >= 0
    BY <1>0, <2>2
  <2> HIDE DEF l0
  <2>5. /\ LedgerOK(l1) /\ l1.supply = l0.supply /\ SameLocks(l0, l1)
        /\ UsersTotal(l1, KLY) = UsersTotal(l0, KLY) + (0 - x)
        /\ \A c \in Address : Balance(l1, c) = IF c = a THEN Balance(l0, c) + (0 - x) ELSE Balance(l0, c)
    BY <2>4, <2>3, AddOK
  <2> HIDE DEF l1
  <2>6. Balance(l1, b) \in Nat /\ Balance(l1, a) \in Nat
    BY <2>5, AccountOK
  <2>7. Balance(l1, b) + x >= 0
    BY <2>6
  <2>8. /\ LedgerOK(r) /\ r.supply = l1.supply /\ SameLocks(l1, r)
        /\ UsersTotal(r, KLY) = UsersTotal(l1, KLY) + x
        /\ \A c \in Address : Balance(r, c) = IF c = b THEN Balance(l1, c) + x ELSE Balance(l1, c)
    BY <2>1, <2>5, <2>7, AddOK
  <2>9. UsersTotal(r, KLY) = UsersTotal(l0, KLY)
    BY <2>5, <2>8, <2>3
  <2>10. Balance(r, a) >= Balance(l, a) - x
    BY <1>0, <2>5, <2>6, <2>8, <2>2
  <2> QED
    BY <2>5, <2>8, <2>9, <2>10, <2>2 DEF Exact, SameLocks
<1> QED
  BY <1>1, <1>2

\* The supply changes with an available amount.
LEMMA SupplyOK ==
    ASSUME NEW l, Exact(l), NEW a \in Address, NEW x \in Int, Balance(l, a) + x >= 0,
           NEW r, r = [addAvailableBalance(l, a, KLY, x) EXCEPT !.supply[KLY] = @ + x]
    PROVE  Exact(r) /\ SameLocks(l, r) /\ Balance(r, a) = Balance(l, a) + x
<1> DEFINE l1 == addAvailableBalance(l, a, KLY, x)
<1>0. LedgerOK(l)
  BY DEF Exact
<1>1. /\ LedgerOK(l1) /\ l1.supply = l.supply /\ SameLocks(l, l1)
      /\ UsersTotal(l1, KLY) = UsersTotal(l, KLY) + x
      /\ Balance(l1, a) = Balance(l, a) + x
  BY <1>0, AddOK
<1> HIDE DEF l1
<1>2. r = [l1 EXCEPT !.supply[KLY] = @ + x]
  BY DEF l1
<1>3. /\ DOMAIN r = LedgerStores /\ r.own = l1.own /\ r.users = l1.users
      /\ r.supply = [l1.supply EXCEPT ![KLY] = @ + x]
  BY <1>1, <1>2 DEF LedgerOK, LedgerStores
<1>4. r.supply \in [{KLY} -> Int] /\ r.supply[KLY] = l.supply[KLY] + x
  <2> DEFINE t == KLY
             f == l1.supply
  <2>1. f \in [{t} -> Int] /\ f = l.supply /\ r.supply = [f EXCEPT ![t] = @ + x]
    BY <1>1, <1>3 DEF LedgerOK
  <2> HIDE DEF t, f
  <2>2. t \in DOMAIN f /\ f[t] \in Int
    BY ONLY <2>1
  <2>3. f[t] + x \in Int
    BY <2>2
  <2> DEFINE y == f[t] + x
  <2>4. r.supply = [f EXCEPT ![t] = y]
    BY <2>1
  <2> HIDE DEF y
  <2>5. r.supply \in [{t} -> Int] /\ r.supply[t] = y
    BY ONLY <2>1, <2>2, <2>3, <2>4 DEF y
  <2> QED
    BY <2>1, <2>5 DEF t, y
<1>5. LedgerOK(r)
  BY <1>1, <1>3, <1>4 DEF LedgerOK
<1>6. UsersTotal(r, KLY) = UsersTotal(l1, KLY)
  BY <1>3 DEF UsersTotal
<1>7. SameLocks(l, r) /\ Balance(r, a) = Balance(l, a) + x
  BY <1>1, <1>3 DEF SameLocks, LockedOf, Balance
<1> QED
  BY <1>1, <1>4, <1>5, <1>6, <1>7 DEF Exact

\* The token of fees is native.
LEMMA NativeOK ==
    ASSUME NEW l, LedgerOK(l)
    PROVE  isNativeToken(l, KLY)
  BY DEF isNativeToken, TokenChain, KLY, LedgerOK

\* Minting.
LEMMA MintOK ==
    ASSUME NEW l, Exact(l), NEW a \in Address, NEW x \in Nat, NEW r, r = mint(l, a, KLY, x)
    PROVE  Exact(r) /\ SameLocks(l, r) /\ Balance(r, a) >= x
<1>0. LedgerOK(l) /\ Balance(l, a) \in Nat
  BY AccountOK DEF Exact
<1>1. CASE x = 0
  <2>1. r = l
    BY <1>1 DEF mint
  <2> QED
    BY <1>0, <1>1, <2>1 DEF SameLocks
<1>2. CASE x # 0
  <2> DEFINE l0 == initializeUserAccount(l, a, KLY)
  <2>1. r = [addAvailableBalance(l0, a, KLY, x) EXCEPT !.supply[KLY] = @ + x]
    BY <1>2 DEF mint
  <2>2. Exact(l0) /\ SameLocks(l, l0) /\ Balance(l0, a) = Balance(l, a)
    BY InitializeOK
  <2> HIDE DEF l0
  <2>3. Exact(r) /\ SameLocks(l0, r) /\ Balance(r, a) = Balance(l, a) + x
    BY <1>0, <2>1, <2>2, SupplyOK
  <2> QED
    BY <1>0, <2>2, <2>3 DEF SameLocks
<1> QED
  BY <1>1, <1>2

\* Burning.
LEMMA BurnOK ==
    ASSUME NEW l, Exact(l), NEW a \in Address, NEW x \in Nat, Balance(l, a) >= x,
           NEW r, r = burn(l, a, KLY, x)
    PROVE  Exact(r) /\ SameLocks(l, r)
<1>0. LedgerOK(l) /\ Balance(l, a) \in Nat
  BY AccountOK DEF Exact
<1>1. CASE x = 0
  <2>1. r = l
    BY <1>1 DEF burn
  <2> QED
    BY <1>0, <1>1, <2>1 DEF SameLocks
<1>2. CASE x # 0
  <2> DEFINE l1 == addAvailableBalance(l, a, KLY, 0 - x)
  <2>1. r = [l1 EXCEPT !.supply[KLY] = @ - x]
    BY <1>0, <1>2, NativeOK DEF burn
  <2>2. 0 - x \in Int /\ Balance(l, a) + (0 - x) >= 0
    BY <1>0
  <2>3. LedgerOK(l1)
    BY <1>0, <2>2, AddOK
  <2> HIDE DEF l1
  <2>4. l1.supply[KLY] - x = l1.supply[KLY] + (0 - x)
    BY <2>3 DEF LedgerOK
  <2>5. r = [l1 EXCEPT !.supply[KLY] = @ + (0 - x)]
    BY <2>1, <2>4
  <2> QED
    BY <2>2, <2>5, SupplyOK DEF l1
<1> QED
  BY <1>1, <1>2

(* ------------------------------ the books ------------------------------ *)

\* The exact amount, in units of 1/Q, that a can claim from b.
Due(s, a, b) ==
    LET stakes == getOrDefault(s, a).stakes
    IN  IF a # b /\ b \in DOMAIN stakes
        THEN (s.validators[b].coefficient - stakes[b].coefficient) * stakes[b].amount
        ELSE 0

Owed(s, b) == SumFunction([a \in Address |-> Due(s, a, b)])

\* The account d of a staker.
StakerOK(d, validators) ==
    /\ DOMAIN d.stakes \subseteq DOMAIN validators
    /\ \A b \in DOMAIN d.stakes :
           /\ DOMAIN d.stakes[b] = {"amount", "coefficient"}
           /\ d.stakes[b].amount \in Nat /\ d.stakes[b].coefficient \in Nat
           /\ d.stakes[b].coefficient <= validators[b].coefficient
    /\ IsFiniteSet(DOMAIN d.unlocks) /\ d.unlocks \in [DOMAIN d.unlocks -> Nat \ {0}]
    /\ \A u \in DOMAIN d.unlocks : u.amount \in Nat

\* The validators' accounts say of received stakes what the stakers' say of sent ones.
StakesSound(s) ==
    /\ DOMAIN s.stakers \subseteq Address /\ DOMAIN s.validators \subseteq Address
    /\ \A a \in Address : StakerOK(getOrDefault(s, a), s.validators)
    /\ \A b \in DOMAIN s.validators :
           /\ s.validators[b].coefficient \in Nat /\ s.validators[b].commission \in 0 .. MaxCommission
           /\ s.validators[b].total = Received(s, b) /\ s.validators[b].self = StakeOf(s, b, b)

\* What is locked covers stakes, pending unlocks and the exact claims of others.
Covered(s) ==
    \A a \in Address :
        LockedOf(s.ledger, a, "pos") * Q >= (Staked(s, a) + Unlocking(s, a)) * Q + Owed(s, a)

Books(s) == Exact(s.ledger) /\ StakesSound(s) /\ Covered(s)

\* What t changes of the stakes of s is the one of a on b.
OneStake(s, t, a, b) ==
    /\ \A c \in Address \ {a} : getOrDefault(t, c) = getOrDefault(s, c)
    /\ \A d \in Address \ {b} :
           /\ d \in DOMAIN getOrDefault(t, a).stakes <=> d \in DOMAIN getOrDefault(s, a).stakes
           /\ d \in DOMAIN getOrDefault(s, a).stakes =>
                  getOrDefault(t, a).stakes[d] = getOrDefault(s, a).stakes[d]

\* The addresses are finitely many.
LEMMA AddressFinite == IsFiniteSet(Address)
  BY PoSAssumption

\* Stakes and claims are naturals.
LEMMA AmountsOK ==
    ASSUME NEW s, StakesSound(s), NEW a \in Address, NEW b \in Address
    PROVE  StakeOf(s, a, b) \in Nat /\ Due(s, a, b) \in Nat
<1> DEFINE stakes == getOrDefault(s, a).stakes
<1>1. StakerOK(getOrDefault(s, a), s.validators)
  BY DEF StakesSound
<1>2. CASE b \in DOMAIN stakes
  <2> DEFINE x == stakes[b].amount
             y == stakes[b].coefficient
             z == s.validators[b].coefficient
  <2>1. x \in Nat /\ y \in Nat /\ z \in Nat /\ y <= z
    BY <1>1, <1>2 DEF StakerOK, StakesSound
  <2>2. StakeOf(s, a, b) = x /\ Due(s, a, b) = IF a # b THEN (z - y) * x ELSE 0
    BY <1>2 DEF StakeOf, Due
  <2> HIDE DEF x, y, z
  <2>3. z - y \in Nat
    BY <2>1
  <2> QED
    BY <2>1, <2>2, <2>3
<1>3. CASE b \notin DOMAIN stakes
  BY <1>3 DEF StakeOf, Due
<1> QED
  BY <1>2, <1>3

\* The pending unlocks of an account.
Pending(unlocks) == SumFunction([u \in DOMAIN unlocks |-> u.amount * unlocks[u]])

\* The amounts of pending unlocks are naturals.
LEMMA PendingOK ==
    ASSUME NEW d, NEW validators, StakerOK(d, validators)
    PROVE  /\ Pending(d.unlocks) \in Nat /\ IsFiniteSet(DOMAIN d.unlocks)
           /\ \A u \in DOMAIN d.unlocks :
                  u.amount \in Nat /\ d.unlocks[u] \in Nat \ {0} /\ u.amount * d.unlocks[u] \in Nat
<1> DEFINE f == [u \in DOMAIN d.unlocks |-> u.amount * d.unlocks[u]]
<1>1. \A u \in DOMAIN d.unlocks : u.amount \in Nat /\ d.unlocks[u] \in Nat \ {0}
  BY DEF StakerOK
<1>2. \A u \in DOMAIN d.unlocks : u.amount * d.unlocks[u] \in Nat
  BY <1>1
<1>3. DOMAIN f = DOMAIN d.unlocks /\ IsFiniteSet(DOMAIN f) /\ \A u \in DOMAIN f : f[u] \in Nat
  BY <1>2 DEF StakerOK
<1> HIDE DEF f
<1>4. SumFunction(f) \in Nat
  BY <1>3, SumOfNaturals
<1> QED
  BY <1>1, <1>2, <1>3, <1>4 DEF Pending, f

\* The sums are naturals.
LEMMA SumsOK ==
    ASSUME NEW s, StakesSound(s), NEW a \in Address
    PROVE  /\ Staked(s, a) \in Nat /\ Received(s, a) \in Nat /\ Owed(s, a) \in Nat
           /\ Unlocking(s, a) \in Nat /\ Unlocking(s, a) = Pending(getOrDefault(s, a).unlocks)
           /\ \A b \in Address : StakeOf(s, b, a) <= Received(s, a)
<1> DEFINE f == [b \in Address |-> StakeOf(s, a, b)]
           g == [b \in Address |-> StakeOf(s, b, a)]
           h == [b \in Address |-> Due(s, b, a)]
<1>1. /\ DOMAIN f = Address /\ DOMAIN g = Address /\ DOMAIN h = Address
      /\ \A b \in Address : f[b] \in Nat /\ g[b] \in Nat /\ h[b] \in Nat /\ g[b] = StakeOf(s, b, a)
  BY AmountsOK
<1>2. Staked(s, a) = SumFunction(f) /\ Received(s, a) = SumFunction(g) /\ Owed(s, a) = SumFunction(h)
  BY DEF Staked, Received, Owed
<1> HIDE DEF f, g, h
<1>3. SumFunction(f) \in Nat /\ SumFunction(g) \in Nat /\ SumFunction(h) \in Nat
      /\ \A b \in Address : g[b] <= SumFunction(g)
  BY <1>1, AddressFinite, SumOfNaturals
<1>4. Unlocking(s, a) = Pending(getOrDefault(s, a).unlocks)
  BY DEF Unlocking, Pending
<1>5. StakerOK(getOrDefault(s, a), s.validators)
  BY DEF StakesSound
<1>6. Pending(getOrDefault(s, a).unlocks) \in Nat
  BY <1>5, PendingOK
<1> QED
  BY <1>1, <1>2, <1>3, <1>4, <1>6

\* What one stake changes of the sums.
LEMMA CellChanged ==
    ASSUME NEW s, NEW t, StakesSound(s), NEW a \in Address, NEW b \in Address, OneStake(s, t, a, b),
           \A d \in DOMAIN s.validators : t.validators[d].coefficient = s.validators[d].coefficient,
           StakeOf(t, a, b) \in Nat, Due(t, a, b) = 0
    PROVE  /\ \A c \in Address : Staked(t, c) = IF c = a THEN Staked(s, c) - StakeOf(s, a, b) + StakeOf(t, a, b)
                                                ELSE Staked(s, c)
           /\ \A d \in Address : Received(t, d) = IF d = b THEN Received(s, d) - StakeOf(s, a, b) + StakeOf(t, a, b)
                                                  ELSE Received(s, d)
           /\ \A d \in Address : Owed(t, d) = IF d = b THEN Owed(s, d) - Due(s, a, b) ELSE Owed(s, d)
           /\ StakeOf(t, b, b) = IF a = b THEN StakeOf(t, a, b) ELSE StakeOf(s, b, b)
           /\ \A d \in Address \ {b} : StakeOf(t, d, d) = StakeOf(s, d, d)
<1>1. \A c, d \in Address : (c # a \/ d # b) =>
          StakeOf(t, c, d) = StakeOf(s, c, d) /\ Due(t, c, d) = Due(s, c, d)
  <2> SUFFICES ASSUME NEW c \in Address, NEW d \in Address, c # a \/ d # b
               PROVE  StakeOf(t, c, d) = StakeOf(s, c, d) /\ Due(t, c, d) = Due(s, c, d)
    OBVIOUS
  <2>1. /\ d \in DOMAIN getOrDefault(t, c).stakes <=> d \in DOMAIN getOrDefault(s, c).stakes
        /\ d \in DOMAIN getOrDefault(s, c).stakes =>
               getOrDefault(t, c).stakes[d] = getOrDefault(s, c).stakes[d]
    BY DEF OneStake
  <2>2. d \in DOMAIN getOrDefault(s, c).stakes => d \in DOMAIN s.validators
    BY DEF StakesSound, StakerOK
  <2> QED
    BY <2>1, <2>2 DEF StakeOf, Due
<1>2. \A c, d \in Address : /\ StakeOf(s, c, d) \in Int /\ Due(s, c, d) \in Int
                            /\ StakeOf(t, c, d) \in Int /\ Due(t, c, d) \in Int
  BY <1>1, AmountsOK
<1>3. ASSUME NEW c \in Address
      PROVE  Staked(t, c) = IF c = a THEN Staked(s, c) - StakeOf(s, a, b) + StakeOf(t, a, b) ELSE Staked(s, c)
  <2> DEFINE f == [d \in Address |-> StakeOf(s, c, d)]
             h == [d \in Address |-> StakeOf(t, c, d)]
  <2>1. Staked(s, c) = SumFunction(f) /\ Staked(t, c) = SumFunction(h)
    BY DEF Staked
  <2>2. CASE c # a
    <3>1. f = h
      BY <1>1, <2>2
    <3> QED
      BY <2>1, <2>2, <3>1
  <2>3. CASE c = a
    <3>1. /\ DOMAIN f = Address /\ DOMAIN h = Address /\ (\A d \in Address : f[d] \in Int)
          /\ h[b] \in Int /\ (\A d \in Address \ {b} : h[d] = f[d])
          /\ f[b] = StakeOf(s, a, b) /\ h[b] = StakeOf(t, a, b)
      BY <1>1, <1>2, <2>3
    <3> HIDE DEF f, h
    <3>2. SumFunction(h) = SumFunction(f) - f[b] + h[b]
      BY <3>1, AddressFinite, SumOneChanged
    <3> QED
      BY <2>1, <2>3, <3>1, <3>2
  <2> QED
    BY <2>2, <2>3
<1>4. ASSUME NEW d \in Address
      PROVE  Received(t, d) = IF d = b THEN Received(s, d) - StakeOf(s, a, b) + StakeOf(t, a, b) ELSE Received(s, d)
  <2> DEFINE f == [c \in Address |-> StakeOf(s, c, d)]
             h == [c \in Address |-> StakeOf(t, c, d)]
  <2>1. Received(s, d) = SumFunction(f) /\ Received(t, d) = SumFunction(h)
    BY DEF Received
  <2>2. CASE d # b
    <3>1. f = h
      BY <1>1, <2>2
    <3> QED
      BY <2>1, <2>2, <3>1
  <2>3. CASE d = b
    <3>1. /\ DOMAIN f = Address /\ DOMAIN h = Address /\ (\A c \in Address : f[c] \in Int)
          /\ h[a] \in Int /\ (\A c \in Address \ {a} : h[c] = f[c])
          /\ f[a] = StakeOf(s, a, b) /\ h[a] = StakeOf(t, a, b)
      BY <1>1, <1>2, <2>3
    <3> HIDE DEF f, h
    <3>2. SumFunction(h) = SumFunction(f) - f[a] + h[a]
      BY <3>1, AddressFinite, SumOneChanged
    <3> QED
      BY <2>1, <2>3, <3>1, <3>2
  <2> QED
    BY <2>2, <2>3
<1>5. ASSUME NEW d \in Address
      PROVE  Owed(t, d) = IF d = b THEN Owed(s, d) - Due(s, a, b) ELSE Owed(s, d)
  <2> DEFINE f == [c \in Address |-> Due(s, c, d)]
             h == [c \in Address |-> Due(t, c, d)]
  <2>1. Owed(s, d) = SumFunction(f) /\ Owed(t, d) = SumFunction(h)
    BY DEF Owed
  <2>2. CASE d # b
    <3>1. f = h
      BY <1>1, <2>2
    <3> QED
      BY <2>1, <2>2, <3>1
  <2>3. CASE d = b
    <3>1. /\ DOMAIN f = Address /\ DOMAIN h = Address /\ (\A c \in Address : f[c] \in Int)
          /\ h[a] \in Int /\ (\A c \in Address \ {a} : h[c] = f[c])
          /\ f[a] = Due(s, a, b) /\ h[a] = 0
      BY <1>1, <1>2, <2>3
    <3> HIDE DEF f, h
    <3>2. SumFunction(h) = SumFunction(f) - f[a] + h[a] /\ SumFunction(f) \in Int
      BY <3>1, AddressFinite, SumOneChanged
    <3> QED
      BY <2>1, <2>3, <3>1, <3>2
  <2> QED
    BY <2>2, <2>3
<1>6. /\ StakeOf(t, b, b) = IF a = b THEN StakeOf(t, a, b) ELSE StakeOf(s, b, b)
      /\ \A d \in Address \ {b} : StakeOf(t, d, d) = StakeOf(s, d, d)
  BY <1>1
<1> QED
  BY <1>3, <1>4, <1>5, <1>6

\* One stake changes, and with it what is locked, pending and owed.
LEMMA StakeStep ==
    ASSUME NEW s, NEW t, Books(s), NEW a \in Address, NEW b \in DOMAIN s.validators, OneStake(s, t, a, b),
           DOMAIN t.stakers \subseteq Address, DOMAIN t.validators = DOMAIN s.validators,
           StakerOK(getOrDefault(t, a), t.validators), Due(t, a, b) = 0,
           \A d \in DOMAIN s.validators \ {b} : t.validators[d] = s.validators[d],
           t.validators[b].coefficient = s.validators[b].coefficient,
           t.validators[b].commission = s.validators[b].commission,
           t.validators[b].total = s.validators[b].total - StakeOf(s, a, b) + StakeOf(t, a, b),
           t.validators[b].self = IF a = b THEN StakeOf(t, a, b) ELSE s.validators[b].self,
           Exact(t.ledger), NEW x \in Int, NEW r \in Nat, r * Q <= Due(s, a, b),
           \A c \in Address : LockedOf(t.ledger, c, "pos") =
               LockedOf(s.ledger, c, "pos") + (IF c = a THEN x ELSE 0) - (IF c = b THEN r ELSE 0),
           Unlocking(t, a) = Unlocking(s, a) + x + StakeOf(s, a, b) - StakeOf(t, a, b)
    PROVE  Books(t)
<1>1. StakesSound(s) /\ Covered(s) /\ Exact(s.ledger)
  BY DEF Books
<1>2. b \in Address /\ DOMAIN s.validators \subseteq Address
  BY <1>1 DEF StakesSound
<1>3. \A d \in DOMAIN s.validators : t.validators[d].coefficient = s.validators[d].coefficient
  OBVIOUS
<1>4. StakeOf(t, a, b) \in Nat
  BY DEF StakeOf, StakerOK
<1>5. /\ \A c \in Address : Staked(t, c) = IF c = a THEN Staked(s, c) - StakeOf(s, a, b) + StakeOf(t, a, b)
                                           ELSE Staked(s, c)
      /\ \A d \in Address : Received(t, d) = IF d = b THEN Received(s, d) - StakeOf(s, a, b) + StakeOf(t, a, b)
                                             ELSE Received(s, d)
      /\ \A d \in Address : Owed(t, d) = IF d = b THEN Owed(s, d) - Due(s, a, b) ELSE Owed(s, d)
      /\ StakeOf(t, b, b) = IF a = b THEN StakeOf(t, a, b) ELSE StakeOf(s, b, b)
      /\ \A d \in Address \ {b} : StakeOf(t, d, d) = StakeOf(s, d, d)
  BY <1>1, <1>2, <1>3, <1>4, CellChanged
<1>6. \A c \in Address : StakerOK(getOrDefault(t, c), t.validators)
  <2> SUFFICES ASSUME NEW c \in Address, c # a PROVE StakerOK(getOrDefault(t, c), t.validators)
    OBVIOUS
  <2>1. getOrDefault(t, c) = getOrDefault(s, c) /\ StakerOK(getOrDefault(s, c), s.validators)
    BY <1>1 DEF OneStake, StakesSound
  <2> QED
    BY <1>3, <2>1 DEF StakerOK
<1>7. ASSUME NEW d \in DOMAIN s.validators
      PROVE  /\ t.validators[d].coefficient \in Nat /\ t.validators[d].commission \in 0 .. MaxCommission
             /\ t.validators[d].total = Received(t, d) /\ t.validators[d].self = StakeOf(t, d, d)
  <2>1. /\ s.validators[d].coefficient \in Nat /\ s.validators[d].commission \in 0 .. MaxCommission
        /\ s.validators[d].total = Received(s, d) /\ s.validators[d].self = StakeOf(s, d, d)
        /\ d \in Address
    BY <1>1, <1>2 DEF StakesSound
  <2>2. CASE d = b
    BY <1>5, <2>1, <2>2
  <2>3. CASE d # b
    BY <1>5, <2>1, <2>3
  <2> QED
    BY <2>2, <2>3
<1>8. StakesSound(t)
  BY <1>2, <1>6, <1>7 DEF StakesSound
<1>9. \A c \in Address \ {a} : Unlocking(t, c) = Unlocking(s, c)
  BY DEF OneStake, Unlocking
<1>10. Q \in Nat \ {0}
  BY PoSAssumption
<1>11. ASSUME NEW c \in Address
       PROVE  LockedOf(t.ledger, c, "pos") * Q >= (Staked(t, c) + Unlocking(t, c)) * Q + Owed(t, c)
  <2> DEFINE L == LockedOf(s.ledger, c, "pos")
             P == Staked(s, c) + Unlocking(s, c)
             O == Owed(s, c)
             y == IF c = a THEN x ELSE 0
             z == IF c = b THEN r ELSE 0
             D == IF c = b THEN Due(s, a, b) ELSE 0
  <2>1. L \in Nat /\ P \in Nat /\ O \in Nat /\ y \in Int /\ z \in Nat /\ D \in Nat
    <3>1. LedgerOK(s.ledger)
      BY <1>1 DEF Exact
    <3>2. L \in Nat
      BY <3>1, LockModulesOK, AccountOK
    <3>3. P \in Nat /\ O \in Nat
      BY <1>1, SumsOK
    <3>4. D \in Nat
      BY <1>1, <1>2, AmountsOK
    <3> QED
      BY <3>2, <3>3, <3>4
  <2>2. L * Q >= P * Q + O
    BY <1>1 DEF Covered
  <2>3. LockedOf(t.ledger, c, "pos") = L + y - z
    OBVIOUS
  <2>4. Staked(t, c) + Unlocking(t, c) = P + y
    <3>1. /\ Staked(s, c) \in Nat /\ Unlocking(s, c) \in Nat
          /\ StakeOf(s, a, b) \in Nat /\ StakeOf(t, a, b) \in Nat
      BY <1>1, <1>2, <1>4, SumsOK, AmountsOK
    <3>2. CASE c = a
      BY <1>5, <3>1, <3>2
    <3>3. CASE c # a
      BY <1>5, <1>9, <3>1, <3>3
    <3> QED
      BY <3>2, <3>3
  <2>5. Owed(t, c) = O - D
    BY <1>5, <2>1
  <2>6. z * Q <= D
    BY <1>10
  <2> HIDE DEF L, P, O, y, z, D
  <2>7. (L + y - z) * Q = L * Q + y * Q - z * Q /\ (P + y) * Q = P * Q + y * Q
    BY <1>10, <2>1
  <2>8. L * Q \in Int /\ y * Q \in Int /\ z * Q \in Int /\ P * Q \in Int
    BY <1>10, <2>1
  <2>9. (L + y - z) * Q >= (P + y) * Q + (O - D)
    BY <2>1, <2>2, <2>6, <2>7, <2>8
  <2> QED
    BY <2>3, <2>4, <2>5, <2>9
<1>12. Covered(t)
  BY <1>11 DEF Covered
<1> QED
  BY <1>8, <1>12 DEF Books

(* ------------------------- rewards of a stake -------------------------- *)

\* The rewards of a for its stake on b: at most what is due, paid by b.
LEMMA AssignOK ==
    ASSUME NEW s, StakesSound(s), NEW a \in Address, NEW b \in Address,
           b \in DOMAIN getOrDefault(s, a).stakes, NEW l, Exact(l), NEW got,
           got = assignStakeRewards(l, a, b, getOrDefault(s, a).stakes[b], s.validators[b]), got.ok
    PROVE  \E r \in Nat : r * Q <= Due(s, a, b) /\ Exact(got.l) /\ LocksBut(l, got.l, b, "pos", 0 - r)
<1> DEFINE stake1 == getOrDefault(s, a).stakes[b]
           v  == s.validators[b]
           r  == IF a = b THEN 0 ELSE calculateStakeRewards(stake1, v)
           l1 == unlock(l, b, "pos", KLY, r)
           l2 == transfer(l1, b, a, KLY, r)
<1>1. got = IF unlockable(l, b, "pos", KLY, r) THEN [ok |-> TRUE, l |-> l2] ELSE [ok |-> FALSE, l |-> l]
  BY DEF assignStakeRewards
<1>2. r \in Nat /\ r * Q <= Due(s, a, b)
  <2> DEFINE D == Due(s, a, b)
  <2>1. D \in Nat /\ Q \in Nat \ {0}
    BY AmountsOK, PoSAssumption
  <2>2. a # b => r = D \div Q
    BY DEF Due, calculateStakeRewards
  <2> HIDE DEF D
  <2>3. D \div Q \in Nat /\ (D \div Q) * Q <= D
    BY <2>1
  <2>4. CASE a # b
    BY <2>2, <2>3, <2>4 DEF D
  <2>5. CASE a = b
    <3>1. r = 0 /\ 0 * Q = 0
      BY <2>1, <2>5
    <3> QED
      BY <2>1, <3>1 DEF D
  <2> QED
    BY <2>4, <2>5
<1> HIDE DEF r, l1, l2
<1>3. unlockable(l, b, "pos", KLY, r) /\ got.l = l2
  BY <1>1
<1>4. LedgerOK(l)
  BY DEF Exact
<1>5. LockedOf(l, b, "pos") >= r
  <2>1. LockedOf(l, b, "pos") \in Nat /\ getLockedAmount(l, b, "pos", KLY) = LockedOf(l, b, "pos")
    BY <1>4, LockModulesOK, AccountOK
  <2> QED
    BY <1>2, <1>3, <2>1 DEF unlockable
<1>6. Exact(l1) /\ LocksBut(l, l1, b, "pos", 0 - r) /\ Balance(l1, b) >= r
  BY <1>2, <1>5, LockModulesOK, UnlockedOK DEF l1
<1>7. Exact(l2) /\ SameLocks(l1, l2)
  BY <1>2, <1>6, TransferOK DEF l2
<1>8. LocksBut(l, l2, b, "pos", 0 - r)
  BY <1>6, <1>7 DEF LocksBut, SameLocks
<1> QED
  BY <1>2, <1>3, <1>7, <1>8

\* The amount of one more pending unlock.
LEMMA PendingAdded ==
    ASSUME NEW d, NEW validators, StakerOK(d, validators), NEW u, u.amount \in Nat,
           NEW more, more = Put(d.unlocks, u, Copies(u, d.unlocks) + 1)
    PROVE  /\ Pending(more) = Pending(d.unlocks) + u.amount
           /\ IsFiniteSet(DOMAIN more) /\ more \in [DOMAIN more -> Nat \ {0}]
           /\ \A w \in DOMAIN more : w.amount \in Nat
<1> DEFINE old == d.unlocks
           n   == Copies(u, old)
           f   == [w \in DOMAIN old |-> w.amount * old[w]]
           g   == [w \in DOMAIN more |-> w.amount * more[w]]
<1>1. /\ IsFiniteSet(DOMAIN old)
      /\ \A w \in DOMAIN old : w.amount \in Nat /\ old[w] \in Nat \ {0} /\ w.amount * old[w] \in Nat
  BY PendingOK
<1>2. n \in Nat
  BY <1>1 DEF Copies
<1>3. /\ DOMAIN more = DOMAIN old \cup {u} /\ more[u] = n + 1
      /\ \A w \in DOMAIN old \ {u} : more[w] = old[w]
      /\ more = [w \in DOMAIN more |-> more[w]]
  BY DEF Put
<1>4. IsFiniteSet(DOMAIN more)
  BY <1>1, <1>3, FS_AddElement
<1>5. \A w \in DOMAIN more : w.amount \in Nat /\ more[w] \in Nat \ {0}
  BY <1>1, <1>2, <1>3
<1>6. \A w \in DOMAIN more : w.amount * more[w] \in Nat
  BY <1>5
<1>7. Pending(old) = SumFunction(f) /\ Pending(more) = SumFunction(g)
  BY DEF Pending
<1>8. u.amount * (n + 1) = u.amount * n + u.amount /\ u.amount * n \in Int /\ u.amount * (n + 1) \in Int
  BY <1>2
<1>9. SumFunction(g) = SumFunction(f) + u.amount
  <2>1. /\ DOMAIN g = DOMAIN more /\ DOMAIN f = DOMAIN old
        /\ \A w \in DOMAIN old : f[w] \in Int
        /\ \A w \in DOMAIN more : g[w] \in Int
        /\ \A w \in DOMAIN old \ {u} : g[w] = f[w]
        /\ g[u] = u.amount * (n + 1)
    BY <1>1, <1>3, <1>6
  <2>2. CASE u \in DOMAIN old
    <3>1. f[u] = u.amount * n /\ DOMAIN more = DOMAIN old
      BY <1>3, <2>2 DEF Copies
    <3> HIDE DEF f, g, n, old
    <3>2. SumFunction(g) = SumFunction(f) - f[u] + g[u] /\ SumFunction(f) \in Int
      BY <1>1, <2>1, <2>2, <3>1, SumOneChanged
    <3> QED
      BY <1>8, <2>1, <3>1, <3>2
  <2>3. CASE u \notin DOMAIN old
    <3>1. n = 0
      BY <2>3 DEF Copies
    <3>2. g[u] = u.amount
      BY <1>8, <2>1, <3>1
    <3>3. DOMAIN f = DOMAIN g \ {u} /\ u \in DOMAIN g /\ \A w \in DOMAIN f : f[w] = g[w]
      BY <1>3, <2>1, <2>3
    <3> HIDE DEF f, g, n, old
    <3>4. SumFunction(g) = g[u] + SumFunction(f) /\ SumFunction(f) \in Int
      BY <1>4, <2>1, <3>3, SumAdd
    <3> QED
      BY <3>2, <3>4
  <2> QED
    BY <2>2, <2>3
<1> QED
  BY <1>3, <1>4, <1>5, <1>7, <1>9

(* ----------------------- commands and the books ------------------------ *)

SameFees(s, t) == \A c \in Address : LockedOf(t.ledger, c, "fee") = LockedOf(s.ledger, c, "fee")

\* The books stay sound, and the fees locked.
KeepsBooks(s, t) == Books(s) => Books(t) /\ SameFees(s, t)

\* An upstake or downstake by a on b.
LEMMA StakeOnBooks ==
    ASSUME NEW s, NEW h, AppOK(s, h), NEW a \in Address, NEW b, NEW x \in Int, stakeOn(s, a, b, x).ok
    PROVE  KeepsBooks(s, stakeOn(s, a, b, x).s)
<1> DEFINE data    == getOrDefault(s, a)
           v       == s.validators[b]
           has     == b \in DOMAIN data.stakes
           before  == IF has THEN data.stakes[b].amount ELSE 0
           locked  == IF x > 0 THEN lock(s.ledger, a, "pos", KLY, x) ELSE s.ledger
           rewards == IF has THEN assignStakeRewards(locked, a, b, data.stakes[b], v)
                             ELSE [ok |-> TRUE, l |-> locked]
           staked  == IF before + x = 0 /\ x < 0 THEN Drop(data.stakes, b)
                      ELSE Put(data.stakes, b, [amount |-> before + x, coefficient |-> v.coefficient])
           pending == [validator |-> b, amount |-> 0 - x, height |-> block.height]
           unlocks == IF x > 0 THEN data.unlocks
                      ELSE Put(data.unlocks, pending, Copies(pending, data.unlocks) + 1)
           changed == [v EXCEPT !.self = IF a = b THEN @ + x ELSE @, !.total = @ + x]
           account == [stakes |-> staked, unlocks |-> unlocks]
           t1      == [s EXCEPT !.ledger = rewards.l, !.stakers = Put(@, a, account)]
           t       == withValidator(t1, b, changed)
           ok      == /\ b \in DOMAIN s.validators
                      /\ x < 0 => has /\ before + x >= 0
                      /\ spendable(s.ledger, a, KLY, x)
                      /\ rewards.ok
                      /\ x < 0 => PendingUnlocks(unlocks) <= MaxPendingUnlocks
                      /\ x > 0 => Cardinality(DOMAIN staked) <= MaxSentStakes
<1>1. stakeOn(s, a, b, x) = IF ok THEN Done(t) ELSE Throw(s)
  BY Zenon DEF stakeOn
<1>2. ok
  <2> HIDE DEF ok, t
  <2> QED
    BY <1>1 DEF Throw
<1>3. stakeOn(s, a, b, x).s = t
  <2> HIDE DEF ok, t
  <2> QED
    BY <1>1, <1>2 DEF Done
<1>4. /\ b \in DOMAIN s.validators /\ (x < 0 => before + x >= 0) /\ spendable(s.ledger, a, KLY, x)
      /\ rewards.ok
  <2> HIDE DEF has, before, rewards, staked, unlocks
  <2> QED
    BY <1>2
<1>5. SUFFICES ASSUME Books(s) PROVE Books(t) /\ SameFees(s, t)
  <2> HIDE DEF t
  <2> QED
    BY <1>3 DEF KeepsBooks
<1>6. /\ t.ledger = rewards.l /\ t.stakers = Put(s.stakers, a, account)
      /\ t.validators = [s.validators EXCEPT ![b] = changed]
  BY DEF AppOK, AppFields, withValidator
<1>7. /\ changed.coefficient = v.coefficient /\ changed.commission = v.commission
      /\ changed.total = v.total + x /\ changed.self = IF a = b THEN v.self + x ELSE v.self
  BY <1>4 DEF AppOK, ValidatorsOK, ValidatorOK, ValidatorFields
<1>8. StakesSound(s) /\ Exact(s.ledger) /\ LedgerOK(s.ledger) /\ StakerOK(data, s.validators)
  BY <1>5 DEF Books, StakesSound, Exact
<1>9. /\ b \in Address /\ v.coefficient \in Nat
      /\ v.total \in Int /\ v.self \in Int
  BY <1>4, <1>8 DEF StakesSound, AppOK, ValidatorsOK, ValidatorOK
<1>10. /\ before = StakeOf(s, a, b) /\ before \in Nat /\ (a = b => v.self = before)
  BY <1>4, <1>8, <1>9, AmountsOK DEF StakeOf, StakesSound
<1>11. before + x \in Nat
  <2> HIDE DEF before
  <2> QED
    BY <1>4, <1>10
<1>12. account.unlocks = unlocks /\ account.stakes = staked
  OBVIOUS
<1>13. /\ \A c \in Address \ {a} : getOrDefault(t, c) = getOrDefault(s, c)
       /\ getOrDefault(t, a) = account /\ DOMAIN t.stakers \subseteq Address
  <2> HIDE DEF account, t
  <2> QED
    BY <1>6, <1>8 DEF getOrDefault, Put, StakesSound
<1>14. /\ \A d \in Address \ {b} : /\ d \in DOMAIN staked <=> d \in DOMAIN data.stakes
                                   /\ d \in DOMAIN data.stakes => staked[d] = data.stakes[d]
       /\ b \in DOMAIN staked => staked[b] = [amount |-> before + x, coefficient |-> v.coefficient]
       /\ b \notin DOMAIN staked => before + x = 0
       /\ DOMAIN staked \subseteq DOMAIN data.stakes \cup {b}
  <2> HIDE DEF before, v, data
  <2> QED
    BY DEF Drop, Restrict, Put
<1> DEFINE y == IF x > 0 THEN x ELSE 0
<1>15. y \in Nat
  OBVIOUS
<1>16. Exact(locked) /\ LocksBut(s.ledger, locked, a, "pos", y)
  <2>0. \A c \in Address, n \in LockModules : LockedOf(s.ledger, c, n) \in Nat
    BY <1>8, AccountOK
  <2>1. CASE x > 0
    <3>1. Balance(s.ledger, a) >= x /\ x \in Nat
      <4>1. getAvailableBalance(s.ledger, a, KLY) = Balance(s.ledger, a) /\ Balance(s.ledger, a) \in Nat
        BY <1>8, AccountOK
      <4>2. ~(x <= 0) => getAvailableBalance(s.ledger, a, KLY) >= x
        BY <1>4, Zenon DEF spendable
      <4> QED
        BY <2>1, <4>1, <4>2
    <3>2. locked = lock(s.ledger, a, "pos", KLY, x) /\ y = x
      BY <2>1
    <3> HIDE DEF locked, y
    <3> QED
      BY <1>8, <3>1, <3>2, LockModulesOK, LockOK
  <2>2. CASE ~(x > 0)
    <3>1. locked = s.ledger /\ y = 0
      BY <2>2
    <3> HIDE DEF locked, y
    <3> QED
      BY <1>8, <2>0, <3>1 DEF LocksBut
  <2> QED
    BY <2>1, <2>2
<1>17. PICK r \in Nat : /\ r * Q <= Due(s, a, b) /\ Exact(rewards.l)
                        /\ LocksBut(locked, rewards.l, b, "pos", 0 - r)
  <2>1. CASE has
    <3>1. rewards = assignStakeRewards(locked, a, b, getOrDefault(s, a).stakes[b], s.validators[b])
      BY <2>1
    <3> HIDE DEF rewards, locked
    <3>2. b \in DOMAIN getOrDefault(s, a).stakes
      BY <2>1
    <3> QED
      BY <1>4, <1>8, <1>9, <1>16, <3>1, <3>2, AssignOK
  <2>2. CASE ~has
    <3>1. rewards.l = locked /\ Due(s, a, b) = 0
      BY <2>2 DEF Due
    <3>2. 0 * Q = 0
      BY PoSAssumption
    <3>3. \A c \in Address, n \in LockModules : LockedOf(locked, c, n) \in Nat
      BY <1>16, AccountOK DEF Exact
    <3> HIDE DEF locked, rewards
    <3>4. LocksBut(locked, locked, b, "pos", 0 - 0)
      BY <3>3 DEF LocksBut
    <3> QED
      BY <1>16, <3>1, <3>2, <3>4
  <2> QED
    BY <2>1, <2>2
<1>18. /\ Pending(unlocks) = Pending(data.unlocks) + y - x
       /\ IsFiniteSet(DOMAIN unlocks) /\ unlocks \in [DOMAIN unlocks -> Nat \ {0}]
       /\ \A w \in DOMAIN unlocks : w.amount \in Nat
  <2>1. Pending(data.unlocks) \in Nat
    BY <1>8, PendingOK
  <2>2. CASE x > 0
    BY <1>8, <2>1, <2>2 DEF StakerOK
  <2>3. CASE ~(x > 0)
    <3>1. unlocks = Put(data.unlocks, pending, Copies(pending, data.unlocks) + 1)
      BY <2>3
    <3>2. pending.amount = 0 - x /\ pending.amount \in Nat /\ y = 0
      BY <2>3
    <3> HIDE DEF unlocks, pending, data, y
    <3>3. /\ Pending(unlocks) = Pending(data.unlocks) + pending.amount
          /\ IsFiniteSet(DOMAIN unlocks) /\ unlocks \in [DOMAIN unlocks -> Nat \ {0}]
          /\ \A w \in DOMAIN unlocks : w.amount \in Nat
      BY <1>8, <3>1, <3>2, PendingAdded
    <3> QED
      BY <2>1, <3>2, <3>3
  <2> QED
    BY <2>2, <2>3
<1> HIDE DEF account, unlocks, staked, t, t1, changed, rewards, locked, before, has, pending, y
<1>19. OneStake(s, t, a, b)
  BY <1>12, <1>13, <1>14 DEF OneStake
<1>20. /\ DOMAIN t.validators = DOMAIN s.validators /\ t.validators[b] = changed
       /\ \A d \in DOMAIN s.validators \ {b} : t.validators[d] = s.validators[d]
  BY <1>4, <1>6
<1>21. StakeOf(t, a, b) = before + x /\ Due(t, a, b) = 0
  <2>1. CASE b \in DOMAIN staked
    <3>1. staked[b].amount = before + x /\ staked[b].coefficient = v.coefficient
      BY <1>14, <2>1
    <3>2. t.validators[b].coefficient = v.coefficient
      BY <1>7, <1>20
    <3>3. (v.coefficient - v.coefficient) * (before + x) = 0
      BY <1>9, <1>11
    <3> HIDE DEF v
    <3> QED
      BY <1>12, <1>13, <2>1, <3>1, <3>2, <3>3 DEF StakeOf, Due
  <2>2. CASE b \notin DOMAIN staked
    BY <1>12, <1>13, <1>14, <2>2 DEF StakeOf, Due
  <2> QED
    BY <2>1, <2>2
<1>22. \A d \in DOMAIN s.validators : t.validators[d].coefficient = s.validators[d].coefficient
  BY <1>7, <1>20
<1>23. StakerOK(account, t.validators)
  <2>1. DOMAIN staked \subseteq DOMAIN t.validators
    BY <1>4, <1>8, <1>14, <1>20 DEF StakerOK
  <2>2. ASSUME NEW d \in DOMAIN staked
        PROVE  /\ DOMAIN staked[d] = {"amount", "coefficient"}
               /\ staked[d].amount \in Nat /\ staked[d].coefficient \in Nat
               /\ staked[d].coefficient <= t.validators[d].coefficient
    <3>1. CASE d = b
      <4>1. /\ staked[d].amount = before + x /\ staked[d].coefficient = v.coefficient
            /\ DOMAIN staked[d] = {"amount", "coefficient"}
        BY <1>14, <2>2, <3>1
      <4> HIDE DEF v
      <4> QED
        BY <1>7, <1>9, <1>11, <1>20, <3>1, <4>1
    <3>2. CASE d # b
      <4>1. d \in DOMAIN data.stakes /\ staked[d] = data.stakes[d] /\ d \in DOMAIN s.validators
        BY <1>8, <1>14, <2>2, <3>2 DEF StakerOK, StakesSound
      <4> QED
        BY <1>8, <1>22, <4>1 DEF StakerOK
    <3> QED
      BY <3>1, <3>2
  <2> QED
    BY <1>12, <1>18, <2>1, <2>2 DEF StakerOK
<1>24. Unlocking(t, a) = Unlocking(s, a) + y + StakeOf(s, a, b) - StakeOf(t, a, b)
  <2>1. Unlocking(t, a) = Pending(unlocks) /\ Unlocking(s, a) = Pending(data.unlocks)
    BY <1>12, <1>13 DEF Unlocking, Pending
  <2>2. Pending(data.unlocks) \in Nat
    BY <1>8, PendingOK
  <2> HIDE DEF data
  <2> QED
    BY <1>10, <1>15, <1>18, <1>21, <2>1, <2>2
<1>25. ASSUME NEW c \in Address
       PROVE  /\ LockedOf(t.ledger, c, "pos") =
                     LockedOf(s.ledger, c, "pos") + (IF c = a THEN y ELSE 0) - (IF c = b THEN r ELSE 0)
              /\ LockedOf(t.ledger, c, "fee") = LockedOf(s.ledger, c, "fee")
  <2>1. LockedOf(s.ledger, c, "pos") \in Nat /\ LockedOf(s.ledger, c, "fee") \in Nat
    BY <1>8, LockModulesOK, AccountOK
  <2>2. /\ LockedOf(locked, c, "pos") = IF c = a THEN LockedOf(s.ledger, c, "pos") + y ELSE LockedOf(s.ledger, c, "pos")
        /\ LockedOf(locked, c, "fee") = LockedOf(s.ledger, c, "fee")
    BY <1>16, LockModulesOK DEF LocksBut
  <2>3. /\ LockedOf(t.ledger, c, "pos") = IF c = b THEN LockedOf(locked, c, "pos") + (0 - r) ELSE LockedOf(locked, c, "pos")
        /\ LockedOf(t.ledger, c, "fee") = LockedOf(locked, c, "fee")
    BY <1>6, <1>17, LockModulesOK DEF LocksBut
  <2> QED
    BY <1>15, <1>17, <2>1, <2>2, <2>3
<1>26. /\ t.validators[b].total = s.validators[b].total - StakeOf(s, a, b) + StakeOf(t, a, b)
       /\ t.validators[b].self = IF a = b THEN StakeOf(t, a, b) ELSE s.validators[b].self
  BY <1>7, <1>9, <1>10, <1>20, <1>21
<1>27. Books(t)
  <2>1. StakerOK(getOrDefault(t, a), t.validators)
    BY <1>13, <1>23
  <2>2. t.validators[b].coefficient = s.validators[b].coefficient
    BY <1>7, <1>20
  <2>3. t.validators[b].commission = s.validators[b].commission
    BY <1>7, <1>20
  <2>4. Exact(t.ledger) /\ y \in Int
    BY <1>6, <1>15, <1>17
  <2> HIDE DEF v, data
  <2> QED
    BY <1>4, <1>5, <1>13, <1>17, <1>19, <1>20, <1>21, <1>24, <1>25, <1>26, <2>1, <2>2, <2>3, <2>4, StakeStep
<1> QED
  BY <1>25, <1>27 DEF SameFees

\* The claim of the rewards of a from b.
LEMMA ClaimFromBooks ==
    ASSUME NEW s, NEW h, AppOK(s, h), NEW a \in DOMAIN s.stakers, NEW b \in DOMAIN s.stakers[a].stakes,
           claimFrom(s, a, b).ok
    PROVE  KeepsBooks(s, claimFrom(s, a, b).s)
<1> DEFINE got == assignStakeRewards(s.ledger, a, b, s.stakers[a].stakes[b], s.validators[b])
           c   == s.validators[b].coefficient
           t   == [s EXCEPT !.ledger = got.l, !.stakers[a].stakes[b].coefficient = c]
           old == s.stakers[a].stakes
<1>1. claimFrom(s, a, b) = IF got.ok THEN Done(t) ELSE Throw(s)
  BY DEF claimFrom
<1> HIDE DEF got, c
<1>2. got.ok /\ claimFrom(s, a, b).s = t
  <2> HIDE DEF t
  <2> QED
    BY <1>1 DEF Done, Throw
<1>3. SUFFICES ASSUME Books(s) PROVE Books(t) /\ SameFees(s, t)
  <2> HIDE DEF t
  <2> QED
    BY <1>2 DEF KeepsBooks
<1>4. /\ t.ledger = got.l /\ t.validators = s.validators
      /\ t.stakers = [s.stakers EXCEPT ![a].stakes[b].coefficient = c]
  BY DEF AppOK, AppFields
<1> HIDE DEF t
<1>5. StakesSound(s) /\ Exact(s.ledger) /\ LedgerOK(s.ledger) /\ a \in Address
  BY <1>3 DEF Books, StakesSound, Exact
<1>6. getOrDefault(s, a) = s.stakers[a]
  BY DEF getOrDefault
<1>7. StakerOK(s.stakers[a], s.validators)
  BY <1>5, <1>6 DEF StakesSound
<1>8. b \in DOMAIN s.validators /\ b \in Address
  BY <1>5, <1>7 DEF StakerOK, StakesSound
<1>9. PICK r \in Nat : /\ r * Q <= Due(s, a, b) /\ Exact(got.l)
                       /\ LocksBut(s.ledger, got.l, b, "pos", 0 - r)
  BY <1>2, <1>5, <1>6, <1>8, AssignOK DEF got
<1>10. /\ DOMAIN t.stakers = DOMAIN s.stakers
       /\ \A d \in DOMAIN s.stakers : d # a => t.stakers[d] = s.stakers[d]
       /\ t.stakers[a] = [s.stakers[a] EXCEPT !.stakes[b].coefficient = c]
  BY <1>4
<1>11. DOMAIN s.stakers[a] = {"stakes", "unlocks"}
  BY DEF AppOK, StakersOK
<1>12. /\ t.stakers[a].unlocks = s.stakers[a].unlocks
       /\ t.stakers[a].stakes = [old EXCEPT ![b].coefficient = c]
  BY <1>10, <1>11
<1> DEFINE new == t.stakers[a].stakes
<1>13. /\ DOMAIN new = DOMAIN old /\ new[b] = [old[b] EXCEPT !.coefficient = c]
       /\ \A d \in DOMAIN old \ {b} : new[d] = old[d]
  BY <1>12
<1>14. /\ DOMAIN old[b] = {"amount", "coefficient"} /\ old[b].amount \in Nat
       /\ old[b].coefficient \in Nat /\ c \in Nat
  BY <1>5, <1>7, <1>8 DEF StakerOK, StakesSound, c
<1>15. /\ new[b].amount = old[b].amount /\ new[b].coefficient = c
       /\ DOMAIN new[b] = {"amount", "coefficient"}
  <2> HIDE DEF new, old
  <2> QED
    BY <1>13, <1>14
<1>16. /\ \A e \in Address \ {a} : getOrDefault(t, e) = getOrDefault(s, e)
       /\ getOrDefault(t, a) = t.stakers[a]
  BY <1>10 DEF getOrDefault
<1> HIDE DEF new, old
<1>17. OneStake(s, t, a, b)
  BY <1>6, <1>13, <1>16 DEF OneStake, new, old
<1>18. StakeOf(s, a, b) = old[b].amount /\ StakeOf(t, a, b) = old[b].amount
  BY <1>6, <1>13, <1>15, <1>16 DEF StakeOf, new, old
<1>19. Due(t, a, b) = 0
  <2>1. t.validators[b].coefficient = c
    BY <1>4 DEF c
  <2>2. (c - c) * new[b].amount = 0
    BY <1>14, <1>15, SMTT(60)
  <2> QED
    BY <1>13, <1>15, <1>16, <2>1, <2>2, SMTT(60) DEF Due, new
<1>20. StakerOK(t.stakers[a], t.validators)
  <2>1. /\ DOMAIN old \subseteq DOMAIN s.validators
        /\ IsFiniteSet(DOMAIN s.stakers[a].unlocks)
        /\ s.stakers[a].unlocks \in [DOMAIN s.stakers[a].unlocks -> Nat \ {0}]
        /\ \A u \in DOMAIN s.stakers[a].unlocks : u.amount \in Nat
    BY <1>7 DEF StakerOK, old
  <2>2. \A d \in DOMAIN old : /\ DOMAIN old[d] = {"amount", "coefficient"}
                              /\ old[d].amount \in Nat /\ old[d].coefficient \in Nat
                              /\ old[d].coefficient <= s.validators[d].coefficient
    BY <1>7 DEF StakerOK, old
  <2>3. ASSUME NEW d \in DOMAIN new
        PROVE  /\ DOMAIN new[d] = {"amount", "coefficient"}
               /\ new[d].amount \in Nat /\ new[d].coefficient \in Nat
               /\ new[d].coefficient <= t.validators[d].coefficient
    <3>1. CASE d = b
      <4>1. t.validators[b].coefficient = c
        BY <1>4 DEF c
      <4> QED
        BY <1>14, <1>15, <3>1, <4>1
    <3>2. CASE d # b
      BY <1>4, <1>13, <2>2, <3>2
    <3> QED
      BY <3>1, <3>2
  <2> QED
    BY <1>4, <1>12, <1>13, <2>1, <2>3 DEF StakerOK, new
<1>21. ASSUME NEW e \in Address
       PROVE  /\ LockedOf(t.ledger, e, "pos") =
                     LockedOf(s.ledger, e, "pos") + (IF e = a THEN 0 ELSE 0) - (IF e = b THEN r ELSE 0)
              /\ LockedOf(t.ledger, e, "fee") = LockedOf(s.ledger, e, "fee")
  <2>1. LockedOf(s.ledger, e, "pos") \in Nat
    BY <1>5, LockModulesOK, AccountOK
  <2>2. /\ LockedOf(t.ledger, e, "pos") = IF e = b THEN LockedOf(s.ledger, e, "pos") + (0 - r) ELSE LockedOf(s.ledger, e, "pos")
        /\ LockedOf(t.ledger, e, "fee") = LockedOf(s.ledger, e, "fee")
    BY <1>4, <1>9, LockModulesOK DEF LocksBut
  <2> QED
    BY <1>9, <2>1, <2>2
<1>22. Unlocking(t, a) = Unlocking(s, a) + 0 + StakeOf(s, a, b) - StakeOf(t, a, b)
  <2>1. Unlocking(t, a) = Unlocking(s, a)
    BY <1>6, <1>12, <1>16 DEF Unlocking
  <2>2. Unlocking(s, a) \in Nat
    BY <1>5, SumsOK
  <2> QED
    BY <1>14, <1>18, <2>1, <2>2
<1>23. /\ t.validators[b].total = s.validators[b].total - StakeOf(s, a, b) + StakeOf(t, a, b)
       /\ t.validators[b].self = IF a = b THEN StakeOf(t, a, b) ELSE s.validators[b].self
  <2>1. s.validators[b].total = Received(s, b) /\ s.validators[b].self = StakeOf(s, b, b)
    BY <1>5, <1>8 DEF StakesSound
  <2>2. Received(s, b) \in Nat
    BY <1>5, <1>8, SumsOK
  <2> QED
    BY <1>4, <1>14, <1>18, <2>1, <2>2
<1>24. Books(t)
  <2>1. StakerOK(getOrDefault(t, a), t.validators) /\ DOMAIN t.stakers \subseteq Address
    BY <1>5, <1>10, <1>16, <1>20 DEF StakesSound
  <2>2. /\ DOMAIN t.validators = DOMAIN s.validators
        /\ t.validators[b].coefficient = s.validators[b].coefficient
        /\ t.validators[b].commission = s.validators[b].commission
        /\ \A d \in DOMAIN s.validators \ {b} : t.validators[d] = s.validators[d]
    BY <1>4
  <2>3. Exact(t.ledger) /\ 0 \in Int
    BY <1>4, <1>9
  <2> QED
    BY <1>3, <1>5, <1>8, <1>9, <1>17, <1>19, <1>21, <1>22, <1>23, <2>1, <2>2, <2>3, StakeStep
<1> QED
  BY <1>21, <1>24 DEF SameFees

\* A report of misbehaviour of b: the reward is from the stake of b on itself.
LEMMA ReportBooks ==
    ASSUME NEW s, NEW h, AppOK(s, h), NEW a \in Address, NEW b \in DOMAIN s.validators,
           reportMisbehavior(s, a, b).ok
    PROVE  KeepsBooks(s, reportMisbehavior(s, a, b).s)
<1> DEFINE v       == s.validators[b]
           reports == Append(v.reports, block.height)
           reward  == Min({ReportReward, v.self})
           l1      == unlock(s.ledger, b, "pos", KLY, reward)
           ledger  == transfer(l1, b, a, KLY, reward)
           changed == [v EXCEPT !.reports = reports, !.banned = @ \/ Len(reports) = ReportLimit,
                                !.self = @ - reward, !.total = @ - reward]
           t1      == [s EXCEPT !.ledger = ledger, !.stakers[b].stakes[b].amount = @ - reward]
           t       == withValidator(t1, b, changed)
           ok      == /\ unlockable(s.ledger, b, "pos", KLY, reward)
                      /\ b \in DOMAIN s.stakers /\ b \in DOMAIN s.stakers[b].stakes
           old     == s.stakers[b].stakes
<1>1. reportMisbehavior(s, a, b) = IF ok THEN Done(t) ELSE Throw(s)
  BY DEF reportMisbehavior
<1>2. ok /\ reportMisbehavior(s, a, b).s = t
  <2> HIDE DEF t, ok
  <2> QED
    BY <1>1 DEF Done, Throw
<1>3. SUFFICES ASSUME Books(s) PROVE Books(t) /\ SameFees(s, t)
  <2> HIDE DEF t
  <2> QED
    BY <1>2 DEF KeepsBooks
<1>4. unlockable(s.ledger, b, "pos", KLY, reward) /\ b \in DOMAIN s.stakers /\ b \in DOMAIN old
  BY <1>2
<1> HIDE DEF ok
<1>5. StakesSound(s) /\ Exact(s.ledger) /\ LedgerOK(s.ledger) /\ b \in Address
  BY <1>3 DEF Books, StakesSound, Exact
<1>6. getOrDefault(s, b) = s.stakers[b]
  BY <1>4 DEF getOrDefault
<1>7. StakerOK(s.stakers[b], s.validators)
  BY <1>5, <1>6 DEF StakesSound
<1>8. /\ DOMAIN old[b] = {"amount", "coefficient"} /\ old[b].amount \in Nat /\ old[b].coefficient \in Nat
      /\ old[b].coefficient <= v.coefficient
  BY <1>4, <1>7 DEF StakerOK
<1>9. v.self = old[b].amount /\ v.total \in Nat /\ StakeOf(s, b, b) = old[b].amount
  <2>1. StakeOf(s, b, b) = old[b].amount
    BY <1>4, <1>6 DEF StakeOf
  <2>2. v.self = StakeOf(s, b, b) /\ v.total = Received(s, b)
    BY <1>5 DEF StakesSound
  <2>3. Received(s, b) \in Nat
    BY <1>5, SumsOK
  <2> QED
    BY <2>1, <2>2, <2>3
<1>10. reward \in Nat /\ reward <= old[b].amount
  <2>1. ReportReward \in Nat /\ v.self \in Nat
    BY <1>8, <1>9, PoSAssumption
  <2>2. reward = IF ReportReward <= v.self THEN ReportReward ELSE v.self
    BY <2>1, MinOfTwo
  <2> HIDE DEF v, reward, old
  <2> QED
    BY <1>9, <2>1, <2>2
<1> HIDE DEF reward
<1>11. Exact(ledger) /\ LocksBut(s.ledger, ledger, b, "pos", 0 - reward)
  <2>1. LockedOf(s.ledger, b, "pos") >= reward
    <3>1. /\ LockedOf(s.ledger, b, "pos") \in Nat
          /\ getLockedAmount(s.ledger, b, "pos", KLY) = LockedOf(s.ledger, b, "pos")
      BY <1>5, LockModulesOK, AccountOK
    <3> QED
      BY <1>4, <1>10, <3>1 DEF unlockable
  <2>2. Exact(l1) /\ LocksBut(s.ledger, l1, b, "pos", 0 - reward) /\ Balance(l1, b) >= reward
    BY <1>5, <1>10, <2>1, LockModulesOK, UnlockedOK
  <2> HIDE DEF l1
  <2>3. Exact(ledger) /\ SameLocks(l1, ledger)
    BY <1>5, <1>10, <2>2, TransferOK
  <2> HIDE DEF ledger
  <2> QED
    BY <2>2, <2>3 DEF LocksBut, SameLocks
<1>12. /\ t.ledger = ledger /\ t.stakers = [s.stakers EXCEPT ![b].stakes[b].amount = @ - reward]
       /\ t.validators = [s.validators EXCEPT ![b] = changed]
  <2> HIDE DEF ledger, changed
  <2> QED
    BY DEF AppOK, AppFields, withValidator
<1>13. /\ changed.coefficient = v.coefficient /\ changed.commission = v.commission
       /\ changed.total = v.total - reward /\ changed.self = v.self - reward
  <2> HIDE DEF reports
  <2> QED
    BY DEF AppOK, ValidatorsOK, ValidatorOK, ValidatorFields
<1> HIDE DEF t, t1, ledger, changed
<1>14. /\ DOMAIN t.stakers = DOMAIN s.stakers
       /\ \A d \in DOMAIN s.stakers : d # b => t.stakers[d] = s.stakers[d]
       /\ t.stakers[b] = [s.stakers[b] EXCEPT !.stakes[b].amount = @ - reward]
  BY <1>4, <1>12
<1>15. DOMAIN s.stakers[b] = {"stakes", "unlocks"}
  BY <1>4 DEF AppOK, StakersOK
<1>16. /\ t.stakers[b].unlocks = s.stakers[b].unlocks
       /\ t.stakers[b].stakes = [old EXCEPT ![b].amount = @ - reward]
  BY <1>14, <1>15
<1> DEFINE new == t.stakers[b].stakes
<1>17. /\ DOMAIN new = DOMAIN old /\ new[b] = [old[b] EXCEPT !.amount = @ - reward]
       /\ \A d \in DOMAIN old \ {b} : new[d] = old[d]
  BY <1>4, <1>16
<1>18. /\ new[b].amount = old[b].amount - reward /\ new[b].coefficient = old[b].coefficient
       /\ DOMAIN new[b] = {"amount", "coefficient"} /\ new[b].amount \in Nat
  <2> HIDE DEF new, old
  <2> QED
    BY <1>8, <1>10, <1>17
<1>19. /\ \A e \in Address \ {b} : getOrDefault(t, e) = getOrDefault(s, e)
       /\ getOrDefault(t, b) = t.stakers[b]
  BY <1>4, <1>14 DEF getOrDefault
<1> HIDE DEF new, old
<1>20. OneStake(s, t, b, b)
  BY <1>6, <1>17, <1>19 DEF OneStake, new, old
<1>21. StakeOf(t, b, b) = old[b].amount - reward
  BY <1>4, <1>17, <1>18, <1>19 DEF StakeOf, new
<1>22. Due(t, b, b) = 0 /\ Due(s, b, b) = 0
  BY DEF Due
<1>23. /\ DOMAIN t.validators = DOMAIN s.validators /\ t.validators[b] = changed
       /\ \A d \in DOMAIN s.validators \ {b} : t.validators[d] = s.validators[d]
  BY <1>12
<1>24. StakerOK(t.stakers[b], t.validators)
  <2>1. /\ DOMAIN old \subseteq DOMAIN s.validators
        /\ IsFiniteSet(DOMAIN s.stakers[b].unlocks)
        /\ s.stakers[b].unlocks \in [DOMAIN s.stakers[b].unlocks -> Nat \ {0}]
        /\ \A u \in DOMAIN s.stakers[b].unlocks : u.amount \in Nat
    BY <1>7 DEF StakerOK, old
  <2>2. \A d \in DOMAIN old : /\ DOMAIN old[d] = {"amount", "coefficient"}
                              /\ old[d].amount \in Nat /\ old[d].coefficient \in Nat
                              /\ old[d].coefficient <= s.validators[d].coefficient
    BY <1>7 DEF StakerOK, old
  <2>3. ASSUME NEW d \in DOMAIN new
        PROVE  /\ DOMAIN new[d] = {"amount", "coefficient"}
               /\ new[d].amount \in Nat /\ new[d].coefficient \in Nat
               /\ new[d].coefficient <= t.validators[d].coefficient
    <3>1. CASE d = b
      <4>1. t.validators[b].coefficient = v.coefficient
        BY <1>13, <1>23
      <4> HIDE DEF v
      <4> QED
        BY <1>8, <1>18, <3>1, <4>1
    <3>2. CASE d # b
      BY <1>17, <1>23, <2>1, <2>2, <3>2
    <3> QED
      BY <3>1, <3>2
  <2> QED
    BY <1>16, <1>17, <1>23, <2>1, <2>3 DEF StakerOK, new
<1>25. ASSUME NEW e \in Address
       PROVE  /\ LockedOf(t.ledger, e, "pos") = LockedOf(s.ledger, e, "pos")
                     + (IF e = b THEN 0 - reward ELSE 0) - (IF e = b THEN 0 ELSE 0)
              /\ LockedOf(t.ledger, e, "fee") = LockedOf(s.ledger, e, "fee")
  <2>1. LockedOf(s.ledger, e, "pos") \in Nat
    BY <1>5, LockModulesOK, AccountOK
  <2>2. /\ LockedOf(t.ledger, e, "pos") = IF e = b THEN LockedOf(s.ledger, e, "pos") + (0 - reward)
                                                   ELSE LockedOf(s.ledger, e, "pos")
        /\ LockedOf(t.ledger, e, "fee") = LockedOf(s.ledger, e, "fee")
    BY <1>11, <1>12, LockModulesOK DEF LocksBut
  <2> QED
    BY <1>10, <2>1, <2>2
<1>26. Unlocking(t, b) = Unlocking(s, b) + (0 - reward) + StakeOf(s, b, b) - StakeOf(t, b, b)
  <2>1. Unlocking(t, b) = Unlocking(s, b)
    BY <1>6, <1>16, <1>19 DEF Unlocking
  <2>2. Unlocking(s, b) \in Nat
    BY <1>5, SumsOK
  <2> QED
    BY <1>8, <1>9, <1>10, <1>21, <2>1, <2>2
<1>27. Books(t)
  <2>1. StakerOK(getOrDefault(t, b), t.validators) /\ DOMAIN t.stakers \subseteq Address
    BY <1>5, <1>14, <1>19, <1>24 DEF StakesSound
  <2>2. /\ t.validators[b].coefficient = s.validators[b].coefficient
        /\ t.validators[b].commission = s.validators[b].commission
    BY <1>13, <1>23
  <2>3. /\ t.validators[b].total = s.validators[b].total - StakeOf(s, b, b) + StakeOf(t, b, b)
        /\ t.validators[b].self = StakeOf(t, b, b)
    BY <1>8, <1>9, <1>10, <1>13, <1>21, <1>23
  <2>4. Exact(t.ledger) /\ 0 - reward \in Int /\ 0 \in Nat /\ 0 * Q <= Due(s, b, b)
    <3>1. 0 * Q = 0
      BY PoSAssumption
    <3> QED
      BY <1>10, <1>11, <1>12, <1>22, <3>1
  <2> HIDE DEF v
  <2> QED
    BY <1>3, <1>5, <1>20, <1>22, <1>23, <1>25, <1>26, <2>1, <2>2, <2>3, <2>4, StakeStep
<1> QED
  BY <1>25, <1>27 DEF SameFees

\* The sum of nothing but zeros.
LEMMA SumOfZeros ==
    ASSUME NEW f, IsFiniteSet(DOMAIN f), \A x \in DOMAIN f : f[x] = 0
    PROVE  SumFunction(f) = 0
<1>1. SumFunction(f) \in Int
  BY SumTyped
<1>2. \A x \in DOMAIN f : f[x] \in Int /\ f[x] = f[x] + 1 * f[x]
  OBVIOUS
<1> DEFINE n == SumFunction(f)
<1>3. n = n + 1 * n
  <2>1. 1 \in Int
    OBVIOUS
  <2> QED
    BY <1>2, <2>1, SumLinear
<1> HIDE DEF n
<1>4. n \in Int
  BY <1>1 DEF n
<1>5. n = 0
  BY <1>3, <1>4
<1> QED
  BY <1>5 DEF n

\* Every stake stays as it is: what is locked follows what is pending, and new
\* validators have no stakes.
LEMMA SameStakesOK ==
    ASSUME NEW s, NEW t, Books(s), Exact(t.ledger),
           DOMAIN t.stakers \subseteq Address, DOMAIN t.validators \subseteq Address,
           DOMAIN s.validators \subseteq DOMAIN t.validators,
           \A a \in Address : /\ getOrDefault(t, a).stakes = getOrDefault(s, a).stakes
                              /\ StakerOK(getOrDefault(t, a), t.validators)
                              /\ LockedOf(t.ledger, a, "pos") =
                                     LockedOf(s.ledger, a, "pos") + Unlocking(t, a) - Unlocking(s, a),
           \A b \in DOMAIN t.validators : t.validators[b].commission \in 0 .. MaxCommission,
           \A b \in DOMAIN s.validators :
               /\ t.validators[b].coefficient = s.validators[b].coefficient
               /\ t.validators[b].total = s.validators[b].total
               /\ t.validators[b].self = s.validators[b].self,
           \A b \in DOMAIN t.validators \ DOMAIN s.validators :
               /\ t.validators[b].coefficient = 0
               /\ t.validators[b].total = 0 /\ t.validators[b].self = 0
    PROVE  Books(t)
<1>1. StakesSound(s) /\ Covered(s) /\ LedgerOK(s.ledger)
  BY DEF Books, Exact
<1>2. \A a \in Address : \A b \in DOMAIN getOrDefault(s, a).stakes : b \in DOMAIN s.validators
  BY <1>1 DEF StakesSound, StakerOK
<1>3. \A a, b \in Address : StakeOf(t, a, b) = StakeOf(s, a, b) /\ Due(t, a, b) = Due(s, a, b)
  BY <1>2 DEF StakeOf, Due
<1>4. \A a \in Address : /\ Staked(t, a) = Staked(s, a) /\ Received(t, a) = Received(s, a)
                         /\ Owed(t, a) = Owed(s, a)
  <2> TAKE a \in Address
  <2>1. [b \in Address |-> StakeOf(t, a, b)] = [b \in Address |-> StakeOf(s, a, b)]
    BY <1>3
  <2>2. [b \in Address |-> StakeOf(t, b, a)] = [b \in Address |-> StakeOf(s, b, a)]
    BY <1>3
  <2>3. [b \in Address |-> Due(t, b, a)] = [b \in Address |-> Due(s, b, a)]
    BY <1>3
  <2> QED
    BY <2>1, <2>2, <2>3 DEF Staked, Received, Owed
<1>5. ASSUME NEW b \in DOMAIN t.validators
      PROVE  /\ t.validators[b].coefficient \in Nat
             /\ t.validators[b].total = Received(t, b) /\ t.validators[b].self = StakeOf(t, b, b)
  <2>0. b \in Address
    OBVIOUS
  <2>1. CASE b \in DOMAIN s.validators
    BY <1>1, <1>3, <1>4, <2>0, <2>1 DEF StakesSound
  <2>2. CASE b \notin DOMAIN s.validators
    <3>1. \A a \in Address : StakeOf(t, a, b) = 0
      BY <1>2, <2>2 DEF StakeOf
    <3> DEFINE f == [a \in Address |-> StakeOf(t, a, b)]
    <3>2. DOMAIN f = Address /\ \A a \in Address : f[a] = 0
      BY <3>1
    <3>3. Received(t, b) = SumFunction(f)
      BY DEF Received
    <3> HIDE DEF f
    <3>4. SumFunction(f) = 0
      BY <3>2, AddressFinite, SumOfZeros
    <3>5. /\ t.validators[b].coefficient = 0 /\ t.validators[b].total = 0
          /\ t.validators[b].self = 0
      BY <2>2
    <3> QED
      BY <2>0, <3>1, <3>3, <3>4, <3>5
  <2> QED
    BY <2>1, <2>2
<1>6. StakesSound(t)
  BY <1>5 DEF StakesSound
<1>7. Q \in Nat \ {0}
  BY PoSAssumption
<1>8. ASSUME NEW a \in Address
      PROVE  LockedOf(t.ledger, a, "pos") * Q >= (Staked(t, a) + Unlocking(t, a)) * Q + Owed(t, a)
  <2> DEFINE L == LockedOf(s.ledger, a, "pos")
             P == Staked(s, a)
             U == Unlocking(s, a)
             V == Unlocking(t, a)
             O == Owed(s, a)
  <2>1. L \in Nat /\ P \in Nat /\ U \in Nat /\ V \in Nat /\ O \in Nat
    <3>1. L \in Nat
      BY <1>1, LockModulesOK, AccountOK
    <3> QED
      BY <1>1, <1>6, <3>1, SumsOK
  <2>2. L * Q >= (P + U) * Q + O
    BY <1>1 DEF Covered
  <2>3. LockedOf(t.ledger, a, "pos") = L + V - U /\ Staked(t, a) = P /\ Owed(t, a) = O
    BY <1>4
  <2> HIDE DEF L, P, U, V, O
  <2>4. /\ (L + V - U) * Q = L * Q + V * Q - U * Q /\ (P + U) * Q = P * Q + U * Q
        /\ (P + V) * Q = P * Q + V * Q
        /\ L * Q \in Int /\ V * Q \in Int /\ U * Q \in Int /\ P * Q \in Int
    BY <1>7, <2>1
  <2>5. (L + V - U) * Q >= (P + V) * Q + O
    BY <2>1, <2>2, <2>4
  <2> QED
    BY <2>3, <2>5 DEF V
<1>9. Covered(t)
  BY <1>8 DEF Covered
<1> QED
  BY <1>6, <1>9 DEF Books

\* The stakers stay as they are.
LEMMA SameStakersOK ==
    ASSUME NEW s, NEW t, Books(s), Exact(t.ledger), t.stakers = s.stakers,
           DOMAIN t.validators \subseteq Address,
           DOMAIN s.validators \subseteq DOMAIN t.validators,
           \A a \in Address : LockedOf(t.ledger, a, "pos") = LockedOf(s.ledger, a, "pos"),
           \A b \in DOMAIN t.validators : t.validators[b].commission \in 0 .. MaxCommission,
           \A b \in DOMAIN s.validators :
               /\ t.validators[b].coefficient = s.validators[b].coefficient
               /\ t.validators[b].total = s.validators[b].total
               /\ t.validators[b].self = s.validators[b].self,
           \A b \in DOMAIN t.validators \ DOMAIN s.validators :
               /\ t.validators[b].coefficient = 0
               /\ t.validators[b].total = 0 /\ t.validators[b].self = 0
    PROVE  Books(t)
<1>1. StakesSound(s) /\ LedgerOK(s.ledger) /\ DOMAIN t.stakers \subseteq Address
  BY DEF Books, StakesSound, Exact
<1>2. \A a \in Address : getOrDefault(t, a) = getOrDefault(s, a)
  BY DEF getOrDefault
<1>3. \A a \in Address : StakerOK(getOrDefault(t, a), t.validators)
  <2> TAKE a \in Address
  <2>1. StakerOK(getOrDefault(s, a), s.validators)
    BY <1>1 DEF StakesSound
  <2> QED
    BY <1>2, <2>1 DEF StakerOK
<1>4. \A a \in Address : LockedOf(t.ledger, a, "pos") =
          LockedOf(s.ledger, a, "pos") + Unlocking(t, a) - Unlocking(s, a)
  <2> TAKE a \in Address
  <2>1. Unlocking(t, a) = Unlocking(s, a)
    BY <1>2 DEF Unlocking
  <2>2. Unlocking(s, a) \in Nat /\ LockedOf(s.ledger, a, "pos") \in Nat
    BY <1>1, SumsOK, LockModulesOK, AccountOK
  <2> QED
    BY <2>1, <2>2
<1> QED
  BY <1>1, <1>2, <1>3, <1>4, SameStakesOK

\* An unlock gives back what the pending unlocks that end are worth.
LEMMA UnlockBooks ==
    ASSUME NEW s, NEW h, AppOK(s, h), NEW a \in Address, NEW certified,
           unlockStakes(s, a, certified).ok
    PROVE  KeepsBooks(s, unlockStakes(s, a, certified).s)
<1> DEFINE unlocks == s.stakers[a].unlocks
           free    == Unlockable(s, a, certified)
           amount  == SumFunction([u \in free |-> u.amount * unlocks[u]])
           fails   == a \notin DOMAIN s.stakers \/ free = {} \/ ~unlockable(s.ledger, a, "pos", KLY, amount)
           t       == [s EXCEPT !.ledger = unlock(@, a, "pos", KLY, amount),
                                !.stakers[a].unlocks = Restrict(@, DOMAIN @ \ free)]
           left    == Restrict(unlocks, DOMAIN unlocks \ free)
<1>1. unlockStakes(s, a, certified) = IF fails THEN Throw(s) ELSE Done(t)
  BY DEF unlockStakes
<1>2. ~fails /\ unlockStakes(s, a, certified).s = t
  <2> HIDE DEF t, fails
  <2> QED
    BY <1>1 DEF Throw, Done
<1>3. SUFFICES ASSUME Books(s) PROVE Books(t) /\ SameFees(s, t)
  <2> HIDE DEF t
  <2> QED
    BY <1>2 DEF KeepsBooks
<1>4. a \in DOMAIN s.stakers /\ unlockable(s.ledger, a, "pos", KLY, amount)
  BY <1>2
<1>5. free \subseteq DOMAIN unlocks
  BY DEF Unlockable
<1> HIDE DEF fails, amount, free
<1>6. /\ t.validators = s.validators /\ t.ledger = unlock(s.ledger, a, "pos", KLY, amount)
      /\ t.stakers = [s.stakers EXCEPT ![a].unlocks = Restrict(@, DOMAIN @ \ free)]
  BY DEF AppOK, AppFields
<1> HIDE DEF t
<1>7. /\ DOMAIN t.stakers = DOMAIN s.stakers
      /\ \A d \in DOMAIN s.stakers : d # a => t.stakers[d] = s.stakers[d]
      /\ t.stakers[a] = [s.stakers[a] EXCEPT !.unlocks = left]
  BY <1>4, <1>6
<1>8. t.stakers[a].stakes = s.stakers[a].stakes /\ t.stakers[a].unlocks = left
  BY <1>4, <1>7 DEF AppOK, StakersOK
<1>9. /\ DOMAIN left = DOMAIN unlocks \ free /\ left = [u \in DOMAIN left |-> left[u]]
      /\ \A u \in DOMAIN left : left[u] = unlocks[u]
  BY DEF Restrict
<1> HIDE DEF left
<1>10. /\ \A c \in Address \ {a} : getOrDefault(t, c) = getOrDefault(s, c)
       /\ getOrDefault(t, a) = t.stakers[a] /\ getOrDefault(s, a) = s.stakers[a]
  BY <1>4, <1>7 DEF getOrDefault
<1>11. /\ StakesSound(s) /\ Exact(s.ledger) /\ LedgerOK(s.ledger)
       /\ \A c \in Address : StakerOK(getOrDefault(s, c), s.validators)
  BY <1>3 DEF Books, StakesSound, Exact
<1>12. /\ IsFiniteSet(DOMAIN unlocks)
       /\ \A u \in DOMAIN unlocks : u.amount \in Nat /\ unlocks[u] \in Nat \ {0} /\ u.amount * unlocks[u] \in Nat
  BY <1>10, <1>11, PendingOK, SMTT(60)
<1>13. StakerOK(t.stakers[a], t.validators)
  <2>1. StakerOK(s.stakers[a], s.validators)
    BY <1>10, <1>11
  <2>2. IsFiniteSet(DOMAIN left)
    BY <1>9, <1>12, FS_Subset
  <2>3. left \in [DOMAIN left -> Nat \ {0}] /\ \A u \in DOMAIN left : u.amount \in Nat
    BY <1>9, <1>12
  <2> QED
    BY <1>6, <1>8, <2>1, <2>2, <2>3 DEF StakerOK
<1>14. amount \in Nat /\ Pending(unlocks) = amount + Pending(left) /\ Pending(left) \in Nat
  <2> DEFINE f == [u \in DOMAIN unlocks |-> u.amount * unlocks[u]]
             g == [u \in free |-> u.amount * unlocks[u]]
             k == [u \in DOMAIN left |-> u.amount * left[u]]
  <2>1. DOMAIN f = DOMAIN unlocks /\ \A u \in DOMAIN f : f[u] \in Int
    BY <1>12
  <2>2. Restrict(f, free) = g
    BY <1>5 DEF Restrict
  <2>3. Restrict(f, DOMAIN f \ free) = k
    BY <1>9 DEF Restrict
  <2>4. Pending(unlocks) = SumFunction(f) /\ amount = SumFunction(g) /\ Pending(left) = SumFunction(k)
    BY DEF Pending, amount
  <2>5. IsFiniteSet(free) /\ DOMAIN g = free /\ \A u \in free : g[u] \in Nat
    BY <1>5, <1>12, FS_Subset
  <2>6. free \in SUBSET DOMAIN f
    BY <1>5
  <2> HIDE DEF f, g, k
  <2>7. SumFunction(f) = SumFunction(g) + SumFunction(k)
    BY <1>12, <2>1, <2>2, <2>3, <2>6, SumSplit
  <2>8. SumFunction(g) \in Nat
    BY <2>5, SumOfNaturals
  <2>9. Pending(left) \in Nat
    BY <1>8, <1>13, PendingOK
  <2> QED
    BY <2>4, <2>7, <2>8, <2>9
<1>15. Exact(t.ledger) /\ LocksBut(s.ledger, t.ledger, a, "pos", 0 - amount)
  <2>1. LockedOf(s.ledger, a, "pos") >= amount
    <3>1. /\ LockedOf(s.ledger, a, "pos") \in Nat
          /\ getLockedAmount(s.ledger, a, "pos", KLY) = LockedOf(s.ledger, a, "pos")
      BY <1>11, LockModulesOK, AccountOK
    <3> QED
      BY <1>4, <1>14, <3>1 DEF unlockable
  <2> QED
    BY <1>6, <1>11, <1>14, <2>1, LockModulesOK, UnlockedOK
<1>16. ASSUME NEW c \in Address
       PROVE  /\ getOrDefault(t, c).stakes = getOrDefault(s, c).stakes
              /\ StakerOK(getOrDefault(t, c), t.validators)
              /\ LockedOf(t.ledger, c, "pos") =
                     LockedOf(s.ledger, c, "pos") + Unlocking(t, c) - Unlocking(s, c)
              /\ LockedOf(t.ledger, c, "fee") = LockedOf(s.ledger, c, "fee")
  <2>1. LockedOf(s.ledger, c, "pos") \in Nat /\ Unlocking(s, c) \in Nat
    BY <1>11, LockModulesOK, AccountOK, SumsOK
  <2>2. /\ LockedOf(t.ledger, c, "pos") = IF c = a THEN LockedOf(s.ledger, c, "pos") + (0 - amount)
                                                   ELSE LockedOf(s.ledger, c, "pos")
        /\ LockedOf(t.ledger, c, "fee") = LockedOf(s.ledger, c, "fee")
    BY <1>15, LockModulesOK DEF LocksBut
  <2>3. CASE c = a
    <3>1. Unlocking(s, c) = Pending(unlocks) /\ Unlocking(t, c) = Pending(left)
      BY <1>8, <1>10, <2>3 DEF Unlocking, Pending
    <3> HIDE DEF unlocks
    <3>2. getOrDefault(t, c).stakes = getOrDefault(s, c).stakes /\ StakerOK(getOrDefault(t, c), t.validators)
      BY <1>8, <1>10, <1>13, <2>3
    <3>3. LockedOf(t.ledger, c, "pos") = LockedOf(s.ledger, c, "pos") + Unlocking(t, c) - Unlocking(s, c)
      BY <1>14, <2>1, <2>2, <2>3, <3>1
    <3> QED
      BY <2>2, <3>2, <3>3
  <2>4. CASE c # a
    <3>1. getOrDefault(t, c) = getOrDefault(s, c) /\ Unlocking(t, c) = Unlocking(s, c)
      BY <1>10, <2>4 DEF Unlocking
    <3> QED
      BY <1>6, <1>11, <2>1, <2>2, <2>4, <3>1
  <2> QED
    BY <2>3, <2>4
<1>17. Books(t)
  <2>1. DOMAIN t.stakers \subseteq Address /\ DOMAIN t.validators \subseteq Address
        /\ \A b \in DOMAIN t.validators : t.validators[b].commission \in 0 .. MaxCommission
    BY <1>6, <1>7, <1>11 DEF StakesSound
  <2> QED
    BY <1>3, <1>6, <1>15, <1>16, <2>1, SameStakesOK
<1> QED
  BY <1>16, <1>17 DEF SameFees

\* Registration: a new validator has no stakes.
LEMMA RegisterBooks ==
    ASSUME NEW s, NEW h, AppOK(s, h), NEW a \in Address, NEW name, a \notin DOMAIN s.validators
    PROVE  KeepsBooks(s, registerValidator(s, a, name).s)
<1> DEFINE v == NewValidator(name, block.height)
           t == registerValidator(s, a, name).s
<1>1. t = [s EXCEPT !.validators = Put(@, a, v)]
  BY DEF registerValidator, Done
<1>2. t.stakers = s.stakers /\ t.ledger = s.ledger /\ t.validators = Put(s.validators, a, v)
  BY <1>1 DEF AppOK, AppFields
<1> HIDE DEF t
<1>3. /\ DOMAIN t.validators = DOMAIN s.validators \cup {a} /\ t.validators[a] = v
      /\ \A b \in DOMAIN s.validators : t.validators[b] = s.validators[b]
  BY <1>2 DEF Put
<1>4. v.commission = MaxCommission /\ v.coefficient = 0 /\ v.total = 0 /\ v.self = 0
  BY DEF NewValidator
<1> HIDE DEF v
<1>5. ASSUME Books(s) PROVE Books(t)
  <2>1. MaxCommission \in 0 .. MaxCommission
    BY PoSAssumption
  <2>2. /\ DOMAIN s.validators \subseteq Address /\ Exact(s.ledger)
        /\ \A b \in DOMAIN s.validators : s.validators[b].commission \in 0 .. MaxCommission
    BY <1>5 DEF Books, StakesSound
  <2>3. \A b \in DOMAIN t.validators : t.validators[b].commission \in 0 .. MaxCommission
    BY <1>3, <1>4, <2>1, <2>2
  <2> QED
    BY <1>2, <1>3, <1>4, <1>5, <2>2, <2>3, SameStakersOK
<1> QED
  BY <1>2, <1>5 DEF KeepsBooks, SameFees, t

\* A change of the commission.
LEMMA CommissionBooks ==
    ASSUME NEW s, NEW h, AppOK(s, h), NEW a \in DOMAIN s.validators, NEW c \in 0 .. MaxCommission
    PROVE  KeepsBooks(s, changeCommission(s, a, c).s)
<1> DEFINE t == changeCommission(s, a, c).s
<1>1. t = [s EXCEPT !.validators[a].commission = c,
                    !.validators[a].increased  = IF c >= s.validators[a].commission
                                                 THEN block.height ELSE @]
  BY DEF changeCommission, Done
<1>2. /\ t.stakers = s.stakers /\ t.ledger = s.ledger /\ DOMAIN t.validators = DOMAIN s.validators
      /\ \A b \in DOMAIN s.validators : b # a => t.validators[b] = s.validators[b]
      /\ LET v == s.validators[a] w == t.validators[a]
         IN  /\ w.self = v.self /\ w.total = v.total /\ w.coefficient = v.coefficient /\ w.commission = c
  BY <1>1 DEF AppOK, AppFields, ValidatorsOK, ValidatorOK, ValidatorFields
<1> HIDE DEF t
<1>3. ASSUME Books(s) PROVE Books(t)
  <2>1. /\ DOMAIN s.validators \subseteq Address /\ Exact(s.ledger)
        /\ \A b \in DOMAIN s.validators : s.validators[b].commission \in 0 .. MaxCommission
    BY <1>3 DEF Books, StakesSound
  <2>2. \A b \in DOMAIN t.validators : t.validators[b].commission \in 0 .. MaxCommission
    BY <1>2, <2>1
  <2>3. \A b \in DOMAIN s.validators :
               /\ t.validators[b].coefficient = s.validators[b].coefficient
               /\ t.validators[b].total = s.validators[b].total
               /\ t.validators[b].self = s.validators[b].self
    BY <1>2
  <2> QED
    BY <1>2, <1>3, <2>1, <2>2, <2>3, SameStakersOK
<1> QED
  BY <1>2, <1>3 DEF KeepsBooks, SameFees, t

(* ------------------ the end of a block and the books ------------------- *)

\* The part of a reward that is shared: what the stakers get more to claim is covered
\* by what is locked, and that is no more than the reward.
LEMMA SharedOK ==
    ASSUME NEW commission \in 0 .. MaxCommission, NEW reward \in Nat, NEW total \in Nat \ {0},
           NEW self \in 0 .. total, NEW increase, NEW shared,
           increase = (reward * (Q - (commission * Q) \div MaxCommission)) \div total,
           shared = Min({Ceiling(increase * (total - self), Q), reward})
    PROVE  /\ increase \in Nat /\ shared \in Nat /\ shared <= reward
           /\ increase * (total - self) <= shared * Q
<1> DEFINE cut == (commission * Q) \div MaxCommission
           fraction == Q - cut
           rest == total - self
           claims == increase * rest
           up == Ceiling(claims, Q)
<1>1. Q \in Nat \ {0} /\ MaxCommission \in Nat \ {0} /\ commission \in Nat /\ commission <= MaxCommission
  BY PoSAssumption
<1>2. cut \in Nat /\ cut <= Q
  <2> DEFINE x == commission * Q
  <2>1. x \in Nat /\ x <= MaxCommission * Q /\ MaxCommission * Q \in Nat
    BY <1>1
  <2> HIDE DEF x
  <2>2. cut = x \div MaxCommission
    BY DEF x
  <2> HIDE DEF cut
  <2>3. cut \in Nat /\ cut * MaxCommission <= x
    BY <1>1, <2>1, <2>2
  <2>4. ~(cut > Q)
    <3> SUFFICES ASSUME cut >= Q + 1 PROVE FALSE
      BY <1>1, <2>3
    <3>1. cut * MaxCommission >= (Q + 1) * MaxCommission
      BY <1>1, <2>3
    <3>2. (Q + 1) * MaxCommission = MaxCommission * Q + MaxCommission /\ cut * MaxCommission \in Int
      BY <1>1, <2>3
    <3> QED
      BY <1>1, <2>1, <2>3, <3>1, <3>2
  <2> QED
    BY <1>1, <2>3, <2>4
<1> HIDE DEF cut
<1>3. fraction \in Nat /\ fraction <= Q
  BY <1>1, <1>2
<1> HIDE DEF fraction
<1>4. increase = (reward * fraction) \div total
  BY DEF fraction, cut
<1>5. reward * fraction \in Nat /\ reward * fraction <= reward * Q /\ reward * Q \in Nat
  BY <1>1, <1>3
<1>6. increase \in Nat /\ increase * total <= reward * fraction
  <2> DEFINE x == reward * fraction
  <2>1. x \in Nat /\ increase = x \div total
    BY <1>4, <1>5
  <2> HIDE DEF x
  <2>2. increase \in Nat /\ increase * total <= x
    BY <2>1
  <2> QED
    BY <2>2 DEF x
<1>7. rest \in Nat /\ rest <= total
  OBVIOUS
<1> HIDE DEF rest
<1>8. claims \in Nat /\ claims <= increase * total /\ increase * total \in Nat
  BY <1>6, <1>7
<1>9. shared = Min({up, reward})
  BY DEF claims, rest
<1> HIDE DEF claims
<1>10. up \in Nat /\ claims <= up * Q
  BY <1>1, <1>8, CeilingOK
<1> HIDE DEF up
<1>11. shared = (IF up <= reward THEN up ELSE reward)
  BY <1>9, <1>10, MinOfTwo
<1>12. claims <= reward * Q
  BY <1>5, <1>6, <1>8
<1>13. shared \in Nat /\ shared <= reward /\ claims <= shared * Q
  BY <1>10, <1>11, <1>12
<1> QED
  BY <1>6, <1>13 DEF claims, rest

\* A reward raises the sharing coefficient of g by what its stakers can claim.
LEMMA OwedGrows ==
    ASSUME NEW s, NEW t, StakesSound(s), NEW g \in DOMAIN s.validators, NEW increase \in Nat,
           t.stakers = s.stakers,
           t.validators[g].coefficient = s.validators[g].coefficient + increase,
           \A b \in DOMAIN s.validators \ {g} : t.validators[b].coefficient = s.validators[b].coefficient
    PROVE  \A b \in Address : Owed(t, b) =
               IF b = g THEN Owed(s, b) + increase * (s.validators[g].total - s.validators[g].self)
                        ELSE Owed(s, b)
<1>1. \A a \in Address : getOrDefault(t, a) = getOrDefault(s, a)
  BY DEF getOrDefault
<1>2. \A a \in Address : StakerOK(getOrDefault(s, a), s.validators)
  BY DEF StakesSound
<1>3. g \in Address
  BY DEF StakesSound
<1>4. ASSUME NEW b \in Address, b # g PROVE Owed(t, b) = Owed(s, b)
  <2>1. \A a \in Address : Due(t, a, b) = Due(s, a, b)
    BY <1>1, <1>2, <1>4 DEF Due, StakerOK
  <2>2. [a \in Address |-> Due(t, a, b)] = [a \in Address |-> Due(s, a, b)]
    BY <2>1
  <2> QED
    BY <2>2 DEF Owed
<1>5. Owed(t, g) = Owed(s, g) + increase * (s.validators[g].total - s.validators[g].self)
  <2> DEFINE f == [a \in Address |-> Due(s, a, g)]
             h == [a \in Address |-> Due(t, a, g)]
             e == [a \in Address |-> StakeOf(s, a, g)]
             o == [a \in Address |-> IF a = g THEN 0 ELSE StakeOf(s, a, g)]
  <2>1. Owed(s, g) = SumFunction(f) /\ Owed(t, g) = SumFunction(h) /\ Received(s, g) = SumFunction(e)
    BY DEF Owed, Received
  <2>2. \A a \in Address : StakeOf(s, a, g) \in Nat /\ Due(s, a, g) \in Nat
    BY <1>3, AmountsOK
  <2>3. ASSUME NEW a \in Address PROVE h[a] = f[a] + increase * o[a]
    <3> DEFINE stakes == getOrDefault(s, a).stakes
    <3>1. f[a] = Due(s, a, g) /\ h[a] = Due(t, a, g) /\ o[a] = IF a = g THEN 0 ELSE StakeOf(s, a, g)
      OBVIOUS
    <3> HIDE DEF f, h, o
    <3>2. CASE a # g /\ g \in DOMAIN stakes
      <4> DEFINE x == stakes[g].amount
                 y == stakes[g].coefficient
                 z == s.validators[g].coefficient
      <4>1. x \in Nat /\ y \in Nat /\ z \in Nat
        BY <1>2, <3>2 DEF StakerOK, StakesSound
      <4>2. /\ Due(s, a, g) = (z - y) * x /\ Due(t, a, g) = (z + increase - y) * x
            /\ StakeOf(s, a, g) = x
        <5>1. getOrDefault(t, a).stakes = stakes /\ t.validators[g].coefficient = z + increase
          BY <1>1
        <5>2. Due(t, a, g) = (t.validators[g].coefficient - y) * x
          BY <3>2, <5>1 DEF Due
        <5>3. Due(s, a, g) = (z - y) * x /\ StakeOf(s, a, g) = x
          BY <3>2 DEF Due, StakeOf
        <5> DEFINE w == t.validators[g].coefficient
        <5>4. w = z + increase /\ Due(t, a, g) = (w - y) * x
          BY <5>1, <5>2
        <5> HIDE DEF x, y, z, w
        <5> QED
          BY ONLY <4>1, <5>3, <5>4, increase \in Nat
      <4> HIDE DEF x, y, z
      <4>3. (z + increase - y) * x = (z - y) * x + increase * x
        BY <4>1
      <4> QED
        BY <3>1, <3>2, <4>2, <4>3
    <3>3. CASE ~(a # g /\ g \in DOMAIN stakes)
      <4>1. Due(s, a, g) = 0 /\ Due(t, a, g) = 0 /\ o[a] = 0
        BY <1>1, <3>1, <3>3 DEF Due, StakeOf
      <4>2. 0 = 0 + increase * 0
        OBVIOUS
      <4> QED
        BY <3>1, <4>1, <4>2
    <3> QED
      BY <3>2, <3>3
  <2>4. /\ DOMAIN f = Address /\ DOMAIN h = Address /\ DOMAIN e = Address /\ DOMAIN o = Address
        /\ \A a \in Address : f[a] \in Int /\ o[a] \in Int /\ e[a] \in Int
        /\ o[g] = 0 /\ e[g] = StakeOf(s, g, g) /\ \A a \in Address \ {g} : o[a] = e[a]
    BY <1>3, <2>2
  <2> HIDE DEF f, h, e, o
  <2>5. increase \in Int
    OBVIOUS
  <2>6. SumFunction(h) = SumFunction(f) + increase * SumFunction(o)
    BY <2>3, <2>4, <2>5, AddressFinite, SumLinear
  <2>7. SumFunction(o) = SumFunction(e) - e[g] + o[g] /\ SumFunction(e) \in Int
    BY <1>3, <2>4, AddressFinite, SumOneChanged
  <2>8. s.validators[g].total = Received(s, g) /\ s.validators[g].self = StakeOf(s, g, g)
    BY DEF StakesSound
  <2>9. SumFunction(o) = s.validators[g].total - s.validators[g].self
    BY <2>1, <2>2, <1>3, <2>4, <2>7, <2>8
  <2> QED
    BY <2>1, <2>6, <2>9
<1> QED
  BY <1>4, <1>5

\* The shared reward of the generator g, which has the reward already.
LEMMA SharedRewardsBooks ==
    ASSUME NEW s, NEW h, AppOK(s, h), Books(s), NEW g \in DOMAIN s.validators, NEW reward \in Nat,
           Balance(s.ledger, g) >= reward
    PROVE  Books(updateSharedRewards(s, g, reward))
<1> DEFINE v        == s.validators[g]
           fraction == Q - (v.commission * Q) \div MaxCommission
           increase == (reward * fraction) \div v.total
           shared   == Min({Ceiling(increase * (v.total - v.self), Q), reward})
           t        == [s EXCEPT !.ledger = lock(@, g, "pos", KLY, shared),
                                 !.validators[g].coefficient = @ + increase]
<1>1. updateSharedRewards(s, g, reward) = IF v.total = 0 THEN s ELSE t
  BY DEF updateSharedRewards
<1> SUFFICES ASSUME v.total # 0 PROVE Books(t)
  <2> HIDE DEF t
  <2> QED
    BY <1>1
<1>2. StakesSound(s) /\ Exact(s.ledger) /\ LedgerOK(s.ledger) /\ Covered(s) /\ g \in Address
  BY DEF Books, Exact, StakesSound
<1>3. /\ v.commission \in 0 .. MaxCommission /\ v.total \in Nat /\ v.self \in Nat /\ v.self <= v.total
      /\ v.coefficient \in Nat
  <2>1. /\ v.commission \in 0 .. MaxCommission /\ v.total = Received(s, g) /\ v.self = StakeOf(s, g, g)
        /\ v.coefficient \in Nat
    BY <1>2 DEF StakesSound
  <2>2. Received(s, g) \in Nat /\ StakeOf(s, g, g) \in Nat /\ StakeOf(s, g, g) <= Received(s, g)
    BY <1>2, SumsOK, AmountsOK
  <2> HIDE DEF v
  <2> QED
    BY <2>1, <2>2
<1>4. /\ t.stakers = s.stakers /\ t.ledger = lock(s.ledger, g, "pos", KLY, shared)
      /\ t.validators = [s.validators EXCEPT ![g].coefficient = @ + increase]
  <2> HIDE DEF increase, shared
  <2> QED
    BY DEF AppOK, AppFields
<1> HIDE DEF t
<1>5. /\ increase \in Nat /\ shared \in Nat /\ shared <= reward
      /\ increase * (v.total - v.self) <= shared * Q
  <2>1. v.total \in Nat \ {0} /\ v.self \in 0 .. v.total
    BY <1>3
  <2> HIDE DEF v
  <2> QED
    BY <1>3, <2>1, SharedOK
<1> HIDE DEF increase, shared
<1>6. /\ DOMAIN t.validators = DOMAIN s.validators
      /\ \A b \in DOMAIN s.validators \ {g} : t.validators[b] = s.validators[b]
      /\ t.validators[g] = [v EXCEPT !.coefficient = @ + increase]
  BY <1>4
<1>7. /\ t.validators[g].coefficient = v.coefficient + increase
      /\ t.validators[g].commission = v.commission
      /\ t.validators[g].total = v.total /\ t.validators[g].self = v.self
  <2>1. DOMAIN v = ValidatorFields
    BY DEF AppOK, ValidatorsOK, ValidatorOK
  <2> HIDE DEF v
  <2> QED
    BY <1>6, <2>1 DEF ValidatorFields
<1>8. Balance(s.ledger, g) >= shared
  <2>1. Balance(s.ledger, g) \in Nat
    BY <1>2, AccountOK
  <2> QED
    BY <1>5, <2>1
<1>9. Exact(t.ledger) /\ LocksBut(s.ledger, t.ledger, g, "pos", shared)
  BY <1>2, <1>4, <1>5, <1>8, LockModulesOK, LockOK
<1>10. \A a \in Address : getOrDefault(t, a) = getOrDefault(s, a)
  BY <1>4 DEF getOrDefault
<1>11. \A a, b \in Address : StakeOf(t, a, b) = StakeOf(s, a, b)
  BY <1>10 DEF StakeOf
<1>12. ASSUME NEW a \in Address
       PROVE  /\ Staked(t, a) = Staked(s, a) /\ Received(t, a) = Received(s, a)
              /\ Unlocking(t, a) = Unlocking(s, a)
  <2>1. [b \in Address |-> StakeOf(t, a, b)] = [b \in Address |-> StakeOf(s, a, b)]
    BY <1>11
  <2>2. [b \in Address |-> StakeOf(t, b, a)] = [b \in Address |-> StakeOf(s, b, a)]
    BY <1>11
  <2> QED
    BY <1>10, <2>1, <2>2 DEF Staked, Received, Unlocking
<1>13. \A b \in Address : Owed(t, b) =
           IF b = g THEN Owed(s, b) + increase * (v.total - v.self) ELSE Owed(s, b)
  <2>1. \A b \in DOMAIN s.validators \ {g} : t.validators[b].coefficient = s.validators[b].coefficient
    BY <1>6
  <2>2. t.validators[g].coefficient = s.validators[g].coefficient + increase
    BY <1>7
  <2>3. \A b \in Address : Owed(t, b) =
            IF b = g THEN Owed(s, b) + increase * (s.validators[g].total - s.validators[g].self)
                     ELSE Owed(s, b)
    <3>1. StakesSound(s) /\ increase \in Nat /\ t.stakers = s.stakers
      BY <1>2, <1>4, <1>5
    <3> QED
      BY <2>1, <2>2, <3>1, OwedGrows
  <2> QED
    BY <2>3
<1>14. StakesSound(t)
  <2>1. \A a \in Address : StakerOK(getOrDefault(t, a), t.validators)
    <3> TAKE a \in Address
    <3>1. StakerOK(getOrDefault(s, a), s.validators)
      BY <1>2 DEF StakesSound
    <3>2. \A b \in DOMAIN s.validators : \A x \in Nat :
              x <= s.validators[b].coefficient => x <= t.validators[b].coefficient
      <4> TAKE b \in DOMAIN s.validators
      <4> TAKE x \in Nat
      <4>1. CASE b = g
        BY <1>3, <1>5, <1>7, <4>1
      <4>2. CASE b # g
        BY <1>6, <4>2
      <4> QED
        BY <4>1, <4>2
    <3> QED
      BY <1>6, <1>10, <3>1, <3>2 DEF StakerOK
  <2>2. ASSUME NEW b \in DOMAIN s.validators
        PROVE  /\ t.validators[b].coefficient \in Nat /\ t.validators[b].commission \in 0 .. MaxCommission
               /\ t.validators[b].total = Received(t, b) /\ t.validators[b].self = StakeOf(t, b, b)
    <3>1. /\ s.validators[b].coefficient \in Nat /\ s.validators[b].commission \in 0 .. MaxCommission
          /\ s.validators[b].total = Received(s, b) /\ s.validators[b].self = StakeOf(s, b, b)
          /\ b \in Address
      BY <1>2 DEF StakesSound
    <3>2. CASE b = g
      BY <1>3, <1>5, <1>7, <1>11, <1>12, <3>1, <3>2
    <3>3. CASE b # g
      BY <1>6, <1>11, <1>12, <3>1, <3>3
    <3> QED
      BY <3>2, <3>3
  <2> QED
    BY <1>2, <1>4, <1>6, <2>1, <2>2 DEF StakesSound
<1>15. Q \in Nat \ {0}
  BY PoSAssumption
<1>16. ASSUME NEW a \in Address
       PROVE  LockedOf(t.ledger, a, "pos") * Q >= (Staked(t, a) + Unlocking(t, a)) * Q + Owed(t, a)
  <2> DEFINE L == LockedOf(s.ledger, a, "pos")
             P == Staked(s, a) + Unlocking(s, a)
             O == Owed(s, a)
             more == increase * (v.total - v.self)
  <2>1. L \in Nat /\ P \in Nat /\ O \in Nat
    <3>1. L \in Nat
      BY <1>2, LockModulesOK, AccountOK
    <3> QED
      BY <1>2, <3>1, SumsOK
  <2>2. L * Q >= P * Q + O
    BY <1>2 DEF Covered
  <2>3. Staked(t, a) + Unlocking(t, a) = P
    BY <1>12
  <2>4. /\ LockedOf(t.ledger, a, "pos") = IF a = g THEN L + shared ELSE L
        /\ Owed(t, a) = IF a = g THEN O + more ELSE O
    BY <1>9, <1>13, LockModulesOK DEF LocksBut
  <2>5. more \in Int /\ more <= shared * Q
    <3>1. v.total - v.self \in Int
      BY <1>3
    <3> HIDE DEF v
    <3> QED
      BY <1>5, <3>1
  <2> HIDE DEF L, P, O, more
  <2>6. (L + shared) * Q = L * Q + shared * Q /\ L * Q \in Int /\ shared * Q \in Int /\ P * Q \in Int
    BY <1>5, <1>15, <2>1
  <2>7. (L + shared) * Q >= P * Q + (O + more)
    BY <2>1, <2>2, <2>5, <2>6
  <2>8. CASE a = g
    BY <2>3, <2>4, <2>7, <2>8
  <2>9. CASE a # g
    BY <2>2, <2>3, <2>4, <2>9
  <2> QED
    BY <2>8, <2>9
<1>17. Covered(t)
  BY <1>16 DEF Covered
<1> QED
  BY <1>9, <1>14, <1>17 DEF Books

\* The generator of the block is a validator, and its reward is a natural.
LEMMA BlockRewardOK ==
    ASSUME block.slot \in Nat, NEW D, ListOK(params, D, 0), HasWeight(params)
    PROVE  GeneratorAt(block.slot) \in D /\ getDefaultBlockReward \in Nat
<1> DEFINE n == Len(params)
           i == (block.slot % n) + 1
<1>1. params \in Seq([address : D, weight : Nat])
  BY DEF ListOK
<1>2. n \in Nat /\ DOMAIN params = 1 .. n
  BY <1>1
<1>3. n # 0
  BY <1>2 DEF HasWeight
<1>4. i \in DOMAIN params
  <2> HIDE DEF n
  <2>1. block.slot % n \in 0 .. n - 1
    BY <1>2, <1>3
  <2> QED
    BY <1>2, <1>3, <2>1
<1> HIDE DEF i
<1>5. params[i].address \in D /\ params[i].weight \in Nat
  BY <1>1, <1>4, MemberOK
<1>6. GeneratorAt(block.slot) \in D
  BY <1>5 DEF GeneratorAt, i, n
<1> DEFINE weight == params[i].weight
           active == Cardinality({v \in Range(params) : v.weight > 0})
           passed == {a \in Addresses(params) : getGeneratorsBetween(block.roundSlot, block.slot, a) > 0}
           total  == TotalWeight(params)
           bonus  == DefaultReward - MinimalReward
<1>7. total \in Nat /\ weight <= total
  BY <1>1, <1>4, TotalOK
<1>8. active \in Nat
  <2> DEFINE I == 1 .. n
  <2>1. IsFiniteSet(I)
    <3> HIDE DEF n
    <3> QED
      BY <1>2, FS_Interval
  <2>2. DOMAIN params = I /\ params = [k \in I |-> params[k]] /\ Range(params) = {params[k] : k \in I}
    BY <1>1, <1>2 DEF Range
  <2> HIDE DEF I
  <2>3. IsFiniteSet(Range(params))
    BY <2>1, <2>2, ImagesFinite
  <2> QED
    BY <2>3, FS_Subset, FS_CardinalityType
<1>9. /\ MinimalReward \in Nat /\ DefaultReward \in Nat /\ bonus \in Nat
  BY PoSAssumption
<1>10. getDefaultBlockReward =
           IF Cardinality(passed) >= RoundLength THEN MinimalReward
           ELSE IF weight = 0 THEN DefaultReward
           ELSE MinimalReward + (weight * active * bonus) \div total
  BY DEF getDefaultBlockReward, i, n
<1> HIDE DEF weight, active, passed, total, bonus
<1>11. weight # 0 => (weight * active * bonus) \div total \in Nat
  <2> SUFFICES ASSUME weight # 0 PROVE (weight * active * bonus) \div total \in Nat
    OBVIOUS
  <2> DEFINE x == weight * active * bonus
  <2>1. weight \in Nat
    BY <1>5 DEF weight
  <2>2. weight * active \in Nat
    BY <1>8, <2>1
  <2>3. x \in Nat
    BY <1>9, <2>2
  <2> HIDE DEF x
  <2>4. x \div total \in Nat
    BY <1>7, <2>1, <2>3
  <2> QED
    BY <2>4 DEF x
<1>12. getDefaultBlockReward \in Nat
  BY <1>9, <1>10, <1>11
<1> QED
  BY <1>6, <1>12

\* The reward of the generator: minted, and shared with its stakers.
LEMMA RewardedBooks ==
    ASSUME block.slot \in Nat, NEW s, NEW h, AppOK(s, h), Books(s), NEW reduction \in Nat,
           ListOK(params, DOMAIN s.validators, 0), HasWeight(params)
    PROVE  Books(rewarded(s, reduction))
<1> DEFINE g == GeneratorAt(block.slot)
           reward == IF reduction = 0 \/ ~userSubstoreExists(s.ledger, g, KLY) THEN 0
                     ELSE getDefaultBlockReward \div reduction
           t == [s EXCEPT !.ledger = mint(@, g, KLY, reward)]
<1>1. rewarded(s, reduction) = IF reward = 0 THEN s ELSE updateSharedRewards(t, g, reward)
  BY DEF rewarded
<1>2. g \in DOMAIN s.validators /\ getDefaultBlockReward \in Nat
  BY BlockRewardOK
<1>3. g \in Address /\ Exact(s.ledger) /\ LedgerOK(s.ledger)
  BY <1>2 DEF Books, StakesSound, Exact
<1>4. reward \in Nat
  BY <1>2
<1> HIDE DEF reward, g
<1>5. /\ t.ledger = mint(s.ledger, g, KLY, reward) /\ t.stakers = s.stakers
      /\ t.validators = s.validators /\ t.eligible = s.eligible /\ DOMAIN t = DOMAIN s
  BY DEF AppOK, AppFields
<1> HIDE DEF t
<1>6. Exact(t.ledger) /\ SameLocks(s.ledger, t.ledger) /\ Balance(t.ledger, g) >= reward
  BY <1>3, <1>4, <1>5, MintOK
<1>7. AppOK(t, h)
  BY <1>5 DEF AppOK
<1>8. Books(t)
  <2>1. \A a \in Address : LockedOf(t.ledger, a, "pos") = LockedOf(s.ledger, a, "pos")
    BY <1>6, LockModulesOK DEF SameLocks
  <2>2. /\ DOMAIN t.validators \subseteq Address
        /\ \A b \in DOMAIN t.validators : t.validators[b].commission \in 0 .. MaxCommission
    BY <1>5 DEF Books, StakesSound
  <2> QED
    BY <1>5, <1>6, <2>1, <2>2, SameStakersOK
<1>9. Books(updateSharedRewards(t, g, reward))
  BY <1>2, <1>4, <1>5, <1>6, <1>7, <1>8, SharedRewardsBooks DEF g
<1> QED
  BY <1>1, <1>9

\* Missed blocks change no stake.
LEMMA ProductivityBooks ==
    ASSUME NEW s, NEW h, AppOK(s, h), Books(s)
    PROVE  Books(updateProductivity(s))
<1> DEFINE g       == GeneratorAt(block.slot)
           banned  == {a \in Addresses(params) : isBannedByMissing(s.validators[a], a)}
           counted == [a \in DOMAIN s.validators |->
                          IF a \in Addresses(params) THEN missBlocks(s.validators[a], a)
                                                     ELSE s.validators[a]]
           lost    == {<<getValidatorWeight(s.validators[a]), a>> : a \in banned}
           new     == [counted EXCEPT ![g].missed = 0, ![g].lastGenerated = block.height]
           t       == [s EXCEPT !.validators = new, !.eligible = Restrict(@, DOMAIN @ \ lost)]
<1>1. updateProductivity(s) = t
  BY DEF updateProductivity
<1>2. t.stakers = s.stakers /\ t.validators = new /\ t.ledger = s.ledger
  <2> HIDE DEF new, lost
  <2> QED
    BY DEF AppOK, AppFields
<1> HIDE DEF t, banned, lost
<1> DEFINE Alike(v, w) == /\ w.self = v.self /\ w.total = v.total
                          /\ w.coefficient = v.coefficient /\ w.commission = v.commission
<1>3. DOMAIN counted = DOMAIN s.validators
  OBVIOUS
<1>4. \A a \in DOMAIN s.validators :
          DOMAIN counted[a] = ValidatorFields /\ Alike(s.validators[a], counted[a])
  <2> TAKE a \in DOMAIN s.validators
  <2>1. DOMAIN s.validators[a] = ValidatorFields
    BY DEF AppOK, ValidatorsOK, ValidatorOK
  <2>2. counted[a] = missBlocks(s.validators[a], a) \/ counted[a] = s.validators[a]
    OBVIOUS
  <2> HIDE DEF counted
  <2> QED
    BY <2>1, <2>2 DEF missBlocks, ValidatorFields
<1> HIDE DEF counted
<1>5. DOMAIN new = DOMAIN s.validators /\ \A a \in DOMAIN s.validators : Alike(s.validators[a], new[a])
  BY <1>3, <1>4 DEF ValidatorFields
<1> HIDE DEF new
<1>6. /\ DOMAIN s.validators \subseteq Address /\ Exact(s.ledger)
      /\ \A b \in DOMAIN s.validators : s.validators[b].commission \in 0 .. MaxCommission
  BY DEF Books, StakesSound
<1>7. \A b \in DOMAIN t.validators : t.validators[b].commission \in 0 .. MaxCommission
  BY <1>2, <1>5, <1>6
<1>8. \A b \in DOMAIN s.validators :
               /\ t.validators[b].coefficient = s.validators[b].coefficient
               /\ t.validators[b].total = s.validators[b].total
               /\ t.validators[b].self = s.validators[b].self
  BY <1>2, <1>5
<1>9. Books(t)
  BY <1>2, <1>5, <1>6, <1>7, <1>8, SameStakersOK
<1> QED
  BY <1>1, <1>9

\* A ban is lifted.
LEMMA UnbanBooks ==
    ASSUME NEW h, AppOK(app, h), NEW b, UnbanValidator(b), Books(app)
    PROVE  Books(app')
<1> DEFINE v == [app.validators[b] EXCEPT !.banned = FALSE]
<1>1. /\ b \in DOMAIN app.validators
      /\ app' = [app EXCEPT !.validators[b] = v, !.eligible = updateEligible(@, b, 0, v)]
  BY DEF UnbanValidator
<1>2. LET w == app.validators[b]
      IN  /\ v.self = w.self /\ v.total = w.total /\ v.coefficient = w.coefficient
          /\ v.commission = w.commission
  BY <1>1 DEF AppOK, ValidatorsOK, ValidatorOK, ValidatorFields
<1> HIDE DEF v
<1>3. /\ app'.stakers = app.stakers /\ app'.ledger = app.ledger
      /\ app'.validators = [app.validators EXCEPT ![b] = v]
  BY <1>1 DEF AppOK, AppFields
<1>4. /\ DOMAIN app'.validators = DOMAIN app.validators
      /\ \A c \in DOMAIN app.validators : app'.validators[c] = IF c = b THEN v ELSE app.validators[c]
  BY <1>3
<1>5. /\ DOMAIN app.validators \subseteq Address /\ Exact(app.ledger)
      /\ \A c \in DOMAIN app.validators : app.validators[c].commission \in 0 .. MaxCommission
  BY DEF Books, StakesSound
<1>6. \A c \in DOMAIN app'.validators : app'.validators[c].commission \in 0 .. MaxCommission
  BY <1>1, <1>2, <1>4, <1>5
<1>7. \A c \in DOMAIN app.validators :
               /\ app'.validators[c].coefficient = app.validators[c].coefficient
               /\ app'.validators[c].total = app.validators[c].total
               /\ app'.validators[c].self = app.validators[c].self
  BY <1>1, <1>2, <1>4
<1> QED
  BY <1>3, <1>4, <1>5, <1>6, <1>7, SameStakersOK

\* The fees of the configuration.
LEMMA FeesOK == TxFee \in Nat /\ MinFee \in Nat /\ RegistrationFee \in Nat
                /\ MinFee <= TxFee /\ RegistrationFee <= TxFee - MinFee
  BY PoSAssumption

\* The fee is locked.
LEMMA FeeLockedBooks ==
    ASSUME IInv, Books(app), NEW a \in Address, spendable(app.ledger, a, KLY, TxFee)
    PROVE  Books(feeLocked(a)) /\ LockedOf(feeLocked(a).ledger, a, "fee") >= TxFee
<1> DEFINE t == feeLocked(a)
<1>1. /\ t.stakers = app.stakers /\ t.validators = app.validators
      /\ t.ledger = lock(app.ledger, a, "fee", KLY, TxFee)
  BY DEF IInv, AppOK, AppFields, feeLocked
<1> HIDE DEF t
<1>2. Exact(app.ledger) /\ LedgerOK(app.ledger) /\ StakesSound(app)
  BY DEF Books, Exact
<1>3. /\ getAvailableBalance(app.ledger, a, KLY) = Balance(app.ledger, a) /\ Balance(app.ledger, a) \in Nat
      /\ \A c \in Address, m \in LockModules : LockedOf(app.ledger, c, m) \in Nat
  BY <1>2, AccountOK
<1>4. Balance(app.ledger, a) >= TxFee
  <2>1. TxFee <= 0 \/ getAvailableBalance(app.ledger, a, KLY) >= TxFee
    BY DEF spendable
  <2> QED
    BY <1>3, <2>1, FeesOK
<1>5. Exact(t.ledger) /\ LocksBut(app.ledger, t.ledger, a, "fee", TxFee)
  BY <1>1, <1>2, <1>4, FeesOK, LockModulesOK, LockOK
<1>6. LockedOf(t.ledger, a, "fee") >= TxFee
  <2>1. LockedOf(t.ledger, a, "fee") = LockedOf(app.ledger, a, "fee") + TxFee
    BY <1>5, LockModulesOK DEF LocksBut
  <2>2. LockedOf(app.ledger, a, "fee") \in Nat
    BY <1>3, LockModulesOK
  <2> QED
    BY <2>1, <2>2, FeesOK
<1>7. \A c \in Address : LockedOf(t.ledger, c, "pos") = LockedOf(app.ledger, c, "pos")
  BY <1>5, LockModulesOK DEF LocksBut
<1>8. Books(t)
  <2>1. /\ DOMAIN t.validators \subseteq Address
        /\ \A b \in DOMAIN t.validators : t.validators[b].commission \in 0 .. MaxCommission
    BY <1>1, <1>2 DEF StakesSound
  <2> QED
    BY <1>1, <1>5, <1>7, <2>1, SameStakersOK
<1> QED
  BY <1>6, <1>8 DEF t

\* The fee is paid.
LEMMA FeeProcessedBooks ==
    ASSUME NEW s, NEW h, AppOK(s, h), Books(s), NEW a \in Address, LockedOf(s.ledger, a, "fee") >= TxFee,
           NEW paid \in {0, RegistrationFee}
    PROVE  Books(feeProcessed(s, a, paid))
<1> DEFINE g    == GeneratorAt(block.slot)
           left == IF userSubstoreExists(s.ledger, g, KLY) THEN TxFee - MinFee - paid ELSE 0
           l    == unlock(s.ledger, a, "fee", KLY, TxFee)
           l1   == transfer(l, a, g, KLY, left)
           l2   == burn(l1, a, KLY, TxFee - left)
           t    == feeProcessed(s, a, paid)
<1>1. t.ledger = l2 /\ t.stakers = s.stakers /\ t.validators = s.validators
  <2> HIDE DEF l2
  <2>1. t = [s EXCEPT !.ledger = l2]
    BY DEF feeProcessed, l2
  <2> HIDE DEF t
  <2> QED
    BY <2>1 DEF AppOK, AppFields
<1> HIDE DEF t
<1>2. Exact(s.ledger) /\ LedgerOK(s.ledger) /\ StakesSound(s)
  BY DEF Books, Exact
<1>3. left \in Nat /\ left <= TxFee
  BY FeesOK
<1>4. g \in Address \/ left = 0
  <2>1. userSubstoreExists(s.ledger, g, KLY) => g \in Address
    BY <1>2 DEF userSubstoreExists, LedgerOK, Accounts
  <2> QED
    BY <2>1
<1> HIDE DEF left, g
<1>5. Exact(l) /\ LocksBut(s.ledger, l, a, "fee", 0 - TxFee) /\ Balance(l, a) >= TxFee
  BY <1>2, FeesOK, LockModulesOK, UnlockedOK
<1> HIDE DEF l
<1>6. Balance(l, a) \in Nat
  BY <1>5, AccountOK DEF Exact
<1>7. Exact(l1) /\ SameLocks(l, l1) /\ Balance(l1, a) >= TxFee - left
  <2>1. CASE g \in Address
    <3>1. Balance(l, a) >= left
      BY <1>3, <1>5, <1>6, FeesOK
    <3> HIDE DEF l1
    <3>2. Exact(l1) /\ SameLocks(l, l1) /\ Balance(l1, a) >= Balance(l, a) - left
      BY <1>3, <1>5, <2>1, <3>1, TransferOK DEF l1
    <3>3. Balance(l1, a) \in Nat
      BY <3>2, AccountOK DEF Exact
    <3> QED
      BY <1>3, <1>5, <1>6, <3>2, <3>3, FeesOK
  <2>2. CASE left = 0
    <3>1. l1 = l
      BY <2>2 DEF transfer
    <3> QED
      BY <1>5, <1>6, <2>2, <3>1, FeesOK DEF SameLocks
  <2> QED
    BY <1>4, <2>1, <2>2
<1> HIDE DEF l1
<1>8. TxFee - left \in Nat
  BY <1>3, FeesOK
<1>9. Exact(l2) /\ SameLocks(l1, l2)
  BY <1>7, <1>8, BurnOK
<1> HIDE DEF l2
<1>10. \A c \in Address : LockedOf(t.ledger, c, "pos") = LockedOf(s.ledger, c, "pos")
  <2> TAKE c \in Address
  <2>1. LockedOf(l, c, "pos") = LockedOf(s.ledger, c, "pos")
    BY <1>5, LockModulesOK DEF LocksBut
  <2> QED
    BY <1>1, <1>7, <1>9, <2>1, LockModulesOK DEF SameLocks
<1>11. Books(t)
  <2>1. /\ DOMAIN t.validators \subseteq Address
        /\ \A b \in DOMAIN t.validators : t.validators[b].commission \in 0 .. MaxCommission
    BY <1>1, <1>2 DEF StakesSound
  <2> QED
    BY <1>1, <1>9, <1>10, <2>1, SameStakersOK
<1> QED
  BY <1>11 DEF t

(* ------------------------- what the books say -------------------------- *)

\* The sum of equal values.
LEMMA SumOfEquals ==
    ASSUME NEW f, IsFiniteSet(DOMAIN f), NEW c \in Int, \A x \in DOMAIN f : f[x] = c,
           f = [x \in DOMAIN f |-> f[x]]
    PROVE  SumFunction(f) = c * Cardinality(DOMAIN f)
<1> DEFINE S == DOMAIN f
           Equal(T) == SumFunction(Restrict(f, T)) = c * Cardinality(T)
           good == {T \in SUBSET S : Equal(T)}
<1>1. {} \in good
  <2>1. DOMAIN Restrict(f, {}) = {}
    BY DEF Restrict
  <2>2. SumFunction(Restrict(f, {})) = 0
    BY <2>1, SumEmpty
  <2>3. Cardinality({}) = 0 /\ c * 0 = 0
    BY FS_EmptySet
  <2>4. Equal({})
    BY <2>2, <2>3
  <2> HIDE DEF Equal
  <2> QED
    BY <2>4
<1>2. ASSUME NEW T \in SUBSET S, NEW x \in S \ T, T \in good PROVE T \cup {x} \in good
  <2>1. IsFiniteSet(T) /\ Cardinality(T) \in Nat
    BY FS_Subset, FS_CardinalityType
  <2>2. Cardinality(T \cup {x}) = Cardinality(T) + 1
    BY <2>1, FS_AddElement
  <2>3. \A y \in T \cup {x} : f[y] \in Int
    OBVIOUS
  <2>4. SumFunction(Restrict(f, T \cup {x})) = f[x] + SumFunction(Restrict(f, T))
    BY <2>1, <2>3, SumOneMore
  <2>5. Equal(T) /\ f[x] = c
    BY <1>2
  <2> DEFINE n == Cardinality(T)
  <2>6. c * (n + 1) = c + c * n
    <3>1. n \in Nat
      BY <2>1
    <3> HIDE DEF n
    <3> QED
      BY <3>1
  <2>7. Equal(T \cup {x})
    BY <2>2, <2>4, <2>5, <2>6
  <2> HIDE DEF Equal
  <2> QED
    BY <2>7
<1>3. S \in good
  <2> HIDE DEF good, S
  <2>1. IsFiniteSet(S)
    BY DEF S
  <2> QED
    BY <1>1, <1>2, <2>1, FiniteSetsReached
<1>4. Restrict(f, S) = f
  BY DEF Restrict
<1> QED
  BY <1>3, <1>4

\* The genesis block.
LEMMA InitBooks == Init => Books(app)
<1> SUFFICES ASSUME Init PROVE Books(app)
  OBVIOUS
<1> DEFINE l == app.ledger
           v == [DefaultAccount EXCEPT !.available = Endowment]
<1>1. /\ DOMAIN l = LedgerStores /\ l.own = Mainchain
      /\ l.users = [k \in Accounts |-> v]
      /\ l.supply = [t \in {KLY} |-> Endowment * Cardinality(Address)]
  BY DEF Init, LedgerStores, Accounts
<1>2. /\ app.validators = [a \in Range(InitValidators) |-> NewValidator(a, 0)]
      /\ app.stakers = NoKeys
  BY DEF Init
<1>3. Endowment \in Nat /\ Cardinality(Address) \in Nat /\ IsFiniteSet(Address) /\ Q \in Nat \ {0}
  BY PoSAssumption, FS_CardinalityType
<1>4. /\ v \in AccountType /\ v.available = Endowment /\ DOMAIN v.locked = LockModules
      /\ \A m \in LockModules : v.locked[m] = 0
  BY <1>3 DEF DefaultAccount, AccountType
<1>5. Holding(v) = Endowment
  <2>1. SumFunction(v.locked) = 0
    BY <1>4, LockModulesOK, SumOfZeros
  <2> QED
    BY <1>3, <1>4, <2>1 DEF Holding
<1> HIDE DEF v
<1>6. l.supply \in [{KLY} -> Int] /\ l.supply[KLY] = Endowment * Cardinality(Address)
  <2> DEFINE n == Endowment * Cardinality(Address)
             t == KLY
  <2>1. n \in Int
    BY <1>3
  <2>2. l.supply = [x \in {t} |-> n]
    BY <1>1
  <2> HIDE DEF n, t, l
  <2>3. l.supply \in [{t} -> Int] /\ l.supply[t] = n
    BY ONLY <2>1, <2>2
  <2> QED
    BY <2>3 DEF n, t
<1>7. LedgerOK(l)
  <2>1. l.users \in [Accounts -> AccountType]
    <3> HIDE DEF l
    <3> QED
      BY <1>1, <1>4
  <2> QED
    BY <1>1, <1>6, <2>1 DEF LedgerOK
<1>8. UsersTotal(l, KLY) = Endowment * Cardinality(Address)
  <2> DEFINE f == [k \in Accounts |-> Holding(l.users[k])]
  <2>1. UsersTotal(l, KLY) = SumFunction(f) /\ IsFiniteSet(Accounts)
    BY <1>7, TotalUnfolded
  <2>2. /\ DOMAIN f = Accounts /\ f = [k \in DOMAIN f |-> f[k]]
        /\ \A k \in Accounts : f[k] = Endowment
    BY <1>1, <1>5
  <2> HIDE DEF f
  <2>3. SumFunction(f) = Endowment * Cardinality(Accounts)
    BY <1>3, <2>1, <2>2, SumOfEquals
  <2>4. Cardinality(Accounts) = Cardinality(Address)
    <3>1. IsFiniteSet({KLY}) /\ Cardinality({KLY}) = 1
      BY FS_Singleton
    <3>2. Cardinality(Accounts) = Cardinality(Address) * Cardinality({KLY})
      BY <1>3, <3>1, FS_Product DEF Accounts
    <3> QED
      BY <1>3, <3>1, <3>2
  <2> QED
    BY <2>1, <2>3, <2>4
<1>9. Exact(app.ledger)
  BY <1>6, <1>7, <1>8 DEF Exact
<1>10. /\ DOMAIN app.stakers \subseteq Address
       /\ \A a \in Address : getOrDefault(app, a) = [stakes |-> NoKeys, unlocks |-> NoKeys]
  BY <1>2 DEF NoKeys, getOrDefault
<1>11. \A a \in Address : /\ DOMAIN getOrDefault(app, a).stakes = {}
                          /\ DOMAIN getOrDefault(app, a).unlocks = {}
                          /\ getOrDefault(app, a).unlocks = NoKeys
  BY <1>10 DEF NoKeys
<1>12. \A a \in Address : StakerOK(getOrDefault(app, a), app.validators)
  BY <1>11, FS_EmptySet DEF StakerOK, NoKeys
<1>13. \A a, b \in Address : StakeOf(app, a, b) = 0 /\ Due(app, a, b) = 0
  BY <1>11 DEF StakeOf, Due
<1>14. ASSUME NEW a \in Address
       PROVE  /\ Staked(app, a) = 0 /\ Received(app, a) = 0 /\ Owed(app, a) = 0
              /\ Unlocking(app, a) = 0
  <2> DEFINE f == [b \in Address |-> StakeOf(app, a, b)]
             g == [b \in Address |-> StakeOf(app, b, a)]
             h == [b \in Address |-> Due(app, b, a)]
             unlocks == getOrDefault(app, a).unlocks
             k == [u \in DOMAIN unlocks |-> u.amount * unlocks[u]]
  <2>1. /\ Staked(app, a) = SumFunction(f) /\ Received(app, a) = SumFunction(g)
        /\ Owed(app, a) = SumFunction(h) /\ Unlocking(app, a) = SumFunction(k)
    BY DEF Staked, Received, Owed, Unlocking
  <2>2. /\ DOMAIN f = Address /\ DOMAIN g = Address /\ DOMAIN h = Address /\ DOMAIN k = {}
        /\ \A b \in Address : f[b] = 0 /\ g[b] = 0 /\ h[b] = 0
    BY <1>11, <1>13
  <2> HIDE DEF f, g, h, k
  <2>3. SumFunction(f) = 0 /\ SumFunction(g) = 0 /\ SumFunction(h) = 0
    BY <1>3, <2>2, SumOfZeros
  <2>4. SumFunction(k) = 0
    BY <2>2, SumEmpty
  <2> QED
    BY <2>1, <2>3, <2>4
<1>15. StakesSound(app)
  <2>1. DOMAIN app.validators \subseteq Address
    BY <1>2, InitialAddresses
  <2>2. \A b \in DOMAIN app.validators :
            /\ app.validators[b].coefficient = 0 /\ app.validators[b].commission = MaxCommission
            /\ app.validators[b].total = 0 /\ app.validators[b].self = 0
    BY <1>2 DEF NewValidator
  <2>3. MaxCommission \in 0 .. MaxCommission
    BY PoSAssumption
  <2> QED
    BY <1>10, <1>12, <1>13, <1>14, <2>1, <2>2, <2>3 DEF StakesSound
<1>16. ASSUME NEW a \in Address
       PROVE  LockedOf(l, a, "pos") * Q >= (Staked(app, a) + Unlocking(app, a)) * Q + Owed(app, a)
  <2>1. LockedOf(l, a, "pos") = 0
    <3>1. <<a, KLY>> \in Accounts
      BY DEF Accounts
    <3> QED
      BY <1>1, <1>4, <3>1, LockModulesOK DEF LockedOf
  <2>2. 0 * Q >= (0 + 0) * Q + 0
    BY <1>3
  <2> QED
    BY <1>14, <2>1, <2>2
<1>17. Covered(app)
  BY <1>16 DEF Covered
<1> QED
  BY <1>9, <1>15, <1>17 DEF Books

\* What can be claimed, each claim rounded down, is at most what is owed.
LEMMA ClaimableOK ==
    ASSUME NEW s, StakesSound(s), NEW b \in Address
    PROVE  Claimable(s, b) \in Nat /\ Claimable(s, b) * Q <= Owed(s, b)
<1> DEFINE claims(stakes) == IF b \in DOMAIN stakes
                             THEN calculateStakeRewards(stakes[b], s.validators[b]) ELSE 0
           f == [a \in Address |-> IF a = b THEN 0 ELSE claims(getOrDefault(s, a).stakes)]
           h == [a \in Address |-> Due(s, a, b)]
           r == [a \in Address |-> h[a] - Q * f[a]]
<1>1. Claimable(s, b) = SumFunction(f) /\ Owed(s, b) = SumFunction(h)
  BY DEF Claimable, Owed
<1>2. Q \in Nat \ {0}
  BY PoSAssumption
<1>3. ASSUME NEW a \in Address
      PROVE  f[a] \in Nat /\ h[a] \in Nat /\ r[a] \in Nat /\ h[a] = r[a] + Q * f[a]
  <2> DEFINE D == Due(s, a, b)
  <2>1. D \in Nat
    BY AmountsOK
  <2>2. f[a] = D \div Q
    <3> DEFINE stakes == getOrDefault(s, a).stakes
    <3>1. CASE a # b /\ b \in DOMAIN stakes
      BY <3>1 DEF Due, calculateStakeRewards
    <3>2. CASE ~(a # b /\ b \in DOMAIN stakes)
      <4>1. D = 0 /\ f[a] = 0
        BY <3>2 DEF Due
      <4>2. 0 \div Q = 0
        BY <1>2
      <4> QED
        BY <4>1, <4>2
    <3> QED
      BY <3>1, <3>2
  <2>3. h[a] = D /\ r[a] = h[a] - Q * f[a]
    OBVIOUS
  <2> HIDE DEF D, f, h, r
  <2> DEFINE e == f[a]
  <2>4. e \in Nat /\ Q * e <= D /\ Q * e \in Int /\ e = D \div Q
    BY <1>2, <2>1, <2>2
  <2> HIDE DEF e
  <2>5. r[a] = D - Q * e
    BY <2>3 DEF e
  <2>6. r[a] \in Nat /\ h[a] = r[a] + Q * e
    BY <2>1, <2>3, <2>4, <2>5
  <2> QED
    BY <2>1, <2>3, <2>4, <2>6 DEF e
<1>4. DOMAIN f = Address /\ DOMAIN h = Address /\ DOMAIN r = Address
  OBVIOUS
<1> HIDE DEF f, h, r
<1>5. SumFunction(f) \in Nat /\ SumFunction(r) \in Nat
  BY <1>3, <1>4, AddressFinite, SumOfNaturals
<1>6. SumFunction(h) = SumFunction(r) + Q * SumFunction(f)
  <2>1. \A a \in Address : r[a] \in Int /\ f[a] \in Int /\ h[a] = r[a] + Q * f[a]
    BY <1>3
  <2> QED
    BY <1>2, <1>4, <2>1, AddressFinite, SumLinear
<1> DEFINE x == SumFunction(f)
           y == SumFunction(r)
<1>7. x \in Nat /\ y \in Nat /\ Owed(s, b) = y + Q * x /\ Claimable(s, b) = x
  BY <1>1, <1>5, <1>6
<1> HIDE DEF x, y
<1>8. x * Q <= y + Q * x
  BY <1>2, <1>7
<1> QED
  BY <1>7, <1>8

\* What sound books say of the stores.
LEMMA BooksSay ==
    ASSUME Books(app)
    PROVE  TypeOK /\ StakesAgree /\ TokensExact
<1>1. StakesSound(app) /\ Covered(app) /\ Exact(app.ledger) /\ LedgerOK(app.ledger)
  BY DEF Books, Exact
<1>2. StakesAgree
  BY <1>1 DEF StakesAgree, StakesSound
<1>3. SupplyExact
  BY <1>1 DEF SupplyExact, Exact
<1>4. LockedCovers
  <2> SUFFICES ASSUME NEW a \in Address
               PROVE  getLockedAmount(app.ledger, a, "pos", KLY) >=
                          Staked(app, a) + Unlocking(app, a) + Claimable(app, a)
    BY DEF LockedCovers
  <2> DEFINE L == LockedOf(app.ledger, a, "pos")
             P == Staked(app, a) + Unlocking(app, a)
             C == Claimable(app, a)
             O == Owed(app, a)
  <2>1. L \in Nat /\ getLockedAmount(app.ledger, a, "pos", KLY) = L
    BY <1>1, LockModulesOK, AccountOK
  <2>2. P \in Nat /\ O \in Nat
    BY <1>1, SumsOK
  <2>3. C \in Nat /\ C * Q <= O
    BY <1>1, ClaimableOK
  <2>4. L * Q >= P * Q + O
    BY <1>1 DEF Covered
  <2>5. Q \in Nat \ {0}
    BY PoSAssumption
  <2> HIDE DEF L, P, C, O
  <2>6. ~(L < P + C)
    <3> SUFFICES ASSUME L + 1 <= P + C PROVE FALSE
      BY <2>1, <2>2, <2>3
    <3>1. (L + 1) * Q <= (P + C) * Q
      BY <2>1, <2>2, <2>3, <2>5
    <3>2. (L + 1) * Q = L * Q + Q /\ (P + C) * Q = P * Q + C * Q
          /\ L * Q \in Int /\ P * Q \in Int /\ C * Q \in Int
      BY <2>1, <2>2, <2>3, <2>5
    <3> QED
      BY <2>2, <2>3, <2>4, <2>5, <3>1, <3>2
  <2>7. L >= P + C
    BY <2>1, <2>2, <2>3, <2>6
  <2> QED
    BY <2>1, <2>7 DEF P, C
<1>5. TypeOK
  <2>1. \A k \in DOMAIN app.ledger.users :
            app.ledger.users[k] \in [available : Nat, locked : [LockModules -> Nat]]
    BY <1>1 DEF LedgerOK, AccountType
  <2>2. app.ledger.supply[KLY] \in Nat
    BY <1>1, TotalUnfolded DEF Exact
  <2>3. DOMAIN app.validators \subseteq Address /\ DOMAIN app.stakers \subseteq Address
    BY <1>1 DEF StakesSound
  <2>4. ASSUME NEW a \in DOMAIN app.validators
        PROVE  app.validators[a].self \in 0 .. app.validators[a].total
    <3>1. /\ app.validators[a].total = Received(app, a) /\ app.validators[a].self = StakeOf(app, a, a)
          /\ a \in Address
      BY <1>1 DEF StakesSound
    <3>2. Received(app, a) \in Nat /\ StakeOf(app, a, a) \in Nat /\ StakeOf(app, a, a) <= Received(app, a)
      BY <1>1, <3>1, SumsOK, AmountsOK
    <3> QED
      BY <3>1, <3>2
  <2>5. ASSUME NEW a \in DOMAIN app.stakers
        PROVE  /\ DOMAIN app.stakers[a].stakes \subseteq DOMAIN app.validators
               /\ app.stakers[a].unlocks \in [DOMAIN app.stakers[a].unlocks -> Nat \ {0}]
    <3>1. StakerOK(getOrDefault(app, a), app.validators) /\ getOrDefault(app, a) = app.stakers[a]
      BY <1>1 DEF StakesSound, getOrDefault
    <3> QED
      BY <3>1 DEF StakerOK
  <2> QED
    BY <2>1, <2>2, <2>3, <2>4, <2>5 DEF TypeOK
<1> QED
  BY <1>2, <1>3, <1>4, <1>5 DEF TokensExact

(* --------------------- transactions and the books ---------------------- *)

\* What a command does to the books.
CommandBooks(r, s) == r.paid \in {0, RegistrationFee} /\ (r.ok => KeepsBooks(s, r.s))

\* A step from kept books keeps them.
LEMMA BooksTransitive ==
    ASSUME NEW s, NEW r, NEW t, KeepsBooks(s, r), KeepsBooks(r, t)
    PROVE  KeepsBooks(s, t)
  BY DEF KeepsBooks, SameFees

\* A stake transaction.
LEMMA StakeBooks ==
    ASSUME NEW s, NEW h, AppOK(s, h), NEW a \in Address, NEW stakes, IsFiniteSet(DOMAIN stakes),
           \A b \in DOMAIN stakes : stakes[b] \in Int, NEW order \in SetToSeqs(DOMAIN stakes)
    PROVE  CommandBooks(stake(s, a, stakes, order), s)
<1> DEFINE n == Cardinality(DOMAIN stakes)
<1>0. PICK after : StakeSteps(s, a, stakes, order, after)
  BY StakeUnfolded
<1>1. /\ stake(s, a, stakes, order) = after[n] /\ after[0] = Done(s)
      /\ \A i \in 1 .. n : after[i] = stakeNext(after[i - 1], a, order[i], stakes[order[i]])
  BY <1>0 DEF StakeSteps
<1>2. n \in Nat /\ \A i \in 1 .. n : stakes[order[i]] \in Int
  BY <1>0 DEF StakeSteps
<1> HIDE DEF n
<1> DEFINE good == {i \in Nat : after[i].paid = 0
                                /\ (after[i].ok => AppOK(after[i].s, h) /\ KeepsBooks(s, after[i].s))}
<1>3. 0 \in good
  BY <1>1 DEF KeepsBooks, SameFees, Done
<1>4. ASSUME NEW i \in 1 .. n, i - 1 \in good PROVE i \in good
  <2> DEFINE r == after[i - 1]
  <2>1. r.paid = 0 /\ (r.ok => AppOK(r.s, h) /\ KeepsBooks(s, r.s))
    BY <1>4
  <2>2. after[i] = IF r.ok THEN stakeOn(r.s, a, order[i], stakes[order[i]]) ELSE r
    BY <1>1 DEF stakeNext
  <2> HIDE DEF r
  <2>3. CASE ~r.ok
    BY <2>1, <2>2, <2>3
  <2>4. CASE r.ok
    <3>1. after[i].paid = 0
      BY <2>2, <2>4 DEF stakeOn, Done, Throw
    <3>2. ASSUME after[i].ok PROVE AppOK(after[i].s, h) /\ KeepsBooks(r.s, after[i].s)
      BY <1>2, <2>1, <2>2, <2>4, <3>2, StakeOnKeeps, StakeOnBooks DEF Keeps
    <3> QED
      BY <2>1, <2>4, <3>1, <3>2, BooksTransitive
  <2> QED
    BY <2>3, <2>4
<1> HIDE DEF good
<1>5. n \in good
  BY <1>2, <1>3, <1>4, StepsKeep
<1> QED
  BY <1>1, <1>5 DEF good, CommandBooks

\* A claim of rewards: every claim leaves the stakes of a where they are.
LEMMA ClaimBooks ==
    ASSUME NEW s, NEW h, AppOK(s, h), NEW a \in Address
    PROVE  CommandBooks(claimRewards(s, a), s)
<1>0. CASE a \notin DOMAIN s.stakers
  BY <1>0 DEF claimRewards, Throw, CommandBooks
<1>1. CASE a \in DOMAIN s.stakers
  <2> DEFINE staked == DOMAIN s.stakers[a].stakes
             n      == Cardinality(staked)
  <2>0. IsFiniteSet(staked)
    BY <1>1 DEF AppOK, StakersOK
  <2>1. PICK order, after : ClaimSteps(s, a, order, after)
    BY <1>1, <2>0, ClaimUnfolded
  <2>2. /\ claimRewards(s, a) = after[n] /\ after[0] = Done(s)
        /\ \A i \in 1 .. n : after[i] = claimNext(after[i - 1], a, order[i])
    BY <2>1 DEF ClaimSteps
  <2>3. n \in Nat /\ \A i \in 1 .. n : order[i] \in staked
    BY <2>1 DEF ClaimSteps
  <2> HIDE DEF n
  <2> DEFINE fine(r) == /\ a \in DOMAIN r.s.stakers /\ DOMAIN r.s.stakers[a].stakes = staked
                        /\ AppOK(r.s, h) /\ KeepsBooks(s, r.s)
             good == {i \in Nat : after[i].paid = 0 /\ (after[i].ok => fine(after[i]))}
  <2>4. 0 \in good
    BY <1>1, <2>2 DEF KeepsBooks, SameFees, Done
  <2> HIDE DEF staked
  <2>5. ASSUME NEW i \in 1 .. n, i - 1 \in good PROVE i \in good
    <3> DEFINE r == after[i - 1]
               b == order[i]
    <3>1. r.paid = 0 /\ (r.ok => fine(r))
      BY <2>5
    <3>2. after[i] = IF r.ok THEN claimFrom(r.s, a, b) ELSE r
      BY <2>2 DEF claimNext
    <3>3. b \in staked
      BY <2>3
    <3> HIDE DEF r, b
    <3>4. CASE ~r.ok
      BY <3>1, <3>2, <3>4
    <3>5. CASE r.ok
      <4>1. after[i].paid = 0
        BY <3>2, <3>5 DEF claimFrom, Done, Throw
      <4>2. ASSUME after[i].ok PROVE AppOK(after[i].s, h) /\ KeepsBooks(r.s, after[i].s)
        BY <3>1, <3>2, <3>3, <3>5, <4>2, ClaimFromKeeps, ClaimFromBooks DEF Keeps
      <4>3. ASSUME after[i].ok
            PROVE  /\ a \in DOMAIN after[i].s.stakers
                   /\ DOMAIN after[i].s.stakers[a].stakes = staked
        <5> DEFINE c == r.s.validators[b].coefficient
        <5>1. after[i].s.stakers = [r.s.stakers EXCEPT ![a].stakes[b].coefficient = c]
          BY <3>1, <3>2, <3>5, <4>3 DEF claimFrom, Done, Throw, AppOK, AppFields
        <5> HIDE DEF c
        <5> QED
          BY <3>1, <3>5, <5>1, SMTT(60) DEF AppOK, StakersOK
      <4>4. ASSUME after[i].ok PROVE fine(after[i])
        BY <3>1, <3>5, <4>2, <4>3, <4>4, BooksTransitive
      <4> QED
        BY <4>1, <4>4
    <3> QED
      BY <3>4, <3>5
  <2> HIDE DEF good
  <2>6. n \in good
    BY <2>3, <2>4, <2>5, StepsKeep
  <2> QED
    BY <2>2, <2>6 DEF good, CommandBooks
<1> QED
  BY <1>0, <1>1

\* The other commands.
LEMMA OtherCommandsBooks ==
    ASSUME NEW s, AppOK(s, block.height), NEW a \in Address
    PROVE  /\ \A certified : CommandBooks(unlockStakes(s, a, certified), s)
           /\ \A b : verifyReport(s, b) => CommandBooks(reportMisbehavior(s, a, b), s)
           /\ \A name : verifyRegistration(s, a, name) => CommandBooks(registerValidator(s, a, name), s)
           /\ \A c \in Commissions : verifyCommission(s, a, c) => CommandBooks(changeCommission(s, a, c), s)
<1>1. ASSUME NEW certified PROVE CommandBooks(unlockStakes(s, a, certified), s)
  <2>1. unlockStakes(s, a, certified).paid = 0
    BY DEF unlockStakes, Done, Throw
  <2> QED
    BY <2>1, UnlockBooks DEF CommandBooks
<1>2. ASSUME NEW b, verifyReport(s, b) PROVE CommandBooks(reportMisbehavior(s, a, b), s)
  <2>1. reportMisbehavior(s, a, b).paid = 0
    BY DEF reportMisbehavior, Done, Throw
  <2> QED
    BY <1>2, <2>1, ReportBooks DEF CommandBooks, verifyReport
<1>3. ASSUME NEW name, verifyRegistration(s, a, name)
      PROVE  CommandBooks(registerValidator(s, a, name), s)
  <2>1. registerValidator(s, a, name).paid = RegistrationFee
    BY DEF registerValidator, Done
  <2> QED
    BY <1>3, <2>1, RegisterBooks DEF CommandBooks, verifyRegistration
<1>4. ASSUME NEW c \in Commissions, verifyCommission(s, a, c)
      PROVE  CommandBooks(changeCommission(s, a, c), s)
  <2>1. changeCommission(s, a, c).paid = 0
    BY DEF changeCommission, Done
  <2>2. c \in 0 .. MaxCommission
    BY PoSAssumption
  <2> QED
    BY <1>4, <2>1, <2>2, CommissionBooks DEF CommandBooks, verifyCommission
<1> QED
  BY <1>1, <1>2, <1>3, <1>4

\* The books are kept and the slot of the block is a number.
BooksInv == Books(app) /\ block.slot \in Nat

\* A transaction whose command keeps the books.
LEMMA TransactionBooks ==
    ASSUME IInv, BooksInv, NEW a \in Address, NEW r, CommandOK(r, feeLocked(a)),
           CommandBooks(r, feeLocked(a)), executeTransaction(a, r)
    PROVE  BooksInv'
<1> DEFINE s == IF r.ok THEN r.s ELSE feeLocked(a)
<1>1. spendable(app.ledger, a, KLY, TxFee) /\ Books(app)
  BY DEF executeTransaction, BooksInv
<1>2. /\ Books(feeLocked(a)) /\ LockedOf(feeLocked(a).ledger, a, "fee") >= TxFee
      /\ AppOK(feeLocked(a), block.height)
  BY <1>1, FeeLockedBooks, FeeLockedOK
<1>3. AppOK(s, block.height) /\ Books(s) /\ LockedOf(s.ledger, a, "fee") >= TxFee
  <2>1. CASE r.ok
    BY <1>2, <2>1 DEF CommandOK, CommandBooks, KeepsBooks, SameFees
  <2>2. CASE ~r.ok
    BY <1>2, <2>2
  <2> QED
    BY <2>1, <2>2
<1>4. app' = feeProcessed(s, a, r.paid) /\ block' = [block EXCEPT !.transactions = @ + 1]
  BY DEF executeTransaction
<1> HIDE DEF s
<1>5. Books(app')
  BY <1>3, <1>4, FeeProcessedBooks DEF CommandBooks
<1>6. block'.slot = block.slot
  BY <1>4 DEF IInv
<1> QED
  BY <1>5, <1>6 DEF BooksInv

\* The end of a block.
LEMMA EndBlockBooks ==
    ASSUME IInv, ParamsOK, BooksInv, NEW reduction \in Reductions, NEW gap \in Gaps,
           EndBlock(reduction, gap)
    PROVE  BooksInv'
<1> DEFINE s == updateProductivity(app)
<1>1. AppOK(s, block.height) /\ DOMAIN s.validators = DOMAIN app.validators
  BY ProductivityOK DEF IInv
<1>2. Books(s)
  BY ProductivityBooks DEF IInv, BooksInv
<1>3. app' = rewarded(s, reduction) /\ block'.slot = block.slot + gap
  BY DEF EndBlock
<1>4. reduction \in Nat /\ gap \in Nat
  BY PoSAssumption
<1> HIDE DEF s
<1>5. Books(app')
  BY <1>1, <1>2, <1>3, <1>4, RewardedBooks DEF BooksInv, ParamsOK
<1> QED
  BY <1>3, <1>4, <1>5 DEF BooksInv

\* Every step.
LEMMA BooksNext ==
    ASSUME IInv, ParamsOK, BooksInv, [Next]_vars
    PROVE  BooksInv'
<1>1. CASE UNCHANGED vars
  BY <1>1 DEF vars, BooksInv, Books, Exact, LedgerOK, UsersTotal, StakesSound, Covered
<1>0. block.height \in Nat /\ \A a : AppOK(feeLocked(a), block.height)
  BY FeeLockedOK DEF IInv
<1>2. ASSUME NEW a \in Address, NEW b \in SUBSET Address, NEW stakes \in [b -> Stakes], Stake(a, stakes)
      PROVE  BooksInv'
  <2>0. PICK order \in stakeOrders(stakes) :
            executeTransaction(a, stake(feeLocked(a), a, stakes, order))
    BY <1>2 DEF Stake
  <2> DEFINE r == stake(feeLocked(a), a, stakes, order)
  <2>1. /\ IsFiniteSet(DOMAIN stakes) /\ order \in SetToSeqs(DOMAIN stakes)
        /\ \A c \in DOMAIN stakes : stakes[c] \in Int
    BY PoSAssumption, FS_Subset DEF stakeOrders
  <2>2. CommandOK(r, feeLocked(a))
    BY <1>0, <2>1, StakeKeeps, KeepsOK
  <2>3. CommandBooks(r, feeLocked(a))
    BY <1>0, <2>1, StakeBooks
  <2>4. executeTransaction(a, r)
    BY <2>0
  <2> HIDE DEF r
  <2> QED
    BY <2>2, <2>3, <2>4, TransactionBooks
<1>3. ASSUME NEW a \in Address, ClaimRewards(a) PROVE BooksInv'
  <2> DEFINE r == claimRewards(feeLocked(a), a)
  <2>1. Keeps(r, feeLocked(a), block.height)
    <3>1. CASE a \in DOMAIN feeLocked(a).stakers
      BY <1>0, <3>1, ClaimKeeps
    <3>2. CASE a \notin DOMAIN feeLocked(a).stakers
      BY <3>2 DEF claimRewards, Throw, Keeps
    <3> QED
      BY <3>1, <3>2
  <2>2. CommandBooks(r, feeLocked(a))
    BY <1>0, ClaimBooks
  <2>3. executeTransaction(a, r)
    BY <1>3 DEF ClaimRewards
  <2> HIDE DEF r
  <2> QED
    BY <1>0, <2>1, <2>2, <2>3, KeepsOK, TransactionBooks
<1>4. ASSUME NEW a \in Address, NEW certified, Unlock(a, certified) PROVE BooksInv'
  <2> DEFINE r == unlockStakes(feeLocked(a), a, certified)
  <2>1. CommandOK(r, feeLocked(a)) /\ CommandBooks(r, feeLocked(a))
    BY <1>0, UnlockOK, OtherCommandsBooks
  <2>2. executeTransaction(a, r)
    BY <1>4 DEF Unlock
  <2> HIDE DEF r
  <2> QED
    BY <2>1, <2>2, TransactionBooks
<1>5. ASSUME NEW a \in Address, NEW b \in Address, ReportMisbehavior(a, b) PROVE BooksInv'
  <2> DEFINE r == reportMisbehavior(feeLocked(a), a, b)
  <2>1. verifyReport(feeLocked(a), b)
    BY <1>5, FeeLockedOK DEF ReportMisbehavior, verifyReport
  <2>2. CommandOK(r, feeLocked(a)) /\ CommandBooks(r, feeLocked(a))
    BY <1>0, <2>1, ReportOK, OtherCommandsBooks
  <2>3. executeTransaction(a, r)
    BY <1>5 DEF ReportMisbehavior
  <2> HIDE DEF r
  <2> QED
    BY <2>2, <2>3, TransactionBooks
<1>6. ASSUME NEW a \in Address, NEW name \in Names, RegisterValidator(a, name) PROVE BooksInv'
  <2> DEFINE r == registerValidator(feeLocked(a), a, name)
  <2>1. verifyRegistration(feeLocked(a), a, name)
    BY <1>6, FeeLockedOK DEF RegisterValidator, verifyRegistration
  <2>2. CommandOK(r, feeLocked(a)) /\ CommandBooks(r, feeLocked(a))
    BY <1>0, <2>1, RegisterOK, OtherCommandsBooks
  <2>3. executeTransaction(a, r)
    BY <1>6 DEF RegisterValidator
  <2> HIDE DEF r
  <2> QED
    BY <2>2, <2>3, TransactionBooks
<1>7. ASSUME NEW a \in Address, NEW c \in Commissions, ChangeCommission(a, c) PROVE BooksInv'
  <2> DEFINE r == changeCommission(feeLocked(a), a, c)
  <2>1. verifyCommission(feeLocked(a), a, c)
    BY <1>7, FeeLockedOK DEF ChangeCommission, verifyCommission
  <2>2. CommandOK(r, feeLocked(a)) /\ CommandBooks(r, feeLocked(a))
    BY <1>0, <2>1, CommissionOK, OtherCommandsBooks
  <2>3. executeTransaction(a, r)
    BY <1>7 DEF ChangeCommission
  <2> HIDE DEF r
  <2> QED
    BY <2>2, <2>3, TransactionBooks
<1>8. ASSUME NEW b \in Address, UnbanValidator(b) PROVE BooksInv'
  <2>1. block' = block
    BY <1>8 DEF UnbanValidator
  <2> QED
    BY <1>8, <2>1, UnbanBooks DEF BooksInv, IInv
<1> QED
  BY <1>1, <1>2, <1>3, <1>4, <1>5, <1>6, <1>7, <1>8, EndBlockBooks, Zenon DEF Next

\* The books of the genesis block.
LEMMA BooksInit == Init => BooksInv
<1>1. Init => block.slot \in Nat
  BY PoSAssumption DEF Init
<1> QED
  BY <1>1, InitBooks DEF BooksInv

(* ------------------------------ the theorems --------------------------- *)

\* The inductive invariant.
LEMMA Invariance == Spec => []IInv
<1>1. IInv /\ [Next]_vars => IInv'
  BY NextOK DEF StepOK
<1> QED
  BY <1>1, InitOK, PTL DEF Spec

\* The eligible validators of the store are exactly the validators that are not
\* banned and have the minimum weight, each under one key, with its last report:
\* stakes, punishments, bans, their end and missed blocks all keep the store up to date.
LEMMA EligibleValidatorsAreExact == Spec => []EligibleExact
<1>1. IInv => EligibleExact
  BY DEF IInv, AppOK, EligibleIs, EligibleExact, Keys, Listed
<1> QED
  BY <1>1, Invariance, PTL

\* A stake that is locked when its validator is reported is released no earlier than
\* the punishment window after the validator's last report, and no earlier than a
\* self-stake window after any report before, though the unlock command looks at the
\* last report only: for every choice of the two windows.
THEOREM PunishedStakesStayLocked == Spec => PunishedStaysLocked
<1>1. IInv /\ [Next]_vars =>
          [\A a \in DOMAIN app.stakers : \A u \in DOMAIN app.stakers[a].unlocks :
              Copies(u, app'.stakers[a].unlocks) < Copies(u, app.stakers[a].unlocks) =>
                  Free(u, app.validators[u.validator].reports, a)]_vars
  BY NextOK, Zenon DEF StepOK, Releases
<1>2. IInv /\ [Next]_vars =>
          [\A a \in DOMAIN app.stakers : \A u \in DOMAIN app.stakers[a].unlocks :
              Copies(u, app'.stakers[a].unlocks) < Copies(u, app.stakers[a].unlocks) =>
                  LET reports == app.validators[u.validator].reports
                  IN  \A i \in DOMAIN reports :
                          reports[i] < u.height + WaitTime(a, u.validator) =>
                              \/ block.height >= reports[i] + PunishTime(a, u.validator)
                              \/ /\ i < Len(reports)
                                 /\ block.height >= reports[i] + PunishmentWindowSelf]_vars
  BY <1>1, Zenon DEF Free
<1> QED
  BY <1>2, Invariance, PTL DEF Spec, PunishedStaysLocked

\* Where the window of an ordinary stake is no longer than that of a self stake, as by
\* default, every report holds the unlock for its whole punishment window.
THEOREM EveryReportHolds ==
    ASSUME PunishmentWindow <= PunishmentWindowSelf
    PROVE  Spec =>
             [][\A a \in DOMAIN app.stakers : \A u \in DOMAIN app.stakers[a].unlocks :
                    Copies(u, app'.stakers[a].unlocks) < Copies(u, app.stakers[a].unlocks) =>
                        HeldByNoReport(a, u)]_vars
<1>1. IInv /\ [Next]_vars =>
          [\A a \in DOMAIN app.stakers : \A u \in DOMAIN app.stakers[a].unlocks :
              Copies(u, app'.stakers[a].unlocks) < Copies(u, app.stakers[a].unlocks) =>
                  HeldByNoReport(a, u)]_vars
  <2> SUFFICES ASSUME IInv, [Next]_vars,
                      NEW a \in DOMAIN app.stakers, NEW u \in DOMAIN app.stakers[a].unlocks,
                      Copies(u, app'.stakers[a].unlocks) < Copies(u, app.stakers[a].unlocks)
               PROVE  HeldByNoReport(a, u)
    OBVIOUS
  <2>0. Free(u, app.validators[u.validator].reports, a)
    BY NextOK, Zenon DEF StepOK, Releases
  <2> DEFINE reports == app.validators[u.validator].reports
  <2> SUFFICES ASSUME NEW h \in Range(reports), h < u.height + WaitTime(a, u.validator)
               PROVE  block.height >= h + PunishTime(a, u.validator)
    BY DEF HeldByNoReport
  <2>1. u.validator \in DOMAIN app.validators /\ block.height \in Nat
    BY DEF IInv, AppOK, StakersOK, UnlocksOK
  <2>2. reports \in Seq(Nat)
    BY <2>1 DEF IInv, AppOK, ValidatorsOK, ValidatorOK, ReportsOK
  <2>3. PICK i \in DOMAIN reports : h = reports[i]
    BY DEF Range
  <2>4. h \in Nat
    BY <2>2, <2>3
  <2>5. /\ PunishTime(a, u.validator) \in Nat /\ PunishmentWindowSelf \in Nat
        /\ PunishTime(a, u.validator) <= PunishmentWindowSelf
    BY PoSAssumption DEF PunishTime
  <2>6. \/ block.height >= h + PunishTime(a, u.validator)
        \/ block.height >= h + PunishmentWindowSelf
    BY <2>0, <2>3 DEF Free
  <2> QED
    BY <2>1, <2>4, <2>5, <2>6
<1> QED
  BY <1>1, Invariance, PTL DEF Spec

\* At the end of every round past the first ones the snapshot that the next validators
\* are chosen from is there, and the validators of the round are registered, distinct
\* and able to reach the threshold: capping the weights, the fall back to the initial
\* validators, standby validators, bans and skipped rounds never leave a list that the
\* validators module would refuse.
THEOREM RoundsAreSound == Spec => []RoundsSound
<1>1. IInv /\ RoundsInv /\ [Next]_vars => RoundsInv'
  BY RoundsNext
<1>2. IInv /\ RoundsInv => RoundsSound
  <2> SUFFICES ASSUME IInv, RoundsInv PROVE RoundsSound
    OBVIOUS
  <2>1. UpdatesValidators => Round(block.height) + 1 \in DOMAIN snapshotsAfter(app)
    BY NextSnapshotThere DEF IInv, RoundsInv
  <2>2. ListOK(params, DOMAIN app.validators, 0) /\ HasWeight(params)
    BY DEF RoundsInv, ParamsOK
  <2>3. /\ Addresses(params) \subseteq DOMAIN app.validators
        /\ Cardinality(Addresses(params)) = Len(params)
    BY <2>2, AddressesCounted
  <2>4. Threshold(params) <= TotalWeight(params)
    BY <2>2, ThresholdWithin
  <2> QED
    BY <2>1, <2>3, <2>4 DEF RoundsSound
<1> QED
  BY <1>1, <1>2, RoundsInit, Invariance, PTL DEF Spec

\* The books are kept for ever.
LEMMA BooksAlways == Spec => []BooksInv
<1>1. IInv /\ RoundsInv /\ [Next]_vars => RoundsInv'
  BY RoundsNext
<1>2. IInv /\ RoundsInv /\ BooksInv /\ [Next]_vars => BooksInv'
  BY BooksNext DEF RoundsInv
<1> QED
  BY <1>1, <1>2, RoundsInit, BooksInit, Invariance, PTL DEF Spec

\* The redundant stores never disagree: what a validator's account says of the stakes it
\* received is the sum of what the stakers' accounts say, its self stake is its own
\* entry, the eligible validators are exact, and no balance, stake or weight is negative,
\* through upstakes, downstakes, claims, punishments, bans and failed commands.
THEOREM StoresAlwaysAgree == Spec => []StoresAgree
<1>1. BooksInv /\ EligibleExact => StoresAgree
  BY BooksSay DEF BooksInv, StoresAgree
<1> QED
  BY <1>1, BooksAlways, EligibleValidatorsAreExact, PTL

\* No token appears, disappears or is promised twice: what the pos module has locked of
\* an account covers its stakes, its pending unlocks and the rewards that others can
\* claim from it, however the coefficients and the shares were rounded, and the recorded
\* supply is what the accounts hold, through fees, burns and rewards.
THEOREM TokensAreExact == Spec => []TokensExact
<1>1. BooksInv => TokensExact
  BY BooksSay DEF BooksInv
<1> QED
  BY <1>1, BooksAlways, PTL
============================================================================
