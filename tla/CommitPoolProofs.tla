-------------------------- MODULE CommitPoolProofs --------------------------
(***************************************************************************)
(* Theorems about CommitPool, for every set of validators, every history   *)
(* of BFT parameters and every bound: the own commits that are still       *)
(* needed are never lost, and the aggregate commit of an own block passes  *)
(* verification.                                                           *)
(***************************************************************************)
EXTENDS CommitPool, TLAPS, FiniteSetTheorems, WellFoundedInduction

(* ------------------------- the inductive invariant --------------------- *)

BlockType == [id : Ids, precommitted : Nat, certified : Nat]

\* The block at height h of a chain c, and the height up to which commits are
\* removed when it is final up to height f.
BlockIn(c, h) == IF h = 0 THEN Genesis ELSE c[h]
Removal(c, f) == Max({BlockIn(c, f).certified, MinCertifyHeight - 1})

\* A chain is well formed and the certified heights never fall along it; no block of
\* it makes a block final above the finalized height f.
Fits(c, f) ==
    /\ c \in Seq(BlockType)
    /\ f \in Nat /\ f <= Len(c)
    /\ \A h \in 0 .. Len(c) : BlockIn(c, h).precommitted <= f
    /\ \A h \in 0 .. Len(c), i \in 0 .. Len(c) :
           h <= i => BlockIn(c, h).certified <= BlockIn(c, i).certified

ChainOK == Fits(chain, finalized)

TasksOK == \A t \in tasks : t.from \in Nat /\ t.to \in Nat

Phases == {"idle", "received", "local", "gossiped", "select"}

\* What the job remembers is behind what is certified now.
JobOK ==
    /\ job \in [phase : Phases, removal : Int, precommitted : Int, current : Int]
    /\ job.phase # "idle" => job.removal <= Removal(chain, finalized)

\* The parameters of a height, whatever the chain is, once they exist.
ParametersAt(h) == Parameters[Max({k \in DOMAIN Parameters : k <= h})]

\* The validators that sign for height h, the last one before new parameters.
Signs(v, h) == h + 1 \in DOMAIN Parameters /\ v \in DOMAIN ParametersAt(h).weights

\* A commit of v for the block at height h is needed: v was enabled in time, and the
\* block is final and not certified yet.
Needed(v, h) ==
    /\ v \in keys \ missed /\ Signs(v, h)
    /\ h \in Nat /\ h > 0 /\ h > Removal(chain, finalized) /\ h <= finalized

CommitIn(c, v, h) == [height |-> h, id |-> BlockIn(c, h).id, validator |-> v]

\* A change of the finalized height that is still to be handled will sign for h.
Pending(h) == \E t \in tasks : t.from < h /\ h <= t.to

\* A commit that is needed is in the pool, or will be signed.
Covered ==
    \A v \in keys, h \in Nat : Needed(v, h) => CommitIn(chain, v, h) \in All \/ Pending(h)

IInv == ChainOK /\ TasksOK /\ JobOK /\ Covered

(* --------------------------- numbers and sets -------------------------- *)

\* The larger of two integers.
LEMMA MaxOfTwo ==
    ASSUME NEW m, NEW n, m \in Int, n \in Int
    PROVE  /\ Max({m, n}) \in Int /\ Max({m, n}) >= m /\ Max({m, n}) >= n
           /\ (Max({m, n}) = m \/ Max({m, n}) = n)
<1>1. \E x \in {m, n} : \A y \in {m, n} : x >= y
  OBVIOUS
<1> QED
  BY <1>1 DEF Max

\* The smaller of two integers.
LEMMA MinOfTwo ==
    ASSUME NEW m, NEW n, m \in Int, n \in Int
    PROVE  Min({m, n}) \in Int /\ Min({m, n}) <= m /\ Min({m, n}) <= n
<1>1. \E x \in {m, n} : \A y \in {m, n} : x <= y
  OBVIOUS
<1> QED
  BY <1>1 DEF Min

\* A nonempty set of naturals has a least element.
LEMMA LeastNatural ==
    ASSUME NEW S \in SUBSET Nat, S # {}
    PROVE  \E m \in S : \A n \in S : m <= n
<1> DEFINE R == {ss \in Nat \X Nat : ss[1] < ss[2]}
<1>1. IsWellFoundedOn(R, Nat)
  BY NatLessThanWellFounded, Zenon DEF OpToRel
<1> HIDE DEF R
<1>2. \E x \in S : \A y \in S : <<y, x>> \notin R
  BY <1>1, WFMin, Zenon
<1>3. \A x \in Nat, y \in Nat : <<y, x>> \notin R => x <= y
  BY DEF R
<1> QED
  BY <1>2, <1>3

\* It is what Min denotes.
LEMMA MinOfNaturals ==
    ASSUME NEW S \in SUBSET Nat, S # {}
    PROVE  Min(S) \in S /\ \A n \in S : Min(S) <= n
  BY LeastNatural DEF Min

\* A nonempty bounded set of naturals has a greatest element, and Max denotes it.
LEMMA MaxOfBounded ==
    ASSUME NEW S \in SUBSET Nat, S # {}, NEW m \in Nat, \A n \in S : n <= m
    PROVE  Max(S) \in S /\ \A n \in S : n <= Max(S)
<1> DEFINE D == {m - n : n \in S}
<1>1. D \in SUBSET Nat /\ D # {}
  <2>1. \A n \in S : m - n \in Nat
    OBVIOUS
  <2>2. \A d \in D : d \in Nat
    BY <2>1
  <2> QED
    BY <2>2
<1>2. Min(D) \in D /\ \A d \in D : Min(D) <= d
  BY <1>1, MinOfNaturals
<1>3. PICK n \in S : Min(D) = m - n
  BY <1>2
<1>4. \A k \in S : m - n <= m - k
  BY <1>2, <1>3
<1>5. \E x \in S : \A y \in S : x >= y
  BY <1>4
<1> QED
  BY <1>5 DEF Max

\* The first n elements of a sequence.
LEMMA Prefix ==
    ASSUME NEW S, NEW s \in Seq(S), NEW n \in 0 .. Len(s)
    PROVE  /\ SubSeq(s, 1, n) \in Seq(S) /\ Len(SubSeq(s, 1, n)) = n
           /\ \A i \in 1 .. n : SubSeq(s, 1, n)[i] = s[i]
  OBVIOUS

(* --------------------------------- sums -------------------------------- *)

\* What holds of the empty set and is kept when an element joins holds of every
\* finite set.
LEMMA FiniteSetsReached ==
    ASSUME NEW S, IsFiniteSet(S), NEW good, {} \in good,
           \A T \in SUBSET S : \A x \in S \ T : T \in good => T \cup {x} \in good
    PROVE  S \in good
<1> DEFINE bad == {n \in Nat : \E T \in SUBSET S : Cardinality(T) = n /\ T \notin good}
<1> SUFFICES ASSUME S \notin good PROVE FALSE
  OBVIOUS
<1>1. Cardinality(S) \in bad
  BY FS_CardinalityType
<1>2. bad \in SUBSET Nat /\ bad # {}
  BY <1>1
<1> HIDE DEF bad
<1>3. PICK m \in bad : \A n \in bad : m <= n
  BY <1>2, LeastNatural
<1>4. PICK T \in SUBSET S : Cardinality(T) = m /\ T \notin good
  BY DEF bad
<1>5. IsFiniteSet(T) /\ T # {}
  BY <1>4, FS_Subset
<1>6. PICK x \in T : TRUE
  BY <1>5
<1> DEFINE U == T \ {x}
<1>7. IsFiniteSet(U) /\ Cardinality(U) = m - 1 /\ m \in Nat
  BY <1>2, <1>4, <1>5, FS_RemoveElement
<1>8. m - 1 \in Nat /\ U \in SUBSET S /\ x \in S \ U /\ U \cup {x} = T
  BY <1>7, FS_CardinalityType
<1>9. m - 1 \notin bad
  BY <1>3, <1>7, <1>8
<1>10. U \in good
  BY <1>7, <1>8, <1>9 DEF bad
<1> QED
  BY <1>4, <1>8, <1>10

AnyOf(s) == CHOOSE x \in s : TRUE

\* g sums f over the sets of C, which are closed under taking an element out.
Sums(g, f, C) ==
    g = [s \in C |-> IF s = {} THEN 0 ELSE f[AnyOf(s)] + g[s \ {AnyOf(s)}]]

\* What SumFunction denotes.
LEMMA SumUnfolded ==
    ASSUME NEW f
    PROVE  SumFunction(f) = (CHOOSE g : Sums(g, f, SUBSET DOMAIN f))[DOMAIN f]
  BY DEF SumFunction, SumFunctionOnSet, FoldFunctionOnSet, MapThenFoldSet, Sums, AnyOf

\* The subsets of a finite set have sums.
LEMMA SumsExist ==
    ASSUME NEW f, NEW S, IsFiniteSet(S)
    PROVE  \E g : Sums(g, f, SUBSET S)
<1> DEFINE Small(n) == {s \in SUBSET S : Cardinality(s) <= n}
           bad == {n \in Nat : ~\E g : Sums(g, f, Small(n))}
<1>1. \A s \in SUBSET S : IsFiniteSet(s) /\ Cardinality(s) \in Nat /\ Cardinality(s) <= Cardinality(S)
  BY FS_Subset, FS_CardinalityType
<1>2. Cardinality(S) \in Nat /\ Small(Cardinality(S)) = SUBSET S
  BY <1>1
<1>3. \A s \in SUBSET S : s # {} =>
          /\ AnyOf(s) \in s /\ s \ {AnyOf(s)} \in SUBSET S
          /\ Cardinality(s \ {AnyOf(s)}) = Cardinality(s) - 1
  <2> TAKE s \in SUBSET S
  <2> HAVE s # {}
  <2>1. AnyOf(s) \in s
    BY DEF AnyOf
  <2> QED
    BY <2>1, <1>1, FS_RemoveElement
<1>4. bad = {}
  <2> SUFFICES ASSUME bad # {} PROVE FALSE
    OBVIOUS
  <2>1. PICK m \in bad : \A n \in bad : m <= n
    <3>1. bad \in SUBSET Nat
      OBVIOUS
    <3> HIDE DEF bad
    <3> QED
      BY <3>1, LeastNatural
  <2>2. m \in Nat /\ ~\E g : Sums(g, f, Small(m))
    BY <2>1
  <2>3. m # 0
    <3> SUFFICES ASSUME m = 0 PROVE FALSE
      OBVIOUS
    <3>1. \A s \in Small(0) : s = {}
      BY <1>1, FS_EmptySet
    <3>2. Sums([s \in Small(0) |-> 0], f, Small(0))
      BY <3>1 DEF Sums
    <3> QED
      BY <3>2, <2>2
  <2>4. m - 1 \in Nat /\ m - 1 \notin bad
    <3>1. m - 1 \in Nat /\ ~(m <= m - 1)
      BY <2>2, <2>3
    <3> HIDE DEF bad
    <3> QED
      BY <3>1, <2>1
  <2>5. PICK g : Sums(g, f, Small(m - 1))
    BY <2>4
  <2> DEFINE h == [s \in Small(m) |-> IF s = {} THEN 0
                     ELSE f[AnyOf(s)] + g[s \ {AnyOf(s)}]]
  <2>6. \A s \in Small(m - 1) : s \in Small(m) /\ h[s] = g[s]
    <3> TAKE s \in Small(m - 1)
    <3>1. s \in Small(m)
      BY <1>1, <2>2
    <3>2. g[s] = IF s = {} THEN 0 ELSE f[AnyOf(s)] + g[s \ {AnyOf(s)}]
      BY <2>5 DEF Sums
    <3> QED
      BY <3>1, <3>2
  <2>7. \A s \in Small(m) : s # {} => s \ {AnyOf(s)} \in Small(m - 1)
    BY <1>1, <1>3, <2>2
  <2>8. \A s \in Small(m) : h[s] = IF s = {} THEN 0 ELSE f[AnyOf(s)] + h[s \ {AnyOf(s)}]
    <3> TAKE s \in Small(m)
    <3>1. h[s] = IF s = {} THEN 0 ELSE f[AnyOf(s)] + g[s \ {AnyOf(s)}]
      OBVIOUS
    <3>2. s # {} => h[s \ {AnyOf(s)}] = g[s \ {AnyOf(s)}]
      BY <2>6, <2>7
    <3> HIDE DEF h
    <3> QED
      BY <3>1, <3>2
  <2>9. Sums(h, f, Small(m))
    <3>1. h = [s \in Small(m) |-> h[s]]
      OBVIOUS
    <3> HIDE DEF h, Small
    <3> QED
      BY <2>8, <3>1 DEF Sums
  <2> QED
    BY <2>9, <2>2
<1> QED
  BY <1>2, <1>4

\* The sum of s may begin with any of its elements.
AnyOrder(g, f, s) == \A x \in s : g[s] = f[x] + g[s \ {x}]

\* The order of the elements does not matter for a sum.
LEMMA SumsAnyOrder ==
    ASSUME NEW f, NEW S, IsFiniteSet(S), \A x \in S : f[x] \in Int,
           NEW g, Sums(g, f, SUBSET S)
    PROVE  \A s \in SUBSET S : g[s] \in Int /\ AnyOrder(g, f, s)
<1> DEFINE Typed(s) == g[s] \in Int
           Any(s)   == \A x \in s : g[s] = f[x] + g[s \ {x}]
           bad      == {n \in Nat : \E s \in SUBSET S : Cardinality(s) = n /\ ~(Typed(s) /\ Any(s))}
<1>1. \A s \in SUBSET S : IsFiniteSet(s) /\ Cardinality(s) \in Nat
  BY FS_Subset, FS_CardinalityType
<1>2. \A s \in SUBSET S : g[s] = IF s = {} THEN 0 ELSE f[AnyOf(s)] + g[s \ {AnyOf(s)}]
  BY DEF Sums
<1>3. bad = {}
  <2> SUFFICES ASSUME bad # {} PROVE FALSE
    OBVIOUS
  <2>1. PICK m \in bad : \A n \in bad : m <= n
    <3>1. bad \in SUBSET Nat
      OBVIOUS
    <3> HIDE DEF bad
    <3> QED
      BY <3>1, LeastNatural
  <2>2. PICK s \in SUBSET S : Cardinality(s) = m /\ ~(Typed(s) /\ Any(s))
    BY <2>1
  <2>3. \A t \in SUBSET S : Cardinality(t) < m => Typed(t) /\ Any(t)
    <3> TAKE t \in SUBSET S
    <3> HAVE Cardinality(t) < m
    <3>1. Cardinality(t) \notin bad /\ Cardinality(t) \in Nat
      BY <1>1, <2>1
    <3> HIDE DEF Typed, Any
    <3> QED
      BY <3>1
  <2>4. s # {}
    <3> SUFFICES ASSUME s = {} PROVE FALSE
      OBVIOUS
    <3>1. g[s] = 0 /\ Any(s)
      BY <1>2
    <3> QED
      BY <3>1, <2>2
  <2> DEFINE y == AnyOf(s)
  <2>5. y \in s
    BY <2>4 DEF AnyOf
  <2>6. g[s] = f[y] + g[s \ {y}]
    BY <1>2, <2>4
  <2> HIDE DEF y
  <2>7. \A x \in s : s \ {x} \in SUBSET S /\ Cardinality(s \ {x}) < m
    <3> TAKE x \in s
    <3>1. IsFiniteSet(s) /\ Cardinality(s \ {x}) = Cardinality(s) - 1
      BY <1>1, FS_RemoveElement
    <3> QED
      BY <3>1, <2>2, <1>1
  <2>8. \A x \in s : Typed(s \ {x}) /\ Any(s \ {x})
    <3> HIDE DEF Typed, Any
    <3> QED
      BY <2>3, <2>7
  <2>9. Typed(s)
    <3>1. f[y] \in Int /\ g[s \ {y}] \in Int
      BY <2>5, <2>8
    <3> QED
      BY <3>1, <2>6
  <2>10. ASSUME NEW x \in s
         PROVE  g[s] = f[x] + g[s \ {x}]
    <3>1. CASE x = y
      BY <3>1, <2>6
    <3>2. CASE x # y
      <4> DEFINE both == (s \ {x}) \ {y}
      <4>1. both = (s \ {y}) \ {x} /\ x \in s \ {y} /\ y \in s \ {x}
        BY <3>2, <2>5
      <4>2. g[s \ {y}] = f[x] + g[both]
        BY <4>1, <2>5, <2>8
      <4>3. g[s \ {x}] = f[y] + g[both]
        BY <4>1, <2>8
      <4>4. g[both] \in Int /\ f[x] \in Int /\ f[y] \in Int
        <5>1. Cardinality(both) < m /\ both \in SUBSET S
          <6>1. IsFiniteSet(s \ {x}) /\ Cardinality(both) = Cardinality(s \ {x}) - 1
            BY <4>1, <2>7, <1>1, FS_RemoveElement
          <6> QED
            BY <6>1, <2>7, <2>2, <1>1
        <5> QED
          BY <5>1, <2>3, <2>5
      <4> HIDE DEF both
      <4> QED
        BY <4>2, <4>3, <4>4, <2>6
    <3> QED
      BY <3>1, <3>2
  <2> QED
    BY <2>2, <2>9, <2>10
<1> HIDE DEF Typed, Any
<1>4. \A s \in SUBSET S : Typed(s) /\ Any(s)
  BY <1>1, <1>3
<1> QED
  BY <1>4 DEF Typed, Any, AnyOrder

\* Sums of functions that agree on the subsets of a set agree there.
LEMMA SumsAgree ==
    ASSUME NEW f, NEW g, NEW S, NEW h, NEW k, NEW T, IsFiniteSet(T), T \subseteq S,
           \A x \in T : f[x] = h[x], Sums(g, f, SUBSET S), Sums(k, h, SUBSET T)
    PROVE  g[T] = k[T]
<1> DEFINE bad == {n \in Nat : \E s \in SUBSET T : Cardinality(s) = n /\ g[s] # k[s]}
<1>1. \A s \in SUBSET T : IsFiniteSet(s) /\ Cardinality(s) \in Nat
  BY FS_Subset, FS_CardinalityType
<1>2. bad = {}
  <2> SUFFICES ASSUME bad # {} PROVE FALSE
    OBVIOUS
  <2>1. PICK m \in bad : \A n \in bad : m <= n
    <3>1. bad \in SUBSET Nat
      OBVIOUS
    <3> HIDE DEF bad
    <3> QED
      BY <3>1, LeastNatural
  <2>2. PICK s \in SUBSET T : Cardinality(s) = m /\ g[s] # k[s]
    BY <2>1
  <2>3. /\ g[s] = IF s = {} THEN 0 ELSE f[AnyOf(s)] + g[s \ {AnyOf(s)}]
        /\ k[s] = IF s = {} THEN 0 ELSE h[AnyOf(s)] + k[s \ {AnyOf(s)}]
    BY DEF Sums
  <2>4. s # {} /\ AnyOf(s) \in s
    BY <2>2, <2>3 DEF AnyOf
  <2>5. s \ {AnyOf(s)} \in SUBSET T /\ Cardinality(s \ {AnyOf(s)}) = m - 1 /\ m \in Nat
    BY <2>2, <2>4, <1>1, FS_RemoveElement
  <2>6. Cardinality(s \ {AnyOf(s)}) \notin bad /\ Cardinality(s \ {AnyOf(s)}) \in Nat
    <3>1. Cardinality(s \ {AnyOf(s)}) \in Nat /\ ~(m <= Cardinality(s \ {AnyOf(s)}))
      BY <2>5, <1>1
    <3> HIDE DEF bad
    <3> QED
      BY <3>1, <2>1
  <2>7. g[s \ {AnyOf(s)}] = k[s \ {AnyOf(s)}]
    BY <2>5, <2>6
  <2> QED
    BY <2>2, <2>3, <2>4, <2>7
<1> QED
  BY <1>1, <1>2

\* The sum of a function with one more argument.
LEMMA SumAdd ==
    ASSUME NEW f, IsFiniteSet(DOMAIN f), \A y \in DOMAIN f : f[y] \in Int, NEW x \in DOMAIN f,
           NEW h, DOMAIN h = DOMAIN f \ {x}, \A y \in DOMAIN h : h[y] = f[y]
    PROVE  /\ SumFunction(f) = f[x] + SumFunction(h)
           /\ SumFunction(f) \in Int /\ SumFunction(h) \in Int
<1> DEFINE S == DOMAIN f
           T == DOMAIN h
           g == CHOOSE c : Sums(c, f, SUBSET S)
           k == CHOOSE c : Sums(c, h, SUBSET T)
<1>1. IsFiniteSet(S) /\ IsFiniteSet(T) /\ T \subseteq S /\ T = S \ {x} /\ x \in S
      /\ (\A y \in S : f[y] \in Int) /\ \A y \in T : f[y] = h[y]
  BY FS_Subset
<1>2. SumFunction(f) = g[S] /\ SumFunction(h) = k[T]
  BY SumUnfolded
<1> HIDE DEF S, T
<1>3. Sums(g, f, SUBSET S)
  BY <1>1, SumsExist
<1>4. Sums(k, h, SUBSET T)
  BY <1>1, SumsExist
<1> HIDE DEF g, k
<1>5. g[T] = k[T]
  <2>1. \A x1 \in T : f[x1] = h[x1]
    BY <1>1
  <2>2. IsFiniteSet(T) /\ T \subseteq S
    BY <1>1
  <2> QED
    BY <2>1, <2>2, <1>3, <1>4, SumsAgree
<1>6. \A s \in SUBSET S : g[s] \in Int /\ AnyOrder(g, f, s)
  <2>1. \A y \in S : f[y] \in Int
    BY <1>1
  <2>2. IsFiniteSet(S)
    BY <1>1
  <2> QED
    BY <2>1, <2>2, <1>3, SumsAnyOrder
<1>7. g[S] = f[x] + g[T] /\ g[S] \in Int /\ g[T] \in Int
  BY <1>1, <1>6 DEF AnyOrder
<1> QED
  BY <1>2, <1>5, <1>7

\* The sum of the empty function.
LEMMA SumEmpty ==
    ASSUME NEW f, DOMAIN f = {}
    PROVE  SumFunction(f) = 0
<1>1. IsFiniteSet({}) 
  BY FS_EmptySet
<1>2. Sums(CHOOSE g : Sums(g, f, SUBSET {}), f, SUBSET {})
  BY <1>1, SumsExist
<1>3. SumFunction(f) = (CHOOSE g : Sums(g, f, SUBSET {}))[{}]
  BY SumUnfolded
<1> QED
  BY <1>2, <1>3 DEF Sums

\* The sum of one more value.
LEMMA SumOneMore ==
    ASSUME NEW f, NEW T, IsFiniteSet(T), NEW x, x \notin T, \A y \in T \cup {x} : f[y] \in Int
    PROVE  SumFunction(Restrict(f, T \cup {x})) = f[x] + SumFunction(Restrict(f, T))
<1> DEFINE big == Restrict(f, T \cup {x})
           small == Restrict(f, T)
<1>1. DOMAIN big = T \cup {x} /\ IsFiniteSet(DOMAIN big) /\ x \in DOMAIN big
  BY FS_AddElement DEF Restrict
<1>2. (\A y \in DOMAIN big : big[y] \in Int) /\ big[x] = f[x]
  BY DEF Restrict
<1>3. DOMAIN small = DOMAIN big \ {x} /\ \A y \in DOMAIN small : small[y] = big[y]
  BY <1>1 DEF Restrict
<1> HIDE DEF big, small
<1>4. SumFunction(big) = big[x] + SumFunction(small)
  BY <1>1, <1>2, <1>3, SumAdd
<1> QED
  BY <1>2, <1>4 DEF big, small

\* A sum does not change when its arguments are renamed one to one.
LEMMA SumRenamed ==
    ASSUME NEW S, IsFiniteSet(S), NEW f, \A x \in S : f[x] \in Int, NEW b, NEW h,
           \A x \in S, y \in S : b[x] = b[y] => x = y, \A x \in S : h[b[x]] = f[x]
    PROVE  SumFunction(Restrict(f, S)) = SumFunction(Restrict(h, {b[x] : x \in S}))
<1> DEFINE Image(T) == {b[x] : x \in T}
           Same(T) == SumFunction(Restrict(f, T)) = SumFunction(Restrict(h, Image(T)))
           good == {T \in SUBSET S : IsFiniteSet(T) /\ IsFiniteSet(Image(T)) /\ Same(T)}
<1>1. {} \in good
  <2>1. Image({}) = {} /\ IsFiniteSet({})
    BY FS_EmptySet
  <2>2. DOMAIN Restrict(f, {}) = {} /\ DOMAIN Restrict(h, {}) = {}
    BY DEF Restrict
  <2>3. SumFunction(Restrict(f, {})) = 0 /\ SumFunction(Restrict(h, {})) = 0
    BY <2>2, SumEmpty
  <2> QED
    BY <2>1, <2>3
<1>2. ASSUME NEW T \in SUBSET S, NEW x \in S \ T, T \in good
      PROVE  T \cup {x} \in good
  <2>1. IsFiniteSet(T) /\ IsFiniteSet(Image(T)) /\ Same(T)
    BY <1>2
  <2>2. Image(T \cup {x}) = Image(T) \cup {b[x]} /\ b[x] \notin Image(T)
    OBVIOUS
  <2>3. IsFiniteSet(T \cup {x}) /\ IsFiniteSet(Image(T) \cup {b[x]})
    BY <2>1, FS_AddElement
  <2>4. \A y \in Image(T) \cup {b[x]} : h[y] \in Int
    OBVIOUS
  <2>5. SumFunction(Restrict(f, T \cup {x})) = f[x] + SumFunction(Restrict(f, T))
    BY <2>1, SumOneMore
  <2> HIDE DEF Image
  <2>6. SumFunction(Restrict(h, Image(T) \cup {b[x]})) = h[b[x]] + SumFunction(Restrict(h, Image(T)))
    BY <2>1, <2>2, <2>4, SumOneMore
  <2>7. Same(T \cup {x})
    BY <2>1, <2>2, <2>5, <2>6
  <2> HIDE DEF Same
  <2> QED
    BY <2>2, <2>3, <2>7
<1>3. \A T \in SUBSET S : \A x \in S \ T : T \in good => T \cup {x} \in good
  BY <1>2
<1> HIDE DEF good
<1>4. S \in good
  BY <1>1, <1>3, FiniteSetsReached
<1> QED
  BY <1>4 DEF good

(* ----------------------- heights and parameters ------------------------ *)

\* The constants, one by one.
LEMMA Constants ==
    /\ MinCertifyHeight \in Nat /\ DOMAIN Parameters \subseteq Nat /\ 1 \in DOMAIN Parameters
    /\ PlainKeys \subseteq OwnValidators
  BY PoolConstants

\* The heights that are read from a chain are heights.
LEMMA Heights ==
    ASSUME NEW c, NEW f, Fits(c, f)
    PROVE  /\ Len(c) \in Nat /\ f \in Nat /\ f \in 0 .. Len(c) /\ Len(c) \in 0 .. Len(c)
           /\ \A h \in 0 .. Len(c) : /\ BlockIn(c, h) \in BlockType
                                     /\ BlockIn(c, h).precommitted \in Nat
                                     /\ BlockIn(c, h).certified \in Nat
<1>1. Len(c) \in Nat /\ f \in Nat /\ f \in 0 .. Len(c) /\ Len(c) \in 0 .. Len(c)
  BY DEF Fits
<1>2. ASSUME NEW h \in 0 .. Len(c) PROVE BlockIn(c, h) \in BlockType
  <2>1. Genesis \in BlockType
    BY DEF Genesis, BlockType, Ids
  <2> QED
    BY <1>1, <2>1 DEF Fits, BlockIn
<1> QED
  BY <1>1, <1>2 DEF BlockType

\* What removal depends on.
LEMMA RemovalIs ==
    ASSUME NEW c, NEW f, Fits(c, f)
    PROVE  /\ Removal(c, f) \in Nat
           /\ Removal(c, f) >= BlockIn(c, f).certified
           /\ Removal(c, f) >= MinCertifyHeight - 1
           /\ Removal(c, f) = BlockIn(c, f).certified \/ Removal(c, f) = MinCertifyHeight - 1
<1> DEFINE x == BlockIn(c, f).certified
           y == MinCertifyHeight - 1
<1>1. x \in Nat /\ x \in Int
  BY Heights
<1>2. y \in Int
  BY Constants
<1>3. Removal(c, f) = Max({x, y})
  BY DEF Removal
<1> HIDE DEF x, y
<1>4. Max({x, y}) \in Int /\ Max({x, y}) >= x /\ Max({x, y}) >= y
      /\ (Max({x, y}) = x \/ Max({x, y}) = y)
  BY <1>1, <1>2, MaxOfTwo, Zenon
<1> QED
  BY <1>1, <1>2, <1>3, <1>4 DEF x, y

\* The model's names for what is read from the chain.
LEMMA Names ==
    ASSUME ChainOK
    PROVE  /\ Height = Len(chain) /\ getMaxRemovalHeight = Removal(chain, finalized)
           /\ \A h : BlockAt(h) = BlockIn(chain, h)
           /\ maxHeightPrecommitted \in Nat /\ maxHeightPrecommitted <= finalized
           /\ maxHeightCertified \in Nat
           /\ maxHeightCertified = BlockIn(chain, Len(chain)).certified
<1>1. \A h : BlockAt(h) = BlockIn(chain, h)
  BY DEF BlockAt, BlockIn
<1>2. /\ Len(chain) \in 0 .. Len(chain) /\ BlockIn(chain, Len(chain)).precommitted \in Nat
      /\ BlockIn(chain, Len(chain)).certified \in Nat
  BY Heights DEF ChainOK
<1>3. BlockIn(chain, Len(chain)).precommitted <= finalized
  BY <1>2 DEF ChainOK, Fits
<1> QED
  BY <1>1, <1>2, <1>3
     DEF Height, getMaxRemovalHeight, Removal, maxHeightPrecommitted, maxHeightCertified

\* The weights of a height are fixed once its block is there.
LEMMA WeightsFixed ==
    ASSUME ChainOK, NEW h \in Nat, h > 0, h <= Len(chain)
    PROVE  /\ Weights(h) = ParametersAt(h).weights
           /\ existBFTParameters(h + 1) <=> h + 1 \in DOMAIN Parameters
<1> DEFINE S == {k \in DOMAIN Parameters : k <= h}
<1>1. Height \in Nat /\ h <= Height
  BY Names, Heights DEF ChainOK
<1>2. S \in SUBSET Nat /\ 1 \in S /\ \A k \in S : k <= h
  BY Constants
<1>3. {k \in DOMAIN Stored : k <= h} = S
  BY <1>1, Constants DEF Stored, Restrict
<1>4. Max(S) \in S
  BY <1>2, MaxOfBounded
<1>5. Max(S) \in DOMAIN Parameters /\ Max(S) <= Height + 1
  BY <1>1, <1>4, Constants
<1> HIDE DEF S
<1>6. Stored[Max(S)] = Parameters[Max(S)]
  BY <1>5 DEF Stored, Restrict
<1>7. existBFTParameters(h + 1) <=> h + 1 \in DOMAIN Parameters
  BY <1>1, Constants DEF existBFTParameters, Stored, Restrict
<1> QED
  BY <1>3, <1>6, <1>7 DEF Weights, getBFTParameters, ParametersAt, S

\* Needed commits are what OwnCommitsPresent speaks of.
LEMMA CoveredServes ==
    ASSUME IInv
    PROVE  OwnCommitsPresent
<1> SUFFICES ASSUME tasks = {}, NEW v \in keys \ missed,
                    NEW h \in (getMaxRemovalHeight + 1) .. finalized,
                    existBFTParameters(h + 1), v \in DOMAIN Weights(h)
             PROVE  [height |-> h, id |-> BlockAt(h).id, validator |-> v] \in All
  BY DEF OwnCommitsPresent
<1>1. /\ getMaxRemovalHeight = Removal(chain, finalized) /\ Removal(chain, finalized) \in Nat
      /\ finalized \in Nat /\ Len(chain) \in Nat /\ finalized <= Len(chain)
      /\ BlockAt(h) = BlockIn(chain, h)
  BY Names, RemovalIs, Heights DEF IInv, ChainOK, Fits
<1>2. /\ h \in Nat /\ h > 0 /\ h > Removal(chain, finalized) /\ h <= finalized
      /\ h <= Len(chain)
  BY <1>1
<1>3. Needed(v, h)
  BY <1>2, WeightsFixed DEF Needed, Signs, IInv
<1> QED
  BY <1>1, <1>2, <1>3 DEF IInv, Covered, Pending, CommitIn

(* ------------------------------ the steps ------------------------------ *)

\* A step that leaves the chain, the keys and the tasks alone and removes at most
\* commits up to the removal height keeps the invariant.
LEMMA PoolStep ==
    ASSUME IInv, UNCHANGED <<chain, finalized, missed>>, keys' \subseteq keys,
           tasks' = tasks, JobOK',
           \A c \in All : (/\ c.height \in Nat /\ c.height > Removal(chain, finalized)
                           /\ c.height > 0 /\ c.height <= finalized
                           /\ c.height + 1 \in DOMAIN Parameters) => c \in All'
    PROVE  IInv'
<1>1. ChainOK' /\ TasksOK'
  BY DEF IInv, ChainOK, TasksOK
<1>2. Covered'
  <2> SUFFICES ASSUME NEW v \in keys', NEW h \in Nat, Needed(v, h)'
               PROVE  CommitIn(chain', v, h) \in All' \/ Pending(h)'
    BY DEF Covered
  <2>1. Needed(v, h) /\ v \in keys
    BY DEF Needed
  <2>2. Removal(chain, finalized) \in Nat
    BY RemovalIs DEF IInv, ChainOK
  <2>3. CASE Pending(h)
    BY <2>3 DEF Pending
  <2>4. CASE CommitIn(chain, v, h) \in All
    <3> DEFINE c == CommitIn(chain, v, h)
    <3>1. c.height = h
      BY DEF CommitIn
    <3> HIDE DEF c
    <3>2. /\ c.height \in Nat /\ c.height > Removal(chain, finalized)
          /\ c.height > 0 /\ c.height <= finalized /\ c.height + 1 \in DOMAIN Parameters
      BY <2>1, <2>2, <3>1 DEF Needed, Signs
    <3>3. c \in All'
      BY <2>4, <3>2 DEF c
    <3> QED
      BY <3>3 DEF c
  <2> QED
    BY <2>1, <2>3, <2>4 DEF IInv, Covered
<1> QED
  BY <1>1, <1>2 DEF IInv

\* A peer's commit, a key that is disabled, the start and the end of the job.
LEMMA PlainSteps ==
    ASSUME IInv,
           \/ \E v \in OwnValidators : Disable(v)
           \/ \E p \in Peers : ValidateCommit(p) \/ \E c \in Signable : handleEventSingleCommit(p, c)
           \/ StartJob \/ SelectToGossip
    PROVE  IInv'
<1>1. JobOK /\ Removal(chain, finalized) \in Nat
  BY RemovalIs DEF IInv, ChainOK
<1>2. UNCHANGED <<chain, finalized, missed, tasks>> /\ keys' \subseteq keys
  BY DEF Disable, ValidateCommit, handleEventSingleCommit, StartJob, SelectToGossip
<1>3. JobOK'
  <2>1. CASE StartJob
    <3>1. /\ job'.removal = Removal(chain, finalized)
          /\ job' \in [phase : Phases, removal : Int, precommitted : Int, current : Int]
      BY <1>1, <2>1, Names, Heights DEF StartJob, IInv, ChainOK, Phases
    <3> QED
      BY <1>1, <1>2, <3>1 DEF JobOK
  <2>2. CASE SelectToGossip
    <3>1. /\ job'.phase = "idle"
          /\ job' \in [phase : Phases, removal : Int, precommitted : Int, current : Int]
      BY <2>2 DEF SelectToGossip, Idle, Phases
    <3> QED
      BY <3>1 DEF JobOK
  <2>3. CASE job' = job
    BY <1>1, <1>2, <2>3 DEF JobOK
  <2> QED
    BY <2>1, <2>2, <2>3 DEF Disable, ValidateCommit, handleEventSingleCommit
<1>4. All \subseteq All'
  <2>1. CASE SelectToGossip
    <3>1. PICK selected : Gossip(selected)
      BY <2>1 DEF SelectToGossip
    <3> QED
      BY <3>1 DEF Gossip, All
  <2>2. CASE ~SelectToGossip
    BY <2>2 DEF Disable, ValidateCommit, handleEventSingleCommit, StartJob, All
  <2> QED
    BY <2>1, <2>2
<1> QED
  BY <1>2, <1>3, <1>4, PoolStep

\* The job removes what is certified, and of what is out of range only what no
\* change of the parameters follows.
LEMMA CleanUpStep ==
    ASSUME IInv, CleanUp
    PROVE  IInv'
<1>1. UNCHANGED <<chain, finalized, missed, tasks, keys>>
  BY DEF CleanUp
<1>2. JobOK /\ job.phase # "idle" /\ job.removal \in Int /\ Removal(chain, finalized) \in Nat
      /\ job.removal <= Removal(chain, finalized)
  BY RemovalIs DEF IInv, ChainOK, JobOK, CleanUp
<1>3. JobOK'
  <2>1. /\ job'.removal = job.removal
        /\ job' \in [phase : Phases, removal : Int, precommitted : Int, current : Int]
    BY <1>2 DEF CleanUp, JobOK, Phases
  <2> QED
    BY <1>1, <1>2, <2>1 DEF JobOK
<1>4. ASSUME NEW c \in All, c.height \in Nat, c.height > Removal(chain, finalized),
             c.height > 0, c.height <= finalized, c.height + 1 \in DOMAIN Parameters
      PROVE  c \in All'
  <2>1. c.height <= Len(chain)
    BY <1>4, Heights DEF IInv, ChainOK, Fits
  <2>2. existBFTParameters(c.height + 1)
    BY <1>4, <2>1, WeightsFixed DEF IInv
  <2>3. ~(c.height <= job.removal)
    BY <1>2, <1>4
  <2> QED
    BY <2>2, <2>3 DEF CleanUp, All, DeleteHeights
<1> QED
  BY <1>1, <1>3, <1>4, PoolStep

\* What is signed covers the heights it is signed for.
LEMMA SignedFor ==
    ASSUME ChainOK, NEW V, NEW v \in V, NEW from \in Int, NEW to \in Nat, NEW h \in Nat,
           from < h, h <= to, h > 0, h <= finalized, Signs(v, h)
    PROVE  CommitIn(chain, v, h) \in CommitsOf(V, from, to)
<1>1. h <= Len(chain) /\ Len(chain) \in Nat /\ h \in 0 .. Len(chain)
  BY Heights DEF ChainOK, Fits
<1>2. h \in HeightsToCertify(from, to)
  BY <1>1, WeightsFixed DEF HeightsToCertify, Signs
<1>3. BlockIn(chain, h).id \in Ids /\ BlockAt(h) = BlockIn(chain, h)
  BY <1>1, Heights, Names DEF ChainOK, BlockType
<1>4. v \in DOMAIN Weights(h)
  BY <1>1, WeightsFixed DEF Signs
<1> QED
  BY <1>2, <1>3, <1>4 DEF CommitsOf, CommitIn

\* New commits go to the list of the own ones, unless they are in the pool.
LEMMA AddLocalKeeps ==
    ASSUME NEW commits, AddLocal(commits)
    PROVE  All \subseteq All' /\ commits \subseteq All'
  BY DEF AddLocal, Known, All

\* The finalized height has changed: the enabled keys sign, and the task is done.
LEMMA TaskStep ==
    ASSUME IInv, NEW task \in tasks, handleFinalizedHeightChanged(task)
    PROVE  IInv'
<1>1. UNCHANGED <<chain, finalized, missed, keys, job>> /\ tasks' = tasks \ {task}
  BY DEF handleFinalizedHeightChanged
<1>2. ChainOK' /\ TasksOK' /\ JobOK'
  BY <1>1 DEF IInv, ChainOK, TasksOK, JobOK
<1>3. /\ Removal(chain, finalized) \in Nat /\ getMaxRemovalHeight = Removal(chain, finalized)
      /\ task.from \in Nat /\ task.to \in Nat
  BY RemovalIs, Names DEF IInv, ChainOK, TasksOK
<1> DEFINE from == Max({getMaxRemovalHeight, task.from})
<1>4. from \in Int /\ (from = Removal(chain, finalized) \/ from = task.from)
  <2> DEFINE x == getMaxRemovalHeight
             y == task.from
  <2>1. x \in Int /\ y \in Int /\ x = Removal(chain, finalized)
    BY <1>3
  <2>2. from = Max({x, y})
    OBVIOUS
  <2> HIDE DEF x, y, from
  <2>3. Max({x, y}) \in Int /\ (Max({x, y}) = x \/ Max({x, y}) = y)
    BY <2>1, MaxOfTwo, Zenon
  <2> QED
    BY <2>1, <2>2, <2>3 DEF y
<1>5. All \subseteq All' /\ CommitsOf(keys, from, task.to) \subseteq All'
  BY AddLocalKeeps DEF handleFinalizedHeightChanged
<1> HIDE DEF from
<1>6. Covered'
  <2> SUFFICES ASSUME NEW v \in keys', NEW h \in Nat, Needed(v, h)'
               PROVE  CommitIn(chain', v, h) \in All' \/ Pending(h)'
    BY DEF Covered
  <2>1. Needed(v, h) /\ v \in keys
    BY <1>1 DEF Needed
  <2>2. CASE CommitIn(chain, v, h) \in All
    BY <1>1, <1>5, <2>2
  <2>3. CASE Pending(h) /\ ~(task.from < h /\ h <= task.to)
    BY <1>1, <2>3 DEF Pending
  <2>4. CASE task.from < h /\ h <= task.to
    <3>1. from < h /\ h > 0 /\ h <= finalized /\ Signs(v, h)
      BY <1>3, <1>4, <2>1, <2>4 DEF Needed
    <3>2. CommitIn(chain, v, h) \in CommitsOf(keys, from, task.to)
      BY <1>3, <1>4, <2>1, <2>4, <3>1, SignedFor DEF IInv
    <3> QED
      BY <1>1, <1>5, <3>2
  <2> QED
    BY <2>1, <2>2, <2>3, <2>4 DEF IInv, Covered
<1> QED
  BY <1>2, <1>6 DEF IInv

\* A key that is enabled signs for all that is final, unless the votes are behind.
LEMMA EnableStep ==
    ASSUME IInv, NEW x, Enable(x)
    PROVE  IInv'
<1>1. UNCHANGED <<chain, finalized, tasks, job>> /\ keys' = keys \cup {x}
  BY DEF Enable
<1>2. ChainOK' /\ TasksOK' /\ JobOK'
  BY <1>1 DEF IInv, ChainOK, TasksOK, JobOK
<1>3. /\ Removal(chain, finalized) \in Nat /\ getMaxRemovalHeight = Removal(chain, finalized)
      /\ maxHeightPrecommitted \in Nat /\ finalized \in Nat
  BY RemovalIs, Names DEF IInv, ChainOK, Fits
<1>4. /\ All \subseteq All'
      /\ CommitsOf({x}, Removal(chain, finalized), maxHeightPrecommitted) \subseteq All'
  BY <1>3, AddLocalKeeps DEF Enable
<1>5. Covered'
  <2> SUFFICES ASSUME NEW v \in keys', NEW h \in Nat, Needed(v, h)'
               PROVE  CommitIn(chain', v, h) \in All' \/ Pending(h)'
    BY DEF Covered
  <2>1. /\ Signs(v, h) /\ h > 0 /\ h > Removal(chain, finalized) /\ h <= finalized
        /\ v \notin missed'
    BY <1>1 DEF Needed
  <2>2. CASE v = x
    <3>1. finalized <= maxHeightPrecommitted
      BY <1>3, <2>1, <2>2 DEF Enable
    <3>2. h <= maxHeightPrecommitted
      BY <1>3, <2>1, <3>1
    <3>3. CommitIn(chain, v, h)
              \in CommitsOf({x}, Removal(chain, finalized), maxHeightPrecommitted)
      BY <1>3, <2>1, <2>2, <3>2, SignedFor DEF IInv
    <3> QED
      BY <1>1, <1>4, <3>3
  <2>3. CASE v # x
    <3>1. Needed(v, h) /\ v \in keys
      BY <1>1, <2>1, <2>3 DEF Needed, Enable
    <3>2. CommitIn(chain, v, h) \in All \/ Pending(h)
      BY <3>1 DEF IInv, Covered
    <3> QED
      BY <1>1, <1>4, <3>2 DEF Pending
  <2> QED
    BY <2>2, <2>3
<1> QED
  BY <1>2, <1>5 DEF IInv

\* A restart forgets the pool and signs again with the plain keys.
LEMMA RestartStep ==
    ASSUME IInv, Restart
    PROVE  IInv'
<1>1. UNCHANGED <<chain, finalized>> /\ tasks' = {} /\ keys' = PlainKeys /\ job' = Idle
  BY DEF Restart
<1>2. ChainOK' /\ TasksOK'
  BY <1>1 DEF IInv, ChainOK, TasksOK
<1>3. JobOK'
  BY <1>1 DEF JobOK, Idle, Phases
<1>4. /\ Removal(chain, finalized) \in Nat /\ getMaxRemovalHeight = Removal(chain, finalized)
      /\ maxHeightPrecommitted \in Nat /\ finalized \in Nat
  BY RemovalIs, Names DEF IInv, ChainOK, Fits
<1>5. CommitsOf(PlainKeys, Removal(chain, finalized), maxHeightPrecommitted) \subseteq All'
  BY <1>4 DEF Restart, All
<1>6. Covered'
  <2> SUFFICES ASSUME NEW v \in keys', NEW h \in Nat, Needed(v, h)'
               PROVE  CommitIn(chain', v, h) \in All'
    BY DEF Covered
  <2>1. /\ Signs(v, h) /\ h > 0 /\ h > Removal(chain, finalized) /\ h <= finalized
        /\ v \in PlainKeys /\ v \notin missed'
    BY <1>1 DEF Needed
  <2>2. finalized <= maxHeightPrecommitted
    BY <1>4, <2>1 DEF Restart
  <2>3. h <= maxHeightPrecommitted
    BY <1>4, <2>1, <2>2
  <2>4. CommitIn(chain, v, h)
            \in CommitsOf(PlainKeys, Removal(chain, finalized), maxHeightPrecommitted)
    BY <1>4, <2>1, <2>3, SignedFor DEF IInv
  <2> QED
    BY <1>1, <1>5, <2>4
<1> QED
  BY <1>2, <1>3, <1>6 DEF IInv

\* A change of the chain that keeps what is final: what was needed stays covered, and
\* what becomes final is left to a task.
LEMMA ChainStep ==
    ASSUME IInv, UNCHANGED <<keys, missed, job, received, local, gossiped>>,
           ChainOK', TasksOK', tasks \subseteq tasks',
           finalized <= finalized', Removal(chain, finalized) <= Removal(chain', finalized'),
           \A h \in 0 .. finalized : BlockIn(chain', h) = BlockIn(chain, h),
           \A h \in Nat : finalized < h /\ h <= finalized' => Pending(h)'
    PROVE  IInv'
<1>1. /\ Removal(chain, finalized) \in Nat /\ Removal(chain', finalized') \in Nat
      /\ finalized \in Nat /\ finalized' \in Nat /\ All' = All
  BY RemovalIs DEF IInv, ChainOK, Fits, All
<1>2. JobOK'
  BY <1>1 DEF IInv, JobOK
<1>3. Covered'
  <2> SUFFICES ASSUME NEW v \in keys', NEW h \in Nat, Needed(v, h)'
               PROVE  CommitIn(chain', v, h) \in All' \/ Pending(h)'
    BY DEF Covered
  <2>1. CASE h <= finalized
    <3>1. Needed(v, h) /\ v \in keys
      BY <1>1, <2>1 DEF Needed
    <3>2. CommitIn(chain, v, h) \in All \/ Pending(h)
      BY <3>1 DEF IInv, Covered
    <3>3. CommitIn(chain', v, h) = CommitIn(chain, v, h)
      BY <1>1, <2>1 DEF CommitIn
    <3>4. Pending(h) => Pending(h)'
      BY DEF Pending
    <3> QED
      BY <1>1, <3>2, <3>3, <3>4
  <2>2. CASE h > finalized
    BY <2>2 DEF Needed
  <2> QED
    BY <1>1, <2>1, <2>2
<1> QED
  BY <1>2, <1>3 DEF IInv

\* The heights up to which the pool may certify.
LEMMA CertifiableIsHeight ==
    ASSUME ChainOK
    PROVE  CertifiableUpTo \in Int
<1> DEFINE S == {k \in DOMAIN Stored : k > maxHeightCertified + 1}
           next == Min(S)
<1>1. maxHeightCertified \in Nat /\ maxHeightPrecommitted \in Nat
  BY Names
<1>2. CASE S = {}
  BY <1>1, <1>2 DEF CertifiableUpTo
<1>3. CASE S # {}
  <2>1. S \in SUBSET Nat
    BY Constants DEF Stored, Restrict
  <2>2. next \in Nat
    BY <1>3, <2>1, MinOfNaturals
  <2>3. getNextHeightBFTParameters(Stored, maxHeightCertified + 1) = next
    BY DEF getNextHeightBFTParameters
  <2> HIDE DEF next
  <2>4. Max({next, MinCertifyHeight + 1}) \in Int
    <3> DEFINE y == MinCertifyHeight + 1
    <3>1. next \in Int /\ y \in Int
      BY <2>2, Constants
    <3> HIDE DEF y
    <3>2. Max({next, y}) \in Int
      BY <3>1, MaxOfTwo, Zenon
    <3> QED
      BY <3>2 DEF y
  <2>5. Min({Max({next, MinCertifyHeight + 1}) - 1, maxHeightPrecommitted}) \in Int
    <3> DEFINE x == Max({next, MinCertifyHeight + 1}) - 1
    <3>1. x \in Int
      BY <2>4
    <3> HIDE DEF x
    <3>2. Min({x, maxHeightPrecommitted}) \in Int
      BY <1>1, <3>1, MinOfTwo
    <3> QED
      BY <3>2 DEF x
  <2>6. CertifiableUpTo = Min({Max({next, MinCertifyHeight + 1}) - 1, maxHeightPrecommitted})
    BY <1>3, <2>3 DEF CertifiableUpTo
  <2> QED
    BY <2>5, <2>6
<1> QED
  BY <1>2, <1>3

\* The aggregate commit of an own block is not below the last one of the chain.
LEMMA SelectedIsHigher ==
    ASSUME ChainOK
    PROVE  selectAggregateCommit.height \in Nat
           /\ selectAggregateCommit.height >= maxHeightCertified
<1> DEFINE low   == Max({maxHeightCertified, MinCertifyHeight - 1})
           ready == {h \in (low + 1) .. CertifiableUpTo : CommitWeight(h) >= Threshold(h)}
<1>1. maxHeightCertified \in Nat /\ CertifiableUpTo \in Int
  BY Names, CertifiableIsHeight
<1>2. low \in Int /\ low >= maxHeightCertified
  <2> DEFINE x == maxHeightCertified
             y == MinCertifyHeight - 1
  <2>1. x \in Int /\ y \in Int
    BY <1>1, Constants
  <2>2. low = Max({x, y})
    OBVIOUS
  <2> HIDE DEF x, y, low
  <2>3. Max({x, y}) \in Int /\ Max({x, y}) >= x
    BY <2>1, MaxOfTwo, Zenon
  <2> QED
    BY <2>2, <2>3 DEF x
<1>3. selectAggregateCommit =
          IF ready = {} THEN NoAggregate ELSE aggregateSingleCommits(Max(ready))
  BY DEF selectAggregateCommit
<1> HIDE DEF low
<1>4. \A h \in ready : h \in Nat /\ h >= maxHeightCertified /\ h <= CertifiableUpTo
  BY <1>1, <1>2
<1> HIDE DEF ready
<1>5. CASE ready = {}
  BY <1>1, <1>3, <1>5 DEF NoAggregate
<1>6. CASE ready # {}
  <2>1. ready \in SUBSET Nat /\ CertifiableUpTo \in Nat
    BY <1>1, <1>4, <1>6
  <2>2. Max(ready) \in ready
    BY <1>4, <1>6, <2>1, MaxOfBounded
  <2>3. selectAggregateCommit.height = Max(ready)
    BY <1>3, <1>6 DEF aggregateSingleCommits
  <2> QED
    BY <1>4, <2>2, <2>3
<1> QED
  BY <1>5, <1>6

\* A block is executed.
LEMMA ExecuteStep ==
    ASSUME IInv, NEW id \in Ids, NEW certified \in Nat, certified >= maxHeightCertified,
           Execute(id, certified)
    PROVE  IInv'
<1> DEFINE n == Len(chain)
<1>1. /\ Height = n /\ n \in Nat /\ chain \in Seq(BlockType) /\ finalized \in Nat
      /\ finalized <= n /\ maxHeightPrecommitted \in Nat /\ maxHeightPrecommitted <= finalized
      /\ maxHeightCertified = BlockIn(chain, n).certified
  BY Names, Heights DEF IInv, ChainOK, Fits
<1>2. PICK p \in maxHeightPrecommitted .. n :
          /\ chain' = Append(chain, [id |-> id, precommitted |-> p, certified |-> certified])
          /\ finalized' = Max({finalized, p})
          /\ tasks' = tasks \cup (IF p > finalized THEN {[from |-> finalized, to |-> p]} ELSE {})
          /\ UNCHANGED <<received, local, gossiped, keys, job, missed>>
  BY <1>1 DEF Execute
<1>3. p \in Nat /\ p <= n
  BY <1>1, <1>2
<1>4. /\ finalized' \in Nat /\ finalized' >= finalized /\ finalized' >= p
      /\ finalized' <= n /\ (finalized' = finalized \/ finalized' = p)
  <2>1. finalized \in Int /\ p \in Int
    BY <1>1, <1>3
  <2>2. /\ Max({finalized, p}) \in Int /\ Max({finalized, p}) >= finalized
        /\ Max({finalized, p}) >= p
        /\ (Max({finalized, p}) = finalized \/ Max({finalized, p}) = p)
    BY <2>1, MaxOfTwo, Zenon
  <2>3. finalized' = Max({finalized, p})
    BY <1>2
  <2> QED
    BY <1>1, <1>3, <2>2, <2>3
<1> DEFINE b == [id |-> id, precommitted |-> p, certified |-> certified]
<1>5. b \in BlockType /\ b.precommitted = p /\ b.certified = certified
  BY <1>3 DEF BlockType
<1> HIDE DEF b
<1>6. /\ chain' \in Seq(BlockType) /\ Len(chain') = n + 1 /\ chain'[n + 1] = b
      /\ \A i \in 1 .. n : chain'[i] = chain[i]
  BY <1>1, <1>2, <1>5 DEF b
<1>7. /\ \A h \in 0 .. n : BlockIn(chain', h) = BlockIn(chain, h)
      /\ BlockIn(chain', n + 1) = b
  BY <1>1, <1>6 DEF BlockIn
<1> HIDE DEF n
<1>8. /\ \A h \in 0 .. n : /\ BlockIn(chain, h).certified \in Nat
                           /\ BlockIn(chain, h).certified <= certified
                           /\ BlockIn(chain, h).precommitted \in Nat
                           /\ BlockIn(chain, h).precommitted <= finalized
      /\ \A h \in 0 .. n, i \in 0 .. n :
             h <= i => BlockIn(chain, h).certified <= BlockIn(chain, i).certified
  <2>1. /\ \A h \in 0 .. n, i \in 0 .. n :
               h <= i => BlockIn(chain, h).certified <= BlockIn(chain, i).certified
        /\ \A h \in 0 .. n : BlockIn(chain, h).precommitted <= finalized
        /\ n \in 0 .. n
    BY Heights DEF IInv, ChainOK, Fits, n
  <2>2. \A h \in 0 .. n : BlockIn(chain, h).certified \in Nat
                          /\ BlockIn(chain, h).precommitted \in Nat
    BY Heights DEF IInv, ChainOK, n
  <2>3. ASSUME NEW h \in 0 .. n PROVE BlockIn(chain, h).certified <= certified
    <3>1. h <= n /\ BlockIn(chain, h).certified <= BlockIn(chain, n).certified
      BY <1>1, <2>1
    <3> QED
      BY <1>1, <2>1, <2>2, <3>1
  <2> QED
    BY <2>1, <2>2, <2>3
<1>9. ChainOK'
  <2>1. ASSUME NEW h \in 0 .. n + 1 PROVE BlockIn(chain', h).precommitted <= finalized'
    <3>1. CASE h \in 0 .. n
      BY <1>1, <1>4, <1>7, <1>8, <3>1
    <3>2. CASE h = n + 1
      BY <1>4, <1>5, <1>7, <3>2
    <3> QED
      BY <1>1, <3>1, <3>2
  <2>2. ASSUME NEW h \in 0 .. n + 1, NEW i \in 0 .. n + 1, h <= i
        PROVE  BlockIn(chain', h).certified <= BlockIn(chain', i).certified
    <3>1. CASE i \in 0 .. n
      <4>1. h \in 0 .. n
        BY <1>1, <2>2, <3>1
      <4> QED
        BY <1>7, <1>8, <2>2, <3>1, <4>1
    <3>2. CASE i = n + 1 /\ h \in 0 .. n
      BY <1>5, <1>7, <1>8, <3>2
    <3>3. CASE i = n + 1 /\ h = n + 1
      BY <1>5, <1>7, <3>3
    <3> QED
      BY <1>1, <2>2, <3>1, <3>2, <3>3
  <2> QED
    BY <1>1, <1>4, <1>6, <2>1, <2>2 DEF ChainOK, Fits
<1>10. TasksOK' /\ tasks \subseteq tasks'
  BY <1>1, <1>2, <1>3 DEF IInv, TasksOK
<1>11. Removal(chain, finalized) <= Removal(chain', finalized')
  <2>1. finalized \in 0 .. n /\ finalized' \in 0 .. n
    BY <1>1, <1>4
  <2>2. BlockIn(chain, finalized).certified <= BlockIn(chain', finalized').certified
    BY <1>4, <1>7, <1>8, <2>1
  <2>3. /\ BlockIn(chain, finalized).certified \in Nat
        /\ BlockIn(chain', finalized').certified \in Nat
    BY <1>7, <1>8, <2>1
  <2> DEFINE r == Removal(chain, finalized)
             q == Removal(chain', finalized')
             x == BlockIn(chain, finalized).certified
             y == BlockIn(chain', finalized').certified
  <2>4. r \in Nat /\ (r = x \/ r = MinCertifyHeight - 1)
    BY RemovalIs DEF IInv, ChainOK
  <2>5. q \in Nat /\ q >= y /\ q >= MinCertifyHeight - 1
    BY <1>9, RemovalIs DEF ChainOK
  <2>6. MinCertifyHeight - 1 \in Int
    BY Constants
  <2> HIDE DEF r, q, x, y
  <2>7. x <= y /\ x \in Nat /\ y \in Nat
    BY <2>2, <2>3 DEF x, y
  <2>8. r <= q
    BY <2>4, <2>5, <2>6, <2>7
  <2> QED
    BY <2>8 DEF r, q
<1>12. ASSUME NEW h \in Nat, finalized < h, h <= finalized' PROVE Pending(h)'
  <2> DEFINE t == [from |-> finalized, to |-> p]
  <2>1. p > finalized /\ finalized' = p
    BY <1>1, <1>3, <1>4, <1>12
  <2>2. t \in tasks' /\ t.from < h /\ h <= t.to
    BY <1>2, <1>12, <2>1
  <2> HIDE DEF t
  <2> QED
    BY <2>2 DEF Pending
<1>13. \A h \in 0 .. finalized : BlockIn(chain', h) = BlockIn(chain, h)
  BY <1>1, <1>7
<1> QED
  BY <1>2, <1>4, <1>9, <1>10, <1>11, <1>12, <1>13, ChainStep

\* The last block is deleted, which is not final.
LEMMA DeleteBlockStep ==
    ASSUME IInv, DeleteBlock
    PROVE  IInv'
<1> DEFINE n == Len(chain)
<1>1. /\ n \in Nat /\ chain \in Seq(BlockType) /\ finalized \in Nat /\ finalized < n
      /\ chain' = SubSeq(chain, 1, n - 1) /\ finalized' = finalized /\ tasks' = tasks
      /\ UNCHANGED <<received, local, gossiped, keys, job, missed>>
  BY Names, Heights DEF IInv, ChainOK, Fits, DeleteBlock
<1>2. n - 1 \in 0 .. Len(chain)
  BY <1>1
<1>3. /\ chain' \in Seq(BlockType) /\ Len(chain') = n - 1
      /\ \A i \in 1 .. n - 1 : chain'[i] = chain[i]
  BY <1>1, <1>2, Prefix
<1>4. \A h \in 0 .. n - 1 : BlockIn(chain', h) = BlockIn(chain, h) /\ h \in 0 .. n
  BY <1>1, <1>3 DEF BlockIn
<1>5. ChainOK'
  <2>1. /\ \A h \in 0 .. n : BlockIn(chain, h).precommitted <= finalized
        /\ \A h \in 0 .. n, i \in 0 .. n :
               h <= i => BlockIn(chain, h).certified <= BlockIn(chain, i).certified
    BY DEF IInv, ChainOK, Fits
  <2> HIDE DEF n
  <2>2. finalized' \in Nat /\ finalized' <= Len(chain')
    BY <1>1, <1>3
  <2>3. /\ \A h \in 0 .. n - 1 : BlockIn(chain', h).precommitted <= finalized'
        /\ \A h \in 0 .. n - 1, i \in 0 .. n - 1 :
               h <= i => BlockIn(chain', h).certified <= BlockIn(chain', i).certified
    BY <1>1, <1>4, <2>1
  <2> QED
    BY <1>3, <2>2, <2>3 DEF ChainOK, Fits
<1>6. \A h \in 0 .. finalized : BlockIn(chain', h) = BlockIn(chain, h)
  BY <1>1, <1>4
<1>7. Removal(chain', finalized') = Removal(chain, finalized)
      /\ Removal(chain, finalized) \in Nat
  <2>1. finalized \in 0 .. finalized
    BY <1>1
  <2> QED
    BY <1>1, <1>6, <2>1, RemovalIs DEF Removal, IInv, ChainOK
<1>8. TasksOK'
  BY <1>1 DEF IInv, TasksOK
<1>9. \A h \in Nat : ~(finalized < h /\ h <= finalized')
  BY <1>1
<1> QED
  BY <1>1, <1>5, <1>6, <1>7, <1>8, <1>9, ChainStep

(* --------------------- what the aggregate is made of -------------------- *)

Validators == UNION {DOMAIN Parameters[k].weights : k \in DOMAIN Parameters}

\* Commits by validators that are active at their height.
CommitType ==
    {c \in [height : 1 .. MaxHeight, id : Ids, validator : Validators] :
        c.validator \in DOMAIN ParametersAt(c.height).weights}

\* No block certifies more than is precommitted, and every commit in the pool or
\* under validation is by a validator that is active at its height.
Grounded ==
    /\ Len(chain) <= MaxHeight
    /\ \A h \in 0 .. Len(chain) : BlockIn(chain, h).certified <= BlockIn(chain, h).precommitted
    /\ tasks \subseteq [from : 0 .. MaxHeight, to : 1 .. finalized]
    /\ All \subseteq CommitType
    /\ handling \in [Peers -> CommitType \cup {None}]

\* The heights and the weights of the parameters for a height.
LEMMA ParametersTyped ==
    ASSUME NEW h \in Nat, h > 0
    PROVE  LET k == Max({i \in DOMAIN Parameters : i <= h})
           IN  /\ k \in DOMAIN Parameters /\ ParametersAt(h) = Parameters[k]
               /\ ParametersAt(h).certificateThreshold \in Nat \ {0}
               /\ IsFiniteSet(DOMAIN ParametersAt(h).weights)
               /\ DOMAIN ParametersAt(h).weights \subseteq Validators
               /\ \A v \in DOMAIN ParametersAt(h).weights : ParametersAt(h).weights[v] \in Nat
<1> DEFINE S == {i \in DOMAIN Parameters : i <= h}
           k == Max(S)
<1>1. S \in SUBSET Nat /\ 1 \in S /\ \A i \in S : i <= h
  BY Constants
<1>2. k \in S
  BY <1>1, MaxOfBounded
<1>3. k \in DOMAIN Parameters
  BY <1>2
<1>4. ParametersAt(h) = Parameters[k]
  BY DEF ParametersAt
<1> HIDE DEF k
<1>5. /\ Parameters[k].certificateThreshold \in Nat \ {0}
      /\ IsFiniteSet(DOMAIN Parameters[k].weights)
      /\ Parameters[k].weights \in [DOMAIN Parameters[k].weights -> Nat]
  BY <1>3, PoolConstants
<1>6. DOMAIN Parameters[k].weights \subseteq Validators
  BY <1>3 DEF Validators
<1> QED
  BY <1>3, <1>4, <1>5, <1>6 DEF k

\* The threshold of a height is fixed once its block is there.
LEMMA ThresholdFixed ==
    ASSUME ChainOK, NEW h \in Nat, h > 0, h <= Len(chain)
    PROVE  Threshold(h) = ParametersAt(h).certificateThreshold
<1> DEFINE S == {k \in DOMAIN Parameters : k <= h}
<1>1. Height \in Nat /\ h <= Height
  BY Names, Heights DEF ChainOK
<1>2. S \in SUBSET Nat /\ 1 \in S /\ \A k \in S : k <= h
  BY Constants
<1>3. {k \in DOMAIN Stored : k <= h} = S
  BY <1>1, Constants DEF Stored, Restrict
<1>4. Max(S) \in S
  BY <1>2, MaxOfBounded
<1>5. Max(S) \in DOMAIN Parameters /\ Max(S) <= Height + 1
  BY <1>1, <1>4, Constants
<1> HIDE DEF S
<1>6. Stored[Max(S)] = Parameters[Max(S)]
  BY <1>5 DEF Stored, Restrict
<1> QED
  BY <1>3, <1>6 DEF Threshold, getBFTParameters, ParametersAt, S

\* What the node signs for blocks of the chain is well formed.
LEMMA SignedTyped ==
    ASSUME ChainOK, Len(chain) <= MaxHeight, NEW V, NEW from \in Nat, NEW to \in Nat, to <= Len(chain)
    PROVE  CommitsOf(V, from, to) \subseteq CommitType
<1> SUFFICES ASSUME NEW c \in CommitsOf(V, from, to) PROVE c \in CommitType
  OBVIOUS
<1>1. c \in [height : HeightsToCertify(from, to), id : Ids, validator : V]
      /\ c.validator \in DOMAIN Weights(c.height)
  BY DEF CommitsOf
<1>2. c.height \in (from + 1) .. to /\ c.id \in Ids
  BY <1>1 DEF HeightsToCertify
<1>3. Len(chain) \in Nat /\ MaxHeight \in Nat
  BY PoolConstants, Heights DEF ChainOK
<1>4. c.height \in Nat /\ c.height > 0 /\ c.height <= Len(chain) /\ c.height \in 1 .. MaxHeight
  BY <1>2, <1>3
<1>5. c.validator \in DOMAIN ParametersAt(c.height).weights
  BY <1>1, <1>4, WeightsFixed
<1>6. c.validator \in Validators
  BY <1>4, <1>5, ParametersTyped
<1> QED
  BY <1>1, <1>2, <1>4, <1>5, <1>6 DEF CommitType

\* So is what other validators sign.
LEMMA SignableTyped ==
    ASSUME ChainOK, Len(chain) <= MaxHeight
    PROVE  Signable \subseteq CommitType
<1> SUFFICES ASSUME NEW c \in Signable PROVE c \in CommitType
  OBVIOUS
<1> DEFINE others == UNION {DOMAIN Parameters[k].weights : k \in DOMAIN Parameters} \ OwnValidators
<1>1. c \in [height : 1 .. Height, id : Ids, validator : others]
      /\ c.validator \in DOMAIN Weights(c.height)
  BY DEF Signable
<1>2. c.height \in 1 .. Height /\ c.id \in Ids
  BY <1>1
<1>3. Len(chain) \in Nat /\ MaxHeight \in Nat /\ Height = Len(chain)
  BY PoolConstants, Heights, Names DEF ChainOK
<1>4. c.height \in Nat /\ c.height > 0 /\ c.height <= Len(chain) /\ c.height \in 1 .. MaxHeight
  BY <1>2, <1>3
<1>5. c.validator \in DOMAIN ParametersAt(c.height).weights
  BY <1>1, <1>4, WeightsFixed
<1>6. c.validator \in Validators
  BY <1>4, <1>5, ParametersTyped
<1> QED
  BY <1>1, <1>2, <1>4, <1>5, <1>6 DEF CommitType

\* The genesis block and the tip.
LEMMA TipGrounded ==
    ASSUME IInv, Grounded
    PROVE  maxHeightCertified <= maxHeightPrecommitted
<1>1. Len(chain) \in 0 .. Len(chain)
  BY Heights DEF IInv, ChainOK
<1>2. BlockIn(chain, Len(chain)).certified <= BlockIn(chain, Len(chain)).precommitted
  BY <1>1 DEF Grounded
<1>3. Height = Len(chain) /\ \A h : BlockAt(h) = BlockIn(chain, h)
  BY Names DEF IInv
<1> QED
  BY <1>2, <1>3 DEF maxHeightCertified, maxHeightPrecommitted

\* A block whose aggregate commit was verified keeps what is certified precommitted.
LEMMA GroundedExecute ==
    ASSUME IInv, Grounded, NEW id \in Ids, NEW certified \in Nat,
           certified <= maxHeightPrecommitted, Execute(id, certified)
    PROVE  Grounded'
<1> DEFINE n == Len(chain)
<1>1. /\ Height = n /\ n \in Nat /\ chain \in Seq(BlockType) /\ finalized \in Nat
      /\ finalized <= n /\ maxHeightPrecommitted \in Nat /\ maxHeightPrecommitted <= finalized
  BY Names, Heights DEF IInv, ChainOK, Fits
<1>2. PICK p \in maxHeightPrecommitted .. n :
          /\ n < MaxHeight
          /\ chain' = Append(chain, [id |-> id, precommitted |-> p, certified |-> certified])
          /\ finalized' = Max({finalized, p})
          /\ tasks' = tasks \cup (IF p > finalized THEN {[from |-> finalized, to |-> p]} ELSE {})
          /\ UNCHANGED <<received, local, gossiped, handling, keys, job, missed>>
  BY <1>1 DEF Execute
<1>3. p \in Nat /\ p <= n /\ certified <= p /\ MaxHeight \in Nat
  BY <1>1, <1>2, PoolConstants
<1>4. finalized' \in Nat /\ finalized' >= finalized /\ finalized' >= p
  <2>1. finalized \in Int /\ p \in Int
    BY <1>1, <1>3
  <2>2. /\ Max({finalized, p}) \in Int /\ Max({finalized, p}) >= finalized
        /\ Max({finalized, p}) >= p
    BY <2>1, MaxOfTwo, Zenon
  <2>3. finalized' = Max({finalized, p})
    BY <1>2
  <2> QED
    BY <1>1, <1>3, <2>2, <2>3
<1> DEFINE b == [id |-> id, precommitted |-> p, certified |-> certified]
<1>5. b \in BlockType /\ b.precommitted = p /\ b.certified = certified
  BY <1>3 DEF BlockType
<1> HIDE DEF b
<1>6. /\ Len(chain') = n + 1 /\ chain'[n + 1] = b
      /\ \A i \in 1 .. n : chain'[i] = chain[i]
  BY <1>1, <1>2, <1>5 DEF b
<1>7. /\ \A h \in 0 .. n : BlockIn(chain', h) = BlockIn(chain, h)
      /\ BlockIn(chain', n + 1) = b
  BY <1>1, <1>6 DEF BlockIn
<1>8. \A h \in 0 .. n : BlockIn(chain, h).certified <= BlockIn(chain, h).precommitted
  BY DEF Grounded
<1> HIDE DEF n
<1>9. ASSUME NEW h \in 0 .. n + 1
      PROVE  BlockIn(chain', h).certified <= BlockIn(chain', h).precommitted
  <2>1. CASE h \in 0 .. n
    BY <1>7, <1>8, <2>1
  <2>2. CASE h = n + 1
    BY <1>3, <1>5, <1>7, <2>2
  <2> QED
    BY <1>1, <2>1, <2>2
<1>10. tasks' \subseteq [from : 0 .. MaxHeight, to : 1 .. finalized']
  <2>1. tasks \subseteq [from : 0 .. MaxHeight, to : 1 .. finalized']
    <3>1. tasks \subseteq [from : 0 .. MaxHeight, to : 1 .. finalized]
      BY DEF Grounded
    <3>2. 1 .. finalized \subseteq 1 .. finalized'
      BY <1>1, <1>4
    <3> QED
      BY <3>1, <3>2
  <2>2. p > finalized => finalized \in 0 .. MaxHeight /\ p \in 1 .. finalized'
    BY <1>1, <1>2, <1>3, <1>4
  <2> DEFINE t == [from |-> finalized, to |-> p]
  <2>3. p > finalized => t \in [from : 0 .. MaxHeight, to : 1 .. finalized']
    BY <2>2
  <2>4. tasks' = tasks \cup (IF p > finalized THEN {t} ELSE {})
    BY <1>2
  <2> HIDE DEF t
  <2> QED
    BY <2>1, <2>3, <2>4
<1>11. Len(chain') <= MaxHeight
  BY <1>1, <1>2, <1>3, <1>6
<1>12. All' \subseteq CommitType /\ handling' \in [Peers -> CommitType \cup {None}]
  BY <1>2 DEF Grounded, All
<1> QED
  BY <1>6, <1>9, <1>10, <1>11, <1>12 DEF Grounded

\* Deleting a block takes nothing from the blocks below it.
LEMMA GroundedDelete ==
    ASSUME IInv, Grounded, DeleteBlock
    PROVE  Grounded'
<1> DEFINE n == Len(chain)
<1>1. /\ n \in Nat /\ chain \in Seq(BlockType) /\ finalized \in Nat /\ finalized < n
      /\ chain' = SubSeq(chain, 1, n - 1)
      /\ UNCHANGED <<finalized, tasks, received, local, gossiped, handling>>
  BY Names, Heights DEF IInv, ChainOK, Fits, DeleteBlock
<1>2. n - 1 \in 0 .. Len(chain) /\ MaxHeight \in Nat
  BY <1>1, PoolConstants
<1>3. Len(chain') = n - 1 /\ \A i \in 1 .. n - 1 : chain'[i] = chain[i]
  BY <1>1, <1>2, Prefix
<1>4. \A h \in 0 .. n - 1 : BlockIn(chain', h) = BlockIn(chain, h) /\ h \in 0 .. n
  BY <1>1, <1>3 DEF BlockIn
<1>5. \A h \in 0 .. n : BlockIn(chain, h).certified <= BlockIn(chain, h).precommitted
  BY DEF Grounded
<1>6. n <= MaxHeight
  BY DEF Grounded
<1> HIDE DEF n
<1>7. \A h \in 0 .. Len(chain') : BlockIn(chain', h).certified <= BlockIn(chain', h).precommitted
  BY <1>3, <1>4, <1>5
<1>8. Len(chain') <= MaxHeight
  BY <1>1, <1>2, <1>3, <1>6
<1>9. /\ tasks' \subseteq [from : 0 .. MaxHeight, to : 1 .. finalized']
      /\ All' \subseteq CommitType /\ handling' \in [Peers -> CommitType \cup {None}]
  BY <1>1 DEF Grounded, All
<1> QED
  BY <1>7, <1>8, <1>9 DEF Grounded

\* A step of the pool that adds only well-formed commits.
LEMMA GroundedPool ==
    ASSUME Grounded, UNCHANGED <<chain, finalized>>, tasks' \subseteq tasks,
           All' \subseteq CommitType, handling' \in [Peers -> CommitType \cup {None}]
    PROVE  Grounded'
  BY DEF Grounded

\* The steps of the pool, of the generator and of the peers.
LEMMA GroundedSteps ==
    ASSUME IInv, Grounded, [Next]_vars, ~GenerateBlock, ~ReceiveBlock, ~DeleteBlock
    PROVE  Grounded'
<1>1. /\ ChainOK /\ Len(chain) \in Nat /\ Len(chain) <= MaxHeight /\ finalized \in Nat
      /\ finalized <= Len(chain)
      /\ Height = Len(chain) /\ getMaxRemovalHeight = Removal(chain, finalized)
      /\ Removal(chain, finalized) \in Nat
      /\ maxHeightPrecommitted \in Nat /\ maxHeightPrecommitted <= finalized
  BY Heights, Names, RemovalIs DEF IInv, ChainOK, Fits, Grounded
<1>2. maxHeightPrecommitted <= Len(chain)
  BY <1>1
<1>3. \A V : CommitsOf(V, getMaxRemovalHeight, maxHeightPrecommitted) \subseteq CommitType
  BY <1>1, <1>2, SignedTyped
<1>4. All \subseteq CommitType /\ handling \in [Peers -> CommitType \cup {None}]
  BY DEF Grounded
<1>5. CASE Restart
  <2>1. UNCHANGED <<chain, finalized>> /\ tasks' \subseteq tasks
    BY <1>5 DEF Restart
  <2>2. All' \subseteq CommitType
    BY <1>3, <1>5 DEF Restart, All
  <2>3. handling' \in [Peers -> CommitType \cup {None}]
    BY <1>5 DEF Restart
  <2> QED
    BY <2>1, <2>2, <2>3, GroundedPool
<1>6. ASSUME NEW task \in tasks, handleFinalizedHeightChanged(task) PROVE Grounded'
  <2> DEFINE from == Max({getMaxRemovalHeight, task.from})
  <2>1. task \in [from : 0 .. MaxHeight, to : 1 .. finalized]
    BY DEF Grounded
  <2>2. task.from \in Nat /\ task.to \in Nat /\ task.to <= Len(chain)
    BY <1>1, <2>1
  <2>3. from \in Nat
    <3> DEFINE x == getMaxRemovalHeight
               y == task.from
    <3>1. x \in Nat /\ y \in Nat /\ x \in Int /\ y \in Int
      BY <1>1, <2>2
    <3> HIDE DEF x, y
    <3>2. Max({x, y}) = x \/ Max({x, y}) = y
      BY <3>1, MaxOfTwo, Zenon
    <3>3. Max({x, y}) \in Nat
      BY <3>1, <3>2
    <3> QED
      BY <3>3 DEF x, y
  <2> HIDE DEF from
  <2>4. CommitsOf(keys, from, task.to) \subseteq CommitType
    BY <1>1, <2>2, <2>3, SignedTyped
  <2>5. AddLocal(CommitsOf(keys, from, task.to))
    BY <1>6 DEF handleFinalizedHeightChanged, from
  <2>6. All' \subseteq CommitType
    BY <1>4, <2>4, <2>5 DEF AddLocal, All
  <2>7. UNCHANGED <<chain, finalized, handling>> /\ tasks' \subseteq tasks
    BY <1>6 DEF handleFinalizedHeightChanged
  <2> QED
    BY <1>4, <2>6, <2>7, GroundedPool
<1>7. ASSUME NEW v \in OwnValidators, Enable(v) PROVE Grounded'
  <2>1. All' \subseteq CommitType
    BY <1>3, <1>4, <1>7 DEF Enable, AddLocal, All
  <2>2. UNCHANGED <<chain, finalized, handling>> /\ tasks' \subseteq tasks
    BY <1>7 DEF Enable
  <2> QED
    BY <1>4, <2>1, <2>2, GroundedPool
<1>8. ASSUME NEW v \in OwnValidators, Disable(v) PROVE Grounded'
  <2>1. UNCHANGED <<chain, finalized, handling, tasks, received, local, gossiped>>
    BY <1>8 DEF Disable
  <2> QED
    BY <1>4, <2>1, GroundedPool DEF All
<1>9. ASSUME NEW p \in Peers, ValidateCommit(p) PROVE Grounded'
  <2>1. /\ UNCHANGED <<chain, finalized, tasks, local, gossiped>>
        /\ received' \subseteq received \cup {handling[p]} /\ handling[p] # None
        /\ handling' = [handling EXCEPT ![p] = None]
    BY <1>9 DEF ValidateCommit
  <2>2. handling[p] \in CommitType
    BY <1>4, <2>1
  <2>3. All' \subseteq CommitType
    BY <1>4, <2>1, <2>2 DEF All
  <2>4. handling' \in [Peers -> CommitType \cup {None}]
    BY <1>4, <2>1
  <2> QED
    BY <2>1, <2>3, <2>4, GroundedPool
<1>10. ASSUME NEW p \in Peers, NEW c \in Signable, handleEventSingleCommit(p, c) PROVE Grounded'
  <2>1. UNCHANGED <<chain, finalized, tasks, received, local, gossiped>>
        /\ handling' = [handling EXCEPT ![p] = c]
    BY <1>10 DEF handleEventSingleCommit
  <2>2. c \in CommitType
    BY <1>1, SignableTyped
  <2>3. handling' \in [Peers -> CommitType \cup {None}]
    BY <1>4, <2>1, <2>2
  <2>4. All' \subseteq CommitType
    BY <1>4, <2>1 DEF All
  <2> QED
    BY <2>1, <2>3, <2>4, GroundedPool
<1>11. CASE JobStep
  <2>1. UNCHANGED <<chain, finalized, handling, tasks>>
    BY <1>11 DEF JobStep, StartJob, CleanUp, SelectToGossip
  <2>2. All' \subseteq All
    <3>1. CASE StartJob
      BY <3>1 DEF StartJob, All
    <3>2. CASE CleanUp
      BY <3>2 DEF CleanUp, All
    <3>3. CASE SelectToGossip
      <4> DEFINE old == {x \in getAllCommits : x[2].height < job.precommitted - CommitRangeStored}
      <4>1. PICK a \in Lowest(old, GossipLimit) :
            \E b \in Highest({"local"} \X local, GossipLimit - Cardinality(a)) :
            \E c \in Highest({"received"} \X received, GossipLimit - Cardinality(a) - Cardinality(b)) :
                Gossip({x[2] : x \in a \cup b \cup c})
        BY <3>3 DEF SelectToGossip
      <4>2. PICK b \in Highest({"local"} \X local, GossipLimit - Cardinality(a)) :
            \E c \in Highest({"received"} \X received, GossipLimit - Cardinality(a) - Cardinality(b)) :
                Gossip({x[2] : x \in a \cup b \cup c})
        BY <4>1
      <4> PICK c \in Highest({"received"} \X received, GossipLimit - Cardinality(a) - Cardinality(b)) :
                Gossip({x[2] : x \in a \cup b \cup c})
        BY <4>2
      <4>3. a \subseteq getAllCommits /\ b \subseteq getAllCommits /\ c \subseteq getAllCommits
        BY DEF Lowest, Highest, Some, getAllCommits
      <4>4. \A x \in getAllCommits : x[2] \in All
        BY DEF getAllCommits, All
      <4>5. {x[2] : x \in a \cup b \cup c} \subseteq All
        BY <4>3, <4>4
      <4> QED
        BY <4>5 DEF Gossip, All
    <3> QED
      BY <1>11, <3>1, <3>2, <3>3 DEF JobStep
  <2> QED
    BY <1>4, <2>1, <2>2, GroundedPool
<1>12. CASE UNCHANGED vars
  BY <1>12 DEF Grounded, vars, All
<1> QED
  BY <1>5, <1>6, <1>7, <1>8, <1>9, <1>10, <1>11, <1>12 DEF Next

\* Nothing is certified above what is precommitted, or past the block before the next
\* change of the parameters that is still to be certified.
LEMMA CertifiableBounds ==
    ASSUME ChainOK
    PROVE  /\ CertifiableUpTo <= maxHeightPrecommitted
           /\ (\E k \in DOMAIN Stored : k > maxHeightCertified + 1) =>
                  LET m == Max({getNextHeightBFTParameters(Stored, maxHeightCertified + 1),
                                MinCertifyHeight + 1}) - 1
                  IN  m \in Int /\ CertifiableUpTo <= m
<1> DEFINE S == {k \in DOMAIN Stored : k > maxHeightCertified + 1}
           next == Min(S)
<1>1. maxHeightCertified \in Nat /\ maxHeightPrecommitted \in Nat
  BY Names
<1>2. CASE S = {}
  BY <1>1, <1>2 DEF CertifiableUpTo
<1>3. CASE S # {}
  <2>1. S \in SUBSET Nat
    BY Constants DEF Stored, Restrict
  <2>2. next \in Nat
    BY <1>3, <2>1, MinOfNaturals
  <2>3. getNextHeightBFTParameters(Stored, maxHeightCertified + 1) = next
    BY DEF getNextHeightBFTParameters
  <2> HIDE DEF next
  <2> DEFINE x == Max({next, MinCertifyHeight + 1}) - 1
  <2>4. x \in Int
    <3> DEFINE y == MinCertifyHeight + 1
    <3>1. next \in Int /\ y \in Int
      BY <2>2, Constants
    <3> HIDE DEF y
    <3>2. Max({next, y}) \in Int
      BY <3>1, MaxOfTwo, Zenon
    <3> QED
      BY <3>2 DEF y
  <2>5. CertifiableUpTo = Min({x, maxHeightPrecommitted})
    BY <1>3, <2>3 DEF CertifiableUpTo
  <2> HIDE DEF x
  <2>6. Min({x, maxHeightPrecommitted}) <= x /\ Min({x, maxHeightPrecommitted}) <= maxHeightPrecommitted
    BY <1>1, <2>4, MinOfTwo
  <2>7. CertifiableUpTo <= x /\ CertifiableUpTo <= maxHeightPrecommitted
    BY <2>5, <2>6
  <2> QED
    BY <2>3, <2>4, <2>7 DEF x
<1> QED
  BY <1>2, <1>3

\* The commits for a block of the chain are finitely many, by validators with a weight.
LEMMA CommitsCounted ==
    ASSUME IInv, Grounded, NEW h \in Nat, h > 0
    PROVE  /\ IsFiniteSet(getCommitsByHeight(h))
           /\ \A x \in getCommitsByHeight(h) : x[2].validator \in DOMAIN ParametersAt(h).weights
<1> DEFINE S == getCommitsByHeight(h)
           V == DOMAIN ParametersAt(h).weights
           L == {"received", "local", "gossiped"}
           T == L \X (Ids \X V)
           f == [x \in S |-> <<x[1], <<x[2].id, x[2].validator>>>>]
<1>1. ASSUME NEW x \in S
      PROVE  /\ x[1] \in L /\ x[2].id \in Ids /\ x[2].validator \in V
             /\ x = <<x[1], x[2]>>
             /\ x[2] = [height |-> h, id |-> x[2].id, validator |-> x[2].validator]
  <2>1. x[1] \in L /\ x[2] \in All /\ x[2].height = h /\ x = <<x[1], x[2]>>
    BY DEF getCommitsByHeight, getAllCommits, All
  <2>2. x[2] \in CommitType
    BY <2>1 DEF Grounded
  <2>3. /\ x[2] \in [height : 1 .. MaxHeight, id : Ids, validator : Validators]
        /\ x[2].validator \in DOMAIN ParametersAt(x[2].height).weights
    BY <2>2 DEF CommitType
  <2>4. x[2] = [height |-> x[2].height, id |-> x[2].id, validator |-> x[2].validator]
    BY <2>3
  <2> QED
    BY <2>1, <2>3, <2>4
<1>2. IsFiniteSet(V) /\ IsFiniteSet(Ids) /\ IsFiniteSet(L)
  <2>1. IsFiniteSet(V)
    BY ParametersTyped
  <2>2. IsFiniteSet({Agreed} \cup {2}) /\ IsFiniteSet({"received"} \cup {"local"} \cup {"gossiped"})
    BY FS_Singleton, FS_AddElement
  <2>3. Ids = {Agreed} \cup {2} /\ L = {"received"} \cup {"local"} \cup {"gossiped"}
    BY DEF Ids
  <2> QED
    BY <2>1, <2>2, <2>3
<1> HIDE DEF L, V
<1>3. IsFiniteSet(Ids \X V)
  BY <1>2, FS_Product
<1>4. IsFiniteSet(T)
  BY <1>2, <1>3, FS_Product
<1> HIDE DEF S
<1>5. f \in [S -> T]
  BY <1>1
<1>6. \A x \in S, y \in S : f[x] = f[y] => x = y
  <2> TAKE x \in S
  <2> TAKE y \in S
  <2> HAVE f[x] = f[y]
  <2>1. x[1] = y[1] /\ x[2].id = y[2].id /\ x[2].validator = y[2].validator
    OBVIOUS
  <2>2. /\ x[2] = [height |-> h, id |-> x[2].id, validator |-> x[2].validator]
        /\ y[2] = [height |-> h, id |-> y[2].id, validator |-> y[2].validator]
        /\ x = <<x[1], x[2]>> /\ y = <<y[1], y[2]>>
    BY <1>1, Zenon
  <2>3. x[2] = y[2]
    BY <2>1, <2>2, Zenon
  <2> QED
    BY <2>1, <2>2, <2>3, Zenon
<1>7. f \in Injection(S, T)
  BY <1>5, <1>6 DEF Injection, IsInjective
<1> HIDE DEF f, T
<1>8. IsFiniteSet(S)
  BY <1>4, <1>7, FS_Injection
<1> QED
  BY <1>1, <1>8 DEF S, V

\* When no commit counts twice, the weight of the commits is the weight of the signers.
LEMMA WeightOfSigners ==
    ASSUME IInv, Grounded, NEW h \in Nat, h > 0, h <= Len(chain),
           aggregateSingleCommits(h).sound
    PROVE  SumFunction(Restrict(Weights(h), aggregateSingleCommits(h).signers)) = CommitWeight(h)
<1> DEFINE S == getCommitsByHeight(h)
           W == ParametersAt(h).weights
           b == [x \in S |-> x[2].validator]
           f == [x \in S |-> W[x[2].validator]]
<1>1. Weights(h) = W
  BY WeightsFixed DEF IInv
<1>2. IsFiniteSet(S) /\ \A x \in S : x[2].validator \in DOMAIN W
  BY CommitsCounted
<1>3. \A v \in DOMAIN W : W[v] \in Nat
  BY ParametersTyped
<1>4. \A x \in S, y \in S : x[2].validator = y[2].validator => x = y
  BY DEF aggregateSingleCommits
<1>5. aggregateSingleCommits(h).signers = {x[2].validator : x \in S}
  BY DEF aggregateSingleCommits
<1>6. CommitWeight(h) = SumFunction(f)
  BY <1>1 DEF CommitWeight
<1> HIDE DEF S, W
<1>7. f = Restrict(f, S)
  BY DEF Restrict
<1>8. /\ \A x \in S : f[x] \in Int
      /\ \A x \in S, y \in S : b[x] = b[y] => x = y
      /\ \A x \in S : W[b[x]] = f[x]
  BY <1>2, <1>3, <1>4
<1>9. {b[x] : x \in S} = {x[2].validator : x \in S}
  OBVIOUS
<1> HIDE DEF f, b
<1>10. SumFunction(Restrict(f, S)) = SumFunction(Restrict(W, {b[x] : x \in S}))
  BY <1>2, <1>8, SumRenamed
<1> QED
  BY <1>1, <1>5, <1>6, <1>7, <1>9, <1>10

\* The threshold is not reached without commits.
LEMMA WeightNeedsCommits ==
    ASSUME IInv, Grounded, NEW h \in Nat, h > 0, h <= Len(chain), CommitWeight(h) >= Threshold(h)
    PROVE  getCommitsByHeight(h) # {}
<1> SUFFICES ASSUME getCommitsByHeight(h) = {} PROVE FALSE
  OBVIOUS
<1> DEFINE f == [x \in getCommitsByHeight(h) |-> Weights(h)[x[2].validator]]
<1>1. DOMAIN f = {} /\ CommitWeight(h) = SumFunction(f)
  BY DEF CommitWeight
<1> HIDE DEF f
<1>2. CommitWeight(h) = 0
  BY <1>1, SumEmpty
<1>3. Threshold(h) \in Nat \ {0}
  BY ThresholdFixed, ParametersTyped DEF IInv
<1> QED
  BY <1>2, <1>3

\* The aggregate commit that is selected is verified, if it is sound.
LEMMA SelectedPasses ==
    ASSUME IInv, Grounded, selectAggregateCommit.sound
    PROVE  verifyAggregateCommit(selectAggregateCommit)
<1> DEFINE low   == Max({maxHeightCertified, MinCertifyHeight - 1})
           ready == {h \in (low + 1) .. CertifiableUpTo : CommitWeight(h) >= Threshold(h)}
           a     == selectAggregateCommit
<1>1. /\ maxHeightCertified \in Nat /\ CertifiableUpTo \in Int /\ maxHeightPrecommitted \in Nat
      /\ maxHeightPrecommitted <= finalized /\ finalized <= Len(chain)
      /\ finalized \in Nat /\ Len(chain) \in Nat
      /\ CertifiableUpTo <= maxHeightPrecommitted
  BY Names, Heights, CertifiableIsHeight, CertifiableBounds DEF IInv, ChainOK, Fits
<1>2. low \in Int /\ low >= maxHeightCertified /\ low >= MinCertifyHeight - 1
  <2> DEFINE x == maxHeightCertified
             y == MinCertifyHeight - 1
  <2>1. x \in Int /\ y \in Int
    BY <1>1, Constants
  <2>2. low = Max({x, y})
    OBVIOUS
  <2> HIDE DEF x, y, low
  <2>3. Max({x, y}) \in Int /\ Max({x, y}) >= x /\ Max({x, y}) >= y
    BY <2>1, MaxOfTwo, Zenon
  <2> QED
    BY <2>2, <2>3 DEF x, y
<1>3. a = IF ready = {} THEN NoAggregate ELSE aggregateSingleCommits(Max(ready))
  BY DEF selectAggregateCommit
<1> HIDE DEF low
<1>4. \A h \in ready : /\ h \in Nat /\ h > maxHeightCertified /\ h >= MinCertifyHeight
                       /\ h <= CertifiableUpTo /\ CommitWeight(h) >= Threshold(h)
  BY <1>1, <1>2, Constants
<1> HIDE DEF ready
<1>5. CASE ready = {}
  BY <1>3, <1>5 DEF NoAggregate, verifyAggregateCommit
<1>6. CASE ready # {}
  <2> DEFINE m == Max(ready)
  <2>1. ready \in SUBSET Nat /\ CertifiableUpTo \in Nat
    BY <1>1, <1>4, <1>6
  <2>2. m \in ready
    BY <1>4, <1>6, <2>1, MaxOfBounded
  <2>3. a = aggregateSingleCommits(m)
    BY <1>3, <1>6
  <2> HIDE DEF m
  <2>4. /\ m \in Nat /\ m > maxHeightCertified /\ m >= MinCertifyHeight
        /\ m <= CertifiableUpTo /\ CommitWeight(m) >= Threshold(m)
    BY <1>4, <2>2
  <2>5. m > 0 /\ m <= maxHeightPrecommitted /\ m <= Len(chain)
    BY <1>1, <2>4
  <2>6. a.height = m /\ a.sound /\ a.signers = {x[2].validator : x \in getCommitsByHeight(m)}
    BY <2>3 DEF aggregateSingleCommits
  <2>7. a.signers # {}
    BY <2>4, <2>5, <2>6, WeightNeedsCommits
  <2>8. SumFunction(Restrict(Weights(m), a.signers)) >= Threshold(m)
    BY <2>3, <2>4, <2>5, <2>6, WeightOfSigners
  <2>9. (\E k \in DOMAIN Stored : k > maxHeightCertified + 1) =>
            m <= Max({getNextHeightBFTParameters(Stored, maxHeightCertified + 1),
                      MinCertifyHeight + 1}) - 1
    <3> HAVE \E k \in DOMAIN Stored : k > maxHeightCertified + 1
    <3> DEFINE x == Max({getNextHeightBFTParameters(Stored, maxHeightCertified + 1),
                         MinCertifyHeight + 1}) - 1
    <3>1. x \in Int /\ CertifiableUpTo <= x
      BY CertifiableBounds DEF IInv
    <3> HIDE DEF x
    <3>2. m <= x
      BY <1>1, <2>4, <3>1
    <3> QED
      BY <3>2 DEF x
  <2> HIDE DEF a
  <2>10. verifyAggregateCommit(a)
    BY <2>4, <2>5, <2>6, <2>7, <2>8, <2>9 DEF verifyAggregateCommit
  <2> QED
    BY <2>10 DEF a
<1> QED
  BY <1>5, <1>6

\* The height an aggregate commit certifies is precommitted, once it is verified.
LEMMA VerifiedIsPrecommitted ==
    ASSUME IInv, Grounded, NEW a, a.height \in Nat, verifyAggregateCommit(a)
    PROVE  a.height <= maxHeightPrecommitted
<1>1. maxHeightCertified <= maxHeightPrecommitted /\ maxHeightPrecommitted \in Nat
      /\ maxHeightCertified \in Nat
  BY TipGrounded, Names DEF IInv
<1> QED
  BY <1>1 DEF verifyAggregateCommit

(* ------------------------------- theorems ------------------------------ *)

\* The invariant holds in every behaviour.
THEOREM Invariance == Spec => []IInv
<1>1. Init => IInv
  <2> SUFFICES ASSUME Init PROVE IInv
    OBVIOUS
  <2>1. /\ chain \in Seq(BlockType) /\ Len(chain) = 0 /\ finalized = 0
        /\ tasks = {} /\ job = Idle
    BY DEF Init
  <2>2. ChainOK
    <3>1. \A h \in 0 .. 0 : h = 0
      OBVIOUS
    <3>2. BlockIn(chain, 0).precommitted = 0 /\ BlockIn(chain, 0).certified = 0
      BY DEF BlockIn, Genesis
    <3> QED
      BY <2>1, <3>1, <3>2 DEF ChainOK, Fits
  <2>3. TasksOK /\ JobOK
    BY <2>1 DEF TasksOK, JobOK, Idle, Phases
  <2>4. Covered
    BY <2>1 DEF Covered, Needed
  <2> QED
    BY <2>2, <2>3, <2>4 DEF IInv
<1>2. IInv /\ [Next]_vars => IInv'
  <2> SUFFICES ASSUME IInv, [Next]_vars PROVE IInv'
    OBVIOUS
  <2>1. CASE GenerateBlock
    <3>1. Execute(Agreed, selectAggregateCommit.height) /\ Agreed \in Ids
      BY <2>1 DEF GenerateBlock, Ids
    <3> QED
      BY <3>1, SelectedIsHigher, ExecuteStep DEF IInv
  <2>2. CASE ReceiveBlock
    <3>1. PICK id \in Ids, certified \in maxHeightCertified .. Height : Execute(id, certified)
      BY <2>2 DEF ReceiveBlock
    <3>2. certified \in Nat /\ certified >= maxHeightCertified
      BY Names, Heights DEF IInv, ChainOK
    <3> QED
      BY <3>1, <3>2, ExecuteStep
  <2>3. CASE DeleteBlock
    BY <2>3, DeleteBlockStep
  <2>4. CASE Restart
    BY <2>4, RestartStep
  <2>5. CASE \E task \in tasks : handleFinalizedHeightChanged(task)
    BY <2>5, TaskStep
  <2>6. CASE \E v \in OwnValidators : Enable(v) \/ Disable(v)
    BY <2>6, EnableStep, PlainSteps
  <2>7. CASE \E p \in Peers : \/ ValidateCommit(p)
                              \/ \E c \in Signable : handleEventSingleCommit(p, c)
    BY <2>7, PlainSteps
  <2>8. CASE JobStep
    BY <2>8, PlainSteps, CleanUpStep DEF JobStep
  <2>9. CASE UNCHANGED vars
    BY <2>9 DEF vars, IInv, ChainOK, TasksOK, JobOK, Covered, Needed, Pending, All
  <2> QED
    BY <2>1, <2>2, <2>3, <2>4, <2>5, <2>6, <2>7, <2>8, <2>9 DEF Next
<1> QED
  BY <1>1, <1>2, PTL DEF Spec

\* The commits of the node's own validators that the network may still need are in
\* the pool whenever no change of the finalized height is waiting to be handled:
\* the job's clean-up with heights read earlier, blocks deleted under the pool,
\* restarts and keys enabled and disabled lose none of them.
THEOREM OwnCommitsKept == Spec => []OwnCommitsPresent
<1>1. IInv => OwnCommitsPresent
  BY CoveredServes
<1> QED
  BY <1>1, Invariance, PTL

\* The pool, the votes and the commits under validation stay well formed.
THEOREM GroundedAlways == Spec => []Grounded
<1>1. Init => Grounded
  <2> SUFFICES ASSUME Init PROVE Grounded
    OBVIOUS
  <2>1. Len(chain) = 0 /\ MaxHeight \in Nat
    BY PoolConstants DEF Init
  <2>2. BlockIn(chain, 0).certified <= BlockIn(chain, 0).precommitted
    BY DEF BlockIn, Genesis
  <2>3. \A h \in 0 .. Len(chain) : h = 0
    BY <2>1
  <2>4. All = {} /\ tasks = {} /\ handling \in [Peers -> CommitType \cup {None}]
    BY DEF Init, All
  <2> QED
    BY <2>1, <2>2, <2>3, <2>4 DEF Grounded
<1>2. IInv /\ Grounded /\ [Next]_vars => Grounded'
  <2> SUFFICES ASSUME IInv, Grounded, [Next]_vars PROVE Grounded'
    OBVIOUS
  <2>1. CASE GenerateBlock
    <3> DEFINE a == selectAggregateCommit
    <3>1. Execute(Agreed, a.height) /\ Agreed \in Ids /\ verifyAggregateCommit(a)
      BY <2>1 DEF GenerateBlock, Ids
    <3>2. a.height \in Nat
      BY SelectedIsHigher DEF IInv
    <3> HIDE DEF a
    <3>3. a.height <= maxHeightPrecommitted
      BY <3>1, <3>2, VerifiedIsPrecommitted
    <3> QED
      BY <3>1, <3>2, <3>3, GroundedExecute
  <2>2. CASE ReceiveBlock
    <3>1. PICK id \in Ids, certified \in maxHeightCertified .. Height :
              /\ verifyAggregateCommit(
                     [height  |-> certified,
                      signers |-> IF certified = maxHeightCertified THEN {}
                                  ELSE DOMAIN Weights(certified),
                      sound   |-> TRUE])
              /\ Execute(id, certified)
      BY <2>2 DEF ReceiveBlock
    <3> DEFINE a == [height  |-> certified,
                     signers |-> IF certified = maxHeightCertified THEN {}
                                 ELSE DOMAIN Weights(certified),
                     sound   |-> TRUE]
    <3>2. certified \in Nat /\ a.height = certified /\ verifyAggregateCommit(a)
      BY <3>1, Names, Heights DEF IInv, ChainOK
    <3> HIDE DEF a
    <3>3. certified <= maxHeightPrecommitted
      BY <3>2, VerifiedIsPrecommitted
    <3> QED
      BY <3>1, <3>2, <3>3, GroundedExecute
  <2>3. CASE DeleteBlock
    BY <2>3, GroundedDelete
  <2> QED
    BY <2>1, <2>2, <2>3, GroundedSteps
<1> QED
  BY <1>1, <1>2, Invariance, PTL DEF Spec

\* The aggregate commit of an own block passes verification, for every validator set,
\* every history of parameters and every pool: what _selectAggregateCommit counts are
\* commits for which verifyAggregateCommit finds weights, at a height both accept.
THEOREM SelectedAlwaysVerifies == Spec => []SelectedVerifies
<1>1. IInv /\ Grounded => SelectedVerifies
  <2> SUFFICES ASSUME IInv, Grounded PROVE SelectedVerifies
    OBVIOUS
  <2>1. TypeOK
    <3>1. /\ Height = Len(chain) /\ Len(chain) \in Nat /\ finalized \in Nat
          /\ finalized <= Len(chain) /\ maxHeightCertified \in Nat
          /\ maxHeightPrecommitted \in Nat /\ maxHeightPrecommitted <= finalized
          /\ maxHeightCertified <= maxHeightPrecommitted
      BY Names, Heights, TipGrounded DEF IInv, ChainOK, Fits
    <3>2. finalized \in 0 .. Height /\ maxHeightCertified <= finalized
      BY <3>1
    <3>3. tasks \subseteq [from : 0 .. MaxHeight, to : 1 .. finalized]
      BY DEF Grounded
    <3>4. All \subseteq [height : 1 .. MaxHeight, id : Ids, validator : UNION {
              DOMAIN Parameters[k].weights : k \in DOMAIN Parameters}]
      BY DEF Grounded, CommitType, Validators
    <3>5. job.phase \in {"idle", "received", "local", "gossiped", "select"}
      BY DEF IInv, JobOK, Phases
    <3> QED
      BY <3>2, <3>3, <3>4, <3>5 DEF TypeOK
  <2>2. selectAggregateCommit.sound => verifyAggregateCommit(selectAggregateCommit)
    BY SelectedPasses
  <2> QED
    BY <2>1, <2>2 DEF SelectedVerifies
<1> QED
  BY <1>1, GroundedAlways, Invariance, PTL
=============================================================================
