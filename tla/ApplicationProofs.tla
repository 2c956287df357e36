------------------------- MODULE ApplicationProofs -------------------------
(* Theorems about Application, for every genesis and all transactions. *)
EXTENDS Application, FiniteSetTheorems, TLAPS, WellFoundedInduction

(* --------------------------------- sums -------------------------------- *)

\* A nonempty set of naturals has a least element.
LEMMA LeastNatural ==
    ASSUME NEW S \in SUBSET Nat, S # {}
    PROVE  \E m \in S : \A n \in S : m <= n
<1> DEFINE R == {ss \in Nat \X Nat : ss[1] < ss[2]}
<1>1. IsWellFoundedOn(R, Nat)
  BY NatLessThanWellFounded, Zenon DEF OpToRel
<1> HIDE DEF R
<1>2. \E x \in S : \A y \in S : <<y, x>> \notin R
  BY <1>1, WFMin, Zenon
<1>3. \A x \in Nat, y \in Nat : <<y, x>> \notin R => x <= y
  BY DEF R
<1> QED
  BY <1>2, <1>3

\* What holds of the empty set and is kept when an element joins holds of every
\* finite set.
LEMMA FiniteSetsReached ==
    ASSUME NEW S, IsFiniteSet(S), NEW good, {} \in good,
           \A T \in SUBSET S : \A x \in S \ T : T \in good => T \cup {x} \in good
    PROVE  S \in good
<1> DEFINE bad == {n \in Nat : \E T \in SUBSET S : Cardinality(T) = n /\ T \notin good}
<1> SUFFICES ASSUME S \notin good PROVE FALSE
  OBVIOUS
<1>1. Cardinality(S) \in bad
  BY FS_CardinalityType
<1>2. bad \in SUBSET Nat /\ bad # {}
  BY <1>1
<1> HIDE DEF bad
<1>3. PICK m \in bad : \A n \in bad : m <= n
  BY <1>2, LeastNatural
<1>4. PICK T \in SUBSET S : Cardinality(T) = m /\ T \notin good
  BY DEF bad
<1>5. IsFiniteSet(T) /\ T # {}
  BY <1>4, FS_Subset
<1>6. PICK x \in T : TRUE
  BY <1>5
<1> DEFINE U == T \ {x}
<1>7. IsFiniteSet(U) /\ Cardinality(U) = m - 1 /\ m \in Nat
  BY <1>2, <1>4, <1>5, FS_RemoveElement
<1>8. m - 1 \in Nat /\ U \in SUBSET S /\ x \in S \ U /\ U \cup {x} = T
  BY <1>7, FS_CardinalityType
<1>9. m - 1 \notin bad
  BY <1>3, <1>7, <1>8
<1>10. U \in good
  BY <1>7, <1>8, <1>9 DEF bad
<1> QED
  BY <1>4, <1>8, <1>10

AnyOf(s) == CHOOSE x \in s : TRUE

\* g sums f over the sets of C, which are closed under taking an element out.
Sums(g, f, C) ==
    g = [s \in C |-> IF s = {} THEN 0 ELSE f[AnyOf(s)] + g[s \ {AnyOf(s)}]]

\* What SumFunction denotes.
LEMMA SumUnfolded ==
    ASSUME NEW f
    PROVE  SumFunction(f) = (CHOOSE g : Sums(g, f, SUBSET DOMAIN f))[DOMAIN f]
  BY DEF SumFunction, SumFunctionOnSet, FoldFunctionOnSet, MapThenFoldSet, Sums, AnyOf

\* The subsets of a finite set have sums.
LEMMA SumsExist ==
    ASSUME NEW f, NEW S, IsFiniteSet(S)
    PROVE  \E g : Sums(g, f, SUBSET S)
<1> DEFINE Small(n) == {s \in SUBSET S : Cardinality(s) <= n}
           bad == {n \in Nat : ~\E g : Sums(g, f, Small(n))}
<1>1. \A s \in SUBSET S :
          IsFiniteSet(s) /\ Cardinality(s) \in Nat /\ Cardinality(s) <= Cardinality(S)
  BY FS_Subset, FS_CardinalityType
<1>2. Cardinality(S) \in Nat /\ Small(Cardinality(S)) = SUBSET S
  BY <1>1
<1>3. \A s \in SUBSET S : s # {} =>
          /\ AnyOf(s) \in s /\ s \ {AnyOf(s)} \in SUBSET S
          /\ Cardinality(s \ {AnyOf(s)}) = Cardinality(s) - 1
  <2> TAKE s \in SUBSET S
  <2> HAVE s # {}
  <2>1. AnyOf(s) \in s
    BY DEF AnyOf
  <2> QED
    BY <2>1, <1>1, FS_RemoveElement
<1>4. bad = {}
  <2> SUFFICES ASSUME bad # {} PROVE FALSE
    OBVIOUS
  <2>1. PICK m \in bad : \A n \in bad : m <= n
    <3>1. bad \in SUBSET Nat
      OBVIOUS
    <3> HIDE DEF bad
    <3> QED
      BY <3>1, LeastNatural
  <2>2. m \in Nat /\ ~\E g : Sums(g, f, Small(m))
    BY <2>1
  <2>3. m # 0
    <3> SUFFICES ASSUME m = 0 PROVE FALSE
      OBVIOUS
    <3>1. \A s \in Small(0) : s = {}
      BY <1>1, FS_EmptySet
    <3>2. Sums([s \in Small(0) |-> 0], f, Small(0))
      BY <3>1 DEF Sums
    <3> QED
      BY <3>2, <2>2
  <2>4. m - 1 \in Nat /\ m - 1 \notin bad
    <3>1. m - 1 \in Nat /\ ~(m <= m - 1)
      BY <2>2, <2>3
    <3> HIDE DEF bad
    <3> QED
      BY <3>1, <2>1
  <2>5. PICK g : Sums(g, f, Small(m - 1))
    BY <2>4
  <2> DEFINE h == [s \in Small(m) |-> IF s = {} THEN 0
                     ELSE f[AnyOf(s)] + g[s \ {AnyOf(s)}]]
  <2>6. \A s \in Small(m - 1) : s \in Small(m) /\ h[s] = g[s]
    <3> TAKE s \in Small(m - 1)
    <3>1. s \in Small(m)
      BY <1>1, <2>2
    <3>2. g[s] = IF s = {} THEN 0 ELSE f[AnyOf(s)] + g[s \ {AnyOf(s)}]
      BY <2>5 DEF Sums
    <3> QED
      BY <3>1, <3>2
  <2>7. \A s \in Small(m) : s # {} => s \ {AnyOf(s)} \in Small(m - 1)
    BY <1>1, <1>3, <2>2
  <2>8. \A s \in Small(m) : h[s] = IF s = {} THEN 0 ELSE f[AnyOf(s)] + h[s \ {AnyOf(s)}]
    <3> TAKE s \in Small(m)
    <3>1. h[s] = IF s = {} THEN 0 ELSE f[AnyOf(s)] + g[s \ {AnyOf(s)}]
      OBVIOUS
    <3>2. s # {} => h[s \ {AnyOf(s)}] = g[s \ {AnyOf(s)}]
      BY <2>6, <2>7
    <3> HIDE DEF h
    <3> QED
      BY <3>1, <3>2
  <2>9. Sums(h, f, Small(m))
    <3>1. h = [s \in Small(m) |-> h[s]]
      OBVIOUS
    <3> HIDE DEF h, Small
    <3> QED
      BY <2>8, <3>1 DEF Sums
  <2> QED
    BY <2>9, <2>2
<1> QED
  BY <1>2, <1>4

\* The sum of s may begin with any of its elements.
AnyOrder(g, f, s) == \A x \in s : g[s] = f[x] + g[s \ {x}]

\* The order of the elements does not matter for a sum.
LEMMA SumsAnyOrder ==
    ASSUME NEW f, NEW S, IsFiniteSet(S), \A x \in S : f[x] \in Int,
           NEW g, Sums(g, f, SUBSET S)
    PROVE  \A s \in SUBSET S : g[s] \in Int /\ AnyOrder(g, f, s)
<1> DEFINE Typed(s) == g[s] \in Int
           Free(s)   == \A x \in s : g[s] = f[x] + g[s \ {x}]
           bad      == {n \in Nat :
                           \E s \in SUBSET S : Cardinality(s) = n /\ ~(Typed(s) /\ Free(s))}
<1>1. \A s \in SUBSET S : IsFiniteSet(s) /\ Cardinality(s) \in Nat
  BY FS_Subset, FS_CardinalityType
<1>2. \A s \in SUBSET S : g[s] = IF s = {} THEN 0 ELSE f[AnyOf(s)] + g[s \ {AnyOf(s)}]
  BY DEF Sums
<1>3. bad = {}
  <2> SUFFICES ASSUME bad # {} PROVE FALSE
    OBVIOUS
  <2>1. PICK m \in bad : \A n \in bad : m <= n
    <3>1. bad \in SUBSET Nat
      OBVIOUS
    <3> HIDE DEF bad
    <3> QED
      BY <3>1, LeastNatural
  <2>2. PICK s \in SUBSET S : Cardinality(s) = m /\ ~(Typed(s) /\ Free(s))
    BY <2>1
  <2>3. \A t \in SUBSET S : Cardinality(t) < m => Typed(t) /\ Free(t)
    <3> TAKE t \in SUBSET S
    <3> HAVE Cardinality(t) < m
    <3>1. Cardinality(t) \notin bad /\ Cardinality(t) \in Nat
      BY <1>1, <2>1
    <3> HIDE DEF Typed, Free
    <3> QED
      BY <3>1
  <2>4. s # {}
    <3> SUFFICES ASSUME s = {} PROVE FALSE
      OBVIOUS
    <3>1. g[s] = 0 /\ Free(s)
      BY <1>2
    <3> QED
      BY <3>1, <2>2
  <2> DEFINE y == AnyOf(s)
  <2>5. y \in s
    BY <2>4 DEF AnyOf
  <2>6. g[s] = f[y] + g[s \ {y}]
    BY <1>2, <2>4
  <2> HIDE DEF y
  <2>7. \A x \in s : s \ {x} \in SUBSET S /\ Cardinality(s \ {x}) < m
    <3> TAKE x \in s
    <3>1. IsFiniteSet(s) /\ Cardinality(s \ {x}) = Cardinality(s) - 1
      BY <1>1, FS_RemoveElement
    <3> QED
      BY <3>1, <2>2, <1>1
  <2>8. \A x \in s : Typed(s \ {x}) /\ Free(s \ {x})
    <3> HIDE DEF Typed, Free
    <3> QED
      BY <2>3, <2>7
  <2>9. Typed(s)
    <3>1. f[y] \in Int /\ g[s \ {y}] \in Int
      BY <2>5, <2>8
    <3> QED
      BY <3>1, <2>6
  <2>10. ASSUME NEW x \in s
         PROVE  g[s] = f[x] + g[s \ {x}]
    <3>1. CASE x = y
      BY <3>1, <2>6
    <3>2. CASE x # y
      <4> DEFINE both == (s \ {x}) \ {y}
      <4>1. both = (s \ {y}) \ {x} /\ x \in s \ {y} /\ y \in s \ {x}
        BY <3>2, <2>5
      <4>2. g[s \ {y}] = f[x] + g[both]
        BY <4>1, <2>5, <2>8
      <4>3. g[s \ {x}] = f[y] + g[both]
        BY <4>1, <2>8
      <4>4. g[both] \in Int /\ f[x] \in Int /\ f[y] \in Int
        <5>1. Cardinality(both) < m /\ both \in SUBSET S
          <6>1. IsFiniteSet(s \ {x}) /\ Cardinality(both) = Cardinality(s \ {x}) - 1
            BY <4>1, <2>7, <1>1, FS_RemoveElement, ZenonT(60)
          <6> QED
            BY <6>1, <2>7, <2>2, <1>1
        <5> QED
          BY <5>1, <2>3, <2>5
      <4> HIDE DEF both
      <4> QED
        BY <4>2, <4>3, <4>4, <2>6
    <3> QED
      BY <3>1, <3>2
  <2> QED
    BY <2>2, <2>9, <2>10
<1> HIDE DEF Typed, Free
<1>4. \A s \in SUBSET S : Typed(s) /\ Free(s)
  BY <1>1, <1>3
<1> QED
  BY <1>4 DEF Typed, Free, AnyOrder

\* Sums of functions that agree on the subsets of a set agree there.
LEMMA SumsAgree ==
    ASSUME NEW f, NEW g, NEW S, NEW h, NEW k, NEW T, IsFiniteSet(T), T \subseteq S,
           \A x \in T : f[x] = h[x], Sums(g, f, SUBSET S), Sums(k, h, SUBSET T)
    PROVE  g[T] = k[T]
<1> DEFINE bad == {n \in Nat : \E s \in SUBSET T : Cardinality(s) = n /\ g[s] # k[s]}
<1>1. \A s \in SUBSET T : IsFiniteSet(s) /\ Cardinality(s) \in Nat
  BY FS_Subset, FS_CardinalityType
<1>2. bad = {}
  <2> SUFFICES ASSUME bad # {} PROVE FALSE
    OBVIOUS
  <2>1. PICK m \in bad : \A n \in bad : m <= n
    <3>1. bad \in SUBSET Nat
      OBVIOUS
    <3> HIDE DEF bad
    <3> QED
      BY <3>1, LeastNatural
  <2>2. PICK s \in SUBSET T : Cardinality(s) = m /\ g[s] # k[s]
    BY <2>1
  <2>3. /\ g[s] = IF s = {} THEN 0 ELSE f[AnyOf(s)] + g[s \ {AnyOf(s)}]
        /\ k[s] = IF s = {} THEN 0 ELSE h[AnyOf(s)] + k[s \ {AnyOf(s)}]
    BY DEF Sums
  <2>4. s # {} /\ AnyOf(s) \in s
    BY <2>2, <2>3 DEF AnyOf
  <2>5. s \ {AnyOf(s)} \in SUBSET T /\ Cardinality(s \ {AnyOf(s)}) = m - 1 /\ m \in Nat
    BY <2>2, <2>4, <1>1, FS_RemoveElement
  <2>6. Cardinality(s \ {AnyOf(s)}) \notin bad /\ Cardinality(s \ {AnyOf(s)}) \in Nat
    <3>1. Cardinality(s \ {AnyOf(s)}) \in Nat /\ ~(m <= Cardinality(s \ {AnyOf(s)}))
      BY <2>5, <1>1
    <3> HIDE DEF bad
    <3> QED
      BY <3>1, <2>1
  <2>7. g[s \ {AnyOf(s)}] = k[s \ {AnyOf(s)}]
    BY <2>5, <2>6
  <2> QED
    BY <2>2, <2>3, <2>4, <2>7
<1> QED
  BY <1>1, <1>2

\* The sum of a function with one more argument.
LEMMA SumAdd ==
    ASSUME NEW f, IsFiniteSet(DOMAIN f), \A y \in DOMAIN f : f[y] \in Int, NEW x \in DOMAIN f,
           NEW h, DOMAIN h = DOMAIN f \ {x}, \A y \in DOMAIN h : h[y] = f[y]
    PROVE  /\ SumFunction(f) = f[x] + SumFunction(h)
           /\ SumFunction(f) \in Int /\ SumFunction(h) \in Int
<1> DEFINE S == DOMAIN f
           T == DOMAIN h
           g == CHOOSE c : Sums(c, f, SUBSET S)
           k == CHOOSE c : Sums(c, h, SUBSET T)
<1>1. IsFiniteSet(S) /\ IsFiniteSet(T) /\ T \subseteq S /\ T = S \ {x} /\ x \in S
      /\ (\A y \in S : f[y] \in Int) /\ \A y \in T : f[y] = h[y]
  BY FS_Subset
<1>2. SumFunction(f) = g[S] /\ SumFunction(h) = k[T]
  BY SumUnfolded
<1> HIDE DEF S, T
<1>3. Sums(g, f, SUBSET S)
  BY <1>1, SumsExist
<1>4. Sums(k, h, SUBSET T)
  BY <1>1, SumsExist
<1> HIDE DEF g, k
<1>5. g[T] = k[T]
  <2>1. \A x1 \in T : f[x1] = h[x1]
    BY <1>1
  <2>2. IsFiniteSet(T) /\ T \subseteq S
    BY <1>1
  <2> QED
    BY <2>1, <2>2, <1>3, <1>4, SumsAgree
<1>6. \A s \in SUBSET S : g[s] \in Int /\ AnyOrder(g, f, s)
  <2>1. \A y \in S : f[y] \in Int
    BY <1>1
  <2>2. IsFiniteSet(S)
    BY <1>1
  <2> QED
    BY <2>1, <2>2, <1>3, SumsAnyOrder
<1>7. g[S] = f[x] + g[T] /\ g[S] \in Int /\ g[T] \in Int
  BY <1>1, <1>6 DEF AnyOrder
<1> QED
  BY <1>2, <1>5, <1>7

\* The sum of the empty function.
LEMMA SumEmpty ==
    ASSUME NEW f, DOMAIN f = {}
    PROVE  SumFunction(f) = 0
<1>1. IsFiniteSet({}) 
  BY FS_EmptySet
<1>2. Sums(CHOOSE g : Sums(g, f, SUBSET {}), f, SUBSET {})
  BY <1>1, SumsExist
<1>3. SumFunction(f) = (CHOOSE g : Sums(g, f, SUBSET {}))[{}]
  BY SumUnfolded
<1> QED
  BY <1>2, <1>3 DEF Sums

\* The sum of one more value.
LEMMA SumOneMore ==
    ASSUME NEW f, NEW T, IsFiniteSet(T), NEW x, x \notin T, \A y \in T \cup {x} : f[y] \in Int
    PROVE  SumFunction(Restrict(f, T \cup {x})) = f[x] + SumFunction(Restrict(f, T))
<1> DEFINE big == Restrict(f, T \cup {x})
           small == Restrict(f, T)
<1>1. DOMAIN big = T \cup {x} /\ IsFiniteSet(DOMAIN big) /\ x \in DOMAIN big
  BY FS_AddElement DEF Restrict
<1>2. (\A y \in DOMAIN big : big[y] \in Int) /\ big[x] = f[x]
  BY DEF Restrict
<1>3. DOMAIN small = DOMAIN big \ {x} /\ \A y \in DOMAIN small : small[y] = big[y]
  BY <1>1 DEF Restrict
<1> HIDE DEF big, small
<1>4. SumFunction(big) = big[x] + SumFunction(small)
  BY <1>1, <1>2, <1>3, SumAdd
<1> QED
  BY <1>2, <1>4 DEF big, small

\* A sum does not change when its arguments are renamed one to one.
LEMMA SumRenamed ==
    ASSUME NEW S, IsFiniteSet(S), NEW f, \A x \in S : f[x] \in Int, NEW b, NEW h,
           \A x \in S, y \in S : b[x] = b[y] => x = y, \A x \in S : h[b[x]] = f[x]
    PROVE  SumFunction(Restrict(f, S)) = SumFunction(Restrict(h, {b[x] : x \in S}))
<1> DEFINE Image(T) == {b[x] : x \in T}
           Same(T) == SumFunction(Restrict(f, T)) = SumFunction(Restrict(h, Image(T)))
           good == {T \in SUBSET S : IsFiniteSet(T) /\ IsFiniteSet(Image(T)) /\ Same(T)}
<1>1. {} \in good
  <2>1. Image({}) = {} /\ IsFiniteSet({})
    BY FS_EmptySet
  <2>2. DOMAIN Restrict(f, {}) = {} /\ DOMAIN Restrict(h, {}) = {}
    BY DEF Restrict
  <2>3. SumFunction(Restrict(f, {})) = 0 /\ SumFunction(Restrict(h, {})) = 0
    BY <2>2, SumEmpty
  <2> QED
    BY <2>1, <2>3
<1>2. ASSUME NEW T \in SUBSET S, NEW x \in S \ T, T \in good
      PROVE  T \cup {x} \in good
  <2>1. IsFiniteSet(T) /\ IsFiniteSet(Image(T)) /\ Same(T)
    BY <1>2
  <2>2. Image(T \cup {x}) = Image(T) \cup {b[x]} /\ b[x] \notin Image(T)
    OBVIOUS
  <2>3. IsFiniteSet(T \cup {x}) /\ IsFiniteSet(Image(T) \cup {b[x]})
    BY <2>1, FS_AddElement
  <2>4. \A y \in Image(T) \cup {b[x]} : h[y] \in Int
    OBVIOUS
  <2>5. SumFunction(Restrict(f, T \cup {x})) = f[x] + SumFunction(Restrict(f, T))
    BY <2>1, SumOneMore
  <2> HIDE DEF Image
  <2>6. SumFunction(Restrict(h, Image(T) \cup {b[x]}))
          = h[b[x]] + SumFunction(Restrict(h, Image(T)))
    BY <2>1, <2>2, <2>4, SumOneMore
  <2>7. Same(T \cup {x})
    BY <2>1, <2>2, <2>5, <2>6
  <2> HIDE DEF Same
  <2> QED
    BY <2>2, <2>3, <2>7
<1>3. \A T \in SUBSET S : \A x \in S \ T : T \in good => T \cup {x} \in good
  BY <1>2
<1> HIDE DEF good
<1>4. S \in good
  BY <1>1, <1>3, FiniteSetsReached
<1> QED
  BY <1>4 DEF good

\* A sum of integers is an integer.
LEMMA SumTyped ==
    ASSUME NEW f, IsFiniteSet(DOMAIN f), \A y \in DOMAIN f : f[y] \in Int
    PROVE  SumFunction(f) \in Int
<1>1. CASE DOMAIN f = {}
  BY <1>1, SumEmpty
<1>2. CASE DOMAIN f # {}
  <2>1. PICK x \in DOMAIN f : TRUE
    BY <1>2
  <2> DEFINE h == [y \in DOMAIN f \ {x} |-> f[y]]
  <2>2. DOMAIN h = DOMAIN f \ {x} /\ \A y \in DOMAIN h : h[y] = f[y]
    OBVIOUS
  <2> HIDE DEF h
  <2> QED
    BY <2>2, SumAdd
<1> QED
  BY <1>1, <1>2

\* The sum of a function that has a single argument.
LEMMA SumSingle ==
    ASSUME NEW f, NEW x, DOMAIN f = {x}, f[x] \in Int
    PROVE  SumFunction(f) = f[x]
<1> DEFINE h == [y \in {} |-> 0]
<1>1. IsFiniteSet(DOMAIN f) /\ x \in DOMAIN f
  BY FS_Singleton
<1>2. \A y \in DOMAIN f : f[y] \in Int
  OBVIOUS
<1>3. DOMAIN h = DOMAIN f \ {x}
  OBVIOUS
<1>4. \A y \in DOMAIN h : h[y] = f[y]
  OBVIOUS
<1>5. DOMAIN h = {}
  OBVIOUS
<1> HIDE DEF h
<1>6. SumFunction(f) = f[x] + SumFunction(h)
  BY ONLY <1>1, <1>2, <1>3, <1>4, SumAdd
<1>7. SumFunction(h) = 0
  BY <1>5, SumEmpty
<1> QED
  BY <1>6, <1>7

\* Changing one value changes the sum by the difference.
LEMMA SumOneChanged ==
    ASSUME NEW f, IsFiniteSet(DOMAIN f), \A y \in DOMAIN f : f[y] \in Int, NEW x \in DOMAIN f,
           NEW h, DOMAIN h = DOMAIN f, h[x] \in Int, \A y \in DOMAIN f \ {x} : h[y] = f[y]
    PROVE  SumFunction(h) = SumFunction(f) - f[x] + h[x] /\ SumFunction(f) \in Int
<1> DEFINE g == [y \in DOMAIN f \ {x} |-> f[y]]
<1>1. DOMAIN g = DOMAIN f \ {x} /\ \A y \in DOMAIN g : g[y] = f[y] /\ g[y] = h[y]
  OBVIOUS
<1> HIDE DEF g
<1>2. SumFunction(f) = f[x] + SumFunction(g) /\ SumFunction(f) \in Int /\ SumFunction(g) \in Int
  BY <1>1, SumAdd
<1>3. /\ IsFiniteSet(DOMAIN h) /\ x \in DOMAIN h /\ \A y \in DOMAIN h : h[y] \in Int
      /\ DOMAIN g = DOMAIN h \ {x} /\ \A y \in DOMAIN g : g[y] = h[y]
  BY <1>1
<1>4. SumFunction(h) = h[x] + SumFunction(g)
  BY <1>3, SumAdd
<1> QED
  BY <1>2, <1>4

\* A sum of naturals is a natural, and no smaller than any of them.
LEMMA SumOfNaturals ==
    ASSUME NEW f, IsFiniteSet(DOMAIN f), \A y \in DOMAIN f : f[y] \in Nat
    PROVE  SumFunction(f) \in Nat /\ \A x \in DOMAIN f : f[x] <= SumFunction(f)
<1> DEFINE S == DOMAIN f
           Natural(T) == SumFunction(Restrict(f, T)) \in Nat
           good == {T \in SUBSET S : Natural(T)}
<1>1. {} \in good
  <2>1. DOMAIN Restrict(f, {}) = {}
    BY DEF Restrict
  <2> QED
    BY <2>1, SumEmpty
<1>2. ASSUME NEW T \in SUBSET S, NEW x \in S \ T, T \in good
      PROVE  T \cup {x} \in good
  <2>1. IsFiniteSet(T) /\ \A y \in T \cup {x} : f[y] \in Int
    BY FS_Subset
  <2>2. SumFunction(Restrict(f, T \cup {x})) = f[x] + SumFunction(Restrict(f, T))
    BY <2>1, SumOneMore
  <2>3. f[x] \in Nat /\ SumFunction(Restrict(f, T)) \in Nat
    BY <1>2
  <2> QED
    BY <2>2, <2>3
<1>3. ASSUME NEW T \in SUBSET S
      PROVE  T \in good
  <2>1. \A U \in SUBSET T : \A x \in T \ U : U \in good => U \cup {x} \in good
    <3> HIDE DEF good
    <3> QED
      BY <1>2
  <2>2. IsFiniteSet(T)
    BY FS_Subset
  <2> HIDE DEF good
  <2> QED
    BY <1>1, <2>1, <2>2, FiniteSetsReached
<1>4. ASSUME NEW x \in S
      PROVE  f[x] <= SumFunction(f) /\ SumFunction(f) \in Nat
  <2> DEFINE h == Restrict(f, S \ {x})
  <2>1. DOMAIN h = DOMAIN f \ {x} /\ \A y \in DOMAIN h : h[y] = f[y]
    BY DEF Restrict
  <2>2. SumFunction(h) \in Nat
    BY <1>3
  <2> HIDE DEF h
  <2>3. SumFunction(f) = f[x] + SumFunction(h)
    BY <2>1, SumAdd
  <2> QED
    BY <2>2, <2>3
<1>5. S = {} => SumFunction(f) = 0
  BY SumEmpty
<1> QED
  BY <1>4, <1>5

(* ------------------------------- the ledger ---------------------------- *)

AccountType == [available : Nat, locked : [LockModules -> Nat]]

UsersType == UNION {[D -> AccountType] : D \in SUBSET (Addresses \X {KLY})}

LedgerStores == {"own", "users", "supply", "escrow", "allTokens", "supported"}

\* Balances are never negative.
LedgerOK(l) == DOMAIN l = LedgerStores /\ l.users \in [DOMAIN l.users -> AccountType]

\* Nobody loses an account, a locked amount, or what is available outside of account k.
KeepsAllBut(l, r, k) ==
    /\ DOMAIN l.users \subseteq DOMAIN r.users
    /\ \A u \in DOMAIN l.users :
           /\ r.users[u].locked = l.users[u].locked
           /\ u # k => r.users[u].available >= l.users[u].available

\* The fee module locks the fee of a transaction.
LEMMA LockModulesHasFee == "fee" \in LockModules
  BY ApplicationAssumption

\* An account that is created is empty.
LEMMA InitializeKeeps ==
    ASSUME NEW l, LedgerOK(l), NEW a, NEW t, NEW r, r = initializeUserAccount(l, a, t)
    PROVE  /\ LedgerOK(r) /\ DOMAIN r.users = DOMAIN l.users \cup {<<a, t>>}
           /\ \A u \in DOMAIN l.users : r.users[u] = l.users[u]
<1>1. DefaultAccount \in AccountType
  BY DEF DefaultAccount, AccountType
<1>2. Account(l, a, t) \in AccountType
  BY <1>1 DEF Account, userSubstoreExists, LedgerOK
<1>3. DOMAIN r = LedgerStores /\ r.users = Put(l.users, <<a, t>>, Account(l, a, t))
  BY DEF initializeUserAccount, LedgerOK, LedgerStores
<1>4. /\ DOMAIN r.users = DOMAIN l.users \cup {<<a, t>>}
      /\ \A u \in DOMAIN l.users : r.users[u] = l.users[u]
  BY <1>3 DEF Put, Account, userSubstoreExists
<1>5. r.users \in [DOMAIN r.users -> AccountType]
  BY <1>2, <1>3, <1>4 DEF Put, LedgerOK
<1> QED
  BY <1>3, <1>4, <1>5 DEF LedgerOK

\* What is added to an account that exists changes nothing else.
LEMMA AddKeeps ==
    ASSUME NEW l, LedgerOK(l), NEW a, NEW t, NEW x \in Int, <<a, t>> \in DOMAIN l.users,
           l.users[<<a, t>>].available + x >= 0,
           NEW r, r = addAvailableBalance(l, a, t, x)
    PROVE  /\ LedgerOK(r) /\ DOMAIN r.users = DOMAIN l.users
           /\ \A u \in DOMAIN l.users :
                  /\ r.users[u].locked = l.users[u].locked
                  /\ u # <<a, t>> => r.users[u] = l.users[u]
           /\ r.users[<<a, t>>].available = l.users[<<a, t>>].available + x
<1> DEFINE k == <<a, t>>
           v == [l.users[k] EXCEPT !.available = @ + x]
<1>1. l.users[k] \in AccountType
  BY DEF LedgerOK
<1>2. v \in AccountType /\ v.locked = l.users[k].locked /\ v.available = l.users[k].available + x
  BY <1>1 DEF AccountType
<1>3. DOMAIN r = LedgerStores /\ r.users = [l.users EXCEPT ![k] = v]
  BY DEF addAvailableBalance, LedgerOK, LedgerStores
<1> HIDE DEF v
<1>4. r.users \in [DOMAIN l.users -> AccountType]
  BY <1>2, <1>3 DEF LedgerOK
<1> QED
  BY <1>2, <1>3, <1>4 DEF LedgerOK

\* transfer keeps the ledger in order, takes at most the amount from the sender and
\* leaves every other account at least what it had.
LEMMA TransferKeeps ==
    ASSUME NEW l, LedgerOK(l), NEW from, NEW to, NEW t, NEW x \in Nat, spendable(l, from, t, x),
           NEW r, r = transfer(l, from, to, t, x)
    PROVE  /\ LedgerOK(r) /\ KeepsAllBut(l, r, <<from, t>>)
           /\ <<from, t>> \in DOMAIN l.users =>
                  r.users[<<from, t>>].available >= l.users[<<from, t>>].available - x
<1> DEFINE k == <<from, t>>
           n == <<to, t>>
<1>0. \A u \in DOMAIN l.users : l.users[u].available \in Nat
  BY DEF LedgerOK, AccountType
<1>1. CASE x = 0
  BY <1>0, <1>1 DEF transfer, KeepsAllBut
<1>2. CASE x # 0
  <2>1. k \in DOMAIN l.users /\ l.users[k].available >= x
    BY <1>2 DEF spendable, userSubstoreExists, getAvailableBalance, Account
  <2> DEFINE i == initializeUserAccount(l, to, t)
             d == addAvailableBalance(i, from, t, 0 - x)
  <2>2. /\ LedgerOK(i) /\ DOMAIN i.users = DOMAIN l.users \cup {n}
        /\ \A u \in DOMAIN l.users : i.users[u] = l.users[u]
    BY InitializeKeeps
  <2>3. k \in DOMAIN i.users /\ i.users[k].available + (0 - x) >= 0 /\ 0 - x \in Int
    BY <1>0, <2>1, <2>2
  <2>4. r = addAvailableBalance(d, to, t, x)
    BY <1>2 DEF transfer
  <2> HIDE DEF i
  <2>5. /\ LedgerOK(d) /\ DOMAIN d.users = DOMAIN i.users
        /\ \A u \in DOMAIN i.users :
               /\ d.users[u].locked = i.users[u].locked
               /\ u # k => d.users[u] = i.users[u]
        /\ d.users[k].available = i.users[k].available + (0 - x)
    BY <2>2, <2>3, AddKeeps
  <2> HIDE DEF d
  <2>6. n \in DOMAIN d.users /\ d.users[n].available \in Nat
    BY <2>2, <2>5 DEF LedgerOK, AccountType
  <2>7. /\ LedgerOK(r) /\ DOMAIN r.users = DOMAIN d.users
        /\ \A u \in DOMAIN d.users :
               /\ r.users[u].locked = d.users[u].locked
               /\ u # n => r.users[u] = d.users[u]
        /\ r.users[n].available = d.users[n].available + x
    BY <2>4, <2>5, <2>6, AddKeeps
  <2>8. \A u \in DOMAIN d.users : r.users[u].available >= d.users[u].available
    <3>1. \A u \in DOMAIN d.users : d.users[u].available \in Nat
      BY <2>5 DEF LedgerOK, AccountType
    <3> QED
      BY <2>6, <2>7, <3>1
  <2>9. KeepsAllBut(l, r, k)
    BY <1>0, <2>2, <2>5, <2>7, <2>8 DEF KeepsAllBut
  <2>10. r.users[k].available >= l.users[k].available - x
    BY <1>0, <2>1, <2>2, <2>5, <2>7, <2>8
  <2> QED
    BY <2>7, <2>9, <2>10
<1> QED
  BY <1>1, <1>2

\* burn of what the account can spend keeps the ledger in order.
LEMMA BurnKeeps ==
    ASSUME NEW l, LedgerOK(l), NEW a, NEW t, NEW x \in Nat, spendable(l, a, t, x)
    PROVE  LedgerOK(burn(l, a, t, x))
<1>1. CASE x = 0
  BY <1>1 DEF burn
<1>2. CASE x # 0
  <2> DEFINE b == addAvailableBalance(l, a, t, 0 - x)
  <2>1. <<a, t>> \in DOMAIN l.users /\ l.users[<<a, t>>].available >= x
    BY <1>2 DEF spendable, userSubstoreExists, getAvailableBalance, Account
  <2>2. l.users[<<a, t>>].available + (0 - x) >= 0 /\ 0 - x \in Int
    BY <2>1 DEF LedgerOK, AccountType
  <2>3. LedgerOK(b)
    BY <2>1, <2>2, AddKeeps
  <2> HIDE DEF b
  <2>4. LedgerOK([b EXCEPT !.supply[t] = @ - x])
    BY <2>3 DEF LedgerOK, LedgerStores
  <2>5. burn(l, a, t, x) \in {b, [b EXCEPT !.supply[t] = @ - x]}
    BY <1>2 DEF burn, b
  <2> QED
    BY <2>3, <2>4, <2>5
<1> QED
  BY <1>1, <1>2

\* mint keeps the ledger in order; an amount of zero or less changes nothing.
LEMMA MintKeeps ==
    ASSUME NEW l, LedgerOK(l), NEW a, NEW t, NEW x \in Int
    PROVE  LedgerOK(mint(l, a, t, x))
<1>1. CASE x <= 0
  BY <1>1 DEF mint
<1>2. CASE x > 0
  <2> DEFINE i == initializeUserAccount(l, a, t)
             m == addAvailableBalance(i, a, t, x)
  <2>1. LedgerOK(i) /\ <<a, t>> \in DOMAIN i.users
    BY InitializeKeeps
  <2>2. mint(l, a, t, x) = [m EXCEPT !.supply[t] = @ + x]
    BY <1>2 DEF mint
  <2> HIDE DEF i
  <2>3. i.users[<<a, t>>].available + x >= 0
    BY <1>2, <2>1 DEF LedgerOK, AccountType
  <2>4. LedgerOK(m)
    BY <2>1, <2>3, AddKeeps
  <2> HIDE DEF m
  <2> QED
    BY <2>2, <2>4 DEF LedgerOK, LedgerStores
<1> QED
  BY <1>1, <1>2

\* At least x is locked for the fee of a.
FeeHeld(l, a, x) ==
    x = 0 \/ (<<a, KLY>> \in DOMAIN l.users /\ l.users[<<a, KLY>>].locked["fee"] >= x)

\* Locking and unlocking move an amount within one account.
Move(l, k, y, z) == [l EXCEPT !.users[k].available = y, !.users[k].locked["fee"] = z]

\* Moving between available and locked changes one account only.
LEMMA MoveKeeps ==
    ASSUME NEW l, LedgerOK(l), NEW k \in DOMAIN l.users, NEW y \in Nat, NEW z \in Nat,
           NEW r, r = Move(l, k, y, z)
    PROVE  /\ LedgerOK(r) /\ DOMAIN r.users = DOMAIN l.users
           /\ r.users[k].available = y /\ r.users[k].locked["fee"] = z
           /\ \A u \in DOMAIN l.users \ {k} : r.users[u] = l.users[u]
<1> DEFINE a1 == [l.users[k] EXCEPT !.available = y]
           l1 == [l EXCEPT !.users[k].available = y]
           a2 == [a1 EXCEPT !.locked["fee"] = z]
<1>1. l.users[k] \in AccountType
  BY DEF LedgerOK
<1>2. a1 \in AccountType /\ a1.available = y
  BY <1>1 DEF AccountType
<1>3. DOMAIN l1 = LedgerStores /\ l1.users = [l.users EXCEPT ![k] = a1]
  BY DEF LedgerOK, LedgerStores
<1>4. r = [l1 EXCEPT !.users[k].locked["fee"] = z]
  BY DEF Move
<1> HIDE DEF a1, l1
<1>5. a2 \in AccountType /\ a2.available = y /\ a2.locked["fee"] = z
  BY <1>2, LockModulesHasFee DEF AccountType
<1>6. l1.users[k] = a1
  BY <1>3
<1>7. DOMAIN r = LedgerStores /\ r.users = [l1.users EXCEPT ![k] = a2]
  BY <1>3, <1>4, <1>6 DEF LedgerStores
<1> HIDE DEF a2
<1>8. l1.users \in [DOMAIN l.users -> AccountType]
  BY <1>2, <1>3 DEF LedgerOK
<1>9. r.users \in [DOMAIN l.users -> AccountType] /\ r.users[k] = a2
  BY <1>5, <1>7, <1>8
<1> QED
  BY <1>3, <1>5, <1>7, <1>8, <1>9 DEF LedgerOK

\* After lock the fee is held.
LEMMA LockKeeps ==
    ASSUME NEW l, LedgerOK(l), NEW a, NEW x \in Nat, spendable(l, a, KLY, x),
           NEW r, r = lock(l, a, "fee", KLY, x)
    PROVE  LedgerOK(r) /\ FeeHeld(r, a, x) /\ DOMAIN r.users = DOMAIN l.users
<1>1. CASE x = 0
  BY <1>1 DEF lock, FeeHeld
<1>2. CASE x # 0
  <2> DEFINE k == <<a, KLY>>
             y == l.users[k].available - x
             z == l.users[k].locked["fee"] + x
  <2>1. k \in DOMAIN l.users /\ l.users[k].available >= x
    BY <1>2 DEF spendable, userSubstoreExists, getAvailableBalance, Account
  <2>2. y \in Nat /\ z \in Nat /\ z >= x
    BY <2>1, LockModulesHasFee DEF LedgerOK, AccountType
  <2>3. r = Move(l, k, y, z)
    BY <1>2 DEF lock, Move
  <2>4. /\ LedgerOK(r) /\ DOMAIN r.users = DOMAIN l.users
        /\ k \in DOMAIN r.users /\ r.users[k].locked["fee"] >= x
    <3> HIDE DEF k, y, z
    <3> QED
      BY <2>1, <2>2, <2>3, MoveKeeps
  <2> QED
    BY <2>4 DEF FeeHeld
<1> QED
  BY <1>1, <1>2

\* A fee that is held can be unlocked, and is available afterwards.
LEMMA UnlockKeeps ==
    ASSUME NEW l, LedgerOK(l), NEW a, NEW x \in Nat, FeeHeld(l, a, x),
           NEW r, r = unlock(l, a, "fee", KLY, x)
    PROVE  /\ LedgerOK(r) /\ unlockable(l, a, "fee", KLY, x)
           /\ x # 0 => <<a, KLY>> \in DOMAIN r.users /\ r.users[<<a, KLY>>].available >= x
<1>1. CASE x = 0
  BY <1>1 DEF unlock, unlockable
<1>2. CASE x # 0
  <2> DEFINE k == <<a, KLY>>
             y == l.users[k].available + x
             z == l.users[k].locked["fee"] - x
  <2>1. k \in DOMAIN l.users /\ l.users[k].locked["fee"] >= x
    BY <1>2 DEF FeeHeld
  <2>2. y \in Nat /\ z \in Nat /\ y >= x
    BY <2>1, LockModulesHasFee DEF LedgerOK, AccountType
  <2>3. r = Move(l, k, y, z)
    BY <1>2 DEF unlock, Move
  <2>4. unlockable(l, a, "fee", KLY, x)
    BY <2>1 DEF unlockable, getLockedAmount, Account, userSubstoreExists
  <2>5. LedgerOK(r) /\ k \in DOMAIN r.users /\ r.users[k].available >= x
    <3> HIDE DEF k, y, z
    <3> QED
      BY <2>1, <2>2, <2>3, MoveKeeps
  <2> QED
    BY <2>4, <2>5
<1> QED
  BY <1>1, <1>2

(* ----------------------- supply and accounts --------------------------- *)

Holding(v) == v.available + v.locked["fee"]

\* What the accounts hold, available and locked.
Holdings(l) == SumFunction([k \in DOMAIN l.users |-> Holding(l.users[k])])

\* The ledger of the application: finitely many accounts, all of the native token.
Books(l) ==
    /\ LedgerOK(l) /\ IsFiniteSet(DOMAIN l.users) /\ (\A k \in DOMAIN l.users : k[2] = KLY)
    /\ l.own = Mainchain /\ DOMAIN l.supply = {KLY} /\ l.supply[KLY] \in Int

\* Locked amounts stay, and an account that is new has none.
KeepsFree(l, r) ==
    /\ DOMAIN l.users \subseteq DOMAIN r.users
    /\ \A u \in DOMAIN r.users :
           r.users[u].locked["fee"] = IF u \in DOMAIN l.users THEN l.users[u].locked["fee"] ELSE 0

\* From l to r, the accounts gain x and the supply y.
Changes(l, r, x, y) ==
    /\ Books(r) /\ Holdings(r) = Holdings(l) + x /\ r.supply[KLY] = l.supply[KLY] + y
    /\ KeepsFree(l, r)

\* Holdings are numbers.
LEMMA HoldingsTyped ==
    ASSUME NEW l, Books(l)
    PROVE  /\ \A k \in DOMAIN l.users : Holding(l.users[k]) \in Int
           /\ Holdings(l) \in Int
<1> DEFINE f == [k \in DOMAIN l.users |-> Holding(l.users[k])]
<1>1. \A k \in DOMAIN l.users : Holding(l.users[k]) \in Int
  BY LockModulesHasFee DEF Books, LedgerOK, AccountType, Holding
<1>2. IsFiniteSet(DOMAIN f) /\ \A k \in DOMAIN f : f[k] \in Int
  BY <1>1 DEF Books
<1> HIDE DEF f
<1>3. SumFunction(f) \in Int
  BY <1>2, SumTyped
<1> QED
  BY <1>1, <1>3 DEF Holdings, f

\* One account changes.
LEMMA HoldingsChange ==
    ASSUME NEW l, Books(l), NEW r, Books(r), DOMAIN r.users = DOMAIN l.users,
           NEW k \in DOMAIN l.users,
           \A u \in DOMAIN l.users \ {k} : r.users[u] = l.users[u]
    PROVE  Holdings(r) = Holdings(l) - Holding(l.users[k]) + Holding(r.users[k])
<1> DEFINE f == [u \in DOMAIN l.users |-> Holding(l.users[u])]
           h == [u \in DOMAIN r.users |-> Holding(r.users[u])]
<1>1. \A u \in DOMAIN l.users : Holding(l.users[u]) \in Int /\ Holding(r.users[u]) \in Int
  BY HoldingsTyped
<1>2. /\ IsFiniteSet(DOMAIN f) /\ k \in DOMAIN f /\ DOMAIN h = DOMAIN f
      /\ (\A u \in DOMAIN f : f[u] \in Int) /\ h[k] \in Int
      /\ \A u \in DOMAIN f \ {k} : h[u] = f[u]
  BY <1>1 DEF Books
<1>3. f[k] = Holding(l.users[k]) /\ h[k] = Holding(r.users[k])
  OBVIOUS
<1> HIDE DEF f, h
<1>4. SumFunction(h) = SumFunction(f) - f[k] + h[k]
  BY <1>2, SumOneChanged
<1> QED
  BY <1>3, <1>4 DEF Holdings, f, h

\* An account is opened.
LEMMA HoldingsGrow ==
    ASSUME NEW l, Books(l), NEW r, Books(r), NEW k, k \notin DOMAIN l.users,
           DOMAIN r.users = DOMAIN l.users \cup {k}, Holding(r.users[k]) = 0,
           \A u \in DOMAIN l.users : r.users[u] = l.users[u]
    PROVE  Holdings(r) = Holdings(l)
<1> DEFINE f == [u \in DOMAIN l.users |-> Holding(l.users[u])]
           h == [u \in DOMAIN r.users |-> Holding(r.users[u])]
<1>1. \A u \in DOMAIN r.users : Holding(r.users[u]) \in Int
  BY HoldingsTyped
<1>2. /\ IsFiniteSet(DOMAIN h) /\ k \in DOMAIN h /\ (\A u \in DOMAIN h : h[u] \in Int)
      /\ DOMAIN f = DOMAIN h \ {k} /\ \A u \in DOMAIN f : f[u] = h[u]
  BY <1>1 DEF Books
<1>3. h[k] = 0
  OBVIOUS
<1> HIDE DEF f, h
<1>4. SumFunction(h) = h[k] + SumFunction(f) /\ SumFunction(f) \in Int
  <2>1. IsFiniteSet(DOMAIN h) /\ k \in DOMAIN h
    BY <1>2
  <2>2. \A u \in DOMAIN h : h[u] \in Int
    BY <1>2
  <2>3. DOMAIN f = DOMAIN h \ {k}
    BY <1>2
  <2>4. \A u \in DOMAIN f : f[u] = h[u]
    BY <1>2
  <2> QED
    BY ONLY <2>1, <2>2, <2>3, <2>4, SumAdd
<1> QED
  BY <1>3, <1>4 DEF Holdings, f, h

\* The stores next to the accounts.
SameSupply(l, r) == r.own = l.own /\ r.supply = l.supply

\* Changes add up.
LEMMA ChangesAdd ==
    ASSUME NEW l, Books(l), NEW m, NEW r, NEW x \in Int, NEW y \in Int,
           NEW z \in Int, NEW w \in Int, Changes(l, m, x, y), Changes(m, r, z, w)
    PROVE  Changes(l, r, x + z, y + w)
<1>1. Books(m) /\ Holdings(m) = Holdings(l) + x /\ m.supply[KLY] = l.supply[KLY] + y
  BY DEF Changes
<1>2. Books(r) /\ Holdings(r) = Holdings(m) + z /\ r.supply[KLY] = m.supply[KLY] + w
  BY DEF Changes
<1>3. Holdings(l) \in Int /\ l.supply[KLY] \in Int
  BY HoldingsTyped DEF Books
<1>4. Holdings(r) = Holdings(l) + (x + z) /\ r.supply[KLY] = l.supply[KLY] + (y + w)
  BY <1>1, <1>2, <1>3
<1>5. KeepsFree(l, r)
  <2>1. KeepsFree(l, m) /\ KeepsFree(m, r)
    BY DEF Changes
  <2> QED
    BY <2>1 DEF KeepsFree
<1> QED
  BY <1>2, <1>4, <1>5 DEF Changes

\* Nothing changes.
LEMMA ChangesNone ==
    ASSUME NEW l, Books(l)
    PROVE  Changes(l, l, 0, 0)
<1>1. Holdings(l) \in Int /\ l.supply[KLY] \in Int
  BY HoldingsTyped DEF Books
<1>2. KeepsFree(l, l)
  BY DEF KeepsFree
<1>3. Holdings(l) = Holdings(l) + 0 /\ l.supply[KLY] = l.supply[KLY] + 0
  BY <1>1
<1> QED
  BY <1>2, <1>3 DEF Changes

\* An account that is created is empty.
LEMMA InitializeChanges ==
    ASSUME NEW l, Books(l), NEW a, NEW r, r = initializeUserAccount(l, a, KLY)
    PROVE  Changes(l, r, 0, 0) /\ SameSupply(l, r)
<1> DEFINE k == <<a, KLY>>
<1>1. /\ LedgerOK(r) /\ DOMAIN r.users = DOMAIN l.users \cup {k}
      /\ \A u \in DOMAIN l.users : r.users[u] = l.users[u]
  BY InitializeKeeps DEF Books
<1>2. SameSupply(l, r)
  BY DEF initializeUserAccount, SameSupply, Books, LedgerOK, LedgerStores
<1>3. k \notin DOMAIN l.users => r.users[k] = DefaultAccount
  BY DEF initializeUserAccount, Put, Account, userSubstoreExists, Books, LedgerOK, LedgerStores
<1>4. DefaultAccount.available = 0 /\ DefaultAccount.locked["fee"] = 0
  BY LockModulesHasFee DEF DefaultAccount
<1>5. Books(r)
  <2>1. IsFiniteSet(DOMAIN r.users)
    <3>1. IsFiniteSet(DOMAIN l.users)
      BY DEF Books
    <3>2. IsFiniteSet(DOMAIN l.users \cup {k})
      BY <3>1, FS_AddElement
    <3> QED
      BY <1>1, <3>2
  <2>2. \A u \in DOMAIN r.users : u[2] = KLY
    BY <1>1 DEF Books
  <2> QED
    BY <1>1, <1>2, <2>1, <2>2 DEF Books, SameSupply
<1>6. Holdings(r) = Holdings(l)
  <2>1. CASE k \in DOMAIN l.users
    <3>1. DOMAIN r.users = DOMAIN l.users
      BY <1>1, <2>1
    <3>2. [u \in DOMAIN r.users |-> Holding(r.users[u])]
            = [u \in DOMAIN l.users |-> Holding(l.users[u])]
      BY <1>1, <3>1
    <3> QED
      BY <3>2 DEF Holdings
  <2>2. CASE k \notin DOMAIN l.users
    <3>1. Holding(r.users[k]) = 0
      BY <1>3, <1>4, <2>2 DEF Holding
    <3> HIDE DEF k
    <3> QED
      BY <1>1, <1>5, <2>2, <3>1, HoldingsGrow
  <2> QED
    BY <2>1, <2>2
<1>7. KeepsFree(l, r)
  BY <1>1, <1>3, <1>4 DEF KeepsFree
<1>8. Holdings(l) \in Int /\ l.supply[KLY] \in Int
  BY HoldingsTyped DEF Books
<1>9. Holdings(r) = Holdings(l) + 0 /\ r.supply[KLY] = l.supply[KLY] + 0
  BY <1>2, <1>6, <1>8 DEF SameSupply
<1> QED
  BY <1>2, <1>5, <1>7, <1>9 DEF Changes

\* An amount is added to an account.
LEMMA AddChanges ==
    ASSUME NEW l, Books(l), NEW a, NEW x \in Int, <<a, KLY>> \in DOMAIN l.users,
           l.users[<<a, KLY>>].available + x >= 0,
           NEW r, r = addAvailableBalance(l, a, KLY, x)
    PROVE  Changes(l, r, x, 0) /\ SameSupply(l, r) /\ DOMAIN r.users = DOMAIN l.users
<1> DEFINE k == <<a, KLY>>
<1>1. /\ LedgerOK(r) /\ DOMAIN r.users = DOMAIN l.users
      /\ \A u \in DOMAIN l.users :
             /\ r.users[u].locked = l.users[u].locked
             /\ u # k => r.users[u] = l.users[u]
      /\ r.users[k].available = l.users[k].available + x
  BY AddKeeps DEF Books
<1>2. SameSupply(l, r)
  BY DEF addAvailableBalance, SameSupply, Books, LedgerOK, LedgerStores
<1>3. Books(r)
  BY <1>1, <1>2 DEF Books, SameSupply
<1>4. l.users[k].available \in Int /\ l.users[k].locked["fee"] \in Int
  BY LockModulesHasFee DEF Books, LedgerOK, AccountType
<1>5. Holding(r.users[k]) = Holding(l.users[k]) + x /\ Holding(l.users[k]) \in Int
  BY <1>1, <1>4 DEF Holding
<1> HIDE DEF k
<1>6. Holdings(r) = Holdings(l) - Holding(l.users[k]) + Holding(r.users[k])
  <2>1. k \in DOMAIN l.users /\ \A u \in DOMAIN l.users \ {k} : r.users[u] = l.users[u]
    BY <1>1 DEF k
  <2> QED
    BY <1>1, <1>3, <2>1, HoldingsChange
<1>7. Holdings(l) \in Int /\ l.supply[KLY] \in Int
  BY HoldingsTyped DEF Books
<1>8. Holdings(r) = Holdings(l) + x /\ r.supply[KLY] = l.supply[KLY] + 0
  BY <1>2, <1>5, <1>6, <1>7 DEF SameSupply
<1>9. KeepsFree(l, r)
  BY <1>1 DEF KeepsFree
<1> QED
  BY <1>1, <1>2, <1>3, <1>8, <1>9 DEF Changes

\* A transfer neither creates nor destroys anything.
LEMMA TransferChanges ==
    ASSUME NEW l, Books(l), NEW from, NEW to, NEW x \in Nat, spendable(l, from, KLY, x),
           NEW r, r = transfer(l, from, to, KLY, x)
    PROVE  Changes(l, r, 0, 0) /\ SameSupply(l, r)
<1> DEFINE k == <<from, KLY>>
           n == <<to, KLY>>
<1>1. CASE x = 0
  <2>1. r = l
    BY <1>1 DEF transfer
  <2> QED
    BY <2>1, ChangesNone DEF SameSupply
<1>2. CASE x # 0
  <2>1. k \in DOMAIN l.users /\ l.users[k].available >= x /\ LedgerOK(l)
    BY <1>2 DEF spendable, userSubstoreExists, getAvailableBalance, Account, Books
  <2> DEFINE i == initializeUserAccount(l, to, KLY)
             d == addAvailableBalance(i, from, KLY, 0 - x)
  <2>2. /\ LedgerOK(i) /\ DOMAIN i.users = DOMAIN l.users \cup {n}
        /\ \A u \in DOMAIN l.users : i.users[u] = l.users[u]
    BY <2>1, InitializeKeeps
  <2>3. Changes(l, i, 0, 0) /\ SameSupply(l, i)
    BY InitializeChanges
  <2>4. r = addAvailableBalance(d, to, KLY, x)
    BY <1>2 DEF transfer
  <2> HIDE DEF i
  <2>5. k \in DOMAIN i.users /\ i.users[k].available + (0 - x) >= 0 /\ 0 - x \in Int
    <3>1. l.users[k].available \in Nat
      BY <2>1 DEF LedgerOK, AccountType
    <3> QED
      BY <2>1, <2>2, <3>1
  <2>6. Books(i)
    BY <2>3 DEF Changes
  <2>7. Changes(i, d, 0 - x, 0) /\ SameSupply(i, d) /\ DOMAIN d.users = DOMAIN i.users
    BY <2>5, <2>6, AddChanges
  <2> HIDE DEF d
  <2>8. Books(d) /\ n \in DOMAIN d.users
    BY <2>2, <2>7 DEF Changes
  <2>9. d.users[n].available + x >= 0
    BY <2>8 DEF Books, LedgerOK, AccountType
  <2>10. Changes(d, r, x, 0) /\ SameSupply(d, r)
    BY <2>4, <2>8, <2>9, AddChanges
  <2>11. Changes(l, d, 0 + (0 - x), 0 + 0)
    BY <2>3, <2>5, <2>7, ChangesAdd
  <2>12. Changes(l, r, 0 + (0 - x) + x, 0 + 0 + 0)
    <3>1. 0 + (0 - x) \in Int /\ 0 + 0 \in Int
      OBVIOUS
    <3> QED
      BY <2>10, <2>11, <3>1, ChangesAdd
  <2>13. 0 + (0 - x) + x = 0 /\ 0 + 0 + 0 = 0
    OBVIOUS
  <2> QED
    BY <2>3, <2>7, <2>10, <2>12, <2>13 DEF SameSupply
<1> QED
  BY <1>1, <1>2

\* The supply of the native token changes with the accounts.
LEMMA SupplyChanges ==
    ASSUME NEW l, Books(l), NEW m, NEW x \in Int, Changes(l, m, x, 0),
           NEW r, r = [m EXCEPT !.supply[KLY] = m.supply[KLY] + x]
    PROVE  Changes(l, r, x, x)
<1>1. Books(m) /\ Holdings(m) = Holdings(l) + x /\ m.supply[KLY] = l.supply[KLY] + 0
      /\ KeepsFree(l, m)
  BY DEF Changes
<1>2. DOMAIN m = LedgerStores /\ DOMAIN m.supply = {KLY} /\ m.supply[KLY] \in Int
  BY <1>1 DEF Books, LedgerOK
<1>3. DOMAIN r = LedgerStores /\ r.users = m.users /\ r.own = m.own
      /\ r.supply = [m.supply EXCEPT ![KLY] = m.supply[KLY] + x]
  BY <1>2 DEF LedgerStores
<1>4. DOMAIN r.supply = {KLY} /\ r.supply[KLY] = m.supply[KLY] + x
  BY <1>2, <1>3
<1>5. Books(r)
  BY <1>1, <1>2, <1>3, <1>4 DEF Books, LedgerOK
<1>6. Holdings(r) = Holdings(m)
  BY <1>3 DEF Holdings
<1>7. KeepsFree(l, r)
  BY <1>1, <1>3 DEF KeepsFree
<1>8. r.supply[KLY] = l.supply[KLY] + x
  BY <1>1, <1>2, <1>4 DEF Books
<1> QED
  BY <1>1, <1>5, <1>6, <1>7, <1>8 DEF Changes

\* What is burnt leaves the account and the supply.
LEMMA BurnChanges ==
    ASSUME NEW l, Books(l), NEW a, NEW x \in Nat, spendable(l, a, KLY, x),
           NEW r, r = burn(l, a, KLY, x)
    PROVE  Changes(l, r, 0 - x, 0 - x)
<1>1. CASE x = 0
  <2>1. r = l /\ 0 - x = 0
    BY <1>1 DEF burn
  <2> QED
    BY <2>1, ChangesNone
<1>2. CASE x # 0
  <2> DEFINE k == <<a, KLY>>
             b == addAvailableBalance(l, a, KLY, 0 - x)
  <2>1. k \in DOMAIN l.users /\ l.users[k].available >= x /\ l.users[k].available \in Nat
    BY <1>2 DEF spendable, userSubstoreExists, getAvailableBalance, Account, Books, LedgerOK,
                AccountType
  <2>2. l.users[k].available + (0 - x) >= 0 /\ 0 - x \in Int
    BY <2>1
  <2>3. isNativeToken(l, KLY)
    BY DEF isNativeToken, TokenChain, KLY, Books
  <2>4. r = [b EXCEPT !.supply[KLY] = b.supply[KLY] - x]
    BY <1>2, <2>3 DEF burn
  <2>5. Changes(l, b, 0 - x, 0)
    BY <2>1, <2>2, AddChanges
  <2> HIDE DEF b
  <2>6. b.supply[KLY] - x = b.supply[KLY] + (0 - x)
    BY <2>5 DEF Changes, Books
  <2>7. r = [b EXCEPT !.supply[KLY] = b.supply[KLY] + (0 - x)]
    BY <2>4, <2>6
  <2> QED
    BY <2>2, <2>5, <2>7, SupplyChanges
<1> QED
  BY <1>1, <1>2

\* What is minted reaches the account and the supply.
LEMMA MintChanges ==
    ASSUME NEW l, Books(l), NEW a, NEW x \in Nat, NEW r, r = mint(l, a, KLY, x)
    PROVE  Changes(l, r, x, x)
<1>1. CASE x = 0
  <2>1. r = l
    BY <1>1 DEF mint
  <2> QED
    BY <1>1, <2>1, ChangesNone
<1>2. CASE x # 0
  <2> DEFINE k == <<a, KLY>>
             i == initializeUserAccount(l, a, KLY)
             m == addAvailableBalance(i, a, KLY, x)
  <2>1. LedgerOK(i) /\ k \in DOMAIN i.users
    BY InitializeKeeps DEF Books
  <2>2. Changes(l, i, 0, 0)
    BY InitializeChanges
  <2>3. r = [m EXCEPT !.supply[KLY] = m.supply[KLY] + x]
    BY <1>2 DEF mint
  <2> HIDE DEF i
  <2>4. i.users[k].available + x >= 0 /\ Books(i)
    BY <2>1, <2>2 DEF LedgerOK, AccountType, Changes
  <2>5. Changes(i, m, x, 0)
    BY <2>1, <2>4, AddChanges
  <2> HIDE DEF m
  <2>6. Changes(l, m, 0 + x, 0 + 0)
    BY <2>2, <2>5, ChangesAdd
  <2>7. Changes(l, m, x, 0)
    BY <2>6
  <2> QED
    BY <2>3, <2>7, SupplyChanges
<1> QED
  BY <1>1, <1>2

\* The fee of a is the only amount that is locked.
OnlyFee(l, a, x) ==
    \A u \in DOMAIN l.users : l.users[u].locked["fee"] = IF u = <<a, KLY>> THEN x ELSE 0

\* No amount is locked.
Unlocked(l) == \A u \in DOMAIN l.users : l.users[u].locked["fee"] = 0

\* Neither the accounts together nor the supply change.
SameTotals(l, r) == Books(r) /\ Holdings(r) = Holdings(l) /\ r.supply = l.supply

\* What is moved between available and locked stays in the account.
LEMMA MoveChanges ==
    ASSUME NEW l, Books(l), NEW k \in DOMAIN l.users, NEW y \in Nat, NEW z \in Nat,
           y + z = Holding(l.users[k]), NEW r, r = Move(l, k, y, z)
    PROVE  SameTotals(l, r)
<1>1. /\ LedgerOK(r) /\ DOMAIN r.users = DOMAIN l.users
      /\ r.users[k].available = y /\ r.users[k].locked["fee"] = z
      /\ \A u \in DOMAIN l.users \ {k} : r.users[u] = l.users[u]
  <2>1. LedgerOK(l)
    BY DEF Books
  <2> QED
    BY <2>1, MoveKeeps
<1>2. SameSupply(l, r)
  BY DEF Move, SameSupply, Books, LedgerOK, LedgerStores
<1>3. Books(r)
  BY <1>1, <1>2 DEF Books, SameSupply
<1>4. Holding(r.users[k]) = Holding(l.users[k])
  BY <1>1 DEF Holding
<1>5. Holdings(r) = Holdings(l) - Holding(l.users[k]) + Holding(r.users[k])
  BY <1>1, <1>3, HoldingsChange
<1>6. Holdings(l) \in Int /\ Holding(l.users[k]) \in Int
  BY HoldingsTyped
<1> QED
  BY <1>2, <1>3, <1>4, <1>5, <1>6 DEF SameTotals, SameSupply

\* After lock the fee is all that is locked.
LEMMA LockChanges ==
    ASSUME NEW l, Books(l), Unlocked(l), NEW a, NEW x \in Nat, spendable(l, a, KLY, x),
           NEW r, r = lock(l, a, "fee", KLY, x)
    PROVE  SameTotals(l, r) /\ OnlyFee(r, a, x)
<1>1. CASE x = 0
  <2>1. r = l
    BY <1>1 DEF lock
  <2> QED
    BY <1>1, <2>1 DEF SameTotals, OnlyFee, Unlocked
<1>2. CASE x # 0
  <2> DEFINE k == <<a, KLY>>
             y == l.users[k].available - x
  <2>1. k \in DOMAIN l.users /\ l.users[k].available >= x /\ l.users[k].available \in Nat
    BY <1>2 DEF spendable, userSubstoreExists, getAvailableBalance, Account, Books, LedgerOK,
                AccountType
  <2>2. l.users[k].locked["fee"] = 0 /\ y \in Nat
    BY <2>1 DEF Unlocked
  <2>3. l.users[k].locked["fee"] + x = x
    BY <2>2
  <2>4. r = Move(l, k, y, x)
    <3> DEFINE z == l.users[k].locked["fee"] + x
    <3>1. r = Move(l, k, y, z)
      BY <1>2 DEF lock, Move
    <3>2. z = x
      BY <2>3
    <3> HIDE DEF z
    <3> QED
      BY <3>1, <3>2
  <2>5. y + x = Holding(l.users[k])
    BY <2>1, <2>2 DEF Holding
  <2> HIDE DEF k, y
  <2>6. SameTotals(l, r)
    BY <2>1, <2>2, <2>4, <2>5, MoveChanges
  <2>7. /\ DOMAIN r.users = DOMAIN l.users /\ r.users[k].locked["fee"] = x
        /\ \A u \in DOMAIN l.users \ {k} : r.users[u] = l.users[u]
    <3>1. LedgerOK(l)
      BY DEF Books
    <3> QED
      BY <2>1, <2>2, <2>4, <3>1, MoveKeeps
  <2>8. OnlyFee(r, a, x)
    BY <2>7 DEF OnlyFee, Unlocked, k
  <2> QED
    BY <2>6, <2>8
<1> QED
  BY <1>1, <1>2

\* After unlock nothing is locked.
LEMMA UnlockChanges ==
    ASSUME NEW l, Books(l), NEW a, NEW x \in Nat, OnlyFee(l, a, x), FeeHeld(l, a, x),
           NEW r, r = unlock(l, a, "fee", KLY, x)
    PROVE  SameTotals(l, r) /\ Unlocked(r)
<1>1. CASE x = 0
  <2>1. r = l
    BY <1>1 DEF unlock
  <2> QED
    BY <1>1, <2>1 DEF SameTotals, OnlyFee, Unlocked
<1>2. CASE x # 0
  <2> DEFINE k == <<a, KLY>>
             y == l.users[k].available + x
  <2>1. k \in DOMAIN l.users /\ l.users[k].locked["fee"] = x
    BY <1>2 DEF FeeHeld, OnlyFee
  <2>2. l.users[k].available \in Nat
    BY <2>1 DEF Books, LedgerOK, AccountType
  <2>3. y \in Nat /\ l.users[k].locked["fee"] - x = 0
    BY <2>1, <2>2
  <2>4. r = Move(l, k, y, 0)
    <3> DEFINE z == l.users[k].locked["fee"] - x
    <3>1. r = Move(l, k, y, z)
      BY <1>2 DEF unlock, Move
    <3>2. z = 0
      BY <2>3
    <3> HIDE DEF z
    <3> QED
      BY <3>1, <3>2
  <2>5. y + 0 = Holding(l.users[k])
    BY <2>1, <2>2, <2>3 DEF Holding
  <2> HIDE DEF k, y
  <2>6. SameTotals(l, r)
    BY <2>1, <2>3, <2>4, <2>5, MoveChanges
  <2>7. /\ DOMAIN r.users = DOMAIN l.users /\ r.users[k].locked["fee"] = 0
        /\ \A u \in DOMAIN l.users \ {k} : r.users[u] = l.users[u]
    <3>1. LedgerOK(l)
      BY DEF Books
    <3> QED
      BY <2>1, <2>3, <2>4, <3>1, MoveKeeps
  <2>8. Unlocked(r)
    BY <2>7 DEF OnlyFee, Unlocked, k
  <2> QED
    BY <2>6, <2>8
<1> QED
  BY <1>1, <1>2

(* ------------------------------- commands ------------------------------ *)

StateStores == {"auth", "ledger", "poa"}

ContextFields == {"s", "fee", "events", "thrown"}

PoAStores == {"keys", "blsKeys", "params", "validators", "names", "snapshots",
              "roundEndHeight", "validatorsUpdateNonce", "reveals"}

AuthOK(auth) == DOMAIN auth = Addresses /\ \A a \in Addresses : DOMAIN auth[a] = {"nonce", "keys"}

StateOK(s) ==
    /\ DOMAIN s = StateStores /\ DOMAIN s.poa = PoAStores
    /\ AuthOK(s.auth) /\ LedgerOK(s.ledger)

\* The available fee is missing or at most x.
FeeUpTo(fee, x) == fee = Missing \/ fee \in 0 .. x

\* What a command is given: no event and a fee that is not missing.
Fresh(c) ==
    /\ DOMAIN c = ContextFields /\ StateOK(c.s)
    /\ c.fee \in Nat /\ c.events = {} /\ c.thrown = FALSE

Announces(events) == \E e \in events : e.name = "authorityUpdated"

KeepsLocked(l, r) ==
    /\ DOMAIN l.users \subseteq DOMAIN r.users
    /\ \A u \in DOMAIN l.users : r.users[u].locked = l.users[u].locked

\* Neither the accounts together nor the supply change.
KeepsBooks(l, r) == Books(l) => Changes(l, r, 0, 0)

NoBurn(events) == \A e \in events : e.name # "burn"

KeepsNonces(auth, q) == \A a \in Addresses : q[a].nonce = auth[a].nonce

Registers(p, q, tx) ==
    /\ registerAuthorityVerified(p, tx.sender, tx.name)
    /\ keysRegistrable(p, tx.sender, tx.blsKey, tx.popValid)
    /\ q = registerValidatorKeys(registerAuthority(p, tx.sender, tx.name),
                                 tx.sender, tx.blsKey, tx.generatorKey)

ChangesKey(p, q, tx) ==
    /\ tx.sender \in DOMAIN p.validators
    /\ q = setValidatorGeneratorKey(p, tx.sender, tx.generatorKey)

Updates(p, q, tx) ==
    /\ tx.command = "updateAuthority" /\ tx.updateNonce = p.validatorsUpdateNonce
    /\ q = updateAuthority(p, tx.weights, tx.threshold)

\* The ways in which the stores of PoA may change; an update is announced.
StoresChange(p, q, tx, events) ==
    \/ ~Announces(events) /\ (q = p \/ Registers(p, q, tx) \/ ChangesKey(p, q, tx))
    \/ Announces(events) /\ Updates(p, q, tx)

\* What a command does to its context, if it does not throw.
Succeeds(c, r, tx) ==
    /\ StateOK(r.s) /\ KeepsNonces(c.s.auth, r.s.auth) /\ KeepsLocked(c.s.ledger, r.s.ledger)
    /\ StoresChange(c.s.poa, r.s.poa, tx, r.events)
    /\ KeepsBooks(c.s.ledger, r.s.ledger)

CommandDone(c, r, tx) ==
    /\ DOMAIN r = ContextFields /\ DOMAIN r.s = StateStores
    /\ FeeUpTo(r.fee, c.fee) /\ r.thrown \in BOOLEAN /\ NoBurn(r.events)
    /\ r.thrown => ~Announces(r.events)
    /\ ~r.thrown => Succeeds(c, r, tx)

\* A ledger that stays the same.
LEMMA SameBooks == \A l : KeepsBooks(l, l)
  BY ChangesNone DEF KeepsBooks

\* What logging an event and throwing does to a context.
LEMMA Thrown ==
    ASSUME NEW c, DOMAIN c = ContextFields, NEW e, NEW r, r = Throw(Log(c, e))
    PROVE  /\ DOMAIN r = ContextFields /\ r.s = c.s /\ r.fee = c.fee
           /\ r.events = c.events \cup {e} /\ r.thrown = TRUE
<1> DEFINE d == Log(c, e)
<1>1. /\ DOMAIN d = ContextFields /\ d.s = c.s /\ d.fee = c.fee
      /\ d.events = c.events \cup {e}
  BY DEF Log, ContextFields
<1> HIDE DEF d
<1>2. r = Throw(d)
  BY DEF d
<1> QED
  BY <1>1, <1>2 DEF Throw, ContextFields

\* A command that throws announces no update and uses at most its fee.
LEMMA ThrowingIsDone ==
    ASSUME NEW c, Fresh(c), NEW tx, NEW d, DOMAIN d = ContextFields, DOMAIN d.s = StateStores,
           d.events = {}, FeeUpTo(d.fee, c.fee),
           NEW e, e.name \notin {"authorityUpdated", "burn"}, NEW r, r = Throw(Log(d, e))
    PROVE  CommandDone(c, r, tx)
<1>1. ASSUME NEW l, l = Log(d, e), r = Throw(l)
      PROVE  CommandDone(c, r, tx)
  <2>1. DOMAIN l = ContextFields /\ l.s = d.s /\ l.fee = d.fee /\ l.events = {e}
    BY <1>1 DEF Log, ContextFields
  <2>2. DOMAIN r = ContextFields /\ r.s = d.s /\ r.fee = d.fee /\ r.events = {e} /\ r.thrown = TRUE
    BY <1>1, <2>1 DEF Throw, ContextFields
  <2>3. ~Announces(r.events) /\ NoBurn(r.events)
    BY <2>2 DEF Announces, NoBurn
  <2> QED
    BY <2>2, <2>3 DEF CommandDone
<1> QED
  BY <1>1

\* A payment throws or takes from the available fee, and leaves the state alone.
LEMMA PayFee ==
    ASSUME NEW c, Fresh(c), NEW x \in Nat, NEW tx, NEW r, r = payFee(c, x)
    PROVE  \/ r.thrown /\ CommandDone(c, r, tx)
           \/ /\ r.thrown = FALSE /\ DOMAIN r = ContextFields /\ r.s = c.s /\ r.events = {}
              /\ FeeUpTo(r.fee, c.fee) /\ r.fee \in Nat
<1>0. c.fee # Missing
  BY DEF Fresh, Missing
<1>1. CASE c.fee < x
  <2> DEFINE d == [c EXCEPT !.fee = Missing]
             e == Event("insufficientFee", x, TRUE)
  <2>1. DOMAIN d = ContextFields /\ d.s = c.s /\ d.events = {} /\ d.fee = Missing
    BY DEF Fresh, ContextFields
  <2>2. r = Throw(Log(d, e))
    BY <1>0, <1>1 DEF payFee
  <2>3. /\ e.name \notin {"authorityUpdated", "burn"}
        /\ DOMAIN d.s = StateStores /\ FeeUpTo(d.fee, c.fee)
    BY <2>1 DEF Event, Fresh, StateOK, FeeUpTo
  <2> HIDE DEF d, e
  <2>4. CommandDone(c, r, tx)
    BY <2>1, <2>2, <2>3, ThrowingIsDone
  <2>5. r.thrown
    BY <2>1, <2>2, Thrown, ZenonT(60)
  <2> QED
    BY <2>4, <2>5
<1>2. CASE ~(c.fee < x)
  <2>1. r = [c EXCEPT !.fee = c.fee - x]
    BY <1>0, <1>2 DEF payFee
  <2> QED
    BY <1>2, <2>1 DEF Fresh, ContextFields, FeeUpTo, Missing
<1> QED
  BY <1>1, <1>2

\* The token transfer, failing or not, does what a command may do.
LEMMA TransferDone ==
    ASSUME NEW c, Fresh(c), NEW tx, tx.amount \in Nat, NEW r, r = transferExecute(c, tx)
    PROVE  CommandDone(c, r, tx)
<1> DEFINE x    == initializationFee(c.s.ledger, tx.recipient, KLY)
           paid == payFee(c, x)
<1>1. x \in Nat
  BY AmountAssumption DEF initializationFee
<1> DEFINE ready == [paid EXCEPT !.s.ledger =
                       initializeUserAccount(paid.s.ledger, tx.recipient, KLY)]
           covered == /\ userSubstoreExists(ready.s.ledger, tx.sender, KLY)
                      /\ ~(getAvailableBalance(ready.s.ledger, tx.sender, KLY) < tx.amount)
<1>2. r = IF paid.thrown THEN paid
          ELSE IF ~covered THEN Throw(ready)
          ELSE [ready EXCEPT !.s.ledger =
                  transfer(ready.s.ledger, tx.sender, tx.recipient, KLY, tx.amount)]
  BY DEF transferExecute
<1> HIDE DEF x
<1>3. \/ paid.thrown /\ CommandDone(c, paid, tx)
      \/ /\ paid.thrown = FALSE /\ DOMAIN paid = ContextFields /\ paid.s = c.s
         /\ paid.events = {} /\ FeeUpTo(paid.fee, c.fee)
  BY <1>1, PayFee
<1> HIDE DEF paid, covered
<1>4. CASE paid.thrown
  BY <1>2, <1>3, <1>4
<1>8. ASSUME ~paid.thrown
      PROVE  /\ DOMAIN ready = ContextFields /\ DOMAIN ready.s = StateStores
             /\ ready.s.ledger = initializeUserAccount(c.s.ledger, tx.recipient, KLY)
             /\ ready.s.poa = c.s.poa /\ ready.s.auth = c.s.auth
             /\ ready.fee = paid.fee /\ ready.thrown = FALSE /\ ready.events = {}
  BY <1>3, <1>8 DEF Fresh, StateOK, StateStores, ContextFields
<1>5. ASSUME ~paid.thrown, ~covered
      PROVE  CommandDone(c, r, tx)
  <2> HIDE DEF ready
  <2>1. r = Throw(ready)
    BY <1>2, <1>5
  <2>2. /\ DOMAIN r = ContextFields /\ r.s = ready.s /\ r.fee = ready.fee
        /\ r.events = {} /\ r.thrown = TRUE
    BY <1>5, <1>8, <2>1 DEF Throw, ContextFields
  <2>3. ~Announces(r.events) /\ NoBurn(r.events)
    BY <2>2 DEF Announces, NoBurn
  <2> QED
    BY <1>3, <1>5, <1>8, <2>2, <2>3 DEF CommandDone
<1>6. ASSUME ~paid.thrown, covered
      PROVE  CommandDone(c, r, tx)
  <2> DEFINE l == c.s.ledger
             i == initializeUserAccount(l, tx.recipient, KLY)
             m == transfer(i, tx.sender, tx.recipient, KLY, tx.amount)
  <2>1. LedgerOK(l) /\ ready.s.ledger = i
    BY <1>6, <1>8 DEF Fresh, StateOK
  <2>2. r = [ready EXCEPT !.s.ledger = m]
    BY <1>2, <1>6, <2>1
  <2>3. userSubstoreExists(i, tx.sender, KLY)
        /\ ~(getAvailableBalance(i, tx.sender, KLY) < tx.amount)
    BY <1>6, <2>1 DEF covered
  <2> HIDE DEF l
  <2>4. /\ LedgerOK(i) /\ DOMAIN i.users = DOMAIN l.users \cup {<<tx.recipient, KLY>>}
        /\ \A u \in DOMAIN l.users : i.users[u] = l.users[u]
    BY <2>1, InitializeKeeps
  <2> HIDE DEF i
  <2>5. spendable(i, tx.sender, KLY, tx.amount)
    <3>1. i.users[<<tx.sender, KLY>>] \in AccountType
      BY <2>3, <2>4 DEF LedgerOK, userSubstoreExists
    <3>2. getAvailableBalance(i, tx.sender, KLY) \in Nat
      BY <2>3, <3>1 DEF getAvailableBalance, Account, AccountType
    <3> QED
      BY <2>3, <3>2 DEF spendable
  <2>6. LedgerOK(m) /\ KeepsAllBut(i, m, <<tx.sender, KLY>>)
    BY <2>4, <2>5, TransferKeeps
  <2>7. KeepsLocked(l, m)
    BY <2>4, <2>6 DEF KeepsLocked, KeepsAllBut
  <2>8. KeepsBooks(l, m)
    <3> SUFFICES ASSUME Books(l)
                 PROVE  Changes(l, m, 0, 0)
      BY DEF KeepsBooks
    <3>1. Changes(l, i, 0, 0)
      BY InitializeChanges DEF i
    <3>2. Changes(i, m, 0, 0)
      <4>1. Books(i)
        BY <3>1 DEF Changes
      <4> QED
        BY <2>5, <4>1, TransferChanges
    <3> HIDE DEF m
    <3>3. Changes(l, m, 0 + 0, 0 + 0)
      BY <3>1, <3>2, ChangesAdd
    <3> QED
      BY <3>3
  <2> HIDE DEF m
  <2>9. /\ DOMAIN r = ContextFields /\ DOMAIN r.s = StateStores
        /\ r.s.ledger = m /\ r.s.poa = c.s.poa /\ r.s.auth = c.s.auth
        /\ r.fee = paid.fee /\ r.thrown = FALSE /\ r.events = {}
    <3> HIDE DEF ready
    <3> QED
      BY <1>6, <1>8, <2>2 DEF StateStores, ContextFields
  <2>10. Succeeds(c, r, tx)
    BY <2>6, <2>7, <2>8, <2>9 DEF Succeeds, StateOK, Fresh, KeepsNonces, StoresChange, Announces, l
  <2> QED
    BY <1>3, <1>6, <2>9, <2>10 DEF CommandDone, NoBurn
<1> QED
  BY <1>4, <1>5, <1>6

\* registerAuthority, which may throw after its first writes.
LEMMA RegisterDone ==
    ASSUME NEW c, Fresh(c), NEW tx, registerAuthorityVerified(c.s.poa, tx.sender, tx.name),
           NEW r, r = registerAuthorityExecute(c, tx)
    PROVE  CommandDone(c, r, tx)
<1> DEFINE x     == AuthorityRegistrationFee
           paid  == payFee(c, x)
           p     == registerAuthority(c.s.poa, tx.sender, tx.name)
           named == [paid EXCEPT !.s.poa = registerAuthority(paid.s.poa, tx.sender, tx.name)]
           q     == registerValidatorKeys(named.s.poa, tx.sender, tx.blsKey, tx.generatorKey)
           e     == Event("keyRegistrationFailed", 0, TRUE)
<1>1. x \in Nat
  BY ApplicationAssumption
<1>2. r = IF paid.thrown THEN paid
          ELSE IF ~keysRegistrable(named.s.poa, tx.sender, tx.blsKey, tx.popValid)
          THEN Throw(Log(named, e)) ELSE [named EXCEPT !.s.poa = q]
  BY DEF registerAuthorityExecute
<1>3. \/ paid.thrown /\ CommandDone(c, paid, tx)
      \/ /\ paid.thrown = FALSE /\ DOMAIN paid = ContextFields /\ paid.s = c.s
         /\ paid.events = {} /\ FeeUpTo(paid.fee, c.fee)
  BY <1>1, PayFee, ZenonT(60)
<1>4. e.name \notin {"authorityUpdated", "burn"}
  BY DEF Event
<1> HIDE DEF x, paid, e
<1>5. CASE paid.thrown
  BY <1>2, <1>3, <1>5
<1>6. ASSUME ~paid.thrown
      PROVE  CommandDone(c, r, tx)
  <2>1. named = [paid EXCEPT !.s.poa = p]
    BY <1>3, <1>6
  <2>2. p.keys = c.s.poa.keys /\ p.blsKeys = c.s.poa.blsKeys /\ DOMAIN p = PoAStores
    BY DEF Fresh, StateOK, PoAStores, registerAuthority
  <2> HIDE DEF p, named
  <2>3. /\ DOMAIN named = ContextFields /\ DOMAIN named.s = StateStores
        /\ named.s.ledger = c.s.ledger /\ named.s.poa = p /\ named.s.auth = c.s.auth
        /\ named.fee = paid.fee /\ named.thrown = FALSE /\ named.events = {}
    BY <1>3, <1>6, <2>1 DEF Fresh, StateOK, StateStores, ContextFields
  <2>4. CASE ~keysRegistrable(named.s.poa, tx.sender, tx.blsKey, tx.popValid)
    <3>1. r = Throw(Log(named, e))
      BY <1>2, <1>6, <2>4
    <3> QED
      BY <1>3, <1>4, <1>6, <2>3, <3>1, ThrowingIsDone
  <2>5. CASE keysRegistrable(named.s.poa, tx.sender, tx.blsKey, tx.popValid)
    <3>1. q = registerValidatorKeys(p, tx.sender, tx.blsKey, tx.generatorKey)
      BY <2>3
    <3>2. DOMAIN q = PoAStores
      BY <2>2, <3>1 DEF PoAStores, registerValidatorKeys
    <3>3. r = [named EXCEPT !.s.poa = q]
      BY <1>2, <1>6, <2>5
    <3> HIDE DEF q
    <3>4. /\ DOMAIN r = ContextFields /\ DOMAIN r.s = StateStores
          /\ r.s.ledger = c.s.ledger /\ r.s.poa = q /\ r.s.auth = c.s.auth
          /\ r.fee = paid.fee /\ r.thrown = FALSE /\ r.events = {}
      BY <2>3, <3>3 DEF StateStores, ContextFields
    <3>5. keysRegistrable(c.s.poa, tx.sender, tx.blsKey, tx.popValid)
      BY <2>2, <2>3, <2>5 DEF keysRegistrable
    <3>6. Registers(c.s.poa, q, tx)
      BY <3>1, <3>5 DEF Registers, p
    <3>7. Succeeds(c, r, tx)
      BY <3>2, <3>4, <3>6, SameBooks
         DEF Succeeds, StateOK, Fresh, KeepsNonces, KeepsLocked, StoresChange, Announces
    <3> QED
      BY <1>3, <1>6, <3>4, <3>7 DEF CommandDone, NoBurn
  <2> QED
    BY <2>4, <2>5
<1> QED
  BY <1>5, <1>6

\* updateAuthority, which replaces the snapshot after the next one.
LEMMA UpdateDone ==
    ASSUME NEW c, Fresh(c), NEW tx, tx.command = "updateAuthority",
           tx.updateNonce = c.s.poa.validatorsUpdateNonce,
           NEW r, r = updateAuthorityExecute(c, tx)
    PROVE  CommandDone(c, r, tx)
<1>1. CASE ~authoritySignatureValid(c.s.poa, tx.signers)
  <2> DEFINE e == Event("authorityUpdateFailed", 0, TRUE)
  <2>1. e.name \notin {"authorityUpdated", "burn"}
    BY DEF Event
  <2>2. r = Throw(Log(c, e))
    BY <1>1 DEF updateAuthorityExecute
  <2>3. /\ DOMAIN c = ContextFields /\ DOMAIN c.s = StateStores /\ c.events = {}
        /\ FeeUpTo(c.fee, c.fee)
    BY DEF Fresh, StateOK, FeeUpTo
  <2> HIDE DEF e
  <2> QED
    BY <2>1, <2>2, <2>3, ThrowingIsDone
<1>2. CASE authoritySignatureValid(c.s.poa, tx.signers)
  <2> DEFINE q == updateAuthority(c.s.poa, tx.weights, tx.threshold)
             d == [c EXCEPT !.s.poa = q]
             e == Event("authorityUpdated", 0, FALSE)
  <2>1. r = Log(d, e)
    BY <1>2 DEF updateAuthorityExecute
  <2>2. e.name = "authorityUpdated" /\ e.name # "burn"
    BY DEF Event
  <2>3. DOMAIN q = PoAStores
    BY DEF updateAuthority, Fresh, StateOK, PoAStores
  <2> HIDE DEF q, e
  <2>4. /\ DOMAIN d = ContextFields /\ DOMAIN d.s = StateStores
        /\ d.s.ledger = c.s.ledger /\ d.s.poa = q /\ d.s.auth = c.s.auth
        /\ d.fee = c.fee /\ d.thrown = FALSE /\ d.events = {}
    BY DEF Fresh, StateOK, StateStores, ContextFields
  <2> HIDE DEF d
  <2>5. /\ DOMAIN r = ContextFields /\ r.s = d.s /\ r.fee = c.fee /\ r.thrown = FALSE
        /\ r.events = {e}
    BY <2>1, <2>4 DEF Log, ContextFields
  <2>6. Updates(c.s.poa, q, tx)
    BY DEF Updates, q
  <2>7. Succeeds(c, r, tx)
    BY <2>2, <2>3, <2>4, <2>5, <2>6, SameBooks
       DEF Succeeds, StateOK, Fresh, KeepsNonces, KeepsLocked, StoresChange, Announces
  <2>8. FeeUpTo(r.fee, c.fee)
    BY <2>5 DEF FeeUpTo, Fresh
  <2> QED
    BY <2>2, <2>4, <2>5, <2>7, <2>8 DEF CommandDone, NoBurn
<1> QED
  BY <1>1, <1>2

\* updateGeneratorKey.
LEMMA ChangeKeyDone ==
    ASSUME NEW c, Fresh(c), NEW tx, tx.sender \in DOMAIN c.s.poa.validators,
           NEW r, r = updateGeneratorKeyExecute(c, tx)
    PROVE  CommandDone(c, r, tx)
<1> DEFINE q == setValidatorGeneratorKey(c.s.poa, tx.sender, tx.generatorKey)
<1>1. r = [c EXCEPT !.s.poa = q]
  BY DEF updateGeneratorKeyExecute
<1>2. DOMAIN q = PoAStores
  BY DEF setValidatorGeneratorKey, Fresh, StateOK, PoAStores
<1>3. ChangesKey(c.s.poa, q, tx)
  BY DEF ChangesKey
<1> HIDE DEF q
<1>4. /\ DOMAIN r = ContextFields /\ DOMAIN r.s = StateStores
      /\ r.s.ledger = c.s.ledger /\ r.s.poa = q /\ r.s.auth = c.s.auth
      /\ r.fee = c.fee /\ r.thrown = FALSE /\ r.events = {}
  BY <1>1 DEF Fresh, StateOK, StateStores, ContextFields
<1>5. Succeeds(c, r, tx)
  BY <1>2, <1>3, <1>4, SameBooks
     DEF Succeeds, StateOK, Fresh, KeepsNonces, KeepsLocked, StoresChange, Announces
<1>6. FeeUpTo(r.fee, c.fee)
  BY <1>4 DEF FeeUpTo, Fresh
<1> QED
  BY <1>4, <1>5, <1>6 DEF CommandDone, NoBurn

\* auth's registerMultisignature.
LEMMA MultisignatureDone ==
    ASSUME NEW c, Fresh(c), NEW tx, tx.sender \in Addresses,
           NEW r, r = registerMultisignatureExecute(c, tx)
    PROVE  CommandDone(c, r, tx)
<1>1. CASE tx.keySignatures # tx.mandatoryKeys \cup tx.optionalKeys
  <2> DEFINE e == Event("invalidSignature", 0, TRUE)
  <2>1. e.name \notin {"authorityUpdated", "burn"}
    BY DEF Event
  <2>2. r = Throw(Log(c, e))
    BY <1>1 DEF registerMultisignatureExecute
  <2>3. /\ DOMAIN c = ContextFields /\ DOMAIN c.s = StateStores /\ c.events = {}
        /\ FeeUpTo(c.fee, c.fee)
    BY DEF Fresh, StateOK, FeeUpTo
  <2> HIDE DEF e
  <2> QED
    BY <2>1, <2>2, <2>3, ThrowingIsDone
<1>2. CASE ~(tx.keySignatures # tx.mandatoryKeys \cup tx.optionalKeys)
  <2> DEFINE v    == [numberOfSignatures |-> tx.numberOfSignatures,
                      mandatoryKeys |-> tx.mandatoryKeys, optionalKeys |-> tx.optionalKeys]
             auth == [c.s.auth EXCEPT ![tx.sender].keys = v]
  <2>1. r = [c EXCEPT !.s.auth = auth]
    BY <1>2 DEF registerMultisignatureExecute
  <2> HIDE DEF v
  <2>2. AuthOK(auth) /\ KeepsNonces(c.s.auth, auth)
    BY DEF Fresh, StateOK, AuthOK, KeepsNonces
  <2> HIDE DEF auth
  <2>3. /\ DOMAIN r = ContextFields /\ DOMAIN r.s = StateStores
        /\ r.s.ledger = c.s.ledger /\ r.s.poa = c.s.poa /\ r.s.auth = auth
        /\ r.fee = c.fee /\ r.thrown = FALSE /\ r.events = {}
    BY <2>1 DEF Fresh, StateOK, StateStores, ContextFields
  <2>4. Succeeds(c, r, tx)
    BY <2>2, <2>3, SameBooks DEF Succeeds, StateOK, Fresh, KeepsLocked, StoresChange, Announces
  <2>5. FeeUpTo(r.fee, c.fee)
    BY <2>3 DEF FeeUpTo, Fresh
  <2> QED
    BY <2>3, <2>4, <2>5 DEF CommandDone, NoBurn
<1> QED
  BY <1>1, <1>2

\* Every command keeps nonces and locked amounts, and changes the stores of PoA
\* in one of three ways, or throws.
LEMMA CommandIsDone ==
    ASSUME NEW c, Fresh(c), NEW tx \in Transactions, NEW s, s.poa = c.s.poa,
           commandVerified(s, tx), NEW r, r = commandExecute(c, tx)
    PROVE  CommandDone(c, r, tx)
<1>0. /\ tx.sender \in Addresses
      /\ \/ tx.command = "transfer" /\ tx.amount \in Nat
         \/ tx.command \in {"registerAuthority", "updateAuthority", "updateGeneratorKey",
                            "registerMultisignature"}
  BY TransactionsAssumption
<1>1. CASE tx.command = "transfer"
  <2>1. r = transferExecute(c, tx) /\ tx.amount \in Nat
    BY <1>0, <1>1 DEF commandExecute
  <2> QED
    BY <2>1, TransferDone
<1>2. CASE tx.command = "registerAuthority"
  <2>1. r = registerAuthorityExecute(c, tx)
    BY <1>2 DEF commandExecute
  <2>2. registerAuthorityVerified(c.s.poa, tx.sender, tx.name)
    BY <1>2 DEF commandVerified
  <2> QED
    BY <2>1, <2>2, RegisterDone
<1>3. CASE tx.command = "updateAuthority"
  <2>1. r = updateAuthorityExecute(c, tx)
    BY <1>3 DEF commandExecute
  <2>2. updateAuthorityVerified(s.poa, tx.weights, tx.threshold, tx.updateNonce)
    BY <1>3 DEF commandVerified
  <2>3. tx.updateNonce = c.s.poa.validatorsUpdateNonce
    BY <2>2 DEF updateAuthorityVerified
  <2> QED
    BY <1>3, <2>1, <2>3, UpdateDone
<1>4. CASE tx.command = "updateGeneratorKey"
  <2>1. r = updateGeneratorKeyExecute(c, tx)
    BY <1>4 DEF commandExecute
  <2>2. tx.sender \in DOMAIN c.s.poa.validators
    BY <1>4 DEF commandVerified
  <2> QED
    BY <2>1, <2>2, ChangeKeyDone
<1>5. CASE tx.command = "registerMultisignature"
  <2>1. r = registerMultisignatureExecute(c, tx)
    BY <1>5 DEF commandExecute
  <2> QED
    BY <1>0, <2>1, MultisignatureDone
<1> QED
  BY <1>0, <1>1, <1>2, <1>3, <1>4, <1>5

(* ---------------------------- a transaction ---------------------------- *)

NextNonce(auth, q, a) ==
    /\ q[a].nonce = auth[a].nonce + 1
    /\ \A b \in Addresses \ {a} : q[b].nonce = auth[b].nonce

\* Neither the accounts together nor the supply change when the fee is locked.
Holds(l, r, tx) ==
    Books(l) /\ Unlocked(l) => SameTotals(l, r) /\ OnlyFee(r, tx.sender, tx.fee)

\* n leaves the accounts and the supply, and nothing stays locked.
Paid(l, r, n) ==
    /\ n \in Int /\ Books(r) /\ Unlocked(r)
    /\ Holdings(r) = Holdings(l) - n /\ r.supply[KLY] = l.supply[KLY] - n

\* What is burnt with the fee is what the event says.
Settles(c, z, tx) ==
    Books(c.s.ledger) /\ OnlyFee(c.s.ledger, tx.sender, tx.fee) /\ NoBurn(c.events) =>
        Paid(c.s.ledger, z.s.ledger, Amounts(z.events, "burn"))

\* The minimum fee is a number at every height.
LEMMA MinFeeType == \A h \in Nat : getMinFee(h) \in Nat
  BY ApplicationAssumption DEF getMinFee

\* What the hooks before a command leave to it.
LEMMA Before ==
    ASSUME NEW s, StateOK(s), NEW h \in Nat, NEW tx \in Transactions,
           beforeCommandExecutable(s, h, tx), NEW b, b = beforeCommandExecute(s, h, tx)
    PROVE  /\ Fresh(b) /\ b.s.poa = s.poa /\ NextNonce(s.auth, b.s.auth, tx.sender)
           /\ FeeHeld(b.s.ledger, tx.sender, tx.fee) /\ b.fee \in 0 .. tx.fee
           /\ Holds(s.ledger, b.s.ledger, tx)
<1> DEFINE auth == [s.auth EXCEPT ![tx.sender].nonce = @ + 1]
           l    == lock(s.ledger, tx.sender, "fee", KLY, tx.fee)
           t    == [s EXCEPT !.auth = auth, !.ledger = l]
<1>1. tx.sender \in Addresses /\ tx.fee \in Nat /\ getMinFee(h) \in Nat
  BY TransactionsAssumption, MinFeeType
<1>2. tx.fee - getMinFee(h) \in 0 .. tx.fee
  BY <1>1 DEF beforeCommandExecutable
<1>3. LedgerOK(l) /\ FeeHeld(l, tx.sender, tx.fee)
  BY <1>1, LockKeeps DEF StateOK, beforeCommandExecutable
<1>4. AuthOK(auth) /\ NextNonce(s.auth, auth, tx.sender)
  BY <1>1 DEF StateOK, AuthOK, NextNonce
<1>5. Holds(s.ledger, l, tx)
  BY <1>1, LockChanges DEF Holds, beforeCommandExecutable
<1>6. b = [s |-> t, fee |-> tx.fee - getMinFee(h), events |-> {}, thrown |-> FALSE]
  BY DEF beforeCommandExecute
<1> HIDE DEF auth, l
<1>7. DOMAIN t = StateStores /\ t.auth = auth /\ t.ledger = l /\ t.poa = s.poa
  BY DEF StateOK, StateStores
<1> HIDE DEF t
<1>8. /\ DOMAIN b = ContextFields /\ b.s = t /\ b.fee = tx.fee - getMinFee(h)
      /\ b.events = {} /\ b.thrown = FALSE
  BY <1>6 DEF ContextFields
<1>9. StateOK(t)
  BY <1>3, <1>4, <1>7 DEF StateOK
<1>10. Fresh(b)
  BY <1>2, <1>8, <1>9 DEF Fresh
<1> QED
  BY <1>2, <1>3, <1>4, <1>5, <1>7, <1>8, <1>10

\* A command that threw has no effect on the state, and its update is not announced.
LEMMA Restored ==
    ASSUME NEW b, Fresh(b), NEW tx, NEW after, CommandDone(b, after, tx),
           NEW x, x = commandRestored(b, after)
    PROVE  /\ DOMAIN x = ContextFields /\ FeeUpTo(x.fee, b.fee) /\ Succeeds(b, x, tx)
           /\ NoBurn(x.events)
<1>1. CASE after.thrown
  <2>1. x = [after EXCEPT !.s = b.s, !.events = {e \in after.events : e.noRevert}]
    BY <1>1 DEF commandRestored
  <2>2. /\ DOMAIN x = ContextFields /\ x.s = b.s /\ x.fee = after.fee
        /\ x.events = {e \in after.events : e.noRevert}
    BY <2>1 DEF CommandDone, ContextFields
  <2>3. ~Announces(x.events) /\ NoBurn(x.events)
    BY <1>1, <2>2 DEF CommandDone, Announces, NoBurn
  <2>4. Succeeds(b, x, tx)
    BY <2>2, <2>3, SameBooks DEF Fresh, Succeeds, KeepsNonces, KeepsLocked, StoresChange
  <2> QED
    BY <2>2, <2>3, <2>4 DEF CommandDone
<1>2. CASE ~after.thrown
  BY <1>2 DEF commandRestored, CommandDone
<1> QED
  BY <1>1, <1>2

\* The amounts of the burn events.
LEMMA BurnAmounts ==
    ASSUME NEW events, NoBurn(events), NEW n \in Int, NEW e, e = Event("burn", n, FALSE)
    PROVE  Amounts(events, "burn") = 0 /\ Amounts(events \cup {e}, "burn") = n
<1> DEFINE f == [d \in {d \in events : d.name = "burn"} |-> d.amount]
           h == [d \in {d \in events \cup {e} : d.name = "burn"} |-> d.amount]
<1>1. e.name = "burn" /\ e.amount = n
  BY DEF Event
<1>2. DOMAIN f = {}
  BY DEF NoBurn
<1>3. DOMAIN h = {e}
  BY <1>1 DEF NoBurn
<1>4. h[e] = n
  BY <1>1, <1>3
<1>5. Amounts(events, "burn") = SumFunction(f) /\ Amounts(events \cup {e}, "burn") = SumFunction(h)
  BY DEF Amounts
<1> HIDE DEF f, h
<1>6. SumFunction(f) = 0
  BY <1>2, SumEmpty
<1>7. SumFunction(h) = n
  BY <1>3, <1>4, SumSingle
<1> QED
  BY <1>5, <1>6, <1>7

\* A ledger without locked amounts stays without.
LEMMA StaysUnlocked ==
    ASSUME NEW l, Unlocked(l), NEW r, NEW x, NEW y, Changes(l, r, x, y)
    PROVE  Unlocked(r)
  BY DEF Unlocked, Changes, KeepsFree

\* The fee that is held pays the generator and what is burnt or goes to the pool.
LEMMA Settled ==
    ASSUME NEW c, DOMAIN c = ContextFields, StateOK(c.s), NEW tx, tx.fee \in Nat,
           FeeHeld(c.s.ledger, tx.sender, tx.fee), FeeUpTo(c.fee, tx.fee),
           NEW g, NEW r, r = settleFee(c, g, tx)
    PROVE  /\ r.ok /\ StateOK(r.c.s) /\ r.c.s.auth = c.s.auth /\ r.c.s.poa = c.s.poa
           /\ Announces(r.c.events) <=> Announces(c.events)
           /\ Settles(c, r.c, tx)
<1> DEFINE l         == c.s.ledger
           unlocked  == unlock(l, tx.sender, "fee", KLY, tx.fee)
           available == IF c.fee = Missing \/ ~userSubstoreExists(unlocked, g, KLY) THEN 0
                        ELSE c.fee
           rewarded  == transfer(unlocked, tx.sender, g, KLY, available)
           consumed  == tx.fee - available
           burns     == \/ FeePoolAddress = NoAddress
                        \/ ~userSubstoreExists(rewarded, FeePoolAddress, KLY)
           final     == IF burns THEN burn(rewarded, tx.sender, KLY, consumed)
                        ELSE transfer(rewarded, tx.sender, FeePoolAddress, KLY, consumed)
           settled   == [c EXCEPT !.s.ledger = final]
           k         == <<tx.sender, KLY>>
           e         == Event("burn", consumed, FALSE)
<1>1. /\ r.ok <=> /\ unlockable(l, tx.sender, "fee", KLY, tx.fee)
                  /\ spendable(unlocked, tx.sender, KLY, available)
                  /\ spendable(rewarded, tx.sender, KLY, consumed)
      /\ r.c = IF burns THEN Log(settled, e) ELSE settled
  BY DEF settleFee
<1>2. available \in 0 .. tx.fee /\ consumed \in 0 .. tx.fee /\ available + consumed = tx.fee
  BY DEF FeeUpTo
<1>3. /\ LedgerOK(unlocked) /\ unlockable(l, tx.sender, "fee", KLY, tx.fee)
      /\ tx.fee # 0 => k \in DOMAIN unlocked.users /\ unlocked.users[k].available >= tx.fee
  BY UnlockKeeps DEF StateOK
<1>4. e.name # "authorityUpdated"
  BY DEF Event
<1>5. Books(l) /\ OnlyFee(l, tx.sender, tx.fee) => SameTotals(l, unlocked) /\ Unlocked(unlocked)
  BY UnlockChanges
<1> HIDE DEF unlocked, available, consumed, e
<1>6. spendable(unlocked, tx.sender, KLY, available)
  <2>1. CASE available = 0
    BY <2>1 DEF spendable
  <2>2. CASE available # 0
    <3>1. tx.fee # 0
      BY <1>2, <2>2
    <3>2. k \in DOMAIN unlocked.users /\ unlocked.users[k].available >= tx.fee
      BY <1>3, <3>1
    <3>3. unlocked.users[k].available \in Nat
      BY <1>3, <3>2 DEF LedgerOK, AccountType
    <3>4. unlocked.users[k].available >= available
      BY <1>2, <3>2, <3>3
    <3> QED
      BY <3>2, <3>4 DEF spendable, userSubstoreExists, getAvailableBalance, Account
  <2> QED
    BY <2>1, <2>2
<1>7. /\ LedgerOK(rewarded) /\ KeepsAllBut(unlocked, rewarded, k)
      /\ k \in DOMAIN unlocked.users =>
             rewarded.users[k].available >= unlocked.users[k].available - available
  <2>1. available \in Nat
    BY <1>2
  <2> QED
    BY <1>3, <1>6, <2>1, TransferKeeps
<1>8. Books(unlocked) => Changes(unlocked, rewarded, 0, 0)
  <2>1. available \in Nat
    BY <1>2
  <2> QED
    BY <1>6, <2>1, TransferChanges
<1> HIDE DEF rewarded
<1>9. spendable(rewarded, tx.sender, KLY, consumed)
  <2>1. CASE consumed = 0
    BY <2>1 DEF spendable
  <2>2. CASE consumed # 0
    <3>1. tx.fee # 0
      BY <1>2, <2>2
    <3>2. k \in DOMAIN unlocked.users /\ unlocked.users[k].available >= tx.fee
      BY <1>3, <3>1
    <3>3. k \in DOMAIN rewarded.users
      BY <1>7, <3>2 DEF KeepsAllBut
    <3>4. unlocked.users[k].available \in Nat /\ rewarded.users[k].available \in Nat
      BY <1>3, <1>7, <3>2, <3>3 DEF LedgerOK, AccountType
    <3>5. rewarded.users[k].available >= consumed
      BY <1>2, <1>7, <3>2, <3>4
    <3> QED
      BY <3>3, <3>5 DEF spendable, userSubstoreExists, getAvailableBalance, Account
  <2> QED
    BY <2>1, <2>2
<1>10. LedgerOK(final)
  <2>1. consumed \in Nat
    BY <1>2
  <2>2. LedgerOK(burn(rewarded, tx.sender, KLY, consumed))
    BY <1>7, <1>9, <2>1, BurnKeeps
  <2>3. LedgerOK(transfer(rewarded, tx.sender, FeePoolAddress, KLY, consumed))
    BY <1>7, <1>9, <2>1, TransferKeeps
  <2> QED
    BY <2>2, <2>3
<1>11. Books(rewarded) =>
           Changes(rewarded, final, IF burns THEN 0 - consumed ELSE 0,
                   IF burns THEN 0 - consumed ELSE 0)
  <2> SUFFICES ASSUME Books(rewarded)
               PROVE  Changes(rewarded, final, IF burns THEN 0 - consumed ELSE 0,
                              IF burns THEN 0 - consumed ELSE 0)
    OBVIOUS
  <2>1. consumed \in Nat
    BY <1>2
  <2>2. Changes(rewarded, burn(rewarded, tx.sender, KLY, consumed), 0 - consumed, 0 - consumed)
    BY <1>9, <2>1, BurnChanges
  <2>3. Changes(rewarded, transfer(rewarded, tx.sender, FeePoolAddress, KLY, consumed), 0, 0)
    BY <1>9, <2>1, TransferChanges
  <2> QED
    BY <2>2, <2>3
<1> HIDE DEF final, burns
<1>12. /\ DOMAIN settled = ContextFields /\ DOMAIN settled.s = StateStores
      /\ settled.s.ledger = final /\ settled.s.auth = c.s.auth /\ settled.s.poa = c.s.poa
      /\ settled.events = c.events
  BY DEF StateOK, StateStores, ContextFields
<1>13. StateOK(settled.s)
  BY <1>10, <1>12 DEF StateOK
<1> HIDE DEF settled
<1>14. r.c.s = settled.s /\ r.c.events = IF burns THEN c.events \cup {e} ELSE c.events
  BY <1>1, <1>12 DEF Log, ContextFields
<1>15. Announces(r.c.events) <=> Announces(c.events)
  BY <1>4, <1>14 DEF Announces
<1>16. Settles(c, r.c, tx)
  <2> SUFFICES ASSUME Books(l), OnlyFee(l, tx.sender, tx.fee), NoBurn(c.events)
               PROVE  Paid(l, final, Amounts(r.c.events, "burn"))
    BY <1>12, <1>14 DEF Settles
  <2> DEFINE n == IF burns THEN consumed ELSE 0
  <2>1. Amounts(r.c.events, "burn") = n
    <3>1. consumed \in Int /\ e = Event("burn", consumed, FALSE)
      BY <1>2 DEF e
    <3>2. /\ Amounts(c.events, "burn") = 0
          /\ Amounts(c.events \cup {e}, "burn") = consumed
      BY <3>1, BurnAmounts
    <3> QED
      BY <1>14, <3>2
  <2>2. n \in Int
    BY <1>2
  <2>3. Books(unlocked) /\ Holdings(unlocked) = Holdings(l) /\ unlocked.supply = l.supply
        /\ Unlocked(unlocked)
    BY <1>5 DEF SameTotals
  <2>4. Changes(unlocked, rewarded, 0, 0) /\ Books(rewarded)
    BY <1>8, <2>3 DEF Changes
  <2>5. Changes(rewarded, final, 0 - n, 0 - n)
    BY <1>11, <2>4
  <2> HIDE DEF n
  <2>6. Changes(unlocked, final, 0 + (0 - n), 0 + (0 - n))
    <3>1. 0 - n \in Int
      BY <2>2
    <3> QED
      BY <2>3, <2>4, <2>5, <3>1, ChangesAdd
  <2>7. Unlocked(final)
    BY <2>3, <2>6, StaysUnlocked
  <2>8. Holdings(l) \in Int /\ l.supply[KLY] \in Int
    BY HoldingsTyped DEF Books
  <2>9. /\ Books(final) /\ Holdings(final) = Holdings(l) + (0 + (0 - n))
        /\ final.supply[KLY] = l.supply[KLY] + (0 + (0 - n))
    BY <2>3, <2>6 DEF Changes
  <2>10. Holdings(final) = Holdings(l) - n /\ final.supply[KLY] = l.supply[KLY] - n
    BY <2>2, <2>8, <2>9
  <2> QED
    BY <2>1, <2>2, <2>7, <2>9, <2>10 DEF Paid
<1> QED
  BY <1>1, <1>3, <1>6, <1>9, <1>12, <1>13, <1>14, <1>15, <1>16

\* The sender can pay what the fee module's verification asked for.
LEMMA VerifiedFeeSpendable ==
    ASSUME NEW s, StateOK(s), NEW h \in Nat, NEW tx \in Transactions, feeVerified(s, h, tx)
    PROVE  beforeCommandExecutable(s, h, tx)
<1> DEFINE k == <<tx.sender, KLY>>
<1>1. tx.fee \in Nat
  BY TransactionsAssumption
<1>2. CASE k \in DOMAIN s.ledger.users
  BY <1>2 DEF feeVerified, beforeCommandExecutable, spendable, userSubstoreExists,
              getAvailableBalance
<1>3. CASE k \notin DOMAIN s.ledger.users
  BY <1>1, <1>3 DEF feeVerified, beforeCommandExecutable, spendable, userSubstoreExists,
              getAvailableBalance, Account, DefaultAccount
<1> QED
  BY <1>2, <1>3

\* What executing a transaction does that is verified in the same state.
LEMMA Executed ==
    ASSUME NEW s, StateOK(s), NEW h \in Nat, NEW tx \in Transactions,
           verifyTransaction(s, h, tx), NEW g, NEW r, r = executeTransaction(s, h, g, tx)
    PROVE  /\ r.status \in {"OK", "FAIL"} /\ StateOK(r.s)
           /\ NextNonce(s.auth, r.s.auth, tx.sender)
           /\ StoresChange(s.poa, r.s.poa, tx, r.events)
           /\ Books(s.ledger) /\ Unlocked(s.ledger) =>
                  Paid(s.ledger, r.s.ledger, Amounts(r.events, "burn"))
<1> DEFINE b == beforeCommandExecute(s, h, tx)
           d == commandExecute(b, tx)
           x == commandRestored(b, d)
           z == settleFee(x, g, tx)
<1>0. tx.sender \in Addresses /\ tx.fee \in Nat
  BY TransactionsAssumption
<1>1. beforeCommandExecutable(s, h, tx) /\ commandVerified(s, tx)
  BY VerifiedFeeSpendable DEF verifyTransaction
<1>2. r = IF ~beforeCommandExecutable(s, h, tx) \/ ~z.ok
          THEN [status |-> "INVALID", s |-> s, events |-> {}]
          ELSE [status |-> IF x.thrown THEN "FAIL" ELSE "OK", s |-> z.c.s, events |-> z.c.events]
  BY DEF executeTransaction
<1>3. /\ Fresh(b) /\ b.s.poa = s.poa /\ NextNonce(s.auth, b.s.auth, tx.sender)
      /\ FeeHeld(b.s.ledger, tx.sender, tx.fee) /\ b.fee \in 0 .. tx.fee
      /\ Holds(s.ledger, b.s.ledger, tx)
  BY <1>1, Before
<1> HIDE DEF b
<1>4. CommandDone(b, d, tx)
  BY <1>1, <1>3, CommandIsDone
<1> HIDE DEF d
<1>5. /\ DOMAIN x = ContextFields /\ FeeUpTo(x.fee, b.fee) /\ Succeeds(b, x, tx)
      /\ NoBurn(x.events)
  BY <1>3, <1>4, Restored
<1> HIDE DEF x
<1>6. StateOK(x.s) /\ FeeUpTo(x.fee, tx.fee)
  <2>1. StateOK(x.s)
    BY <1>5 DEF Succeeds
  <2>2. FeeUpTo(x.fee, tx.fee)
    BY <1>0, <1>3, <1>5, SMTT(60) DEF FeeUpTo
  <2> QED
    BY <2>1, <2>2
<1>7. FeeHeld(x.s.ledger, tx.sender, tx.fee)
  BY <1>3, <1>5 DEF Succeeds, KeepsLocked, FeeHeld
<1>8. /\ z.ok /\ StateOK(z.c.s) /\ z.c.s.auth = x.s.auth /\ z.c.s.poa = x.s.poa
      /\ Announces(z.c.events) <=> Announces(x.events)
      /\ Settles(x, z.c, tx)
  BY <1>0, <1>5, <1>6, <1>7, Settled
<1> HIDE DEF z
<1>9. r.status \in {"OK", "FAIL"} /\ r.s = z.c.s /\ r.events = z.c.events
  BY <1>1, <1>2, <1>8
<1>10. NextNonce(s.auth, r.s.auth, tx.sender)
  BY <1>0, <1>3, <1>5, <1>8, <1>9, SMTT(60) DEF NextNonce, Succeeds, KeepsNonces
<1>11. StoresChange(s.poa, r.s.poa, tx, r.events)
  <2>1. StoresChange(b.s.poa, x.s.poa, tx, x.events)
    BY <1>5 DEF Succeeds
  <2>2. b.s.poa = s.poa /\ x.s.poa = r.s.poa /\ (Announces(r.events) <=> Announces(x.events))
    BY <1>3, <1>8, <1>9
  <2>3. StoresChange(s.poa, r.s.poa, tx, x.events)
    BY <2>1, <2>2
  <2> QED
    BY <2>2, <2>3 DEF StoresChange
<1>12. ASSUME Books(s.ledger), Unlocked(s.ledger)
       PROVE  Paid(s.ledger, r.s.ledger, Amounts(r.events, "burn"))
  <2> DEFINE l == s.ledger
             m == b.s.ledger
             t == x.s.ledger
  <2>1. /\ Books(m) /\ Holdings(m) = Holdings(l) /\ m.supply = l.supply
        /\ OnlyFee(m, tx.sender, tx.fee)
    BY <1>3, <1>12 DEF Holds, SameTotals
  <2>2. Changes(m, t, 0, 0)
    BY <1>5, <2>1 DEF Succeeds, KeepsBooks
  <2>3. OnlyFee(t, tx.sender, tx.fee)
    <3>1. tx.fee = 0 \/ <<tx.sender, KLY>> \in DOMAIN m.users
      BY <1>3 DEF FeeHeld
    <3>2. KeepsFree(m, t)
      BY <2>2 DEF Changes
    <3> QED
      BY <2>1, <3>1, <3>2 DEF OnlyFee, KeepsFree
  <2>4. Books(t)
    BY <2>2 DEF Changes
  <2>5. Paid(t, r.s.ledger, Amounts(r.events, "burn"))
    BY <1>5, <1>8, <1>9, <2>3, <2>4 DEF Settles
  <2>6. Holdings(t) = Holdings(l) + 0 /\ t.supply[KLY] = l.supply[KLY] + 0
    BY <2>1, <2>2 DEF Changes
  <2>7. Holdings(l) \in Int /\ l.supply[KLY] \in Int
    BY <1>12, HoldingsTyped DEF Books
  <2>8. Holdings(t) = Holdings(l) /\ t.supply[KLY] = l.supply[KLY]
    BY <2>6, <2>7
  <2> HIDE DEF l, t
  <2> QED
    BY <2>5, <2>8 DEF Paid, l
<1> QED
  BY <1>8, <1>9, <1>10, <1>11, <1>12

(* --------------------------- the stores of PoA ------------------------- *)

\* RegistrationAtomic, with what it reads being there.
Registered(p) ==
    /\ DOMAIN p.keys = DOMAIN p.validators
    /\ \A a \in DOMAIN p.validators :
           p.validators[a] \in DOMAIN p.names /\ p.names[p.validators[a]] = a
    /\ \A n \in DOMAIN p.names :
           p.names[n] \in DOMAIN p.validators /\ p.validators[p.names[n]] = n
    /\ \A a \in DOMAIN p.keys :
           /\ DOMAIN p.keys[a] = {"generatorKey", "blsKey"}
           /\ p.keys[a].blsKey \in DOMAIN p.blsKeys /\ p.blsKeys[p.keys[a].blsKey] = a
    /\ \A k \in DOMAIN p.blsKeys :
           p.blsKeys[k] \in DOMAIN p.keys /\ p.keys[p.blsKeys[k]].blsKey = k

SameRegistrations(p, q) ==
    /\ q.keys = p.keys /\ q.blsKeys = p.blsKeys
    /\ q.validators = p.validators /\ q.names = p.names

\* The validators of this round, of the next and of the one after.
SameRounds(p, q) ==
    /\ q.snapshots = p.snapshots /\ q.params = p.params
    /\ q.roundEndHeight = p.roundEndHeight /\ q.validatorsUpdateNonce = p.validatorsUpdateNonce

\* Registrations are all that Registered speaks of.
LEMMA SameIsRegistered ==
    ASSUME NEW p, Registered(p), NEW q, SameRegistrations(p, q)
    PROVE  Registered(q)
  BY DEF Registered, SameRegistrations

\* A registration adds one entry to each of the four stores.
LEMMA RegistersKeeps ==
    ASSUME NEW p, DOMAIN p = PoAStores, Registered(p), NEW tx, NEW q, Registers(p, q, tx)
    PROVE  Registered(q) /\ SameRounds(p, q)
<1> DEFINE a == tx.sender
           n == tx.name
           k == tx.blsKey
           v == [generatorKey |-> tx.generatorKey, blsKey |-> tx.blsKey]
           m == registerAuthority(p, a, n)
<1>1. /\ n \notin DOMAIN p.names /\ a \notin DOMAIN p.validators
      /\ a \notin DOMAIN p.keys /\ k \notin DOMAIN p.blsKeys
      /\ q = registerValidatorKeys(m, a, k, tx.generatorKey)
  BY DEF Registers, registerAuthorityVerified, keysRegistrable
<1>2. DOMAIN v = {"generatorKey", "blsKey"} /\ v.blsKey = k
  OBVIOUS
<1>3. /\ DOMAIN m = PoAStores /\ m.keys = p.keys /\ m.blsKeys = p.blsKeys
      /\ m.validators = With(p.validators, a, n) /\ m.names = With(p.names, n, a)
      /\ SameRounds(p, m)
  BY DEF registerAuthority, PoAStores, SameRounds
<1> HIDE DEF m
<1>4. /\ q.keys = With(p.keys, a, v) /\ q.blsKeys = With(p.blsKeys, k, a)
      /\ q.validators = m.validators /\ q.names = m.names /\ SameRounds(m, q)
  BY <1>1, <1>3 DEF registerValidatorKeys, PoAStores, SameRounds
<1> HIDE DEF v
<1>5. /\ DOMAIN q.keys = DOMAIN p.keys \cup {a} /\ DOMAIN q.blsKeys = DOMAIN p.blsKeys \cup {k}
      /\ DOMAIN q.validators = DOMAIN p.validators \cup {a}
      /\ DOMAIN q.names = DOMAIN p.names \cup {n}
  BY <1>3, <1>4 DEF With
<1>6. /\ q.keys[a] = v /\ \A b \in DOMAIN p.keys : q.keys[b] = p.keys[b]
      /\ q.blsKeys[k] = a /\ \A j \in DOMAIN p.blsKeys : q.blsKeys[j] = p.blsKeys[j]
      /\ q.validators[a] = n /\ \A b \in DOMAIN p.validators : q.validators[b] = p.validators[b]
      /\ q.names[n] = a /\ \A j \in DOMAIN p.names : q.names[j] = p.names[j]
  BY <1>1, <1>3, <1>4 DEF With
<1> HIDE DEF a, n, k
<1>7. DOMAIN q.keys = DOMAIN q.validators
  BY <1>5 DEF Registered
<1>8. \A b \in DOMAIN q.validators :
          q.validators[b] \in DOMAIN q.names /\ q.names[q.validators[b]] = b
  BY <1>1, <1>5, <1>6 DEF Registered
<1>9. \A j \in DOMAIN q.names :
          q.names[j] \in DOMAIN q.validators /\ q.validators[q.names[j]] = j
  BY <1>1, <1>5, <1>6 DEF Registered
<1>10. \A b \in DOMAIN q.keys :
           /\ DOMAIN q.keys[b] = {"generatorKey", "blsKey"}
           /\ q.keys[b].blsKey \in DOMAIN q.blsKeys /\ q.blsKeys[q.keys[b].blsKey] = b
  BY <1>1, <1>2, <1>5, <1>6 DEF Registered
<1>11. \A j \in DOMAIN q.blsKeys :
           q.blsKeys[j] \in DOMAIN q.keys /\ q.keys[q.blsKeys[j]].blsKey = j
  BY <1>1, <1>2, <1>5, <1>6 DEF Registered
<1>12. SameRounds(p, q)
  BY <1>3, <1>4 DEF SameRounds
<1> QED
  BY <1>7, <1>8, <1>9, <1>10, <1>11, <1>12 DEF Registered

\* A new generator key touches neither registrations nor rounds.
LEMMA ChangesKeyKeeps ==
    ASSUME NEW p, DOMAIN p = PoAStores, Registered(p), NEW tx, NEW q, ChangesKey(p, q, tx)
    PROVE  Registered(q) /\ SameRounds(p, q)
<1> DEFINE a == tx.sender
           v == [p.keys[a] EXCEPT !.generatorKey = tx.generatorKey]
<1>1. a \in DOMAIN p.keys
  BY DEF ChangesKey, Registered
<1>2. DOMAIN v = {"generatorKey", "blsKey"} /\ v.blsKey = p.keys[a].blsKey
  BY <1>1 DEF Registered
<1>3. /\ q.keys = [p.keys EXCEPT ![a] = v] /\ q.blsKeys = p.blsKeys
      /\ q.validators = p.validators /\ q.names = p.names /\ SameRounds(p, q)
  BY DEF ChangesKey, setValidatorGeneratorKey, PoAStores, SameRounds
<1> HIDE DEF v
<1>4. /\ DOMAIN q.keys = DOMAIN p.keys
      /\ \A b \in DOMAIN p.keys : /\ DOMAIN q.keys[b] = {"generatorKey", "blsKey"}
                                  /\ q.keys[b].blsKey = p.keys[b].blsKey
  BY <1>1, <1>2, <1>3 DEF Registered
<1> QED
  BY <1>3, <1>4 DEF Registered

\* An update changes snapshot 2, of the round after the next, and is counted.
LEMMA UpdatesKeeps ==
    ASSUME NEW p, DOMAIN p = PoAStores, DOMAIN p.snapshots = 1 .. 3, Registered(p),
           NEW tx, NEW q, Updates(p, q, tx)
    PROVE  /\ Registered(q) /\ q.params = p.params /\ q.roundEndHeight = p.roundEndHeight
           /\ q.validatorsUpdateNonce = p.validatorsUpdateNonce + 1
           /\ DOMAIN q.snapshots = 1 .. 3
           /\ q.snapshots[1] = p.snapshots[1] /\ q.snapshots[2] = p.snapshots[2]
           /\ q.snapshots[3] = [weights |-> tx.weights, threshold |-> tx.threshold]
<1> DEFINE u == [weights |-> tx.weights, threshold |-> tx.threshold]
<1>1. /\ SameRegistrations(p, q) /\ q.params = p.params /\ q.roundEndHeight = p.roundEndHeight
      /\ q.validatorsUpdateNonce = p.validatorsUpdateNonce + 1
      /\ q.snapshots = [p.snapshots EXCEPT ![3] = u]
  BY DEF Updates, updateAuthority, PoAStores, SameRegistrations
<1>2. Registered(q)
  BY <1>1, SameIsRegistered
<1> HIDE DEF u
<1>3. /\ DOMAIN q.snapshots = 1 .. 3
      /\ q.snapshots[1] = p.snapshots[1] /\ q.snapshots[2] = p.snapshots[2]
      /\ q.snapshots[3] = u
  BY <1>1
<1> QED
  BY <1>1, <1>2, <1>3 DEF u

\* A revealed seed touches neither registrations nor rounds.
LEMMA AddRevealKeeps ==
    ASSUME NEW p, DOMAIN p = PoAStores, NEW g, NEW h, NEW seed,
           NEW q, q = addReveal(p, g, h, seed)
    PROVE  DOMAIN q = PoAStores /\ SameRegistrations(p, q) /\ SameRounds(p, q)
  BY DEF addReveal, PoAStores, SameRegistrations, SameRounds

\* The parameters are those of a snapshot.
ParamsOf(params, snapshot) ==
    /\ params.threshold = snapshot.threshold
    /\ DOMAIN params.validators = DOMAIN snapshot.weights
    /\ \A a \in DOMAIN snapshot.weights : params.validators[a].weight = snapshot.weights[a]

\* setValidatorsParams writes the snapshot's validators and nothing else.
LEMMA SetParams ==
    ASSUME NEW p, DOMAIN p = PoAStores, NEW s, NEW q, q = setValidatorsParams(p, s)
    PROVE  /\ DOMAIN q = PoAStores /\ SameRegistrations(p, q) /\ ParamsOf(q.params, s)
           /\ q.snapshots = p.snapshots /\ q.roundEndHeight = p.roundEndHeight
           /\ q.validatorsUpdateNonce = p.validatorsUpdateNonce
<1> DEFINE v == [a \in DOMAIN s.weights |->
                   [weight |-> s.weights[a],
                    generatorKey |-> p.keys[a].generatorKey, blsKey |-> p.keys[a].blsKey]]
           n == [threshold |-> s.threshold, validators |-> v]
<1>1. q = [p EXCEPT !.params = n]
  BY DEF setValidatorsParams
<1>2. \A a \in DOMAIN s.weights : v[a].weight = s.weights[a]
  OBVIOUS
<1>3. DOMAIN v = DOMAIN s.weights
  OBVIOUS
<1> HIDE DEF v
<1>4. n.threshold = s.threshold /\ n.validators = v
  OBVIOUS
<1> HIDE DEF n
<1>5. /\ DOMAIN q = PoAStores /\ SameRegistrations(p, q) /\ q.params = n
      /\ q.snapshots = p.snapshots /\ q.roundEndHeight = p.roundEndHeight
      /\ q.validatorsUpdateNonce = p.validatorsUpdateNonce
  BY <1>1 DEF PoAStores, SameRegistrations
<1> QED
  BY <1>2, <1>3, <1>4, <1>5 DEF ParamsOf

\* At the end of a round the snapshots move up and the new snapshot 0 generates.
LEMMA RoundEndedKeeps ==
    ASSUME NEW p, DOMAIN p = PoAStores, DOMAIN p.snapshots = 1 .. 3, NEW q, q = roundEnded(p)
    PROVE  /\ DOMAIN q = PoAStores /\ SameRegistrations(p, q)
           /\ ParamsOf(q.params, p.snapshots[2]) /\ DOMAIN q.snapshots = 1 .. 3
           /\ q.snapshots[1] = p.snapshots[2] /\ q.snapshots[2] = p.snapshots[3]
           /\ q.snapshots[3] = p.snapshots[3]
           /\ q.roundEndHeight = p.roundEndHeight + Cardinality(DOMAIN q.params.validators)
           /\ q.validatorsUpdateNonce = p.validatorsUpdateNonce
<1> DEFINE s == p.snapshots[2]
           m == setValidatorsParams(p, s)
           t == <<s, p.snapshots[3], p.snapshots[3]>>
<1>1. /\ DOMAIN m = PoAStores /\ SameRegistrations(p, m) /\ ParamsOf(m.params, s)
      /\ m.roundEndHeight = p.roundEndHeight
      /\ m.validatorsUpdateNonce = p.validatorsUpdateNonce
  BY SetParams
<1>2. q = [m EXCEPT !.snapshots = t,
                    !.roundEndHeight = m.roundEndHeight + Cardinality(DOMAIN s.weights)]
  BY DEF roundEnded
<1> HIDE DEF m
<1>3. DOMAIN t = 1 .. 3 /\ t[1] = s /\ t[2] = p.snapshots[3] /\ t[3] = p.snapshots[3]
  OBVIOUS
<1> HIDE DEF s, t
<1>4. /\ DOMAIN q = PoAStores /\ SameRegistrations(m, q) /\ q.params = m.params
      /\ q.snapshots = t
      /\ q.roundEndHeight = m.roundEndHeight + Cardinality(DOMAIN s.weights)
      /\ q.validatorsUpdateNonce = m.validatorsUpdateNonce
  BY <1>1, <1>2 DEF PoAStores, SameRegistrations
<1>5. SameRegistrations(p, q)
  BY <1>1, <1>4 DEF SameRegistrations
<1>6. DOMAIN q.params.validators = DOMAIN s.weights
  BY <1>1, <1>4 DEF ParamsOf
<1> QED
  BY <1>1, <1>3, <1>4, <1>5, <1>6 DEF s

(* ------------------------- the inductive invariant --------------------- *)

UpdateType == [nonce : Nat, round : Nat, snapshot : Snapshots]

ObserverTypes ==
    /\ height \in Nat /\ (block # NoBlock => block.reward \in Nat)
    /\ round.number \in Nat /\ outcome \in {"none", "OK", "FAIL"}
    /\ included \in [Addresses -> Seq(Nat)] /\ accepted \in Seq(UpdateType)

\* s is the snapshot of the last of the updates that were made in round n or
\* before; these are a prefix of all updates.
DueAt(updates, n, s) ==
    \E k \in 0 .. Len(updates) :
        /\ {i \in DOMAIN updates : updates[i].round <= n} = 1 .. k
        /\ s = IF k = 0 THEN GenesisSnapshot ELSE updates[k].snapshot

\* The three snapshots are due for the round, the next one and the one after.
SnapshotsDue(p, updates, n) ==
    /\ DOMAIN p.snapshots = 1 .. 3
    /\ DueAt(updates, n - 2, p.snapshots[1])
    /\ DueAt(updates, n - 1, p.snapshots[2])
    /\ DueAt(updates, n, p.snapshots[3])

Rounds ==
    /\ SnapshotsDue(state.poa, accepted, round.number)
    /\ \A i \in DOMAIN accepted : accepted[i].round <= round.number
    /\ ParamsOf(state.poa.params, state.poa.snapshots[1])
    /\ state.poa.roundEndHeight = round.after + Cardinality(DOMAIN state.poa.params.validators)

IInv ==
    /\ ObserverTypes /\ StateOK(state) /\ Registered(state.poa)
    /\ NoncesExact /\ Rounds

(* -------------------------------- updates ------------------------------ *)

\* An update of a later round does not change what was due.
LEMMA DueBefore ==
    ASSUME NEW l \in Seq(UpdateType), NEW u \in UpdateType, NEW n \in Int, u.round > n,
           NEW s, DueAt(l, n, s)
    PROVE  DueAt(Append(l, u), n, s)
<1> DEFINE m == Append(l, u)
<1>1. PICK k \in 0 .. Len(l) :
          /\ {i \in DOMAIN l : l[i].round <= n} = 1 .. k
          /\ s = IF k = 0 THEN GenesisSnapshot ELSE l[k].snapshot
  BY DEF DueAt
<1>2. /\ Len(m) = Len(l) + 1 /\ DOMAIN m = 1 .. Len(m) /\ DOMAIN l = 1 .. Len(l)
      /\ m[Len(l) + 1] = u /\ \A i \in 1 .. Len(l) : m[i] = l[i]
  OBVIOUS
<1> HIDE DEF m
<1>3. {i \in DOMAIN m : m[i].round <= n} = {i \in DOMAIN l : l[i].round <= n}
  <2>1. Len(l) \in Nat /\ ~(u.round <= n)
    BY DEF UpdateType
  <2> QED
    BY <1>2, <2>1
<1>4. k # 0 => m[k] = l[k]
  BY <1>2
<1>5. k \in 0 .. Len(m)
  BY <1>2
<1> QED
  BY <1>1, <1>3, <1>4, <1>5 DEF DueAt, m

\* The update that is made is the last of its round.
LEMMA DueNow ==
    ASSUME NEW l \in Seq(UpdateType), NEW u \in UpdateType,
           \A i \in DOMAIN l : l[i].round <= u.round
    PROVE  DueAt(Append(l, u), u.round, u.snapshot)
<1> DEFINE m == Append(l, u)
           k == Len(l) + 1
<1>1. /\ Len(m) = k /\ DOMAIN m = 1 .. k /\ DOMAIN l = 1 .. Len(l) /\ Len(l) \in Nat
      /\ m[k] = u /\ \A i \in 1 .. Len(l) : m[i] = l[i]
  OBVIOUS
<1> HIDE DEF m
<1>2. \A i \in DOMAIN m : m[i].round <= u.round
  <2>1. u.round \in Nat
    BY DEF UpdateType
  <2> SUFFICES ASSUME NEW i \in 1 .. k
               PROVE  m[i].round <= u.round
    BY <1>1
  <2>2. CASE i = k
    BY <1>1, <2>1, <2>2
  <2>3. CASE i # k
    <3>1. i \in 1 .. Len(l)
      BY <1>1, <2>3
    <3> QED
      BY <1>1, <3>1
  <2> QED
    BY <2>2, <2>3
<1>3. {i \in DOMAIN m : m[i].round <= u.round} = 1 .. k /\ k \in 0 .. Len(m) /\ k # 0
  BY <1>1, <1>2
<1> QED
  BY <1>1, <1>3 DEF DueAt, m

\* What is due for a round is due for the next, as long as no update is made in it.
LEMMA DueAfter ==
    ASSUME NEW l \in Seq(UpdateType), NEW n \in Nat, \A i \in DOMAIN l : l[i].round <= n,
           NEW s, DueAt(l, n, s)
    PROVE  DueAt(l, n + 1, s)
<1>1. \A i \in DOMAIN l : l[i].round <= n /\ l[i].round <= n + 1
  <2>1. \A i \in DOMAIN l : l[i] \in UpdateType
    OBVIOUS
  <2>2. \A i \in DOMAIN l : l[i].round \in Nat
    BY <2>1 DEF UpdateType
  <2> QED
    BY <2>2
<1>2. {i \in DOMAIN l : l[i].round <= n + 1} = {i \in DOMAIN l : l[i].round <= n}
  BY <1>1
<1> QED
  BY <1>2 DEF DueAt

\* The update that is due is determined by the accepted ones.
LEMMA DueIsDueBy ==
    ASSUME accepted \in Seq(UpdateType), NEW n \in Int, NEW s, DueAt(accepted, n, s)
    PROVE  DueBy(n) = s
<1> DEFINE early == {i \in DOMAIN accepted : accepted[i].round <= n}
<1>1. PICK k \in 0 .. Len(accepted) :
          early = 1 .. k /\ s = IF k = 0 THEN GenesisSnapshot ELSE accepted[k].snapshot
  BY DEF DueAt
<1>2. DueBy(n) = IF early = {} THEN GenesisSnapshot ELSE accepted[Max(early)].snapshot
  BY DEF DueBy
<1> HIDE DEF early
<1>3. CASE k = 0
  BY <1>1, <1>2, <1>3
<1>4. CASE k # 0
  <2>1. k \in early /\ \A y \in early : k >= y
    BY <1>1, <1>4
  <2>2. \A x \in early : (\A y \in early : x >= y) => x = k
    BY <1>1, <2>1
  <2>3. Max(early) = k
    BY <2>1, <2>2 DEF Max
  <2> QED
    BY <1>1, <1>2, <1>4, <2>1, <2>3
<1> QED
  BY <1>3, <1>4

\* What is due is the genesis snapshot or one that a transaction asked for.
LEMMA DueIsSnapshot ==
    ASSUME NEW l \in Seq(UpdateType), NEW n, NEW s, DueAt(l, n, s)
    PROVE  s \in Snapshots
<1>1. PICK k \in 0 .. Len(l) : s = IF k = 0 THEN GenesisSnapshot ELSE l[k].snapshot
  BY DEF DueAt
<1>2. CASE k = 0
  BY <1>1, <1>2 DEF Snapshots
<1>3. CASE k # 0
  <2>1. l[k] \in UpdateType
    BY <1>1, <1>3
  <2> QED
    BY <1>1, <1>3, <2>1 DEF UpdateType
<1> QED
  BY <1>2, <1>3

\* Weights of snapshots are numbers.
LEMMA SnapshotsAreFunctions ==
    \A s \in Snapshots : s.weights \in [DOMAIN s.weights -> Nat]
<1>1. ASSUME NEW tx \in Transactions, tx.command = "updateAuthority"
      PROVE  tx.weights \in [DOMAIN tx.weights -> Nat]
  BY <1>1, TransactionsAssumption
<1> QED
  BY <1>1, GenesisAssumption DEF Snapshots

(* ------------------------- steps of the invariant ---------------------- *)

\* The state after the genesis block is in order.
LEMMA GenesisSound ==
    ASSUME NEW p, p = GenesisState(GenesisNames, BlsKeyOf, GeneratorKeyOf, GenesisSnapshot)
    PROVE  /\ DOMAIN p = PoAStores /\ Registered(p) /\ ParamsOf(p.params, GenesisSnapshot)
           /\ p.snapshots = <<GenesisSnapshot, GenesisSnapshot, GenesisSnapshot>>
           /\ p.roundEndHeight = Cardinality(DOMAIN p.params.validators)
           /\ p.validatorsUpdateNonce = 0
<1> DEFINE D == DOMAIN GenesisNames
           N == {GenesisNames[a] : a \in D}
           B == {BlsKeyOf[a] : a \in D}
           ownerOfName == [n \in N |-> CHOOSE a \in D : GenesisNames[a] = n]
           ownerOfKey  == [k \in B |-> CHOOSE a \in D : BlsKeyOf[a] = k]
           keys == [a \in D |-> [generatorKey |-> GeneratorKeyOf[a], blsKey |-> BlsKeyOf[a]]]
           q == [keys |-> keys, blsKeys |-> ownerOfKey,
                 params |-> [threshold |-> 0, validators |-> << >>],
                 validators |-> GenesisNames, names |-> ownerOfName,
                 snapshots |-> <<GenesisSnapshot, GenesisSnapshot, GenesisSnapshot>>,
                 roundEndHeight |-> Cardinality(DOMAIN GenesisSnapshot.weights),
                 validatorsUpdateNonce |-> 0, reveals |-> <<>>]
<1>1. p = setValidatorsParams(q, GenesisSnapshot)
  BY DEF GenesisState
<1>2. /\ \A a \in D : GenesisNames[a] \in N /\ ownerOfName[GenesisNames[a]] = a
      /\ \A n \in N : ownerOfName[n] \in D /\ GenesisNames[ownerOfName[n]] = n
  BY GenesisAssumption
<1>3. /\ \A a \in D : BlsKeyOf[a] \in B /\ ownerOfKey[BlsKeyOf[a]] = a
      /\ \A k \in B : ownerOfKey[k] \in D /\ BlsKeyOf[ownerOfKey[k]] = k
  BY GenesisAssumption
<1>4. /\ DOMAIN keys = D /\ DOMAIN ownerOfName = N /\ DOMAIN ownerOfKey = B
      /\ \A a \in D : DOMAIN keys[a] = {"generatorKey", "blsKey"} /\ keys[a].blsKey = BlsKeyOf[a]
  OBVIOUS
<1> HIDE DEF N, B, ownerOfName, ownerOfKey, keys
<1>5. /\ DOMAIN q = PoAStores /\ q.keys = keys /\ q.blsKeys = ownerOfKey
      /\ q.validators = GenesisNames /\ q.names = ownerOfName
      /\ q.snapshots = <<GenesisSnapshot, GenesisSnapshot, GenesisSnapshot>>
      /\ q.roundEndHeight = Cardinality(DOMAIN GenesisSnapshot.weights)
      /\ q.validatorsUpdateNonce = 0
  BY DEF PoAStores
<1> HIDE DEF q
<1>6. Registered(q)
  BY <1>2, <1>3, <1>4, <1>5, SMTT(60) DEF Registered
<1>7. /\ DOMAIN p = PoAStores /\ SameRegistrations(q, p) /\ ParamsOf(p.params, GenesisSnapshot)
      /\ p.snapshots = q.snapshots /\ p.roundEndHeight = q.roundEndHeight
      /\ p.validatorsUpdateNonce = q.validatorsUpdateNonce
  BY <1>1, <1>5, SetParams
<1>8. Registered(p)
  BY <1>6, <1>7, SameIsRegistered
<1> QED
  BY <1>5, <1>7, <1>8 DEF ParamsOf

\* The invariant holds after the genesis block.
LEMMA InitInv ==
    ASSUME Init
    PROVE  IInv
<1> DEFINE users == [k \in {<<a, KLY>> : a \in DOMAIN GenesisBalances} |->
                       [DefaultAccount EXCEPT !.available = GenesisBalances[k[1]]]]
           auth == [a \in Addresses |-> [nonce |-> 0, keys |-> SingleSignature]]
           p == GenesisState(GenesisNames, BlsKeyOf, GeneratorKeyOf, GenesisSnapshot)
           l == [own |-> Mainchain, users |-> users, supply |-> [t \in {KLY} |-> GenesisSupply],
                 escrow |-> NoKeys, allTokens |-> FALSE, supported |-> NoKeys]
<1>1. state = [auth |-> auth, ledger |-> l, poa |-> p]
  BY DEF Init
<1>2. users \in [DOMAIN users -> AccountType]
  <2>1. ASSUME NEW k \in {<<a, KLY>> : a \in DOMAIN GenesisBalances}
        PROVE  [DefaultAccount EXCEPT !.available = GenesisBalances[k[1]]] \in AccountType
    <3>1. GenesisBalances[k[1]] \in Nat
      BY GenesisAssumption
    <3>2. DefaultAccount \in AccountType
      BY DEF DefaultAccount, AccountType
    <3> QED
      BY <3>1, <3>2 DEF AccountType
  <2> QED
    BY <2>1
<1> HIDE DEF users
<1>3. LedgerOK(l)
  BY <1>2 DEF LedgerOK, LedgerStores
<1>4. AuthOK(auth) /\ \A a \in Addresses : auth[a].nonce = 0
  BY DEF AuthOK
<1>5. /\ DOMAIN p = PoAStores /\ Registered(p) /\ ParamsOf(p.params, GenesisSnapshot)
      /\ p.snapshots = <<GenesisSnapshot, GenesisSnapshot, GenesisSnapshot>>
      /\ p.roundEndHeight = Cardinality(DOMAIN p.params.validators)
      /\ p.validatorsUpdateNonce = 0
  BY GenesisSound
<1> HIDE DEF l, auth, p
<1>6. /\ DOMAIN state = StateStores /\ state.auth = auth /\ state.ledger = l /\ state.poa = p
  BY <1>1 DEF StateStores
<1>7. StateOK(state)
  BY <1>3, <1>4, <1>5, <1>6 DEF StateOK
<1>8. ObserverTypes
  BY DEF Init, ObserverTypes
<1>9. NoncesExact
  BY <1>4, <1>5, <1>6 DEF Init, NoncesExact
<1>10. Rounds
  <2>1. \A n \in Int : DueAt(accepted, n, GenesisSnapshot)
    <3>1. accepted = <<>>
      BY DEF Init
    <3>2. \A n \in Int : {i \in DOMAIN accepted : accepted[i].round <= n} = 1 .. 0
      BY <3>1
    <3>3. 0 \in 0 .. Len(accepted)
      BY <3>1
    <3> QED
      BY <3>2, <3>3 DEF DueAt
  <2>2. /\ DOMAIN p.snapshots = 1 .. 3 /\ p.snapshots[1] = GenesisSnapshot
        /\ p.snapshots[2] = GenesisSnapshot /\ p.snapshots[3] = GenesisSnapshot
    BY <1>5
  <2>3. round.number = 1 /\ round.after = 0 /\ accepted = <<>>
    BY DEF Init
  <2>4. SnapshotsDue(state.poa, accepted, round.number)
    BY <1>6, <2>1, <2>2, <2>3 DEF SnapshotsDue
  <2>5. Cardinality(DOMAIN p.params.validators) = 0 + Cardinality(DOMAIN p.params.validators)
    <3>1. DOMAIN p.params.validators = DOMAIN GenesisSnapshot.weights
      BY <1>5 DEF ParamsOf
    <3> QED
      BY <3>1, GenesisAssumption, FS_CardinalityType
  <2> QED
    BY <1>5, <1>6, <2>2, <2>3, <2>4, <2>5 DEF Rounds
<1> QED
  BY <1>5, <1>6, <1>7, <1>8, <1>9, <1>10 DEF IInv

\* Integer division stays in the naturals.
LEMMA Quotient == \A a \in Nat, b \in Nat \ {0} : a \div b \in Nat
  BY Z3

\* The reward of a block is a number.
LEMMA RewardType ==
    ASSUME NEW h \in Nat, NEW s, NEW header
    PROVE  getBlockReward(s, h, header) \in Nat
<1>0. /\ Offset \in Nat /\ Distance \in Nat \ {0} /\ RewardReductionFactorBFT \in Nat \ {0}
      /\ Brackets \in Seq(Nat) /\ Brackets # <<>>
  BY ApplicationAssumption
<1> DEFINE default  == calculateDefaultReward(h)
           location == (h - Offset) \div Distance
           i        == 1 + (IF location > Len(Brackets) - 1 THEN Len(Brackets) - 1 ELSE location)
<1>1. default \in Nat
  <2>1. CASE h < Offset
    BY <2>1 DEF calculateDefaultReward
  <2>2. CASE ~(h < Offset)
    <3>1. h - Offset \in Nat
      BY <1>0, <2>2
    <3>2. location \in Nat
      BY <1>0, <3>1, Quotient
    <3>3. default = Brackets[i]
      BY <2>2 DEF calculateDefaultReward
    <3> HIDE DEF location, default
    <3>4. i \in 1 .. Len(Brackets)
      BY <1>0, <3>2
    <3> HIDE DEF i
    <3> QED
      BY <1>0, <3>3, <3>4
  <2> QED
    BY <2>1, <2>2
<1>2. getBlockReward(s, h, header) \in {0, default \div RewardReductionFactorBFT, default}
  BY DEF getBlockReward
<1> HIDE DEF default
<1>3. default \div RewardReductionFactorBFT \in Nat
  BY <1>0, <1>1, Quotient
<1> QED
  BY <1>1, <1>2, <1>3

\* A block begins: the random module stores the revealed seed.
LEMMA BeginBlockStep ==
    ASSUME IInv, NEW g, BeginBlock(g)
    PROVE  IInv'
<1>1. block'.reward \in Nat
  <2>1. PICK seed, implies, header :
            block' = [generator |-> g, seed |-> seed, impliesMaxPrevotes |-> implies,
                      reward |-> getBlockReward(state, height + 1, header)]
    BY DEF BeginBlock
  <2>2. height + 1 \in Nat
    BY DEF IInv, ObserverTypes
  <2> QED
    BY <2>1, <2>2, RewardType
<1>2. UNCHANGED <<state, height, outcome, included, accepted, round>>
  BY DEF BeginBlock
<1>3. ObserverTypes'
  BY <1>1, <1>2 DEF IInv, ObserverTypes
<1>4. NoncesExact' /\ Rounds'
  BY <1>2 DEF IInv, NoncesExact, Rounds
<1> QED
  BY <1>2, <1>3, <1>4 DEF IInv

\* What a transaction that is not an update changes in PoA's stores.
LEMMA NoUpdateStep ==
    ASSUME IInv, NEW tx, NEW q, q \in {state.poa} \/ Registers(state.poa, q, tx) \/ ChangesKey(state.poa, q, tx),
           state'.poa = q, accepted' = accepted, round' = round
    PROVE  /\ Registered(state'.poa) /\ Rounds'
           /\ state'.poa.validatorsUpdateNonce = state.poa.validatorsUpdateNonce
<1> DEFINE p == state.poa
<1>0. DOMAIN p = PoAStores /\ Registered(p)
  BY DEF IInv, StateOK
<1>1. Registered(q) /\ SameRounds(p, q)
  <2>1. CASE q = p
    BY <1>0, <2>1 DEF SameRounds
  <2>2. CASE Registers(p, q, tx)
    BY <1>0, <2>2, RegistersKeeps
  <2>3. CASE ChangesKey(p, q, tx)
    BY <1>0, <2>3, ChangesKeyKeeps
  <2> QED
    BY <2>1, <2>2, <2>3
<1>2. SnapshotsDue(q, accepted, round.number)
  BY <1>1 DEF IInv, Rounds, SnapshotsDue, SameRounds
<1> QED
  BY <1>1, <1>2 DEF IInv, Rounds, SameRounds

\* What an update changes.
LEMMA UpdateStep ==
    ASSUME IInv, NEW tx \in Transactions, Updates(state.poa, state'.poa, tx), round' = round,
           NEW u, u = [nonce |-> tx.updateNonce, round |-> round.number,
                       snapshot |-> [weights |-> tx.weights, threshold |-> tx.threshold]],
           accepted' = Append(accepted, u)
    PROVE  /\ Registered(state'.poa) /\ Rounds' /\ accepted' \in Seq(UpdateType)
           /\ state'.poa.validatorsUpdateNonce = Len(accepted')
           /\ \A i \in DOMAIN accepted' : accepted'[i].nonce = i - 1
<1> DEFINE p == state.poa
           q == state'.poa
           n == round.number
<1>0. /\ DOMAIN p = PoAStores /\ Registered(p) /\ DOMAIN p.snapshots = 1 .. 3
      /\ n \in Nat /\ accepted \in Seq(UpdateType) /\ p.validatorsUpdateNonce = Len(accepted)
  BY DEF IInv, StateOK, ObserverTypes, NoncesExact, Rounds, SnapshotsDue
<1>1. /\ Registered(q) /\ q.params = p.params /\ q.roundEndHeight = p.roundEndHeight
      /\ q.validatorsUpdateNonce = p.validatorsUpdateNonce + 1
      /\ DOMAIN q.snapshots = 1 .. 3
      /\ q.snapshots[1] = p.snapshots[1] /\ q.snapshots[2] = p.snapshots[2]
      /\ q.snapshots[3] = [weights |-> tx.weights, threshold |-> tx.threshold]
  BY <1>0, UpdatesKeeps, SMTT(60)
<1>2. /\ u.nonce = Len(accepted) /\ u.round = n /\ u.snapshot = q.snapshots[3]
      /\ u \in UpdateType
  <2>1. tx.command = "updateAuthority" /\ tx.updateNonce = Len(accepted)
    BY <1>0 DEF Updates
  <2>2. [weights |-> tx.weights, threshold |-> tx.threshold] \in Snapshots
    BY <2>1 DEF Snapshots
  <2>3. Len(accepted) \in Nat
    BY <1>0
  <2>4. u \in UpdateType
    BY <1>0, <2>1, <2>2, <2>3 DEF UpdateType
  <2> QED
    BY <1>1, <2>1, <2>4
<1>3. SnapshotsDue(q, accepted', n)
  <2>1. /\ DueAt(accepted, n - 2, p.snapshots[1]) /\ DueAt(accepted, n - 1, p.snapshots[2])
        /\ \A i \in DOMAIN accepted : accepted[i].round <= n
    BY DEF IInv, Rounds, SnapshotsDue
  <2>2. n - 2 \in Int /\ n - 1 \in Int /\ n > n - 2 /\ n > n - 1
    BY <1>0
  <2>3. DueAt(accepted', n - 2, q.snapshots[1])
    BY <1>0, <1>1, <1>2, <2>1, <2>2, DueBefore
  <2>4. DueAt(accepted', n - 1, q.snapshots[2])
    BY <1>0, <1>1, <1>2, <2>1, <2>2, DueBefore
  <2>5. DueAt(accepted', n, q.snapshots[3])
    BY <1>0, <1>2, <2>1, DueNow
  <2> QED
    BY <1>1, <2>3, <2>4, <2>5 DEF SnapshotsDue
<1> HIDE DEF q
<1>4. /\ accepted' \in Seq(UpdateType) /\ Len(accepted') = Len(accepted) + 1
      /\ DOMAIN accepted' = 1 .. Len(accepted) + 1 /\ DOMAIN accepted = 1 .. Len(accepted)
      /\ accepted'[Len(accepted) + 1] = u
      /\ \A i \in 1 .. Len(accepted) : accepted'[i] = accepted[i]
      /\ Len(accepted) \in Nat
  BY <1>0, <1>2
<1>5. \A i \in DOMAIN accepted' : accepted'[i].nonce = i - 1 /\ accepted'[i].round <= n
  <2> SUFFICES ASSUME NEW i \in 1 .. Len(accepted) + 1
               PROVE  accepted'[i].nonce = i - 1 /\ accepted'[i].round <= n
    BY <1>4
  <2>1. CASE i = Len(accepted) + 1
    BY <1>0, <1>2, <1>4, <2>1
  <2>2. CASE i # Len(accepted) + 1
    <3>1. i \in 1 .. Len(accepted)
      BY <1>4, <2>2
    <3>2. accepted[i].nonce = i - 1 /\ accepted[i].round <= n
      BY <1>4, <3>1 DEF IInv, NoncesExact, Rounds
    <3> QED
      BY <1>4, <3>1, <3>2
  <2> QED
    BY <2>1, <2>2
<1>6. Rounds'
  <2>1. ParamsOf(q.params, q.snapshots[1])
    BY <1>1 DEF IInv, Rounds
  <2> QED
    BY <1>1, <1>3, <1>5, <2>1 DEF IInv, Rounds, q
<1> QED
  BY <1>0, <1>1, <1>4, <1>5, <1>6 DEF q

\* A transaction is executed, fails or is refused.
LEMMA ExecuteStep ==
    ASSUME IInv, NEW tx \in Transactions, ExecuteTransaction(tx)
    PROVE  IInv'
<1> DEFINE a == tx.sender
           r == executeTransaction(state, height + 1, block.generator, tx)
           u == [nonce |-> tx.updateNonce, round |-> round.number,
                 snapshot |-> [weights |-> tx.weights, threshold |-> tx.threshold]]
<1>1. /\ verifyTransaction(state, height + 1, tx)
      /\ outcome' = r.status /\ state' = r.s
      /\ included' = IF r.status = "INVALID" THEN included
                     ELSE [included EXCEPT ![a] = Append(@, tx.nonce)]
      /\ accepted' = IF Announces(r.events) THEN Append(accepted, u) ELSE accepted
      /\ UNCHANGED <<height, block, round>>
  BY DEF ExecuteTransaction, Announces
<1>2. StateOK(state) /\ height + 1 \in Nat /\ a \in Addresses
  BY TransactionsAssumption DEF IInv, ObserverTypes
<1>3. /\ r.status \in {"OK", "FAIL"} /\ StateOK(r.s)
      /\ NextNonce(state.auth, r.s.auth, a)
      /\ StoresChange(state.poa, r.s.poa, tx, r.events)
  BY <1>1, <1>2, Executed
<1> HIDE DEF r
<1>4. included' = [included EXCEPT ![a] = Append(@, tx.nonce)]
  BY <1>1, <1>3
<1>5. /\ included' \in [Addresses -> Seq(Nat)]
      /\ \A b \in Addresses :
             /\ state'.auth[b].nonce = Len(included'[b])
             /\ \A i \in DOMAIN included'[b] : included'[b][i] = i - 1
  <2>1. included \in [Addresses -> Seq(Nat)]
    BY DEF IInv, ObserverTypes
  <2>2. included[a] \in Seq(Nat) /\ tx.nonce = Len(included[a])
    BY <1>1, <1>2, <2>1 DEF IInv, NoncesExact, verifyTransaction
  <2>3. /\ Append(included[a], tx.nonce) \in Seq(Nat)
        /\ Len(Append(included[a], tx.nonce)) = Len(included[a]) + 1
    BY <2>2
  <2>4. included' \in [Addresses -> Seq(Nat)]
    BY <1>4, <2>1, <2>3
  <2>5. state'.auth[a].nonce = Len(included'[a])
    BY <1>1, <1>2, <1>3, <1>4, <2>1, <2>3 DEF IInv, NoncesExact, NextNonce
  <2>6. \A i \in DOMAIN included'[a] : included'[a][i] = i - 1
    <3> DEFINE l == included[a]
               m == Append(l, tx.nonce)
    <3>1. included'[a] = m
      BY <1>2, <1>4, <2>1
    <3>2. \A i \in DOMAIN l : l[i] = i - 1
      BY <1>2 DEF IInv, NoncesExact
    <3>3. l \in Seq(Nat) /\ tx.nonce = Len(l)
      BY <2>2
    <3> HIDE DEF l
    <3>4. \A i \in DOMAIN m : m[i] = i - 1
      BY <3>2, <3>3
    <3> HIDE DEF m
    <3> QED
      BY <3>1, <3>4
  <2>7. ASSUME NEW b \in Addresses, b # a
        PROVE  /\ state'.auth[b].nonce = Len(included'[b])
               /\ \A i \in DOMAIN included'[b] : included'[b][i] = i - 1
    <3>1. included'[b] = included[b]
      BY <1>4, <2>1, <2>7
    <3>2. state'.auth[b].nonce = state.auth[b].nonce
      BY <1>1, <1>3, <2>7 DEF NextNonce
    <3> QED
      BY <3>1, <3>2 DEF IInv, NoncesExact
  <2> QED
    BY <2>4, <2>5, <2>6, <2>7
<1>6. /\ Registered(state'.poa) /\ Rounds' /\ accepted' \in Seq(UpdateType)
      /\ state'.poa.validatorsUpdateNonce = Len(accepted')
      /\ \A i \in DOMAIN accepted' : accepted'[i].nonce = i - 1
  <2>1. CASE ~Announces(r.events)
    <3>1. accepted' = accepted /\ round' = round /\ state'.poa = r.s.poa
      BY <1>1, <2>1
    <3>2. \/ r.s.poa \in {state.poa} \/ Registers(state.poa, r.s.poa, tx)
          \/ ChangesKey(state.poa, r.s.poa, tx)
      BY <1>3, <2>1 DEF StoresChange
    <3>3. /\ Registered(state'.poa) /\ Rounds'
          /\ state'.poa.validatorsUpdateNonce = state.poa.validatorsUpdateNonce
      BY <3>1, <3>2, NoUpdateStep
    <3> QED
      BY <3>1, <3>3 DEF IInv, ObserverTypes, NoncesExact
  <2>2. CASE Announces(r.events)
    <3>1. accepted' = Append(accepted, u) /\ round' = round
      BY <1>1, <2>2
    <3>2. Updates(state.poa, state'.poa, tx)
      BY <1>1, <1>3, <2>2 DEF StoresChange
    <3> QED
      BY <3>1, <3>2, UpdateStep
  <2> QED
    BY <2>1, <2>2
<1>7. ObserverTypes'
  BY <1>1, <1>3, <1>5, <1>6 DEF IInv, ObserverTypes
<1>8. NoncesExact'
  BY <1>5, <1>6 DEF NoncesExact
<1>9. StateOK(state')
  BY <1>1, <1>3
<1> QED
  BY <1>6, <1>7, <1>8, <1>9 DEF IInv

\* The hooks at the end of a block leave registrations and nonces alone.
LEMMA EndBlockStep ==
    ASSUME IInv, EndBlock
    PROVE  IInv'
<1> DEFINE p      == state.poa
           ended  == IF RoundEnds THEN roundEnded(p) ELSE p
           minted == IF userSubstoreExists(state.ledger, block.generator, KLY)
                     THEN block.reward ELSE 0
           q      == addReveal(ended, block.generator, height + 1, block.seed)
           l      == mint(state.ledger, block.generator, KLY, minted)
           n      == round.number
<1>1. /\ state' = [state EXCEPT !.poa = q, !.ledger = l]
      /\ round' = IF RoundEnds THEN [number |-> n + 1, after |-> height + 1] ELSE round
      /\ height' = height + 1 /\ block' = NoBlock
      /\ UNCHANGED <<outcome, included, accepted>>
  BY DEF EndBlock
<1>2. /\ StateOK(state) /\ DOMAIN p = PoAStores /\ Registered(p) /\ DOMAIN p.snapshots = 1 .. 3
      /\ n \in Nat /\ height \in Nat /\ accepted \in Seq(UpdateType)
  BY DEF IInv, StateOK, ObserverTypes, Rounds, SnapshotsDue
<1>3. LedgerOK(l)
  <2>1. minted \in Int
    BY DEF EndBlock, IInv, ObserverTypes
  <2>2. LedgerOK(state.ledger)
    BY <1>2 DEF StateOK
  <2> HIDE DEF minted
  <2> QED
    BY <2>1, <2>2, MintKeeps
<1>4. /\ DOMAIN ended = PoAStores /\ SameRegistrations(p, ended)
      /\ ended.validatorsUpdateNonce = p.validatorsUpdateNonce
  <2>1. SameRegistrations(p, p)
    BY DEF SameRegistrations
  <2> QED
    BY <1>2, <2>1, RoundEndedKeeps
<1> HIDE DEF ended, l, minted
<1>5. DOMAIN q = PoAStores /\ SameRegistrations(ended, q) /\ SameRounds(ended, q)
  BY <1>4, AddRevealKeeps
<1>6. Registered(q)
  BY <1>2, <1>4, <1>5, SameIsRegistered
<1> HIDE DEF q
<1>7. /\ DOMAIN state' = StateStores /\ state'.poa = q /\ state'.ledger = l
      /\ state'.auth = state.auth
  BY <1>1, <1>2 DEF StateOK, StateStores
<1>8. StateOK(state')
  BY <1>2, <1>3, <1>5, <1>7 DEF StateOK
<1>9. ObserverTypes'
  <2>1. round'.number \in Nat
    BY <1>1, <1>2
  <2> QED
    BY <1>1, <1>2, <2>1 DEF IInv, ObserverTypes
<1>10. NoncesExact'
  BY <1>1, <1>4, <1>5, <1>7 DEF IInv, NoncesExact, SameRounds
<1>11. Rounds'
  <2>0. q.snapshots = ended.snapshots /\ q.params = ended.params
        /\ q.roundEndHeight = ended.roundEndHeight
    BY <1>5 DEF SameRounds
  <2>1. CASE ~RoundEnds
    <3>1. ended = p /\ round' = round
      BY <1>1, <2>1 DEF ended
    <3>2. SnapshotsDue(q, accepted, n)
      BY <2>0, <3>1 DEF IInv, Rounds, SnapshotsDue
    <3> QED
      BY <1>1, <1>7, <2>0, <3>1, <3>2 DEF IInv, Rounds
  <2>2. CASE RoundEnds
    <3>1. ended = roundEnded(p) /\ round'.number = n + 1 /\ round'.after = height + 1
      BY <1>1, <2>2 DEF ended
    <3>2. /\ ParamsOf(ended.params, p.snapshots[2]) /\ DOMAIN ended.snapshots = 1 .. 3
          /\ ended.snapshots[1] = p.snapshots[2] /\ ended.snapshots[2] = p.snapshots[3]
          /\ ended.snapshots[3] = p.snapshots[3]
          /\ ended.roundEndHeight = p.roundEndHeight + Cardinality(DOMAIN ended.params.validators)
      BY <1>2, <3>1, RoundEndedKeeps
    <3>3. /\ DueAt(accepted, n - 1, p.snapshots[2]) /\ DueAt(accepted, n, p.snapshots[3])
          /\ \A i \in DOMAIN accepted : accepted[i].round <= n
      BY DEF IInv, Rounds, SnapshotsDue
    <3>4. DueAt(accepted, n + 1, p.snapshots[3])
      BY <1>2, <3>3, DueAfter
    <3>5. SnapshotsDue(q, accepted, n + 1)
      <4>1. (n + 1) - 2 = n - 1 /\ (n + 1) - 1 = n
        BY <1>2
      <4> QED
        BY <2>0, <3>2, <3>3, <3>4, <4>1 DEF SnapshotsDue
    <3>6. \A i \in DOMAIN accepted : accepted[i].round <= n + 1
      <4>1. \A i \in DOMAIN accepted : accepted[i] \in UpdateType
        BY <1>2
      <4>2. \A i \in DOMAIN accepted : accepted[i].round \in Nat
        BY <4>1 DEF UpdateType
      <4> QED
        BY <1>2, <3>3, <4>2
    <3>7. q.roundEndHeight = height + 1 + Cardinality(DOMAIN q.params.validators)
      BY <2>0, <2>2, <3>2 DEF RoundEnds
    <3> QED
      BY <1>1, <1>7, <2>0, <3>1, <3>2, <3>5, <3>6, <3>7 DEF Rounds
  <2> QED
    BY <2>1, <2>2
<1> QED
  BY <1>6, <1>7, <1>8, <1>9, <1>10, <1>11 DEF IInv

(* ------------------------------- theorems ------------------------------ *)

\* The invariant holds in every state that the hooks, the commands and the state
\* machine reach.
THEOREM Invariance == Spec => []IInv
<1>1. Init => IInv
  BY InitInv
<1>2. IInv /\ [Next]_vars => IInv'
  <2> SUFFICES ASSUME IInv, [Next]_vars
               PROVE  IInv'
    OBVIOUS
  <2>1. ASSUME NEW g \in DOMAIN state.poa.params.validators, BeginBlock(g)
        PROVE  IInv'
    BY <2>1, BeginBlockStep
  <2>2. ASSUME NEW tx \in Transactions, ExecuteTransaction(tx)
        PROVE  IInv'
    BY <2>2, ExecuteStep
  <2>3. CASE EndBlock
    BY <2>3, EndBlockStep
  <2>4. CASE UNCHANGED vars
    BY <2>4 DEF vars, IInv, ObserverTypes, NoncesExact, Rounds
  <2> QED
    BY <2>1, <2>2, <2>3, <2>4 DEF Next, Finished
<1> QED
  BY <1>1, <1>2, PTL DEF Spec

\* Every account's nonce counts its transactions in the chain, failed ones
\* included, and every announced authority update is counted once, in order.
THEOREM NoncesAreExact == Spec => []NoncesExact
<1>1. IInv => NoncesExact
  BY DEF IInv
<1> QED
  BY <1>1, Invariance, PTL

\* What verifyTransaction accepts is never INVALID: neither of the fee module's
\* hooks can throw, whatever the command does to the sender's balance.
THEOREM VerifiedIsExecutable == Spec => []VerifiedNeverInvalid
<1>1. IInv => VerifiedNeverInvalid
  BY DEF IInv, ObserverTypes, VerifiedNeverInvalid
<1> QED
  BY <1>1, Invariance, PTL

\* PoA's validators and names and the validators module's keys always agree, also
\* after registrations that threw halfway.
THEOREM RegistrationsAgree == Spec => []RegistrationAtomic
<1>1. IInv => RegistrationAtomic
  BY DEF IInv, Registered, RegistrationAtomic
<1> QED
  BY <1>1, Invariance, PTL

\* The validators of a round are those of the last update made at least two rounds
\* before, for every schedule of updates and every number of validators.
THEOREM UpdatesAreDelayed == Spec => []AuthorityDelayed
<1>1. IInv => AuthorityDelayed
  <2> SUFFICES ASSUME IInv
               PROVE  AuthorityDelayed
    OBVIOUS
  <2> DEFINE due    == DueBy(round.number - 2)
             params == state.poa.params
  <2>1. accepted \in Seq(UpdateType) /\ round.number - 2 \in Int
    BY DEF IInv, ObserverTypes
  <2>2. DueAt(accepted, round.number - 2, state.poa.snapshots[1])
    BY DEF IInv, Rounds, SnapshotsDue
  <2>3. due = state.poa.snapshots[1] /\ ParamsOf(params, due)
    BY <2>1, <2>2, DueIsDueBy DEF IInv, Rounds
  <2>4. due \in Snapshots
    BY <2>1, <2>2, <2>3, DueIsSnapshot
  <2>5. due.weights \in [DOMAIN due.weights -> Nat]
    BY <2>4, SnapshotsAreFunctions
  <2>6. state.poa.roundEndHeight = round.after + Cardinality(DOMAIN params.validators)
    BY DEF IInv, Rounds
  <2>7. [a \in DOMAIN params.validators |-> params.validators[a].weight] = due.weights
    <3> HIDE DEF due, params
    <3> QED
      BY <2>3, <2>5 DEF ParamsOf
  <2>8. params.threshold = due.threshold
    BY <2>3 DEF ParamsOf
  <2> QED
    BY <2>3, <2>6, <2>7, <2>8 DEF AuthorityDelayed
<1> QED
  BY <1>1, Invariance, PTL

(* ------------------------------- solvency ------------------------------ *)

\* The accounts hold the supply, and the events explain it.
Accounts ==
    /\ Books(state.ledger) /\ Unlocked(state.ledger) /\ supplyEvents \in Int
    /\ state.ledger.supply[KLY] = GenesisSupply + supplyEvents
    /\ Holdings(state.ledger) = state.ledger.supply[KLY]

IncludedTotal == SumFunction([a \in Addresses |-> Len(included[a])])

IsSequence(s) == s \in Seq(Range(s))

\* What the bounds of the model limit, and the reveals that the random module keeps.
Bounded ==
    /\ height <= MaxHeight /\ (block # NoBlock => height < MaxHeight)
    /\ round.number >= 1 /\ round.number <= height + 1
    /\ odd \in 0 .. MaxOdd
    /\ IncludedTotal <= MaxIncluded
    /\ IsSequence(state.poa.reveals) /\ Len(state.poa.reveals) <= MaxLengthReveals

\* A sequence over any set is one over its elements.
LEMMA SequenceOf ==
    ASSUME NEW S, NEW s \in Seq(S)
    PROVE  IsSequence(s)
<1>1. Len(s) \in Nat /\ DOMAIN s = 1 .. Len(s) /\ s = [i \in 1 .. Len(s) |-> s[i]]
  OBVIOUS
<1>2. \A i \in 1 .. Len(s) : s[i] \in Range(s)
  BY <1>1 DEF Range
<1>3. [i \in 1 .. Len(s) |-> s[i]] \in Seq(Range(s))
  BY <1>1, <1>2
<1> QED
  BY <1>1, <1>3 DEF IsSequence

\* The random module forgets the oldest reveal when the store is full.
LEMMA AddRevealBounded ==
    ASSUME NEW p, DOMAIN p = PoAStores, IsSequence(p.reveals), Len(p.reveals) <= MaxLengthReveals,
           NEW g, NEW h, NEW seed, NEW q, q = addReveal(p, g, h, seed)
    PROVE  IsSequence(q.reveals) /\ Len(q.reveals) <= MaxLengthReveals
<1> DEFINE s == p.reveals
           t == IF Len(s) = MaxLengthReveals THEN Tail(s) ELSE s
           e == [generator |-> g, height |-> h, seed |-> seed,
                 valid |-> isSeedValidInput(s, g, seed, TRUE)]
           S == Range(s) \cup {e}
<1>1. q.reveals = Append(t, e)
  BY DEF addReveal, PoAStores
<1> HIDE DEF e
<1>2. MaxLengthReveals \in Nat \ {0}
  BY PoAAssumption
<1>3. s \in Seq(Range(s)) /\ Len(s) <= MaxLengthReveals
  BY DEF IsSequence
<1>4. s \in Seq(S) /\ e \in S
  <2> HIDE DEF s
  <2> QED
    BY <1>3
<1> HIDE DEF s, S
<1>5. t \in Seq(S) /\ Len(t) < MaxLengthReveals
  <2>1. CASE Len(s) = MaxLengthReveals
    <3>1. s # <<>>
      BY <1>2, <1>4, <2>1
    <3>2. Tail(s) \in Seq(S) /\ Len(Tail(s)) = Len(s) - 1
      BY <1>4, <3>1
    <3> QED
      BY <1>2, <2>1, <3>2
  <2>2. CASE Len(s) # MaxLengthReveals
    <3>1. Len(s) \in Nat
      BY <1>4
    <3> QED
      BY <1>2, <1>3, <1>4, <2>2, <3>1
  <2> QED
    BY <2>1, <2>2
<1> HIDE DEF t
<1>6. Append(t, e) \in Seq(S) /\ Len(Append(t, e)) = Len(t) + 1 /\ Len(t) \in Nat
  BY <1>4, <1>5
<1>7. IsSequence(Append(t, e))
  BY <1>6, SequenceOf
<1> QED
  BY <1>1, <1>2, <1>5, <1>6, <1>7

\* Neither a command nor the end of a round reveals a seed.
LEMMA RevealsKept ==
    ASSUME NEW p, DOMAIN p = PoAStores, NEW q
    PROVE  /\ \A tx, events : StoresChange(p, q, tx, events) => q.reveals = p.reveals
           /\ q = roundEnded(p) => q.reveals = p.reveals
<1>1. ASSUME NEW tx, NEW events, StoresChange(p, q, tx, events)
      PROVE  q.reveals = p.reveals
  <2>1. CASE q = p
    BY <2>1
  <2>2. CASE Registers(p, q, tx)
    <3> DEFINE m == registerAuthority(p, tx.sender, tx.name)
    <3>1. DOMAIN m = PoAStores /\ m.reveals = p.reveals
      BY DEF registerAuthority, PoAStores
    <3>2. q = registerValidatorKeys(m, tx.sender, tx.blsKey, tx.generatorKey)
      BY <2>2 DEF Registers
    <3> HIDE DEF m
    <3> QED
      BY <3>1, <3>2 DEF registerValidatorKeys, PoAStores
  <2>3. CASE ChangesKey(p, q, tx)
    BY <2>3 DEF ChangesKey, setValidatorGeneratorKey, PoAStores
  <2>4. CASE Updates(p, q, tx)
    BY <2>4 DEF Updates, updateAuthority, PoAStores
  <2> QED
    BY <1>1, <2>1, <2>2, <2>3, <2>4 DEF StoresChange
<1>2. ASSUME q = roundEnded(p)
      PROVE  q.reveals = p.reveals
  <2> DEFINE m == setValidatorsParams(p, p.snapshots[2])
             t == <<p.snapshots[2], p.snapshots[3], p.snapshots[3]>>
  <2>1. DOMAIN m = PoAStores /\ m.reveals = p.reveals
    BY DEF setValidatorsParams, PoAStores
  <2>2. q = [m EXCEPT !.snapshots = t,
                      !.roundEndHeight =
                          m.roundEndHeight + Cardinality(DOMAIN p.snapshots[2].weights)]
    BY <1>2 DEF roundEnded
  <2> HIDE DEF m, t
  <2> QED
    BY <2>1, <2>2 DEF PoAStores
<1> QED
  BY <1>1, <1>2

\* The genesis block's accounts hold the supply that it sets.
LEMMA GenesisAccounts ==
    ASSUME Init
    PROVE  Accounts
<1> DEFINE D == DOMAIN GenesisBalances
           K == {<<a, KLY>> : a \in D}
           account(k) == [DefaultAccount EXCEPT !.available = GenesisBalances[k[1]]]
           l == state.ledger
<1>1. /\ l.own = Mainchain /\ l.users = [k \in K |-> account(k)]
      /\ l.supply = [t \in {KLY} |-> GenesisSupply]
  BY DEF Init
<1>2. IsFiniteSet(D) /\ GenesisBalances \in [D -> Nat]
  BY GenesisAssumption
<1>3. LedgerOK(l) /\ supplyEvents = 0
  BY InitInv DEF IInv, StateOK, Init
<1>4. \A a \in D : /\ <<a, KLY>> \in K /\ l.users[<<a, KLY>>].available = GenesisBalances[a]
                   /\ l.users[<<a, KLY>>].locked["fee"] = 0
  <2> TAKE a \in D
  <2>1. <<a, KLY>> \in K /\ <<a, KLY>>[1] = a
    OBVIOUS
  <2>2. l.users[<<a, KLY>>] = [DefaultAccount EXCEPT !.available = GenesisBalances[a]]
    BY <1>1, <2>1
  <2> QED
    BY <2>1, <2>2, LockModulesHasFee DEF DefaultAccount
<1>5. DOMAIN l.users = K /\ \A k \in K : \E a \in D : k = <<a, KLY>>
  BY <1>1
<1>6. IsFiniteSet(K)
  <2> DEFINE b == [a \in D |-> <<a, KLY>>]
  <2>1. b \in Surjection(D, K)
    BY DEF Surjection
  <2> HIDE DEF b, D, K
  <2> QED
    BY <1>2, <2>1, FS_Surjection
<1>7. GenesisSupply \in Int
  BY <1>2, SumTyped DEF GenesisSupply
<1>8. Books(l)
  BY <1>1, <1>3, <1>5, <1>6, <1>7 DEF Books
<1>9. Unlocked(l)
  BY <1>4, <1>5 DEF Unlocked
<1>10. Holdings(l) = GenesisSupply
  <2> DEFINE b == [a \in D |-> <<a, KLY>>]
             h == [k \in DOMAIN l.users |-> Holding(l.users[k])]
  <2>1. \A a \in D : h[b[a]] = GenesisBalances[a]
    BY <1>2, <1>4, <1>5 DEF Holding
  <2>2. \A a \in D, c \in D : b[a] = b[c] => a = c
    OBVIOUS
  <2>3. {b[a] : a \in D} = DOMAIN l.users
    BY <1>5
  <2>4. \A a \in D : GenesisBalances[a] \in Int
    BY <1>2
  <2>5. Restrict(GenesisBalances, D) = GenesisBalances /\ Restrict(h, DOMAIN l.users) = h
    BY <1>2 DEF Restrict
  <2> HIDE DEF D, b, h
  <2>6. SumFunction(Restrict(GenesisBalances, D)) = SumFunction(Restrict(h, {b[a] : a \in D}))
    BY <1>2, <2>1, <2>2, <2>4, SumRenamed
  <2> QED
    BY <2>3, <2>5, <2>6 DEF GenesisSupply, Holdings, h
<1>11. l.supply[KLY] = GenesisSupply
  BY <1>1
<1>12. l.supply[KLY] = GenesisSupply + supplyEvents
  BY <1>3, <1>7, <1>11
<1> QED
  BY <1>3, <1>8, <1>9, <1>10, <1>11, <1>12 DEF Accounts

\* The rest of the genesis state is within the bounds.
LEMMA GenesisBounded ==
    ASSUME Init
    PROVE  Bounded
<1>1. height = 0 /\ block = NoBlock /\ round.number = 1 /\ odd = 0
  BY DEF Init
<1>2. {MaxHeight, MaxIncluded, MaxOdd} \subseteq Nat /\ IsFiniteSet(Addresses)
      /\ MaxLengthReveals \in Nat
  BY ApplicationAssumption, PoAAssumption
<1>3. state.poa.reveals = <<>>
  <2> DEFINE p == GenesisState(GenesisNames, BlsKeyOf, GeneratorKeyOf, GenesisSnapshot)
  <2>1. state.poa = p
    BY DEF Init
  <2>2. p.reveals = <<>>
    BY DEF GenesisState, setValidatorsParams
  <2> QED
    BY <2>1, <2>2
<1>4. IsSequence(<<>>) /\ Len(<<>>) = 0
  <2>1. <<>> \in Seq({})
    OBVIOUS
  <2> QED
    BY <2>1, SequenceOf
<1>5. IncludedTotal = 0
  <2> DEFINE f == [a \in Addresses |-> Len(included[a])]
             S == Addresses
             none(T) == SumFunction(Restrict(f, T)) = 0
             good == {T \in SUBSET S : none(T)}
  <2>1. \A a \in S : f[a] = 0
    BY DEF Init
  <2>2. {} \in good
    <3>1. DOMAIN Restrict(f, {}) = {}
      BY DEF Restrict
    <3> QED
      BY <3>1, SumEmpty
  <2>3. Restrict(f, S) = f
    BY DEF Restrict
  <2> HIDE DEF f
  <2>4. ASSUME NEW T \in SUBSET S, NEW x \in S \ T, T \in good
        PROVE  T \cup {x} \in good
    <3>1. IsFiniteSet(T) /\ \A y \in T \cup {x} : f[y] \in Int
      BY <1>2, <2>1, FS_Subset
    <3>2. SumFunction(Restrict(f, T \cup {x})) = f[x] + SumFunction(Restrict(f, T))
      BY <3>1, SumOneMore
    <3>3. f[x] = 0 /\ SumFunction(Restrict(f, T)) = 0
      BY <2>1, <2>4
    <3> QED
      BY <3>2, <3>3
  <2>5. S \in good
    <3>1. \A T \in SUBSET S : \A x \in S \ T : T \in good => T \cup {x} \in good
      BY <2>4
    <3> HIDE DEF good
    <3> QED
      BY <1>2, <2>2, <3>1, FiniteSetsReached
  <2> QED
    BY <2>3, <2>5 DEF IncludedTotal, f
<1> QED
  BY <1>1, <1>2, <1>3, <1>4, <1>5 DEF Bounded

\* The lengths of what the senders included are numbers.
LEMMA IncludedNaturals ==
    ASSUME included \in [Addresses -> Seq(Nat)]
    PROVE  /\ IncludedTotal \in Nat
           /\ \A a \in Addresses : Len(included[a]) \in Nat /\ Len(included[a]) <= IncludedTotal
<1> DEFINE f == [a \in Addresses |-> Len(included[a])]
<1>1. \A a \in Addresses : Len(included[a]) \in Nat
  <2> TAKE a \in Addresses
  <2>1. included[a] \in Seq(Nat)
    OBVIOUS
  <2> QED
    BY <2>1
<1>2. DOMAIN f = Addresses /\ IsFiniteSet(DOMAIN f) /\ \A a \in DOMAIN f : f[a] \in Nat
  BY <1>1, ApplicationAssumption
<1>3. \A a \in Addresses : f[a] = Len(included[a])
  OBVIOUS
<1>4. IncludedTotal = SumFunction(f)
  BY DEF IncludedTotal
<1> HIDE DEF f
<1>5. SumFunction(f) \in Nat /\ \A a \in DOMAIN f : f[a] <= SumFunction(f)
  BY <1>2, SumOfNaturals
<1> QED
  BY <1>1, <1>2, <1>3, <1>4, <1>5

\* A block begins.
LEMMA SolventBegin ==
    ASSUME IInv, Accounts, Bounded, NEW g, BeginBlock(g)
    PROVE  Accounts' /\ Bounded'
<1>1. UNCHANGED <<state, height, included, round, supplyEvents>> /\ height < MaxHeight
  BY DEF BeginBlock
<1>2. odd' \in 0 .. MaxOdd
  <2>1. odd' \in {odd, odd + 1}
    BY DEF BeginBlock, Bounded
  <2>2. odd' <= MaxOdd
    BY DEF BeginBlock
  <2> QED
    BY <2>1, <2>2, ApplicationAssumption DEF Bounded
<1>3. Accounts'
  BY <1>1 DEF Accounts
<1>4. IncludedTotal' = IncludedTotal
  BY <1>1 DEF IncludedTotal
<1> QED
  BY <1>1, <1>2, <1>3, <1>4 DEF Bounded

\* A transaction is executed.
LEMMA SolventExecute ==
    ASSUME IInv, Accounts, Bounded, NEW tx \in Transactions, ExecuteTransaction(tx)
    PROVE  Accounts' /\ Bounded'
<1> DEFINE a == tx.sender
           r == executeTransaction(state, height + 1, block.generator, tx)
           n == Amounts(r.events, "burn")
<1>1. /\ verifyTransaction(state, height + 1, tx)
      /\ state' = r.s /\ IncludedTotal < MaxIncluded
      /\ included' = IF r.status = "INVALID" THEN included
                     ELSE [included EXCEPT ![a] = Append(@, tx.nonce)]
      /\ supplyEvents' = supplyEvents - n
      /\ UNCHANGED <<height, block, round, odd>>
  BY DEF ExecuteTransaction, IncludedTotal
<1>2. StateOK(state) /\ height + 1 \in Nat /\ a \in Addresses
  BY TransactionsAssumption DEF IInv, ObserverTypes
<1>3. /\ r.status \in {"OK", "FAIL"} /\ StoresChange(state.poa, r.s.poa, tx, r.events)
      /\ Books(state.ledger) /\ Unlocked(state.ledger) => Paid(state.ledger, r.s.ledger, n)
  BY <1>1, <1>2, Executed
<1> HIDE DEF r, n
<1>4. Paid(state.ledger, state'.ledger, n)
  BY <1>1, <1>3 DEF Accounts
<1>5. GenesisSupply \in Int
  BY GenesisAssumption, SumTyped DEF GenesisSupply
<1>6. Accounts'
  <2>1. /\ n \in Int /\ Books(state'.ledger) /\ Unlocked(state'.ledger)
        /\ Holdings(state'.ledger) = Holdings(state.ledger) - n
        /\ state'.ledger.supply[KLY] = state.ledger.supply[KLY] - n
    BY <1>4 DEF Paid
  <2>2. /\ supplyEvents \in Int /\ state.ledger.supply[KLY] = GenesisSupply + supplyEvents
        /\ Holdings(state.ledger) = state.ledger.supply[KLY]
    BY DEF Accounts
  <2>3. /\ state'.ledger.supply[KLY] = GenesisSupply + supplyEvents'
        /\ Holdings(state'.ledger) = state'.ledger.supply[KLY] /\ supplyEvents' \in Int
    BY <1>1, <1>5, <2>1, <2>2
  <2> QED
    BY <2>1, <2>3 DEF Accounts
<1>7. IncludedTotal' <= MaxIncluded
  <2> DEFINE f == [b \in Addresses |-> Len(included[b])]
             h == [b \in Addresses |-> Len(included'[b])]
  <2>1. included \in [Addresses -> Seq(Nat)]
    BY DEF IInv, ObserverTypes
  <2>2. included' = [included EXCEPT ![a] = Append(@, tx.nonce)]
    BY <1>1, <1>3
  <2>3. \A b \in Addresses \ {a} : included'[b] = included[b]
    BY <2>1, <2>2
  <2>4. included'[a] = Append(included[a], tx.nonce)
    BY <1>2, <2>1, <2>2
  <2>5. \A b \in Addresses : Len(included[b]) \in Nat
    BY <2>1, IncludedNaturals
  <2>6. Len(included'[a]) = Len(included[a]) + 1
    <3>1. included[a] \in Seq(Nat) /\ tx.nonce \in Nat
      BY <1>1, <1>2, <2>1, <2>5 DEF verifyTransaction, IInv, NoncesExact
    <3> QED
      BY <2>4, <3>1
  <2>7. /\ IsFiniteSet(DOMAIN f) /\ a \in DOMAIN f /\ DOMAIN h = DOMAIN f
        /\ (\A b \in DOMAIN f : f[b] \in Int) /\ \A b \in DOMAIN f \ {a} : h[b] = f[b]
    BY <1>2, <2>3, <2>5, ApplicationAssumption, SMTT(60)
  <2>8. h[a] = f[a] + 1 /\ h[a] \in Int /\ f[a] \in Int
    BY <1>2, <2>5, <2>6
  <2>9. SumFunction(f) = IncludedTotal /\ SumFunction(h) = IncludedTotal'
    BY DEF IncludedTotal
  <2> HIDE DEF f, h
  <2>10. SumFunction(h) = SumFunction(f) - f[a] + h[a] /\ SumFunction(f) \in Int
    BY ONLY <2>7, <2>8, SumOneChanged
  <2>11. SumFunction(h) = SumFunction(f) + 1
    BY <2>8, <2>10
  <2>12. MaxIncluded \in Nat /\ SumFunction(f) < MaxIncluded
    BY <1>1, <2>9, ApplicationAssumption
  <2>13. SumFunction(h) <= MaxIncluded
    BY <2>10, <2>11, <2>12
  <2> QED
    BY <2>9, <2>13
<1>8. state'.poa.reveals = state.poa.reveals
  <2>1. DOMAIN state.poa = PoAStores
    BY <1>2 DEF StateOK
  <2> QED
    BY <1>1, <1>3, <2>1, RevealsKept
<1>9. Bounded'
  BY <1>1, <1>7, <1>8 DEF Bounded
<1> QED
  BY <1>6, <1>9

\* A block ends: the reward is minted and the seed is stored.
LEMMA SolventEnd ==
    ASSUME IInv, Accounts, Bounded, EndBlock
    PROVE  Accounts' /\ Bounded'
<1> DEFINE p      == state.poa
           ended  == IF RoundEnds THEN roundEnded(p) ELSE p
           minted == IF userSubstoreExists(state.ledger, block.generator, KLY)
                     THEN block.reward ELSE 0
           q      == addReveal(ended, block.generator, height + 1, block.seed)
           l      == mint(state.ledger, block.generator, KLY, minted)
<1>1. /\ state' = [state EXCEPT !.poa = q, !.ledger = l]
      /\ supplyEvents' = supplyEvents + minted
      /\ round' = IF RoundEnds THEN [number |-> round.number + 1, after |-> height + 1] ELSE round
      /\ height' = height + 1 /\ block' = NoBlock
      /\ UNCHANGED <<included, odd>>
  BY DEF EndBlock
<1>2. DOMAIN state = StateStores /\ DOMAIN p = PoAStores /\ DOMAIN p.snapshots = 1 .. 3
  BY DEF IInv, StateOK, Rounds, SnapshotsDue
<1>3. minted \in Nat
  BY DEF EndBlock, IInv, ObserverTypes
<1> HIDE DEF minted
<1>4. Changes(state.ledger, l, minted, minted)
  BY <1>3, MintChanges DEF Accounts
<1>5. DOMAIN ended = PoAStores /\ ended.reveals = p.reveals
  <2>1. DOMAIN roundEnded(p) = PoAStores
    BY <1>2, RoundEndedKeeps
  <2>2. roundEnded(p).reveals = p.reveals
    BY <1>2, RevealsKept
  <2> QED
    BY <1>2, <2>1, <2>2
<1> HIDE DEF ended, l
<1>6. IsSequence(q.reveals) /\ Len(q.reveals) <= MaxLengthReveals
  <2>1. IsSequence(ended.reveals) /\ Len(ended.reveals) <= MaxLengthReveals
    BY <1>5 DEF Bounded
  <2> QED
    BY <1>5, <2>1, AddRevealBounded
<1> HIDE DEF q
<1>7. state'.poa = q /\ state'.ledger = l
  BY <1>1, <1>2 DEF StateStores
<1>8. Accounts'
  <2>1. /\ Books(l) /\ Holdings(l) = Holdings(state.ledger) + minted
        /\ l.supply[KLY] = state.ledger.supply[KLY] + minted
    BY <1>4 DEF Changes
  <2>2. /\ supplyEvents \in Int /\ state.ledger.supply[KLY] = GenesisSupply + supplyEvents
        /\ Holdings(state.ledger) = state.ledger.supply[KLY] /\ Unlocked(state.ledger)
    BY DEF Accounts
  <2>3. Unlocked(l)
    BY <1>4, <2>2, StaysUnlocked
  <2>4. GenesisSupply \in Int
    BY GenesisAssumption, SumTyped DEF GenesisSupply
  <2>5. /\ l.supply[KLY] = GenesisSupply + supplyEvents' /\ Holdings(l) = l.supply[KLY]
        /\ supplyEvents' \in Int
    BY <1>1, <1>3, <2>1, <2>2, <2>4
  <2> QED
    BY <1>7, <2>1, <2>3, <2>5 DEF Accounts
<1>9. Bounded'
  <2>1. height \in Nat /\ round.number \in Nat /\ height < MaxHeight /\ MaxHeight \in Nat
    BY ApplicationAssumption DEF IInv, ObserverTypes, Bounded, EndBlock
  <2>2. height' <= MaxHeight
    BY <1>1, <2>1
  <2>3. round'.number >= 1 /\ round'.number <= height' + 1
    BY <1>1, <2>1 DEF Bounded
  <2>4. IncludedTotal' = IncludedTotal
    BY <1>1 DEF IncludedTotal
  <2> QED
    BY <1>1, <1>6, <1>7, <2>2, <2>3, <2>4 DEF Bounded
<1> QED
  BY <1>8, <1>9

\* The accounts of the native token are all accounts, and only fees are locked.
LEMMA HoldingsAreTotal ==
    ASSUME NEW l, Books(l)
    PROVE  UsersTotal(l, KLY) = Holdings(l)
<1>1. {u \in DOMAIN l.users : u[2] = KLY} = DOMAIN l.users
  BY DEF Books
<1>2. ASSUME NEW k \in DOMAIN l.users
      PROVE  SumFunction(l.users[k].locked) = l.users[k].locked["fee"]
  <2> DEFINE f == l.users[k].locked
  <2>1. DOMAIN f = {"fee"} /\ f["fee"] \in Int
    BY ApplicationAssumption, SMTT(60) DEF Books, LedgerOK, AccountType
  <2> HIDE DEF f
  <2>2. SumFunction(f) = f["fee"]
    BY <2>1, SumSingle
  <2> QED
    BY <2>2 DEF f
<1>3. \A k \in DOMAIN l.users :
          l.users[k].available + SumFunction(l.users[k].locked) = Holding(l.users[k])
  BY <1>2 DEF Holding
<1>4. [k \in DOMAIN l.users |-> l.users[k].available + SumFunction(l.users[k].locked)]
        = [k \in DOMAIN l.users |-> Holding(l.users[k])]
  BY <1>3
<1> QED
  BY <1>1, <1>4 DEF UsersTotal, Holdings

\* The invariants imply solvency.
LEMMA AccountsSolvent ==
    ASSUME IInv, Accounts, Bounded
    PROVE  Solvent
<1>1. /\ height \in Nat /\ round.number \in Nat /\ outcome \in {"none", "OK", "FAIL"}
      /\ included \in [Addresses -> Seq(Nat)] /\ accepted \in Seq(UpdateType)
      /\ MaxHeight \in Nat /\ MaxIncluded \in Nat
  BY ApplicationAssumption DEF IInv, ObserverTypes
<1>2. height \in 0 .. MaxHeight /\ round.number \in 1 .. (MaxHeight + 1)
  BY <1>1 DEF Bounded
<1>3. \A a \in Addresses : state.auth[a].nonce \in 0 .. MaxIncluded
  <2>1. /\ IncludedTotal \in Nat
        /\ \A a \in Addresses : Len(included[a]) \in Nat /\ Len(included[a]) <= IncludedTotal
    BY <1>1, IncludedNaturals
  <2>2. \A a \in Addresses : state.auth[a].nonce = Len(included[a])
    BY DEF IInv, NoncesExact
  <2>3. IncludedTotal <= MaxIncluded
    BY DEF Bounded
  <2> QED
    BY <1>1, <2>1, <2>2, <2>3
<1>4. \A k \in DOMAIN state.ledger.users : state.ledger.users[k].available \in Nat
  BY DEF Accounts, Books, LedgerOK, AccountType
<1>5. \A i \in 1 .. 3 : state.poa.snapshots[i] \in Snapshots
  <2> DEFINE t == state.poa.snapshots
  <2>1. /\ DueAt(accepted, round.number - 2, t[1]) /\ DueAt(accepted, round.number - 1, t[2])
        /\ DueAt(accepted, round.number, t[3])
    BY DEF IInv, Rounds, SnapshotsDue
  <2>2. t[1] \in Snapshots /\ t[2] \in Snapshots /\ t[3] \in Snapshots
    BY <1>1, <2>1, DueIsSnapshot
  <2>3. \A i \in 1 .. 3 : i = 1 \/ i = 2 \/ i = 3
    OBVIOUS
  <2> QED
    BY <2>2, <2>3
<1>6. TypeOK
  BY <1>1, <1>2, <1>3, <1>4, <1>5 DEF TypeOK, Bounded, Accounts
<1>7. UsersTotal(state.ledger, KLY) = state.ledger.supply[KLY]
  BY HoldingsAreTotal DEF Accounts
<1> QED
  BY <1>6, <1>7 DEF Solvent, Accounts, Unlocked

\* Between transactions no fee is locked, the accounts hold exactly the supply, and
\* the minted and burnt amounts of the events explain it, for every genesis, every
\* sequence of transactions and whatever commands fail: the fee module gives out what
\* it locked, and an event that is reverted takes its effect with it.
THEOREM AccountsStaySolvent == Spec => []Solvent
<1>1. Init => Accounts /\ Bounded
  BY GenesisAccounts, GenesisBounded
<1>2. IInv /\ Accounts /\ Bounded /\ [Next]_vars => Accounts' /\ Bounded'
  <2> SUFFICES ASSUME IInv, Accounts, Bounded, [Next]_vars
               PROVE  Accounts' /\ Bounded'
    OBVIOUS
  <2>1. ASSUME NEW g \in DOMAIN state.poa.params.validators, BeginBlock(g)
        PROVE  Accounts' /\ Bounded'
    BY <2>1, SolventBegin
  <2>2. ASSUME NEW tx \in Transactions, ExecuteTransaction(tx)
        PROVE  Accounts' /\ Bounded'
    BY <2>2, SolventExecute
  <2>3. CASE EndBlock
    BY <2>3, SolventEnd
  <2>4. CASE UNCHANGED vars
    BY <2>4 DEF vars, Accounts, Bounded, IncludedTotal
  <2> QED
    BY <2>1, <2>2, <2>3, <2>4 DEF Next, Finished
<1>3. IInv /\ Accounts /\ Bounded => Solvent
  BY AccountsSolvent
<1> QED
  BY <1>1, <1>2, <1>3, Invariance, PTL DEF Spec
=============================================================================
