--------------------------- MODULE CmpHash_proofs ---------------------------
(***************************************************************************)
(* The hash of a file, for every set of byte values, every width of the    *)
(* counters, every size of the buffer and every content.  What one buffer  *)
(* does to the hash is a fold over a sequence, what check_hash_integrity   *)
(* adds up is a fold over the byte values; both are understood as          *)
(* functions on the subsets of a finite set (SetRecursion).                *)
(***************************************************************************)
EXTENDS CmpHash, FiniteSetTheorems, WellFoundedInduction, TLAPS

-----------------------------------------------------------------------------
(* Functions defined by recursion over a finite set *)

\* A non-empty set of naturals has a least element.
LEMMA LeastNumber ==
    ASSUME NEW T \in SUBSET Nat, T # {}
    PROVE  \E m \in T : \A k \in T : m <= k
<1>1. IsWellFoundedOn(OpToRel(<, Nat), Nat)
    BY NatLessThanWellFounded
<1>2. PICK m \in T : \A k \in T : ~(<< k, m >> \in OpToRel(<, Nat))
    BY <1>1, WFMin
<1>3. \A k \in T : ~(k < m)
    BY <1>2 DEF OpToRel
<1> QED
    BY <1>3

\* G[d] maps X into X, and C chooses an element of each set.
Steps(G, D, X) == \A d \in D : \A x \in X : G[d][x] \in X
Chooses(C, D) == \A s \in SUBSET D : s # {} => C[s] \in s

\* f folds G over the sets, taking C[s] out of s first.
Obeys(f, base, G, C, D) ==
    \A s \in SUBSET D : f[s] = IF s = {} THEN base ELSE G[C[s]][f[s \ {C[s]}]]

\* It does so for the sets with at most k elements, taking C[s] out of s first.
Folds(base, G, C, f, D, k) ==
    \A s \in SUBSET D : Cardinality(s) <= k =>
        f[s] = IF s = {} THEN base ELSE G[C[s]][f[s \ {C[s]}]]

\* What is left of a set without one of its elements.
LEMMA OneLess ==
    ASSUME NEW D, IsFiniteSet(D), NEW s \in SUBSET D, NEW x \in s
    PROVE  /\ s \ {x} \in SUBSET D
           /\ Cardinality(s) \in Nat \ {0} /\ Cardinality(s \ {x}) = Cardinality(s) - 1
<1>1. IsFiniteSet(s)
    BY FS_Subset
<1>2. Cardinality(s) \in Nat /\ (Cardinality(s) = 0 <=> s = {})
    BY <1>1, FS_CardinalityType, FS_EmptySet
<1>3. Cardinality(s \ {x}) = Cardinality(s) - 1
    BY <1>1, FS_RemoveElement
<1> QED
    BY <1>2, <1>3

LEMMA SetRecursion ==
    ASSUME NEW D, IsFiniteSet(D), NEW X, NEW base \in X, NEW G, NEW C,
           Steps(G, D, X), Chooses(C, D)
    PROVE  \E f \in [SUBSET D -> X] : Obeys(f, base, G, C, D)
<1> DEFINE Goes(k) == \E f \in [SUBSET D -> X] : Folds(base, G, C, f, D, k)
           T == { k \in Nat : ~Goes(k) }
<1>1. ASSUME T # {} PROVE FALSE
  <2>1. PICK m \in T : \A k \in T : m <= k
    <3>1. T \in SUBSET Nat
        OBVIOUS
    <3> HIDE DEF T
    <3> QED
        BY <1>1, <3>1, LeastNumber
  <2>2. m \in Nat /\ ~Goes(m)
      OBVIOUS
  <2>3. \A s \in SUBSET D : Cardinality(s) \in Nat /\ (Cardinality(s) = 0 <=> s = {})
      BY FS_Subset, FS_CardinalityType, FS_EmptySet
  <2>4. CASE m = 0
    <3> DEFINE f == [s \in SUBSET D |-> base]
    <3>1. f \in [SUBSET D -> X]
        OBVIOUS
    <3>2. Folds(base, G, C, f, D, m)
        BY <2>3, <2>4 DEF Folds
    <3> QED
        BY <2>2, <3>1, <3>2
  <2>5. CASE m # 0
    <3>1. m - 1 \in Nat /\ ~(m <= m - 1)
        BY <2>2, <2>5
    <3>2. m - 1 \notin T
      <4> HIDE DEF T
      <4> QED
          BY <2>1, <3>1
    <3>3. PICK f \in [SUBSET D -> X] : Folds(base, G, C, f, D, m - 1)
        BY <3>1, <3>2
    <3> DEFINE g == [s \in SUBSET D |-> IF s = {} THEN base ELSE G[C[s]][f[s \ {C[s]}]]]
    <3>4. ASSUME NEW s \in SUBSET D, s # {}
          PROVE  /\ s \ {C[s]} \in SUBSET D /\ C[s] \in D /\ f[s \ {C[s]}] \in X
                 /\ Cardinality(s \ {C[s]}) = Cardinality(s) - 1
      <4>1. C[s] \in s
          BY <3>4 DEF Chooses
      <4> QED
          BY <4>1, OneLess
    <3>5. g \in [SUBSET D -> X]
      <4>1. \A s \in SUBSET D : (IF s = {} THEN base ELSE G[C[s]][f[s \ {C[s]}]]) \in X
          BY <3>4 DEF Steps
      <4> QED
          BY <4>1
    <3>6. ASSUME NEW s \in SUBSET D, Cardinality(s) <= m
          PROVE  g[s] = IF s = {} THEN base ELSE G[C[s]][g[s \ {C[s]}]]
      <4>1. CASE s = {}
          BY <4>1, SMTT(30)
      <4>2. CASE s # {}
        <5> DEFINE t == s \ {C[s]}
        <5>1. t \in SUBSET D /\ Cardinality(t) = Cardinality(s) - 1
            BY <3>4, <4>2
        <5>2. Cardinality(t) <= m - 1
            BY <5>1, <2>2, <2>3, <3>6
        <5>3. f[t] = g[t]
          <6>1. f[t] = IF t = {} THEN base ELSE G[C[t]][f[t \ {C[t]}]]
            <7> HIDE DEF t
            <7> QED
                BY <3>3, <5>1, <5>2 DEF Folds
          <6> HIDE DEF t
          <6> QED
              BY <5>1, <6>1
        <5>4. g[s] = G[C[s]][f[t]]
            BY <4>2
        <5> QED
            BY <4>2, <5>3, <5>4
      <4> QED
          BY <4>1, <4>2
    <3>7. Folds(base, G, C, g, D, m)
      <4> HIDE DEF g
      <4> QED
          BY <3>6 DEF Folds
    <3> QED
        BY <2>2, <3>5, <3>7
  <2> QED
      BY <2>4, <2>5
<1>2. Cardinality(D) \in Nat
    BY FS_CardinalityType
<1>3. PICK f \in [SUBSET D -> X] : Folds(base, G, C, f, D, Cardinality(D))
    BY <1>1, <1>2
<1>4. \A s \in SUBSET D : Cardinality(s) <= Cardinality(D)
    BY FS_Subset
<1> QED
    BY <1>3, <1>4 DEF Folds, Obeys

-----------------------------------------------------------------------------
(* The sum of the occurrences *)

\* h adds up f over the subsets of its domain; which element comes first is open.
AddsUp(h, f, D) ==
    /\ h \in [SUBSET D -> Int]
    /\ \A s \in SUBSET D : h[s] = IF s = {} THEN 0
                                  ELSE LET x == CHOOSE x \in s : TRUE IN f[x] + h[s \ {x}]

Total(f) == FoldFunction(LAMBDA x, y : x + y, 0, f)

LEMMA SumIs ==
    ASSUME NEW D, IsFiniteSet(D), NEW f \in [D -> Int]
    PROVE  \E h : AddsUp(h, f, D) /\ Total(f) = h[D]
<1> DEFINE G == [d \in D |-> [x \in Int |-> f[d] + x]]
           C == [s \in SUBSET D |-> CHOOSE x \in s : TRUE]
           Rule(h) == h = [s \in SUBSET D |-> IF s = {} THEN 0
                             ELSE f[CHOOSE x \in s : TRUE] + h[s \ {CHOOSE x \in s : TRUE}]]
<1>1. Chooses(C, D)
    BY DEF Chooses
<1>2. Steps(G, D, Int)
    BY DEF Steps
<1>3. PICK g \in [SUBSET D -> Int] : Obeys(g, 0, G, C, D)
  <2> HIDE DEF G, C
  <2>1. 0 \in Int
      OBVIOUS
  <2> QED
      BY <1>1, <1>2, <2>1, SetRecursion
<1>4. ASSUME NEW s \in SUBSET D
      PROVE  g[s] = IF s = {} THEN 0
                    ELSE f[CHOOSE x \in s : TRUE] + g[s \ {CHOOSE x \in s : TRUE}]
  <2>1. CASE s = {}
      BY <1>3, <2>1 DEF Obeys
  <2>2. CASE s # {}
    <3>1. PICK c : c = CHOOSE x \in s : TRUE
        OBVIOUS
    <3>2. c \in s /\ C[s] = c /\ c \in D /\ s \ {c} \in SUBSET D
        BY <3>1, <2>2
    <3>3. g[s \ {c}] \in Int
        BY <3>2
    <3>4. G[c][g[s \ {c}]] = f[c] + g[s \ {c}]
        BY <3>2, <3>3
    <3>5. g[s] = G[c][g[s \ {c}]]
      <4> HIDE DEF G, C
      <4> QED
          BY <1>3, <2>2, <3>2 DEF Obeys
    <3> QED
        BY <2>2, <3>1, <3>4, <3>5
  <2> QED
      BY <2>1, <2>2
<1>5. Rule(g)
  <2> QED
      BY <1>4
<1> DEFINE h == CHOOSE h : Rule(h)
<1>6. Rule(h)
  <2> HIDE DEF Rule
  <2> QED
      BY <1>5
<1>7. DOMAIN f = D
    OBVIOUS
<1>8. Total(f) = h[D]
    BY <1>7 DEF Total, FoldFunction, FoldFunctionOnSet, MapThenFoldSet
<1> HIDE DEF h
<1>9. ASSUME NEW s \in SUBSET D
      PROVE  h[s] = IF s = {} THEN 0
                    ELSE f[CHOOSE x \in s : TRUE] + h[s \ {CHOOSE x \in s : TRUE}]
    BY <1>6
<1>10. ASSUME NEW s \in SUBSET D PROVE h[s] \in Int /\ h[s] = g[s]
  <2> DEFINE T == { k \in Nat : \E t \in SUBSET D : Cardinality(t) = k /\ h[t] # g[t] }
  <2>1. ASSUME T # {} PROVE FALSE
    <3>1. PICK m \in T : \A k \in T : m <= k
      <4>1. T \in SUBSET Nat
          OBVIOUS
      <4> HIDE DEF T
      <4> QED
          BY <2>1, <4>1, LeastNumber
    <3>2. PICK t \in SUBSET D : Cardinality(t) = m /\ h[t] # g[t]
        OBVIOUS
    <3>3. PICK c : c = CHOOSE x \in t : TRUE
        OBVIOUS
    <3>4. t # {} /\ c \in t
        BY <1>4, <1>9, <3>2, <3>3
    <3>5. t \ {c} \in SUBSET D /\ m \in Nat \ {0} /\ Cardinality(t \ {c}) = m - 1
      <4>1. t \in SUBSET D /\ c \in t
          BY <3>4
      <4>2. Cardinality(t) = m
          BY <3>2
      <4> HIDE DEF T
      <4>3. /\ t \ {c} \in SUBSET D
            /\ Cardinality(t) \in Nat \ {0} /\ Cardinality(t \ {c}) = Cardinality(t) - 1
          BY <4>1, OneLess
      <4> QED
          BY <4>2, <4>3
    <3>6. m - 1 \in Nat /\ ~(m <= m - 1)
        BY <3>5
    <3>7. m - 1 \notin T
      <4> HIDE DEF T
      <4> QED
          BY <3>1, <3>6
    <3>8. h[t \ {c}] = g[t \ {c}]
        BY <3>5, <3>6, <3>7
    <3>9. g[t] = f[c] + g[t \ {c}] /\ h[t] = f[c] + h[t \ {c}]
      <4> HIDE DEF T
      <4> QED
          BY <1>4, <1>9, <3>2, <3>3, <3>4
    <3> QED
        BY <3>2, <3>8, <3>9
  <2>2. Cardinality(s) \in Nat
      BY FS_Subset, FS_CardinalityType
  <2>3. h[s] = g[s]
      BY <2>1, <2>2
  <2> QED
      BY <2>3
<1>11. h \in [SUBSET D -> Int]
    BY <1>6, <1>10
<1>12. AddsUp(h, f, D)
    BY <1>9, <1>11 DEF AddsUp
<1> QED
    BY <1>8, <1>12

-----------------------------------------------------------------------------
(* Counters that wrap *)

U32 == 0..MAX_U32

LEMMA PowerIsPositive ==
    2^W \in Nat \ {0} /\ MAX_U32 \in Nat /\ MAX_U32 = 2^W - 1 /\ BUFFER_SIZE < 2^W
<1>1. 2^W \in Int
    BY WidthAssumption
<1>2. BUFFER_SIZE \in Nat /\ BUFFER_SIZE < 2^W
    BY WidthAssumption
<1> QED
    BY <1>1, <1>2 DEF MAX_U32

LEMMA ModIsUnique ==
    ASSUME NEW m \in Int, m > 0, NEW x \in Int, NEW q \in Int, NEW r \in Int,
           x = q * m + r, 0 <= r, r < m
    PROVE  x % m = r
OBVIOUS

LEMMA ModOfSum ==
    ASSUME NEW m \in Int, m > 0, NEW x \in Int, NEW y \in Int
    PROVE  ((x % m) + y) % m = (x + y) % m
<1>1. PICK q, r \in Int : x = q * m + r /\ r = x % m
  <2>1. x = (x \div m) * m + (x % m) /\ x \div m \in Int /\ x % m \in Int
      OBVIOUS
  <2> QED
      BY <2>1
<1>2. PICK p, s \in Int : r + y = p * m + s /\ s = (r + y) % m /\ 0 <= s /\ s < m
  <2>1. r + y = ((r + y) \div m) * m + ((r + y) % m) /\ (r + y) \div m \in Int
      OBVIOUS
  <2>2. (r + y) % m \in Int /\ 0 <= (r + y) % m /\ (r + y) % m < m
      OBVIOUS
  <2> QED
      BY <2>1, <2>2
<1>3. q * m + p * m = (q + p) * m
    OBVIOUS
<1>4. x + y = (q + p) * m + s
    BY <1>1, <1>2, <1>3
<1>5. (x + y) % m = s
  <2>1. 0 <= s /\ s < m /\ x + y \in Int /\ q + p \in Int
      BY <1>2
  <2> QED
      BY <1>4, <2>1, ModIsUnique
<1> QED
    BY <1>1, <1>2, <1>5

\* Counters add up modulo 2^W, wherever they wrap.
LEMMA UintProperties ==
    ASSUME NEW x \in Int
    PROVE  /\ uint(x) \in U32
           /\ x \in U32 => uint(x) = x
           /\ \A y \in Int : uint(uint(x) + y) = uint(x + y)
           /\ \A y \in Int : uint(y + uint(x)) = uint(y + x)
<1>1. PICK m \in Int : m = 2^W /\ m > 0
    BY PowerIsPositive
<1>2. x % m \in 0..(m - 1) /\ (x \in 0..(m - 1) => x % m = x)
    BY <1>1
<1>3. ASSUME NEW y \in Int PROVE ((x % m) + y) % m = (x + y) % m
    BY <1>1, ModOfSum
<1>4. ASSUME NEW y \in Int PROVE (y + (x % m)) % m = (y + x) % m
  <2>1. y + (x % m) = (x % m) + y /\ y + x = x + y
      BY <1>1, <1>2
  <2> QED
      BY <1>3, <2>1
<1>5. U32 = 0..(m - 1)
    BY <1>1 DEF U32, MAX_U32
<1> QED
    BY <1>1, <1>2, <1>3, <1>4, <1>5 DEF uint

LEMMA UintOfSmall ==
    ASSUME NEW x \in U32 PROVE x \in Int /\ uint(x) = x
<1>1. x \in Int
    BY PowerIsPositive DEF U32
<1> QED
    BY <1>1, UintProperties

LEMMA SumIsInt ==
    ASSUME NEW f \in [Bytes -> Int]
    PROVE  Total(f) \in Int
<1>1. PICK h : AddsUp(h, f, Bytes) /\ Total(f) = h[Bytes]
    BY BytesAssumption, SumIs
<1> QED
    BY <1>1 DEF  AddsUp

\* A byte without occurrences adds nothing.
LEMMA SumOfZero == Total(Zero) = 0
<1>1. Zero \in [Bytes -> Int]
    BY DEF Zero
<1>2. PICK h : AddsUp(h, Zero, Bytes) /\ Total(Zero) = h[Bytes]
    BY <1>1, BytesAssumption, SumIs
<1> DEFINE T == { k \in Nat : \E t \in SUBSET Bytes : Cardinality(t) = k /\ h[t] # 0 }
<1>3. ASSUME T # {} PROVE FALSE
  <2>1. PICK m \in T : \A k \in T : m <= k
    <3>1. T \in SUBSET Nat
        OBVIOUS
    <3> HIDE DEF T
    <3> QED
        BY <1>3, <3>1, LeastNumber
  <2>2. PICK t \in SUBSET Bytes : Cardinality(t) = m /\ h[t] # 0
      OBVIOUS
  <2>3. PICK c : c = CHOOSE x \in t : TRUE
      OBVIOUS
  <2>4. t # {} /\ h[t] = Zero[c] + h[t \ {c}]
      BY <1>2, <2>2, <2>3 DEF AddsUp
  <2>5. c \in t /\ Zero[c] = 0
      BY <2>2, <2>3, <2>4 DEF Zero
  <2>6. t \ {c} \in SUBSET Bytes /\ m \in Nat \ {0} /\ Cardinality(t \ {c}) = m - 1
    <3>1. IsFiniteSet(Bytes) /\ t \in SUBSET Bytes /\ c \in t
        BY <2>5, BytesAssumption DEF BytesAssumption
    <3>2. Cardinality(t) = m
        BY <2>2
    <3> HIDE DEF T
    <3>3. /\ t \ {c} \in SUBSET Bytes
          /\ Cardinality(t) \in Nat \ {0} /\ Cardinality(t \ {c}) = Cardinality(t) - 1
        BY <3>1, OneLess
    <3> QED
        BY <3>2, <3>3
  <2>7. m - 1 \in Nat /\ ~(m <= m - 1)
      BY <2>6
  <2>8. m - 1 \notin T
    <3> HIDE DEF T
    <3> QED
        BY <2>1, <2>7
  <2>9. h[t \ {c}] = 0
      BY <2>6, <2>7, <2>8
  <2> QED
      BY <2>2, <2>4, <2>5, <2>9
<1>4. Cardinality(Bytes) \in Nat /\ Bytes \in SUBSET Bytes
    BY BytesAssumption, FS_CardinalityType
<1>5. h[Bytes] = 0
    BY <1>3, <1>4
<1> QED
    BY <1>2, <1>5

\* One more occurrence of one byte is one more in the sum, although both may wrap around.
LEMMA SumGrows ==
    ASSUME NEW f \in [Bytes -> U32], NEW b \in Bytes
    PROVE  /\ [f EXCEPT ![b] = uint(@ + 1)] \in [Bytes -> U32]
           /\ uint(Total([f EXCEPT ![b] = uint(@ + 1)])) = uint(Total(f) + 1)
<1> DEFINE g == [f EXCEPT ![b] = uint(@ + 1)]
<1>1. U32 \subseteq Int /\ f[b] + 1 \in Int
    BY PowerIsPositive DEF U32
<1>2. g \in [Bytes -> U32] /\ g[b] = uint(f[b] + 1) /\ \A c \in Bytes : c # b => g[c] = f[c]
  <2>1. uint(f[b] + 1) \in U32
      BY <1>1, UintProperties
  <2> QED
      BY <2>1
<1> HIDE DEF g
<1>3. f \in [Bytes -> Int] /\ g \in [Bytes -> Int]
    BY <1>1, <1>2
<1>4. PICK p : AddsUp(p, f, Bytes) /\ Total(f) = p[Bytes]
    BY <1>3, BytesAssumption, SumIs
<1>5. PICK q : AddsUp(q, g, Bytes) /\ Total(g) = q[Bytes]
    BY <1>3, BytesAssumption, SumIs
<1> DEFINE Good(t) == uint(q[t]) = uint(p[t] + (IF b \in t THEN 1 ELSE 0))
           T == { k \in Nat : \E t \in SUBSET Bytes : Cardinality(t) = k /\ ~Good(t) }
<1>6. ASSUME T # {} PROVE FALSE
  <2>1. PICK m \in T : \A k \in T : m <= k
    <3>1. T \in SUBSET Nat
        OBVIOUS
    <3> HIDE DEF T
    <3> QED
        BY <1>6, <3>1, LeastNumber
  <2>2. PICK t \in SUBSET Bytes : Cardinality(t) = m /\ ~Good(t)
      OBVIOUS
  <2>3. PICK c : c = CHOOSE x \in t : TRUE
      OBVIOUS
  <2>4. p[t] \in Int /\ q[t] \in Int /\ (t = {} => p[t] = 0 /\ q[t] = 0)
      BY <1>4, <1>5 DEF AddsUp
  <2>5. t # {}
      BY <2>2, <2>4
  <2>6. p[t] = f[c] + p[t \ {c}] /\ q[t] = g[c] + q[t \ {c}]
      BY <1>4, <1>5, <2>3, <2>5 DEF AddsUp
  <2>7. c \in t
      BY <2>3, <2>5
  <2>8. t \ {c} \in SUBSET Bytes /\ m \in Nat \ {0} /\ Cardinality(t \ {c}) = m - 1
      BY <2>2, <2>7, BytesAssumption, OneLess
  <2>9. m - 1 \in Nat /\ ~(m <= m - 1)
      BY <2>8
  <2>10. m - 1 \notin T
    <3> HIDE DEF T
    <3> QED
        BY <2>1, <2>9
  <2>11. Good(t \ {c})
    <3> HIDE DEF Good
    <3> QED
        BY <2>8, <2>9, <2>10
  <2>12. PICK x, y, u, v \in Int :
            x = p[t \ {c}] /\ y = q[t \ {c}] /\ u = f[c] /\ v = g[c]
      BY <1>3, <1>4, <1>5, <2>7, <2>8 DEF AddsUp
  <2>13. p[t] = u + x /\ q[t] = v + y
      BY <2>6, <2>12
  <2>14. CASE c = b
    <3>1. uint(y) = uint(x) /\ v = uint(u + 1)
      <4>1. x + 0 = x
          OBVIOUS
      <4> QED
          BY <1>2, <2>11, <2>12, <2>14, <4>1
    <3>2. uint(v + y) = uint((u + 1) + y)
        BY <3>1, UintProperties
    <3>3. uint((u + 1) + y) = uint((u + 1) + x)
      <4>1. /\ uint((u + 1) + y) = uint((u + 1) + uint(y))
            /\ uint((u + 1) + x) = uint((u + 1) + uint(x))
        <5>1. u + 1 \in Int
            OBVIOUS
        <5> QED
            BY <5>1, UintProperties
      <4> QED
          BY <4>1, <3>1
    <3>4. (u + 1) + x = (u + x) + 1
        OBVIOUS
    <3> QED
        BY <2>2, <2>7, <2>13, <2>14, <3>2, <3>3, <3>4
  <2>15. CASE c # b
    <3> DEFINE d == IF b \in t THEN 1 ELSE 0
    <3>1. d \in Int /\ (b \in t \ {c} <=> b \in t)
        BY <2>15
    <3>2. uint(y) = uint(x + d) /\ v = u
        BY <1>2, <2>7, <2>11, <2>12, <2>15
    <3> HIDE DEF d
    <3>3. uint(u + y) = uint(u + uint(y)) /\ uint(u + (x + d)) = uint(u + uint(x + d))
      <4>1. x + d \in Int
          BY <3>1
      <4> QED
          BY <4>1, UintProperties
    <3>4. u + (x + d) = (u + x) + d
        BY <3>1
    <3>5. uint(q[t]) = uint(p[t] + d)
        BY <2>13, <3>2, <3>3, <3>4
    <3> QED
        BY <2>2, <3>5 DEF d
  <2> QED
      BY <2>14, <2>15
<1>7. Cardinality(Bytes) \in Nat /\ Bytes \in SUBSET Bytes
    BY BytesAssumption, FS_CardinalityType
<1>8. Good(Bytes)
  <2> HIDE DEF Good
  <2> QED
      BY <1>6, <1>7
<1>9. uint(q[Bytes]) = uint(p[Bytes] + 1)
    BY <1>8
<1> QED
    BY <1>2, <1>4, <1>5, <1>9 DEF g

-----------------------------------------------------------------------------
(* One buffer, byte by byte *)

PerByte == [Bytes -> U32]
Counters == [size : U32, data_occ : PerByte, data_gap : PerByte]
Scans == [last_viewed : PerByte, max_gap : PerByte]
Hashing == [hash : Counters, scan : Scans]

\* What a byte b at position "at" makes of hs: it changes the counters of its own value.
Saw(hs, b, at, new) ==
    LET gap == uint(at - hs.scan.last_viewed[b])
        longer == LongerGap(gap, hs.scan.max_gap[b])
    IN  /\ new.hash.size = hs.hash.size
        /\ new.hash.data_occ = [hs.hash.data_occ EXCEPT ![b] = uint(@ + 1)]
        /\ new.scan.last_viewed = [hs.scan.last_viewed EXCEPT ![b] = at]
        /\ new.scan.max_gap = IF longer THEN [hs.scan.max_gap EXCEPT ![b] = gap]
                              ELSE hs.scan.max_gap
        /\ new.hash.data_gap = IF longer THEN [hs.hash.data_gap EXCEPT ![b] = at]
                               ELSE hs.hash.data_gap

LEMMA SeeByteIs ==
    ASSUME NEW hs \in Hashing, NEW b \in Bytes, NEW at \in U32
    PROVE  SeeByte(hs, b, at) \in Hashing /\ Saw(hs, b, at, SeeByte(hs, b, at))
<1> DEFINE gap == uint(at - hs.scan.last_viewed[b])
           h == hs.hash
           s == hs.scan
<1>1. h \in Counters /\ s \in Scans
    BY DEF Hashing
<1>2. /\ h.size \in U32 /\ h.data_occ \in PerByte /\ h.data_gap \in PerByte
      /\ s.last_viewed \in PerByte /\ s.max_gap \in PerByte
    BY <1>1 DEF Counters, Scans
<1>3. gap \in U32 /\ uint(h.data_occ[b] + 1) \in U32
  <2>1. at - s.last_viewed[b] \in Int /\ h.data_occ[b] + 1 \in Int
      BY <1>2, PowerIsPositive DEF U32, PerByte
  <2> QED
      BY <2>1, UintProperties
<1> DEFINE new == SeeByte(hs, b, at)
           occ == uint(h.data_occ[b] + 1)
           counted == [hs EXCEPT !.scan.last_viewed[b] = at, !.hash.data_occ[b] = occ]
           longest == [counted EXCEPT !.scan.max_gap[b] = gap, !.hash.data_gap[b] = at]
           longer == LongerGap(gap, s.max_gap[b])
<1>4. new = IF longer THEN longest ELSE counted
    BY DEF SeeByte
<1>5. /\ counted \in Hashing
      /\ counted.hash.size = h.size /\ counted.hash.data_occ = [h.data_occ EXCEPT ![b] = occ]
      /\ counted.hash.data_gap = h.data_gap /\ counted.scan.max_gap = s.max_gap
      /\ counted.scan.last_viewed = [s.last_viewed EXCEPT ![b] = at]
  <2>0. occ \in U32
      BY <1>3
  <2> HIDE DEF occ
  <2>1. counted \in Hashing
      BY <2>0 DEF Hashing, Counters, Scans, PerByte
  <2> QED
      BY <1>1, <1>2, <2>1 DEF Hashing, Counters, Scans
<1>6. /\ longest \in Hashing
      /\ longest.hash.size = counted.hash.size /\ longest.hash.data_occ = counted.hash.data_occ
      /\ longest.hash.data_gap = [h.data_gap EXCEPT ![b] = at]
      /\ longest.scan.max_gap = [s.max_gap EXCEPT ![b] = gap]
      /\ longest.scan.last_viewed = counted.scan.last_viewed
  <2> HIDE DEF counted, gap
  <2>1. longest \in Hashing
      BY <1>3, <1>5 DEF Hashing, Counters, Scans, PerByte
  <2>2. counted.hash \in Counters /\ counted.scan \in Scans
      BY <1>5 DEF Hashing
  <2>3. /\ longest.hash.size = counted.hash.size /\ longest.hash.data_occ = counted.hash.data_occ
        /\ longest.hash.data_gap = [counted.hash.data_gap EXCEPT ![b] = at]
        /\ longest.scan.max_gap = [counted.scan.max_gap EXCEPT ![b] = gap]
        /\ longest.scan.last_viewed = counted.scan.last_viewed
    <3> HIDE DEF h, s
    <3> QED
        BY <1>5, <2>2 DEF Hashing, Counters, Scans
  <2> HIDE DEF longest
  <2> QED
      BY <1>5, <2>1, <2>3
<1> HIDE DEF counted, longest, new
<1> QED
    BY <1>4, <1>5, <1>6 DEF new, Saw

LEMMA OtherBytesStay ==
    ASSUME NEW hs \in Hashing, NEW b \in Bytes, NEW at \in U32, NEW c \in Bytes, c # b,
           NEW new, Saw(hs, b, at, new)
    PROVE  /\ new.hash.data_occ[c] = hs.hash.data_occ[c]
           /\ new.hash.data_gap[c] = hs.hash.data_gap[c]
           /\ new.scan.last_viewed[c] = hs.scan.last_viewed[c]
           /\ new.scan.max_gap[c] = hs.scan.max_gap[c]
<1>1. /\ hs.hash.data_occ \in PerByte /\ hs.hash.data_gap \in PerByte
      /\ hs.scan.last_viewed \in PerByte /\ hs.scan.max_gap \in PerByte
    BY DEF Hashing, Counters, Scans
<1> QED
    BY <1>1 DEF PerByte, Saw

\* After k bytes of the buffer.
Follows(f, buffer, m) ==
    /\ \A k \in 0..m : f[k] \in Hashing
    /\ f[0] = [hash |-> hash, scan |-> scan]
    /\ \A k \in 1..m : f[k] = SeeByte(f[k - 1], buffer[k], uint(index + k - 1))

HashTyped == hash \in Counters /\ scan \in Scans /\ index \in U32

LEMMA HashSteps ==
    ASSUME HashTyped, NEW m \in Nat, NEW buffer \in [1..m -> Bytes]
    PROVE  \E f : Follows(f, buffer, m) /\ _update_hash(buffer) = f[m]
<1> DEFINE D == 1..m
           ids == [i \in DOMAIN buffer |-> i]
           base == [hash |-> hash, scan |-> scan]
           C == [s \in SUBSET D |-> CHOOSE x \in s : \A y \in s : x >= y]
           Turn(hs, i) == SeeByte(hs, buffer[i], uint(index + i - 1))
           G == [i \in D |-> [hs \in Hashing |-> Turn(hs, i)]]
<1>1. base \in Hashing
    BY DEF HashTyped, Hashing
<1>2. \A hs \in Hashing : \A i \in D : Turn(hs, i) \in Hashing
  <2> TAKE hs \in Hashing
  <2> TAKE i \in D
  <2>1. buffer[i] \in Bytes /\ index + i - 1 \in Int
      BY PowerIsPositive DEF HashTyped, U32
  <2>2. uint(index + i - 1) \in U32
      BY <2>1, UintProperties
  <2> QED
      BY <2>1, <2>2, SeeByteIs
<1>3. \A k \in 1..m : (CHOOSE x \in 1..k : \A y \in 1..k : x >= y) = k
  <2> TAKE k \in 1..m
  <2>1. k \in 1..k /\ \A y \in 1..k : k >= y
      OBVIOUS
  <2>2. ASSUME NEW x \in 1..k, \A y \in 1..k : x >= y PROVE x = k
      BY <2>1, <2>2
  <2> QED
      BY <2>1, <2>2
<1> DEFINE Rule(h) == h = [s \in SUBSET D |-> IF s = {} THEN base
                             ELSE Turn(h[s \ {CHOOSE x \in s : \A y \in s : x >= y}],
                                       ids[CHOOSE x \in s : \A y \in s : x >= y])]
<1>4. Chooses(C, D)
  <2> SUFFICES ASSUME NEW s \in SUBSET D, s # {} PROVE \E x \in s : \A y \in s : x >= y
      BY DEF Chooses
  <2> DEFINE T == { m - x : x \in s }
  <2>1. PICK k \in T : \A l \in T : k <= l
    <3>1. \A x \in s : m - x \in Nat
        OBVIOUS
    <3>2. T \in SUBSET Nat
        BY <3>1
    <3>3. T # {}
        OBVIOUS
    <3> HIDE DEF T
    <3> QED
        BY <3>2, <3>3, LeastNumber
  <2>2. PICK x \in s : k = m - x
      OBVIOUS
  <2>3. ASSUME NEW y \in s PROVE x >= y
    <3>1. k <= m - y
        BY <2>1
    <3> QED
        BY <2>2, <3>1
  <2> QED
      BY <2>3
<1>5. \E h : Rule(h)
  <2>1. IsFiniteSet(D)
      BY FS_Interval
  <2>2. Steps(G, D, Hashing)
    <3> HIDE DEF Turn
    <3> QED
        BY <1>2 DEF Steps
  <2>3. PICK g \in [SUBSET D -> Hashing] : Obeys(g, base, G, C, D)
    <3> HIDE DEF G, C, D, base
    <3> QED
        BY <1>1, <1>4, <2>1, <2>2, SetRecursion
  <2>4. ASSUME NEW s \in SUBSET D
        PROVE  g[s] = IF s = {} THEN base
                      ELSE Turn(g[s \ {CHOOSE x \in s : \A y \in s : x >= y}],
                                ids[CHOOSE x \in s : \A y \in s : x >= y])
    <3>1. CASE s = {}
        BY <2>3, <3>1 DEF Obeys
    <3>2. CASE s # {}
      <4>1. PICK c : c = CHOOSE x \in s : \A y \in s : x >= y
          OBVIOUS
      <4>2. C[s] = c
          BY <4>1
      <4>3. c \in s
        <5> HIDE DEF C
        <5> QED
            BY <1>4, <3>2, <4>2 DEF Chooses
      <4>4. c \in D /\ s \ {c} \in SUBSET D /\ ids[c] = c
          BY <4>3
      <4>5. g[s \ {c}] \in Hashing
          BY <4>4
      <4>6. G[c][g[s \ {c}]] = Turn(g[s \ {c}], c)
        <5> HIDE DEF Turn
        <5> QED
            BY <4>4, <4>5
      <4>7. g[s] = G[c][g[s \ {c}]]
        <5> HIDE DEF G, C
        <5> QED
            BY <2>3, <3>2, <4>2 DEF Obeys
      <4> HIDE DEF Turn, G, ids
      <4> QED
          BY <3>2, <4>1, <4>4, <4>6, <4>7
    <3> QED
        BY <3>1, <3>2
  <2>5. Rule(g)
    <3> HIDE DEF Turn, ids, base
    <3> QED
        BY <2>4
  <2> QED
    <3> HIDE DEF Rule
    <3> QED
        BY <2>5
<1> DEFINE h == CHOOSE h : Rule(h)
<1>6. Rule(h)
  <2> HIDE DEF Rule
  <2> QED
      BY <1>5
<1>7. _update_hash(buffer) = h[D]
    BY DEF _update_hash, FoldLeftDomain, FoldLeft, MapThenFoldSet, Max
<1> HIDE DEF h
<1> DEFINE f == [k \in 0..m |-> h[1..k]]
<1>8. f[0] = base
  <2>1. 1..0 = {} /\ 0 \in 0..m
      OBVIOUS
  <2>2. h[{}] = base
    <3>1. {} \in SUBSET D
        OBVIOUS
    <3> HIDE DEF Turn, ids, base, D
    <3> QED
        BY <1>6, <3>1
  <2> QED
      BY <2>1, <2>2
<1>9. ASSUME NEW k \in 1..m PROVE f[k] = Turn(f[k - 1], k)
  <2>1. k \in 0..m /\ k - 1 \in 0..m /\ 1..k \in SUBSET D /\ 1..k # {}
      OBVIOUS
  <2>2. PICK c : c = CHOOSE x \in 1..k : \A y \in 1..k : x >= y
      OBVIOUS
  <2>3. c = k /\ (1..k) \ {k} = 1..(k - 1)
      BY <1>3, <2>2
  <2>4. h[1..k] = Turn(h[(1..k) \ {c}], ids[c])
    <3> HIDE DEF Turn, ids, base, D
    <3> QED
        BY <1>6, <2>1, <2>2
  <2>5. ids[k] = k
      OBVIOUS
  <2>6. f[k] = h[1..k] /\ f[k - 1] = h[1..(k - 1)]
      BY <2>1
  <2> HIDE DEF f, Turn, ids
  <2> QED
      BY <2>3, <2>4, <2>5, <2>6
<1>10. \A k \in 0..m : f[k] \in Hashing
  <2> DEFINE T == { k \in 0..m : f[k] \notin Hashing }
  <2>1. ASSUME T # {} PROVE FALSE
    <3>1. PICK k \in T : \A l \in T : k <= l
      <4>1. T \in SUBSET Nat
          OBVIOUS
      <4> HIDE DEF T
      <4> QED
          BY <2>1, <4>1, LeastNumber
    <3> HIDE DEF f
    <3>2. k \in 0..m /\ f[k] \notin Hashing
        OBVIOUS
    <3>3. k # 0
        BY <1>1, <1>8, <3>2
    <3>4. k \in 1..m /\ k - 1 \in 0..m /\ ~(k <= k - 1)
        BY <3>2, <3>3
    <3>5. k - 1 \notin T
      <4> HIDE DEF T
      <4> QED
          BY <3>1, <3>4
    <3>6. f[k - 1] \in Hashing
        BY <3>4, <3>5
    <3> HIDE DEF T, Turn
    <3> QED
        BY <1>2, <1>9, <3>2, <3>4, <3>6
  <2> QED
      BY <2>1
<1>11. f[m] = h[D]
    OBVIOUS
<1>12. Follows(f, buffer, m)
  <2> HIDE DEF f
  <2> QED
      BY <1>8, <1>9, <1>10 DEF Follows
<1> HIDE DEF f
<1> QED
    BY <1>7, <1>11, <1>12

-----------------------------------------------------------------------------
(* The occurrences and gaps of one byte value *)

Earlier(P, p) == { q \in P : q < p }
Latest(P) == IF P = {} THEN 0 ELSE CHOOSE q \in P : \A r \in P : r <= q

\* How far back in P the element before p is: GapBefore, for any set of positions.
Gap(P, p) == p - Latest(Earlier(P, p))

LEMMA GapBeforeIsGap ==
    ASSUME NEW b, NEW p
    PROVE  GapBefore(b, p) = Gap(Positions(b), p)
BY DEF GapBefore, Gap, Earlier, Latest

\* A position behind all of P changes no gap of P.
LEMMA GapsStay ==
    ASSUME NEW P \in SUBSET Nat, NEW k \in Nat, \A q \in P : q < k, NEW p \in P
    PROVE  Gap(P \union {k}, p) = Gap(P, p)
<1>1. p \in Nat /\ ~(k < p)
    OBVIOUS
<1>2. \A q : q \in Earlier(P \union {k}, p) <=> q \in Earlier(P, p)
    BY <1>1 DEF Earlier
<1>3. Earlier(P \union {k}, p) = Earlier(P, p)
    BY <1>2
<1> QED
    BY <1>3 DEF Gap

LEMMA LatestIs ==
    ASSUME NEW P \in SUBSET Nat, NEW l \in P, \A q \in P : q <= l
    PROVE  Latest(P) = l
<1>1. ASSUME NEW q \in P, \A r \in P : r <= q PROVE q = l
  <2>1. q <= l /\ l <= q /\ q \in Nat /\ l \in Nat
      BY <1>1
  <2> QED
      BY <2>1
<1>2. P # {}
    OBVIOUS
<1> QED
    BY <1>1, <1>2 DEF Latest

LEMMA GapAtEnd ==
    ASSUME NEW P \in SUBSET Nat, NEW k \in Nat, \A q \in P : q < k
    PROVE  Gap(P \union {k}, k) = k - Latest(P)
<1>1. \A q : q \in Earlier(P \union {k}, k) <=> q \in P
  <2>1. ~(k < k)
      OBVIOUS
  <2>2. \A q : q \in P => q < k
      OBVIOUS
  <2> QED
      BY <2>1, <2>2, Zenon DEF Earlier
<1>2. Earlier(P \union {k}, k) = P
    BY <1>1
<1> QED
    BY <1>2 DEF Gap

\* The counters of b are those of a content in which b occurs at P.
ByteCounted(hs, b, P) ==
    /\ hs.hash.data_occ[b] = Cardinality(P)
    /\ P = {} => hs.scan.last_viewed[b] = 0 /\ hs.scan.max_gap[b] = 0 /\ hs.hash.data_gap[b] = 0
    /\ P # {} =>
          /\ hs.scan.last_viewed[b] \in P /\ \A q \in P : q <= hs.scan.last_viewed[b]
          /\ hs.hash.data_gap[b] \in P
          /\ hs.scan.max_gap[b] = Gap(P, hs.hash.data_gap[b])
          /\ \A q \in P : Gap(P, q) \in Int
          /\ \A q \in P : \/ Gap(P, q) < hs.scan.max_gap[b]
                          \/ Gap(P, q) = hs.scan.max_gap[b] /\ hs.hash.data_gap[b] <= q

\* As long as the counters do not wrap, seeing b at position k adds k to them.
LEMMA ByteCountedStep ==
    ASSUME NEW hs \in Hashing, NEW b \in Bytes, NEW k \in Nat, k < MAX_U32,
           NEW P \in SUBSET (0..(k - 1)), ByteCounted(hs, b, P)
    PROVE  ByteCounted(SeeByte(hs, b, k), b, P \union {k})
<1> DEFINE new == SeeByte(hs, b, k)
           last == hs.scan.last_viewed[b]
           long == hs.scan.max_gap[b]
           end == hs.hash.data_gap[b]
           Q == P \union {k}
<1>1. k \in U32 /\ k + 1 \in U32 /\ MAX_U32 \in Nat
    BY PowerIsPositive DEF U32
<1>2. last \in U32 /\ long \in U32 /\ end \in U32
    BY DEF Hashing, Counters, Scans, PerByte
<1> DEFINE gap == uint(k - last)
           longer == LongerGap(gap, long)
<1>3. /\ new \in Hashing
      /\ new.hash.data_occ[b] = uint(hs.hash.data_occ[b] + 1)
      /\ new.scan.last_viewed[b] = k
      /\ new.scan.max_gap[b] = IF longer THEN gap ELSE long
      /\ new.hash.data_gap[b] = IF longer THEN k ELSE end
  <2>1. /\ hs.hash.data_occ \in PerByte /\ hs.hash.data_gap \in PerByte
        /\ hs.scan.last_viewed \in PerByte /\ hs.scan.max_gap \in PerByte
      BY DEF Hashing, Counters, Scans
  <2>2. new \in Hashing /\ Saw(hs, b, k, new)
      BY <1>1, SeeByteIs
  <2> HIDE DEF new, gap, longer
  <2> QED
      BY <2>1, <2>2 DEF PerByte, Saw, gap, longer
<1> HIDE DEF new
<1>4. P \in SUBSET Nat /\ (\A q \in P : q < k) /\ k \notin P
    OBVIOUS
<1>5. Cardinality(P) \in 0..k /\ Cardinality(Q) = Cardinality(P) + 1
  <2>1. IsFiniteSet(0..(k - 1)) /\ Cardinality(0..(k - 1)) = k
    <3>1. 0 \in Int /\ k - 1 \in Int
        OBVIOUS
    <3>2. /\ IsFiniteSet(0..(k - 1))
          /\ Cardinality(0..(k - 1)) = IF 0 > k - 1 THEN 0 ELSE (k - 1) - 0 + 1
        BY <3>1, FS_Interval
    <3> QED
        BY <3>2
  <2>2. IsFiniteSet(P) /\ Cardinality(P) <= k
      BY <2>1, FS_Subset
  <2>3. Cardinality(P) \in Nat
      BY <2>2, FS_CardinalityType
  <2>4. Cardinality(P \union {k}) = IF k \in P THEN Cardinality(P) ELSE Cardinality(P) + 1
      BY <2>2, FS_AddElement
  <2> QED
      BY <1>4, <2>2, <2>3, <2>4
<1>6. new.hash.data_occ[b] = Cardinality(Q)
  <2>1. hs.hash.data_occ[b] = Cardinality(P)
      BY DEF ByteCounted
  <2>2. Cardinality(P) + 1 \in U32 /\ Cardinality(P) + 1 \in Int
      BY <1>1, <1>5 DEF U32
  <2>3. uint(Cardinality(P) + 1) = Cardinality(P) + 1
      BY <2>2, UintProperties
  <2> QED
      BY <1>3, <1>5, <2>1, <2>3
<1>7. last \in 0..k /\ gap = k - last
  <2>1. last \in 0..k
    <3>1. P = {} => last = 0
        BY DEF ByteCounted
    <3>2. P # {} => last \in P
        BY DEF ByteCounted
    <3>3. \A q \in P : q \in 0..k
        BY <1>4
    <3> HIDE DEF last
    <3>4. CASE P = {}
        BY <3>1, <3>4
    <3>5. CASE P # {}
        BY <3>2, <3>3, <3>5
    <3> QED
        BY <3>4, <3>5
  <2>2. k - last \in U32 /\ k - last \in Int
      BY <1>1, <2>1 DEF U32
  <2> QED
      BY <2>1, <2>2, UintProperties
<1> HIDE DEF last, long, end, gap
<1>8. Gap(Q, k) = gap
  <2>1. Gap(Q, k) = k - Latest(P)
      BY <1>4, GapAtEnd
  <2>2. CASE P = {}
    <3>1. last = 0
        BY <2>2 DEF ByteCounted, last
    <3> QED
        BY <1>7, <2>1, <2>2, <3>1 DEF Latest
  <2>3. CASE P # {}
    <3>1. last \in P /\ \A q \in P : q <= last
        BY <2>3 DEF ByteCounted, last
    <3>2. Latest(P) = last
        BY <1>4, <3>1, LatestIs
    <3> QED
        BY <1>7, <2>1, <3>2
  <2> QED
      BY <2>2, <2>3
<1>9. \A q \in P : Gap(Q, q) = Gap(P, q)
    BY <1>4, GapsStay
<1>10. /\ P = {} => long = 0 /\ end = 0 /\ last = 0
       /\ P # {} => /\ end \in P /\ long = Gap(P, end) /\ last \in P
                    /\ \A q \in P : Gap(P, q) \in Int
                    /\ \A q \in P : Gap(P, q) < long \/ (Gap(P, q) = long /\ end <= q)
    BY DEF ByteCounted, last, long, end
<1>11. long \in Int /\ gap \in Int
    BY <1>2, <1>7, PowerIsPositive DEF U32
<1> DEFINE long2 == IF longer THEN gap ELSE long
           end2 == IF longer THEN k ELSE end
<1>12. end2 \in Q /\ long2 = Gap(Q, end2)
  <2>1. CASE P = {}
    <3>1. gap = k /\ end = 0 /\ long = 0
        BY <1>7, <1>10, <2>1
    <3>2. longer <=> 0 < k
        BY <3>1 DEF LongerGap
    <3>3. CASE longer
        BY <1>8, <3>3
    <3>4. CASE ~longer
      <4>1. k = 0
          BY <3>2, <3>4
      <4> QED
          BY <1>8, <3>1, <3>4, <4>1
    <3> QED
        BY <3>3, <3>4
  <2>2. CASE P # {}
    <3>1. end \in P /\ long = Gap(P, end) /\ Gap(Q, end) = Gap(P, end)
        BY <1>9, <1>10, <2>2
    <3> QED
        BY <1>8, <3>1
  <2> QED
      BY <2>1, <2>2
<1>13. ASSUME NEW q \in Q
       PROVE  /\ Gap(Q, q) \in Int
              /\ Gap(Q, q) < long2 \/ (Gap(Q, q) = long2 /\ end2 <= q)
  <2>0. longer <=> long < gap
      BY DEF LongerGap
  <2>1. q \in P \/ q = k
      OBVIOUS
  <2> HIDE DEF longer, Q
  <2>2. CASE q \in P
    <3>1. /\ P # {} /\ end \in P /\ Gap(Q, q) \in Int
          /\ Gap(Q, q) < long \/ (Gap(Q, q) = long /\ end <= q)
        BY <1>9, <1>10, <2>2
    <3>2. long \in Int /\ gap \in Int
        BY <1>11
    <3>3. PICK g \in Int : g = Gap(Q, q)
        BY <3>1
    <3>4. CASE longer
        BY <2>0, <3>1, <3>2, <3>3, <3>4
    <3>5. CASE ~longer
        BY <3>1, <3>5
    <3> QED
        BY <3>1, <3>4, <3>5
  <2>3. CASE q = k
    <3>1. Gap(Q, q) = gap /\ gap \in Int /\ long \in Int
        BY <1>8, <1>11, <2>3
    <3>2. end \in Int /\ end <= k
      <4>1. P = {} => end = 0
          BY <1>10
      <4>2. P # {} => end \in P
          BY <1>10
      <4>3. \A p \in P : p \in Int /\ p <= k
          BY <1>4
      <4>4. CASE P = {}
          BY <4>1, <4>4
      <4>5. CASE P # {}
          BY <4>2, <4>3, <4>5
      <4> QED
          BY <4>4, <4>5
    <3>3. CASE longer
        BY <2>3, <3>1, <3>3
    <3>4. CASE ~longer
      <4>1. ~(long < gap)
          BY <2>0, <3>4
      <4>2. gap < long \/ gap = long
          BY <3>1, <4>1
      <4> QED
          BY <2>3, <3>1, <3>2, <3>4, <4>2
    <3> QED
        BY <3>1, <3>3, <3>4
  <2> QED
      BY <2>1, <2>2, <2>3
<1>14. Q # {} /\ k \in Q /\ \A q \in Q : q <= k
    BY <1>4
<1> HIDE DEF Q
<1>15. /\ new.scan.max_gap[b] = long2 /\ new.hash.data_gap[b] = end2
       /\ new.scan.last_viewed[b] = k /\ new.hash.data_occ[b] = Cardinality(Q)
    BY <1>3, <1>6
<1> HIDE DEF long2, end2
<1>16. ByteCounted(new, b, Q)
    BY <1>12, <1>13, <1>14, <1>15 DEF ByteCounted
<1> QED
    BY <1>16 DEF new, Q

-----------------------------------------------------------------------------
(* A whole buffer *)

State == [hash |-> hash, scan |-> scan]

\* The counters add up after each byte.
LEMMA SumFollows ==
    ASSUME HashTyped, uint(Total(hash.data_occ)) = hash.size,
           NEW m \in Nat, NEW buffer \in [1..m -> Bytes], NEW f, Follows(f, buffer, m),
           NEW k \in 0..m
    PROVE  f[k].hash.size = hash.size /\ uint(Total(f[k].hash.data_occ)) = uint(hash.size + k)
<1> DEFINE Good(l) == /\ f[l].hash.size = hash.size
                      /\ uint(Total(f[l].hash.data_occ)) = uint(hash.size + l)
           T == { l \in 0..m : ~Good(l) }
<1>1. hash.size \in U32 /\ U32 \subseteq Int
    BY PowerIsPositive DEF HashTyped, Counters, U32
<1>2. ASSUME T # {} PROVE FALSE
  <2>1. PICK l \in T : \A q \in T : l <= q
    <3>1. T \in SUBSET Nat
        OBVIOUS
    <3> HIDE DEF T
    <3> QED
        BY <1>2, <3>1, LeastNumber
  <2>2. l \in 0..m /\ ~Good(l)
      OBVIOUS
  <2>3. l # 0
    <3>1. f[0].hash = hash
        BY DEF Follows
    <3>2. uint(hash.size + 0) = uint(Total(hash.data_occ))
      <4>1. PICK s \in Int : s = hash.size /\ s \in U32
          BY <1>1
      <4>2. s + 0 = s /\ uint(s) = s
          BY <4>1, UintOfSmall
      <4> QED
          BY <4>1, <4>2
    <3>3. Good(0)
        BY <3>1, <3>2
    <3> HIDE DEF Good
    <3> QED
        BY <2>2, <3>3
  <2>4. l \in 1..m /\ l - 1 \in 0..m /\ ~(l <= l - 1)
      BY <2>2, <2>3
  <2>5. l - 1 \notin T
    <3> HIDE DEF T
    <3> QED
        BY <2>1, <2>4
  <2>6. Good(l - 1)
    <3> HIDE DEF Good
    <3> QED
        BY <2>4, <2>5
  <2> DEFINE b == buffer[l]
             at == uint(index + l - 1)
  <2>7. f[l - 1] \in Hashing /\ b \in Bytes /\ at \in U32 /\ f[l] = SeeByte(f[l - 1], b, at)
    <3>1. index + l - 1 \in Int
      <4>1. index \in Int
          BY <1>1 DEF HashTyped
      <4> QED
          BY <2>4, <4>1
    <3>2. at \in U32
        BY <3>1, UintProperties
    <3> QED
        BY <2>4, <3>2 DEF Follows
  <2> HIDE DEF b, at
  <2>8. /\ f[l].hash.size = f[l - 1].hash.size
        /\ f[l].hash.data_occ = [f[l - 1].hash.data_occ EXCEPT ![b] = uint(@ + 1)]
    <3>1. Saw(f[l - 1], b, at, f[l])
        BY <2>7, SeeByteIs
    <3> QED
        BY <3>1 DEF Saw
  <2>9. f[l - 1].hash.data_occ \in [Bytes -> U32]
      BY <2>7 DEF Hashing, Counters, PerByte
  <2>10. uint(Total(f[l].hash.data_occ)) = uint(Total(f[l - 1].hash.data_occ) + 1)
      BY <2>7, <2>8, <2>9, SumGrows
  <2>11. Total(f[l - 1].hash.data_occ) \in Int
    <3>1. f[l - 1].hash.data_occ \in [Bytes -> Int]
        BY <1>1, <2>9
    <3> QED
        BY <3>1, SumIsInt
  <2>12. PICK t, s \in Int : t = Total(f[l - 1].hash.data_occ) /\ s = hash.size
      BY <1>1, <2>11
  <2>13. uint(t) = uint(s + (l - 1))
      BY <2>6, <2>12
  <2>14. uint(t + 1) = uint(s + l)
    <3>1. s + (l - 1) \in Int /\ (s + (l - 1)) + 1 = s + l
        BY <2>4
    <3>2. uint(t + 1) = uint(uint(t) + 1)
        BY UintProperties
    <3>3. uint((s + (l - 1)) + 1) = uint(uint(s + (l - 1)) + 1)
        BY <3>1, UintProperties
    <3> QED
        BY <2>13, <3>1, <3>2, <3>3
  <2>15. Good(l)
      BY <2>6, <2>8, <2>10, <2>12, <2>14
  <2> QED
      BY <2>2, <2>15
<1> QED
    BY <1>2

\* The positions of b among the first k bytes of c.
Seen(c, k, b) == { p \in 0..(k - 1) : c[p + 1] = b }

\* As long as the content fits, the counters are those of the bytes seen.
LEMMA CountsFollow ==
    ASSUME HashTyped, NEW N \in Nat, index = N, NEW c,
           \A b \in Bytes : ByteCounted(State, b, Seen(c, N, b)),
           NEW m \in Nat, NEW buffer \in [1..m -> Bytes], NEW f, Follows(f, buffer, m),
           \A k \in 1..m : c[N + k] = buffer[k], N + m <= MAX_U32,
           NEW k \in 0..m
    PROVE  \A b \in Bytes : ByteCounted(f[k], b, Seen(c, N + k, b))
<1> DEFINE Good(l) == \A b \in Bytes : ByteCounted(f[l], b, Seen(c, N + l, b))
           T == { l \in 0..m : ~Good(l) }
<1>1. ASSUME T # {} PROVE FALSE
  <2>1. PICK l \in T : \A q \in T : l <= q
    <3>1. T \in SUBSET Nat
        OBVIOUS
    <3> HIDE DEF T
    <3> QED
        BY <1>1, <3>1, LeastNumber
  <2>2. l \in 0..m /\ ~Good(l)
      OBVIOUS
  <2>3. l # 0
    <3>1. f[0] = State /\ N + 0 = N
        BY DEF Follows, State
    <3>2. Good(0)
        BY <3>1
    <3> HIDE DEF Good
    <3> QED
        BY <2>2, <3>2
  <2>4. l \in 1..m /\ l - 1 \in 0..m /\ ~(l <= l - 1)
      BY <2>2, <2>3
  <2>5. l - 1 \notin T
    <3> HIDE DEF T
    <3> QED
        BY <2>1, <2>4
  <2>6. Good(l - 1)
    <3> HIDE DEF Good
    <3> QED
        BY <2>4, <2>5
  <2>7. PICK pos \in Nat : pos = N + (l - 1)
      BY <2>4
  <2>8. N + l = pos + 1 /\ pos < MAX_U32
      BY <2>4, <2>7, PowerIsPositive
  <2>9. uint(index + l - 1) = pos
    <3>1. index + l - 1 = pos /\ pos \in U32 /\ pos \in Int
        BY <2>4, <2>7, <2>8, PowerIsPositive DEF U32
    <3> QED
        BY <3>1, UintProperties
  <2>10. /\ f[l - 1] \in Hashing /\ buffer[l] \in Bytes /\ pos \in U32
         /\ f[l] = SeeByte(f[l - 1], buffer[l], pos) /\ c[pos + 1] = buffer[l]
      BY <2>4, <2>7, <2>8, <2>9, PowerIsPositive DEF Follows, U32
  <2>11. ASSUME NEW b \in Bytes PROVE ByteCounted(f[l], b, Seen(c, pos + 1, b))
    <3>1. ByteCounted(f[l - 1], b, Seen(c, pos, b))
        BY <2>6, <2>7
    <3>2. Seen(c, pos, b) \in SUBSET (0..(pos - 1))
        BY DEF Seen
    <3>3. CASE b = buffer[l]
      <4>1. \A p : p \in Seen(c, pos + 1, b) <=> p \in Seen(c, pos, b) \/ p = pos
          BY <2>10, <3>3 DEF Seen
      <4>2. Seen(c, pos + 1, b) = Seen(c, pos, b) \union {pos}
          BY <4>1, SMTT(30)
      <4> QED
          BY <2>8, <2>10, <3>1, <3>2, <3>3, <4>2, ByteCountedStep
    <3>4. CASE b # buffer[l]
      <4>1. \A p : p \in Seen(c, pos + 1, b) <=> p \in Seen(c, pos, b)
          BY <2>10, <3>4 DEF Seen
      <4>2. Seen(c, pos + 1, b) = Seen(c, pos, b)
          BY <4>1
      <4>3. /\ f[l].hash.data_occ[b] = f[l - 1].hash.data_occ[b]
            /\ f[l].hash.data_gap[b] = f[l - 1].hash.data_gap[b]
            /\ f[l].scan.last_viewed[b] = f[l - 1].scan.last_viewed[b]
            /\ f[l].scan.max_gap[b] = f[l - 1].scan.max_gap[b]
        <5>0. PICK new : new = f[l]
            OBVIOUS
        <5>1. PICK hs \in Hashing, a \in Bytes : hs = f[l - 1] /\ a = buffer[l] /\ new = f[l]
            BY <2>10, <5>0
        <5>2. Saw(hs, a, pos, new)
            BY <2>10, <5>1, SeeByteIs
        <5>3. pos \in U32 /\ b # a
            BY <2>10, <3>4, <5>1
        <5>4. /\ new.hash.data_occ[b] = hs.hash.data_occ[b]
              /\ new.hash.data_gap[b] = hs.hash.data_gap[b]
              /\ new.scan.last_viewed[b] = hs.scan.last_viewed[b]
              /\ new.scan.max_gap[b] = hs.scan.max_gap[b]
            BY <5>2, <5>3, OtherBytesStay
        <5> QED
            BY <5>1, <5>4
      <4> QED
          BY <3>1, <4>2, <4>3 DEF ByteCounted
    <3> QED
        BY <3>3, <3>4
  <2>12. Good(l)
      BY <2>8, <2>11
  <2> HIDE DEF Good
  <2> QED
      BY <2>2, <2>12
<1> HIDE DEF Good
<1>2. Good(k)
    BY <1>1
<1> QED
    BY <1>2 DEF Good

-----------------------------------------------------------------------------
(* The hash *)

\* HashIsIntegral and HashMatchesContent say nothing of the variables between two buffers.
HashInv ==
    /\ HashTyped /\ content \in Seq(Bytes) /\ index = uint(Len(content))
    /\ uint(Total(hash.data_occ)) = hash.size
    /\ Len(content) <= MAX_U32 => \A b \in Bytes : ByteCounted(State, b, Positions(b))

LEMMA JoinedAt ==
    ASSUME NEW s \in Seq(Bytes), NEW t \in Seq(Bytes), NEW u, u = s \o t
    PROVE  /\ u \in Seq(Bytes) /\ Len(u) = Len(s) + Len(t)
           /\ \A k \in 1..Len(s) : u[k] = s[k]
           /\ \A k \in 1..Len(t) : u[Len(s) + k] = t[k]
OBVIOUS

LEMMA InitHashInv == Init => HashInv
<1> SUFFICES ASSUME Init PROVE HashInv
    OBVIOUS
<1>1. 0 \in U32 /\ uint(0) = 0
    BY PowerIsPositive, UintOfSmall DEF U32
<1>2. Zero \in PerByte /\ \A b \in Bytes : Zero[b] = 0
    BY <1>1 DEF Zero, PerByte
<1>3. HashTyped
    BY <1>1, <1>2 DEF Init, HashTyped, Counters, Scans
<1>4. content \in Seq(Bytes) /\ Len(content) = 0 /\ index = uint(Len(content))
    BY <1>1 DEF Init
<1>5. hash.size = 0 /\ hash.data_occ = Zero /\ hash.data_gap = Zero
    BY DEF Init
<1>6. scan.last_viewed = Zero /\ scan.max_gap = Zero
    BY DEF Init
<1>7. uint(Total(hash.data_occ)) = hash.size
    BY <1>1, <1>5, SumOfZero
<1>8. ASSUME NEW b \in Bytes PROVE ByteCounted(State, b, Positions(b))
  <2>1. Positions(b) = {}
      BY <1>4 DEF Positions
  <2>2. Cardinality(Positions(b)) = 0
      BY <2>1, FS_EmptySet
  <2> QED
      BY <1>2, <1>5, <1>6, <2>1, <2>2 DEF ByteCounted, State
<1> QED
    BY <1>3, <1>4, <1>7, <1>8 DEF HashInv

\* 32-bit numbers are never larger than the largest: the guard does not look ahead.
LEMMA AlwaysFits ==
    ASSUME NEW x \in Int, NEW m \in Int PROVE Fits(x, m)
<1>1. x + m \in Int /\ MAX_U32 \in Nat
    BY PowerIsPositive
<1>2. uint(x + m) \in U32
    BY <1>1, UintProperties
<1> QED
    BY <1>1, <1>2 DEF Fits, U32

LEMMA PositionsAreSeen ==
    ASSUME NEW b PROVE Positions(b) = Seen(content, Len(content), b)
BY DEF Positions, Seen

LEMMA HashInvStep == HashInv /\ [Next]_vars => HashInv'
<1> SUFFICES ASSUME HashInv, [Next]_vars PROVE HashInv'
    OBVIOUS
<1>1. CASE UNCHANGED vars
  <2>1. hash' = hash /\ scan' = scan /\ index' = index /\ content' = content
      BY <1>1 DEF vars
  <2>2. State' = State /\ \A b : Positions(b)' = Positions(b)
      BY <2>1 DEF State, Positions
  <2>3. HashTyped'
      BY <2>1 DEF HashInv, HashTyped
  <2>4. ASSUME Len(content') <= MAX_U32, NEW b \in Bytes
        PROVE  ByteCounted(State, b, Positions(b))'
    <3>1. ByteCounted(State, b, Positions(b))
        BY <2>1, <2>4 DEF HashInv
    <3> QED
        BY <2>2, <3>1 DEF ByteCounted
  <2> QED
      BY <2>1, <2>3, <2>4 DEF HashInv
<1>2. CASE ReadBuffer
  <2>1. PICK m \in 0..BUFFER_SIZE : \E buffer \in [1..m -> Bytes] :
          LET fits == Fits(hash.size, m)
              hs == IF fits THEN _update_hash(buffer) ELSE [hash |-> hash, scan |-> scan]
          IN  /\ hash' = [hs.hash EXCEPT !.size = Advance(@, m)]
              /\ scan' = hs.scan
              /\ index' = Advance(index, m)
              /\ content' = content \o buffer
      BY <1>2 DEF ReadBuffer
  <2>2. PICK buffer \in [1..m -> Bytes] :
          LET fits == Fits(hash.size, m)
              hs == IF fits THEN _update_hash(buffer) ELSE [hash |-> hash, scan |-> scan]
          IN  /\ hash' = [hs.hash EXCEPT !.size = Advance(@, m)]
              /\ scan' = hs.scan
              /\ index' = Advance(index, m)
              /\ content' = content \o buffer
      BY <2>1
  <2>3. m \in Nat /\ hash.size \in Int /\ index \in Int /\ HashTyped /\ content \in Seq(Bytes)
    <3>1. BUFFER_SIZE \in Nat
        BY WidthAssumption
    <3>2. U32 \subseteq Int
        BY PowerIsPositive DEF U32
    <3>3. m \in Nat
        BY <3>1
    <3>4. HashTyped /\ content \in Seq(Bytes)
        BY DEF HashInv
    <3>5. hash.size \in Int /\ index \in Int
        BY <3>2, <3>4 DEF HashTyped, Counters
    <3> QED
        BY <3>3, <3>4, <3>5
  <2>4. Fits(hash.size, m)
      BY <2>3, AlwaysFits
  <2>5. PICK f : Follows(f, buffer, m) /\ _update_hash(buffer) = f[m]
      BY <2>3, HashSteps
  <2>6. PICK hs : hs = f[m] /\ hs \in Hashing
      BY <2>3, <2>5 DEF Follows
  <2>7. /\ hash' = [hs.hash EXCEPT !.size = uint(@ + m)] /\ scan' = hs.scan
        /\ index' = uint(index + m) /\ content' = content \o buffer
      BY <2>2, <2>4, <2>5, <2>6 DEF Advance
  <2>8. hs.hash \in Counters /\ hs.scan \in Scans
      BY <2>6 DEF Hashing
  <2>9. hs.hash.size = hash.size /\ uint(Total(hs.hash.data_occ)) = uint(hash.size + m)
    <3>1. m \in 0..m /\ uint(Total(hash.data_occ)) = hash.size
        BY <2>3 DEF HashInv
    <3> QED
        BY <2>3, <2>5, <2>6, <3>1, SumFollows
  <2>10. uint(hs.hash.size + m) \in U32 /\ uint(index + m) \in U32
    <3>1. hs.hash.size + m \in Int /\ index + m \in Int
        BY <2>3, <2>9
    <3> QED
        BY <3>1, UintProperties
  <2>11. /\ hash' \in Counters /\ hash'.size = uint(hash.size + m)
         /\ hash'.data_occ = hs.hash.data_occ /\ hash'.data_gap = hs.hash.data_gap
    <3>1. PICK z \in U32 : z = uint(hs.hash.size + m)
        BY <2>10
    <3>2. hash' = [hs.hash EXCEPT !.size = z]
        BY <2>7, <3>1
    <3> QED
        BY <2>8, <2>9, <3>1, <3>2 DEF Counters
  <2>12. HashTyped'
      BY <2>7, <2>8, <2>10, <2>11 DEF HashTyped
  <2>13. uint(Total(hash'.data_occ)) = hash'.size
      BY <2>9, <2>11
  <2>14. buffer \in Seq(Bytes) /\ Len(buffer) = m
      BY <2>3
  <2>15. /\ content' \in Seq(Bytes) /\ Len(content') = Len(content) + m
         /\ \A p \in 1..Len(content) : content'[p] = content[p]
         /\ \A k \in 1..m : content'[Len(content) + k] = buffer[k]
    <3>1. PICK u : u = content'
        OBVIOUS
    <3>2. content \in Seq(Bytes)
        BY <2>3
    <3>3. buffer \in Seq(Bytes)
        BY <2>14
    <3>4. u = content \o buffer
        BY <2>7, <3>1
    <3>5. /\ u \in Seq(Bytes) /\ Len(u) = Len(content) + Len(buffer)
          /\ \A k \in 1..Len(content) : u[k] = content[k]
          /\ \A k \in 1..Len(buffer) : u[Len(content) + k] = buffer[k]
        BY <3>2, <3>3, <3>4, JoinedAt
    <3> QED
        BY <2>14, <3>1, <3>5
  <2>16. PICK N \in Nat : N = Len(content)
      BY <2>3
  <2>17. index' = uint(Len(content'))
    <3>1. index = uint(N)
        BY <2>16 DEF HashInv
    <3>2. uint(uint(N) + m) = uint(N + m)
        BY <2>3, UintProperties
    <3> QED
        BY <2>7, <2>15, <2>16, <3>1, <3>2
  <2>18. ASSUME N + m <= MAX_U32 PROVE \A b \in Bytes : ByteCounted(State, b, Positions(b))'
    <3>1. N \in U32 /\ N <= MAX_U32
        BY <2>3, <2>18, PowerIsPositive DEF U32
    <3>2. index = N
        BY <2>16, <3>1, UintOfSmall DEF HashInv
    <3>3. ASSUME NEW b \in Bytes PROVE ByteCounted(State, b, Seen(content', N, b))
      <4>1. \A p : p \in Seen(content', N, b) <=> p \in Seen(content, N, b)
          BY <2>15, <2>16 DEF Seen
      <4>2. Seen(content', N, b) = Positions(b)
          BY <2>16, <4>1, PositionsAreSeen
      <4> QED
          BY <2>16, <3>1, <4>2 DEF HashInv
    <3>4. \A b \in Bytes : ByteCounted(hs, b, Seen(content', N + m, b))
      <4>1. m \in 0..m
          BY <2>3
      <4>2. \A k \in 1..m : content'[N + k] = buffer[k]
          BY <2>15, <2>16
      <4>3. HashTyped
          BY <2>3
      <4>4. Follows(f, buffer, m)
          BY <2>5
      <4> QED
          BY <2>3, <2>6, <2>18, <3>2, <3>3, <4>1, <4>2, <4>3, <4>4, CountsFollow
    <3>5. ASSUME NEW b \in Bytes PROVE ByteCounted(State, b, Positions(b))'
      <4>1. Positions(b)' = Seen(content', N + m, b)
          BY <2>15, <2>16 DEF Positions, Seen
      <4>2. /\ State'.hash.data_occ = hs.hash.data_occ /\ State'.hash.data_gap = hs.hash.data_gap
            /\ State'.scan = hs.scan
          BY <2>7, <2>11 DEF State
      <4> QED
          BY <3>4, <4>1, <4>2 DEF ByteCounted
    <3> QED
        BY <3>5
  <2> QED
      BY <2>12, <2>13, <2>15, <2>16, <2>17, <2>18 DEF HashInv
<1> QED
    BY <1>1, <1>2 DEF Next

(* Every hash that cmp_create_hash or cmp_create_hash_from_url computes    *)
(* passes check_hash_integrity, however the content is cut into buffers    *)
(* and however often its counters wrap (cmp_hash.c:27, 65, 111, 165-175).  *)
THEOREM HashesAreIntegral == Spec => []HashIsIntegral
<1>1. HashInv => HashIsIntegral
    BY DEF HashInv, HashIsIntegral, Total
<1> QED
    BY <1>1, InitHashInv, HashInvStep, PTL DEF Spec

(* The hash of a content that fits into the counters is a function of the  *)
(* content, whatever the sizes of the buffers it came in                   *)
(* (cmp_hash.c:13-30, 57-67, 99-119).                                      *)
THEOREM HashesMatchTheirContent == Spec => []HashMatchesContent
<1>1. HashInv => HashMatchesContent
  <2> SUFFICES ASSUME HashInv, Len(content) <= MAX_U32, NEW b \in Bytes
               PROVE  /\ hash.data_occ[b] = Cardinality(Positions(b))
                      /\ \/ IsEndOfLongestGap(b, hash.data_gap[b])
                         \/ Positions(b) = {} /\ hash.data_gap[b] = 0
      BY DEF HashMatchesContent
  <2>1. ByteCounted(State, b, Positions(b)) /\ State.hash = hash
      BY DEF HashInv, State
  <2>2. CASE Positions(b) = {}
      BY <2>1, <2>2 DEF ByteCounted
  <2>3. CASE Positions(b) # {}
    <3>1. hash.data_gap[b] \in Positions(b)
        BY <2>1, <2>3 DEF ByteCounted
    <3>2. \A q \in Positions(b) :
             \/ Gap(Positions(b), q) < Gap(Positions(b), hash.data_gap[b])
             \/ Gap(Positions(b), q) = Gap(Positions(b), hash.data_gap[b]) /\ hash.data_gap[b] <= q
        BY <2>1, <2>3 DEF ByteCounted
    <3>3. IsEndOfLongestGap(b, hash.data_gap[b])
        BY <3>1, <3>2, GapBeforeIsGap DEF IsEndOfLongestGap
    <3> QED
        BY <2>1, <3>3 DEF ByteCounted
  <2> QED
      BY <2>2, <2>3
<1> QED
    BY <1>1, InitHashInv, HashInvStep, PTL DEF Spec

=============================================================================
