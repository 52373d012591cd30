--------------------------- MODULE BodyReader_proofs ---------------------------
(***************************************************************************)
(* The reader of bodies, for every body, every way of cutting it and every *)
(* size of the buffer: its types, the static array of get_chunk_size, and  *)
(* that the caller gets the content and nothing but the content.           *)
(* The invariant says where the reader is in what the server sent: of the  *)
(* bytes ahead of it, those that never come included, it knows that they   *)
(* begin within a content (InContent), at the line ends between a content  *)
(* and a size (BetweenChunks), or in a size of which the array holds the   *)
(* first part (InSize), and which content is still in them.                *)
(***************************************************************************)
EXTENDS BodyReader, SequenceTheorems, WellFoundedInduction, TLAPS

-----------------------------------------------------------------------------
(* Functions defined by recursion *)

\* A non-empty set of naturals has a least element.
LEMMA LeastOf ==
    ASSUME NEW T \in SUBSET Nat, T # {}
    PROVE  \E m \in T : \A n \in T : m <= n
<1>1. IsWellFoundedOn(OpToRel(<, Nat), Nat)
    BY NatLessThanWellFounded
<1>2. PICK m \in T : \A n \in T : ~(<< n, m >> \in OpToRel(<, Nat))
    BY <1>1, WFMin
<1>3. \A n \in T : ~(n < m)
    BY <1>2 DEF OpToRel
<1> QED
    BY <1>3

\* H[i] makes one more element of S out of one; f is what comes of it, from x on.
StaysIn(S, N, H) == \A i \in 1..N : \A y \in S : H[i][y] \in S
StartsAt(x, S, N, H, f) == /\ \A i \in 0..N : f[i] \in S
                           /\ f[0] = x /\ \A i \in 1..N : f[i] = H[i][f[i - 1]]

LEMMA RecursionExists ==
    ASSUME NEW S, NEW x \in S, NEW N \in Nat, NEW H, StaysIn(S, N, H)
    PROVE  \E f : StartsAt(x, S, N, H, f)
<1> DEFINE Goes(n) == \E f : StartsAt(x, S, n, H, f)
           T == { n \in 0..N : ~Goes(n) }
<1>1. SUFFICES ASSUME T # {} PROVE FALSE
  <2>1. ASSUME T = {} PROVE Goes(N)
    <3>1. N \in 0..N
        OBVIOUS
    <3> QED
        BY <2>1, <3>1
  <2> QED
      BY <2>1
<1>2. PICK m \in T : \A n \in T : m <= n
  <2>1. T \in SUBSET Nat
      OBVIOUS
  <2> HIDE DEF T
  <2> QED
      BY <1>1, <2>1, LeastOf
<1>3. m \in 0..N /\ ~Goes(m)
    OBVIOUS
<1>4. CASE m = 0
  <2> DEFINE f == [i \in 0..0 |-> x]
  <2>1. (\A i \in 0..0 : f[i] \in S) /\ f[0] = x /\ \A i \in 1..0 : f[i] = H[i][f[i - 1]]
      OBVIOUS
  <2>2. Goes(0)
    <3>1. StartsAt(x, S, 0, H, f)
      <4> HIDE DEF f
      <4> QED
          BY <2>1 DEF StartsAt
    <3> QED
        BY <3>1
  <2> QED
      BY <1>3, <1>4, <2>2
<1>5. CASE m # 0
  <2>1. m - 1 \in 0..N /\ m - 1 < m /\ m \in 1..N
      BY <1>3, <1>5
  <2>2. m - 1 \notin T
    <3>1. ~(m <= m - 1)
        BY <2>1
    <3> HIDE DEF T
    <3> QED
        BY <1>2, <3>1
  <2>3. Goes(m - 1)
      BY <2>1, <2>2
  <2>3a. PICK g : StartsAt(x, S, m - 1, H, g)
      BY <2>3
  <2>4. /\ \A i \in 0..(m - 1) : g[i] \in S
        /\ g[0] = x /\ \A i \in 1..(m - 1) : g[i] = H[i][g[i - 1]]
      BY <2>3a DEF StartsAt
  <2> DEFINE f == [i \in 0..m |-> IF i = m THEN H[m][g[m - 1]] ELSE g[i]]
  <2>5. g[m - 1] \in S
      BY <2>1, <2>4
  <2>7. H[m][g[m - 1]] \in S
      BY <2>1, <2>5 DEF StaysIn
  <2>8. ASSUME NEW i \in 0..m, i # m PROVE i \in 0..(m - 1) /\ g[i] \in S /\ f[i] = g[i]
    <3>1. i \in 0..(m - 1)
        BY <2>1, <2>8
    <3> QED
        BY <3>1, <2>4, <2>8
  <2>9. \A i \in 0..m : f[i] \in S
      BY <2>7, <2>8
  <2>10. f[0] = x
      BY <2>1, <2>4, <2>8, <1>5
  <2>11. ASSUME NEW i \in 1..m PROVE f[i] = H[i][f[i - 1]]
    <3>1. i - 1 \in 0..m /\ i - 1 # m /\ i \in 0..m
        BY <2>1
    <3>2. f[i - 1] = g[i - 1]
        BY <3>1, <2>8
    <3>3. CASE i = m
        BY <3>2, <3>3, <3>1
    <3>4. CASE i # m
      <4>1. f[i] = g[i] /\ i \in 1..(m - 1)
          BY <2>1, <2>8, <3>1, <3>4
      <4> QED
          BY <4>1, <3>2, <2>4
    <3> QED
        BY <3>3, <3>4
  <2>12. Goes(m)
    <3> HIDE DEF f
    <3>1. StartsAt(x, S, m, H, f)
        BY <2>9, <2>10, <2>11 DEF StartsAt
    <3> QED
        BY <3>1
  <2> QED
      BY <1>3, <2>12
<1> QED
    BY <1>4, <1>5

-----------------------------------------------------------------------------
(* Texts of digits *)

\* FlattenSeq is the last of the sequences it builds from the first one on.
LEMMA FlattenSteps ==
    ASSUME NEW B, NEW s \in Seq(Seq(B)), s # << >>
    PROVE  \E f :
              /\ \A i \in 1..Len(s) : f[i] \in Seq(B)
              /\ FlattenSeq(s) = f[Len(s)] /\ f[1] = s[1]
              /\ \A i \in 2..Len(s) : f[i] = f[i - 1] \o s[i]
<1> DEFINE count == Len(s)
           Texts == Seq(B)
           Longer == [i \in 1..count |-> [x \in Texts |-> IF i = 1 THEN s[1] ELSE x \o s[i]]]
           Rule(f) == f = [i \in 1..count |-> IF i = 1 THEN s[i] ELSE f[i - 1] \o s[i]]
<1>1. count \in Nat /\ count # 0 /\ \A i \in 1..count : s[i] \in Texts
    OBVIOUS
<1>2. StaysIn(Texts, count, Longer)
  <2>1. ASSUME NEW i \in 1..count, NEW y \in Texts
        PROVE  (IF i = 1 THEN s[1] ELSE y \o s[i]) \in Texts
      BY <1>1, <2>1
  <2> HIDE DEF Texts, count
  <2> QED
      BY <2>1 DEF StaysIn
<1>3. << >> \in Texts
    OBVIOUS
<1>4. PICK g : StartsAt(<< >>, Texts, count, Longer, g)
  <2>1. count \in Nat
      OBVIOUS
  <2> HIDE DEF Longer, Texts, count
  <2> QED
      BY <2>1, <1>2, <1>3, RecursionExists
<1>5. ASSUME NEW i \in 1..count
      PROVE  g[i] \in Texts /\ g[i] = IF i = 1 THEN s[1] ELSE g[i - 1] \o s[i]
  <2>1. i - 1 \in 0..count /\ i \in 0..count
      BY <1>1
  <2>2. g[i - 1] \in Texts
      BY <2>1, <1>4 DEF StartsAt
  <2>3. Longer[i][g[i - 1]] = IF i = 1 THEN s[1] ELSE g[i - 1] \o s[i]
    <3> HIDE DEF Texts, count
    <3> QED
        BY <2>2 DEF Longer
  <2>4. g[i] \in Texts /\ g[i] = Longer[i][g[i - 1]]
    <3> HIDE DEF Longer, Texts, count
    <3> QED
        BY <1>4, <2>1 DEF StartsAt
  <2> QED
      BY <2>3, <2>4
<1> DEFINE h == [i \in 1..count |-> g[i]]
<1>6. Rule(h)
  <2>1. ASSUME NEW i \in 1..count PROVE h[i] = IF i = 1 THEN s[i] ELSE h[i - 1] \o s[i]
    <3>1. i # 1 => i - 1 \in 1..count
        BY <1>1
    <3> QED
        BY <3>1, <1>5
  <2> QED
      BY <2>1
<1> DEFINE f == CHOOSE f : Rule(f)
<1>7. Rule(f)
  <2> HIDE DEF h, Rule
  <2> QED
      BY <1>6
<1>8. FlattenSeq(s) = f[count]
    BY <1>1 DEF FlattenSeq
<1> HIDE DEF f
<1>9. f[1] = s[1] /\ \A i \in 2..count : f[i] = f[i - 1] \o s[i]
  <2>1. \A i \in 1..count : f[i] = IF i = 1 THEN s[i] ELSE f[i - 1] \o s[i]
    <3> HIDE DEF count
    <3> QED
        BY <1>7
  <2>2. 1 \in 1..count /\ \A i \in 2..count : i \in 1..count /\ i # 1
      BY <1>1
  <2> HIDE DEF count
  <2> QED
      BY <2>1, <2>2
<1>10. ASSUME NEW i \in 1..count PROVE f[i] \in Texts
  <2> DEFINE T == { j \in 1..count : f[j] \notin Texts }
  <2>1. SUFFICES ASSUME T # {} PROVE FALSE
      BY <1>10
  <2>2. PICK m \in T : \A j \in T : m <= j
    <3>1. T \in SUBSET Nat
        OBVIOUS
    <3> HIDE DEF T
    <3> QED
        BY <3>1, <2>1, LeastOf
  <2>3. m \in 1..count /\ f[m] \notin Texts
      OBVIOUS
  <2>4. m # 1
      BY <1>1, <1>9, <2>3
  <2>5. m - 1 \in 1..count /\ m \in 2..count /\ m - 1 < m
      BY <2>3, <2>4
  <2>6. f[m - 1] \in Texts
      BY <2>2, <2>5
  <2>7. f[m] = f[m - 1] \o s[m] /\ s[m] \in Texts
      BY <1>1, <1>9, <2>5
  <2>8. f[m - 1] \o s[m] \in Texts
      BY <2>6, <2>7, ConcatProperties
  <2> QED
      BY <2>3, <2>7, <2>8
<1>11. \A i \in 1..count : f[i] \in Texts
    BY <1>10
<1> QED
    BY <1>8, <1>9, <1>11

LEMMA JoinedTwice ==
    ASSUME NEW B, NEW x \in Seq(B), NEW y \in Seq(B), NEW z \in Seq(B), NEW xy, NEW yz,
           xy = x \o y, yz = y \o z
    PROVE  xy \o z = x \o yz
BY ConcatAssociative, SMTT(30)

\* From the front.
LEMMA FlattenFront ==
    ASSUME NEW B, NEW s \in Seq(Seq(B)), s # << >>
    PROVE  /\ Tail(s) \in Seq(Seq(B)) /\ Head(s) \in Seq(B)
           /\ FlattenSeq(Tail(s)) \in Seq(B)
           /\ FlattenSeq(s) = Head(s) \o FlattenSeq(Tail(s))
<1> DEFINE count == Len(s)
           rest == Tail(s)
<1>1. /\ count \in Nat /\ count # 0 /\ rest \in Seq(Seq(B)) /\ Len(rest) = count - 1
      /\ \A i \in 1..(count - 1) : rest[i] = s[i + 1]
      /\ \A i \in 1..count : s[i] \in Seq(B)
      /\ Head(s) = s[1]
    OBVIOUS
<1>2. PICK g : /\ \A i \in 1..count : g[i] \in Seq(B)
               /\ FlattenSeq(s) = g[count] /\ g[1] = s[1] /\ \A i \in 2..count : g[i] = g[i - 1] \o s[i]
    BY FlattenSteps
<1>3. CASE count = 1
  <2>1. rest = << >>
    <3>1. Len(rest) = 0
        BY <1>1, <1>3
    <3> QED
        BY <1>1, <3>1, EmptySeq
  <2>2. FlattenSeq(rest) = << >>
      BY <2>1 DEF FlattenSeq
  <2>3. FlattenSeq(s) = s[1]
      BY <1>2, <1>3
  <2>4. s[1] \o << >> = s[1] /\ << >> \in Seq(B)
      BY <1>1, <1>3
  <2>5. Head(s) \in Seq(B) /\ Head(s) = s[1]
      BY <1>1, <1>3
  <2> QED
      BY <1>1, <2>2, <2>3, <2>4, <2>5
<1>4. CASE count # 1
  <2>1. rest # << >>
    <3>1. Len(rest) # 0
        BY <1>1, <1>4
    <3> HIDE DEF rest
    <3> QED
        BY <3>1
  <2>2. PICK f :
              /\ \A i \in 1..(count - 1) : f[i] \in Seq(B)
              /\ FlattenSeq(rest) = f[count - 1] /\ f[1] = rest[1]
              /\ \A i \in 2..(count - 1) : f[i] = f[i - 1] \o rest[i]
    <3>1. rest \in Seq(Seq(B))
        BY <1>1
    <3>2. Len(rest) = count - 1
        BY <1>1
    <3> HIDE DEF rest, count
    <3>3. \E f :
              /\ \A i \in 1..Len(rest) : f[i] \in Seq(B)
              /\ FlattenSeq(rest) = f[Len(rest)] /\ f[1] = rest[1]
              /\ \A i \in 2..Len(rest) : f[i] = f[i - 1] \o rest[i]
        BY <3>1, <2>1, FlattenSteps
    <3> QED
        BY <3>2, <3>3
  <2> DEFINE Differ(i) == g[i + 1] # s[1] \o f[i]
             T == { i \in 1..(count - 1) : Differ(i) }
  <2>3. T = {}
    <3> SUFFICES ASSUME T # {} PROVE FALSE
        OBVIOUS
    <3>1. PICK m \in T : \A j \in T : m <= j
      <4>1. T \in SUBSET Nat
        <5> HIDE DEF Differ, count, rest
        <5> QED
            BY <1>1
      <4> HIDE DEF T
      <4> QED
          BY <4>1, LeastOf
    <3> HIDE DEF rest, count
    <3>2. m \in 1..(count - 1) /\ g[m + 1] # s[1] \o f[m]
        OBVIOUS
    <3>3. m + 1 \in 2..count /\ (m + 1) - 1 = m
        BY <3>2, <1>1
    <3>4. g[m + 1] = g[m] \o s[m + 1] /\ s[m + 1] = rest[m]
        BY <3>2, <3>3, <1>1, <1>2
    <3>5. CASE m = 1
        BY <3>2, <3>4, <3>5, <1>2, <2>2
    <3>6. CASE m # 1
      <4>1. m - 1 \in 1..(count - 1) /\ (m - 1) + 1 = m /\ m \in 2..(count - 1) /\ m - 1 < m
          BY <3>2, <3>6, <1>1
      <4>2. m - 1 \notin T
        <5>1. ~(m <= m - 1)
            BY <4>1, <1>1
        <5> HIDE DEF T
        <5> QED
            BY <3>1, <5>1
      <4>3. g[m] = s[1] \o f[m - 1]
          BY <4>1, <4>2
      <4>4. f[m] = f[m - 1] \o rest[m]
          BY <2>2, <4>1
      <4>5. s[1] \in Seq(B)
          BY <1>1, <1>4
      <4>7. f[m - 1] \in Seq(B)
          BY <2>2, <4>1
      <4>8. rest[m] \in Seq(B)
        <5>1. m + 1 \in 1..count
            BY <3>3, <1>1
        <5> QED
            BY <1>1, <3>4, <5>1
      <4>6. g[m] \o rest[m] = s[1] \o f[m]
        <5> HIDE DEF T, Differ
        <5>1. \E x, y, z : x = s[1] /\ y = f[m - 1] /\ z = rest[m]
            OBVIOUS
        <5>2. PICK x, y, z : x = s[1] /\ y = f[m - 1] /\ z = rest[m]
            BY <5>1
        <5>3. x \in Seq(B)
            BY <4>5, <5>2
        <5>4. y \in Seq(B)
            BY <4>7, <5>2
        <5>5. z \in Seq(B)
            BY <4>8, <5>2
        <5>6. g[m] = x \o y
            BY <4>3, <5>2
        <5>7. f[m] = y \o z
            BY <4>4, <5>2
        <5>8. g[m] \o z = x \o f[m]
            BY <5>3, <5>4, <5>5, <5>6, <5>7, JoinedTwice, SMTT(30)
        <5> QED
            BY <5>2, <5>8
      <4> QED
          BY <3>2, <3>4, <4>6
    <3> QED
        BY <3>5, <3>6
  <2>4. count - 1 \in 1..(count - 1) /\ (count - 1) + 1 = count
      BY <1>1, <1>4
  <2>5. g[(count - 1) + 1] = s[1] \o f[count - 1]
      BY <2>3, <2>4
  <2>6. f[count - 1] \in Seq(B)
      BY <2>2, <2>4
  <2>7. Head(s) \in Seq(B) /\ Head(s) = s[1]
      BY <1>1, <1>4
  <2>8. FlattenSeq(s) = Head(s) \o FlattenSeq(rest) /\ FlattenSeq(rest) \in Seq(B)
    <3> HIDE DEF rest, count, T
    <3> QED
        BY <1>2, <2>2, <2>4, <2>5, <2>6, <2>7
  <2> QED
      BY <1>1, <2>7, <2>8
<1> QED
    BY <1>3, <1>4

LEMMA FlattenEmpty == FlattenSeq(<< >>) = << >>
BY DEF FlattenSeq

LEMMA FlattenType ==
    ASSUME NEW B, NEW s \in Seq(Seq(B))
    PROVE  FlattenSeq(s) \in Seq(B)
<1>1. CASE s = << >>
  <2>1. << >> \in Seq(B)
      OBVIOUS
  <2> QED
      BY <1>1, <2>1, FlattenEmpty
<1>2. CASE s # << >>
  <2>1. /\ Head(s) \in Seq(B) /\ FlattenSeq(Tail(s)) \in Seq(B)
        /\ FlattenSeq(s) = Head(s) \o FlattenSeq(Tail(s))
      BY <1>2, FlattenFront
  <2> QED
      BY <2>1
<1> QED
    BY <1>1, <1>2

-----------------------------------------------------------------------------
(* What the server writes and get_chunk_size reads *)

Digital == ToSet(Digits)

LEMMA ValueIsNatural ==
    ASSUME NEW text \in Seq(Digital)
    PROVE  Value(text) \in Nat
<1> DEFINE count == Len(text)
           Digit(c) == CHOOSE d \in DOMAIN Digits : Digits[d] = c
           Longer == [i \in 1..count |->
                        [v \in Nat |-> v * Len(Digits) + Digit(text[i]) - 1]]
           Rule(f) == f = [i \in 0..count |->
                             IF i = 0 THEN 0
                             ELSE f[i - 1] * Len(Digits) + Digit(text[i]) - 1]
<1>1. count \in Nat /\ Len(Digits) \in Nat /\ DOMAIN Digits \subseteq Nat \ {0}
    BY DigitsAssumption
<1>2. ASSUME NEW i \in 1..count PROVE Digit(text[i]) \in Nat \ {0}
  <2>1. text[i] \in ToSet(Digits)
      BY DEF Digital
  <2>2. \E d \in DOMAIN Digits : Digits[d] = text[i]
      BY <2>1 DEF ToSet
  <2>3. Digit(text[i]) \in DOMAIN Digits
      BY <2>2
  <2> QED
      BY <1>1, <2>3
<1>3. ASSUME NEW i \in 1..count, NEW v \in Nat
      PROVE  v * Len(Digits) + Digit(text[i]) - 1 \in Nat
  <2>1. v * Len(Digits) \in Nat
      BY <1>1
  <2> HIDE DEF Digit, count
  <2> QED
      BY <1>2, <2>1
<1>4. StaysIn(Nat, count, Longer)
  <2> HIDE DEF Digit, count
  <2> QED
      BY <1>3 DEF StaysIn
<1>5. PICK g : StartsAt(0, Nat, count, Longer, g)
  <2> HIDE DEF Longer, count
  <2> QED
      BY <1>1, <1>4, RecursionExists
<1> DEFINE h == [i \in 0..count |-> g[i]]
<1>6. Rule(h)
  <2> HIDE DEF Digit, count
  <2>1. ASSUME NEW i \in 1..count PROVE g[i] = g[i - 1] * Len(Digits) + Digit(text[i]) - 1
    <3>1. i - 1 \in 0..count
        BY <1>1
    <3>2. g[i - 1] \in Nat /\ g[i] = Longer[i][g[i - 1]]
      <4> HIDE DEF Longer
      <4> QED
          BY <1>5, <3>1 DEF StartsAt
    <3> QED
        BY <3>2
  <2>2. g[0] = 0
    <3> HIDE DEF Longer
    <3> QED
        BY <1>5 DEF StartsAt
  <2>3. ASSUME NEW i \in 0..count
        PROVE  h[i] = IF i = 0 THEN 0 ELSE h[i - 1] * Len(Digits) + Digit(text[i]) - 1
    <3>1. i # 0 => i \in 1..count /\ i - 1 \in 0..count
        BY <1>1
    <3> QED
        BY <2>1, <2>2, <3>1
  <2> QED
      BY <2>3
<1> DEFINE f == CHOOSE f : Rule(f)
<1>7. Rule(f)
  <2> HIDE DEF h, Rule
  <2> QED
      BY <1>6
<1>8. Value(text) = f[count]
    BY DEF Value
<1> HIDE DEF f
<1> DEFINE T == { i \in 0..count : f[i] \notin Nat }
<1>9. T = {}
  <2> HIDE DEF Digit
  <2> SUFFICES ASSUME T # {} PROVE FALSE
      OBVIOUS
  <2>1. PICK m \in T : \A j \in T : m <= j
    <3>1. T \in SUBSET Nat
        BY <1>1
    <3> HIDE DEF T
    <3> QED
        BY <3>1, LeastOf
  <2>2. m \in 0..count /\ f[m] \notin Nat
      OBVIOUS
  <2>3. f[m] = IF m = 0 THEN 0 ELSE f[m - 1] * Len(Digits) + Digit(text[m]) - 1
    <3> HIDE DEF count
    <3> QED
        BY <1>7, <2>2
  <2>4. m # 0
      BY <2>2, <2>3
  <2>5. m - 1 \in 0..count /\ ~(m <= m - 1) /\ m \in 1..count
      BY <1>1, <2>2, <2>4
  <2>6. m - 1 \notin T
    <3> HIDE DEF T
    <3> QED
        BY <2>1, <2>5
  <2>7. f[m - 1] \in Nat
      BY <2>5, <2>6
  <2> HIDE DEF T, count
  <2> QED
      BY <1>3, <2>2, <2>3, <2>4, <2>5, <2>7
<1> QED
    BY <1>1, <1>8, <1>9

LEMMA TextInIs ==
    ASSUME NEW array, NEW I, I = { i \in 1..Len(array) : array[i] = CR }
    PROVE  TextIn(array) = IF (IF I # {} THEN Min(I) ELSE 0) = 0 THEN array
                           ELSE SubSeq(array, 1, (IF I # {} THEN Min(I) ELSE 0) - 1)
BY DEF TextIn, SelectInSeq

\* The CR ends the text.
LEMMA TextBeforeCR ==
    ASSUME NEW text \in Seq(Digital)
    PROVE  TextIn(Append(text, CR)) = text
<1> DEFINE array == Append(text, CR)
           n == Len(text)
           I == { i \in 1..Len(array) : array[i] = CR }
<1>1. n \in Nat /\ Len(array) = n + 1 /\ array[n + 1] = CR
    OBVIOUS
<1>2. \A i \in 1..n : array[i] = text[i] /\ text[i] # CR
    BY DigitsAssumption DEF Digital
<1>3. I = {n + 1}
  <2> HIDE DEF array, n
  <2> QED
      BY <1>1, <1>2
<1>4. Min({n + 1}) = n + 1
  <2> HIDE DEF n
  <2> QED
      BY <1>1 DEF Min
<1>6. TextIn(array) = SubSeq(array, 1, n)
  <2>1. TextIn(array) = SubSeq(array, 1, Min({n + 1}) - 1)
    <3>1. /\ I # {} /\ Min(I) # 0
          /\ TextIn(array) = IF (IF I # {} THEN Min(I) ELSE 0) = 0 THEN array
                             ELSE SubSeq(array, 1, (IF I # {} THEN Min(I) ELSE 0) - 1)
      <4>1. I # {} /\ Min(I) # 0
        <5> HIDE DEF array, n, I
        <5> QED
            BY <1>1, <1>3, <1>4
      <4> HIDE DEF array
      <4> QED
          BY <4>1, TextInIs
    <3> HIDE DEF array, n, I
    <3> QED
        BY <3>1, <1>3
  <2>2. Min({n + 1}) - 1 = n
    <3> HIDE DEF n
    <3> QED
        BY <1>1, <1>4
  <2> QED
      BY <2>1, <2>2
<1>7. SubSeq(array, 1, n) = text
  <2>1. SubSeq(array, 1, n) \in Seq(Digital \union {CR}) /\ text \in Seq(Digital \union {CR})
      OBVIOUS
  <2> QED
      BY <1>2, <2>1
<1> QED
    BY <1>6, <1>7

LEMMA TextIsDigital ==
    ASSUME NEW array \in Seq(Digital \union {CR})
    PROVE  TextIn(array) \in Seq(Digital)
<1> DEFINE I == { i \in 1..Len(array) : array[i] = CR }
<1>1. TextIn(array) = IF (IF I # {} THEN Min(I) ELSE 0) = 0 THEN array
                      ELSE SubSeq(array, 1, (IF I # {} THEN Min(I) ELSE 0) - 1)
    BY TextInIs
<1>2. CASE I = {}
  <2>1. TextIn(array) = array
    <3> HIDE DEF I
    <3> QED
        BY <1>1, <1>2
  <2>2. \A i \in 1..Len(array) : array[i] \in Digital
      BY <1>2
  <2>3. array \in Seq(Digital)
      BY <2>2
  <2> QED
      BY <2>1, <2>3
<1>3. CASE I # {}
  <2>1. PICK m \in I : \A i \in I : m <= i
    <3>1. I \in SUBSET Nat
        OBVIOUS
    <3> HIDE DEF I
    <3> QED
        BY <1>3, <3>1, LeastOf
  <2>2. Min(I) \in I /\ \A i \in I : Min(I) <= i
    <3> HIDE DEF I
    <3> QED
        BY <2>1 DEF Min
  <2> DEFINE e == Min(I)
  <2>3. e \in 1..Len(array)
      BY <2>2
  <2>4. TextIn(array) = SubSeq(array, 1, e - 1)
    <3> HIDE DEF I
    <3> QED
        BY <1>1, <1>3, <2>3 DEF e
  <2> HIDE DEF e
  <2>5. \A i \in 1..(e - 1) : array[i] \in Digital
    <3> TAKE i \in 1..(e - 1)
    <3>1. i \in 1..Len(array) /\ ~(e <= i)
        BY <2>3
    <3>2. i \notin I
      <4> HIDE DEF I
      <4> QED
          BY <2>2, <3>1 DEF e
    <3> QED
        BY <3>1, <3>2
  <2> HIDE DEF I
  <2> QED
      BY <2>3, <2>4, <2>5
<1> QED
    BY <1>2, <1>3

-----------------------------------------------------------------------------
(* Sequences of bytes *)

Bytes == Digital \union {CR, LF} \union UNION { ToSet(c) : c \in Contents }
CRLF  == << CR, LF >>

LEMMA ContentsAreBytes ==
    /\ \A c \in Contents : c \in Seq(Bytes) /\ c # << >> /\ Len(c) \in DOMAIN Numeral \ {0}
    /\ \A n \in DOMAIN Numeral : Numeral[n] \in Seq(Digital)
    /\ \A t \in Seq(Digital) : t \in Seq(Bytes)
    /\ << CR >> \in Seq(Bytes) /\ << LF >> \in Seq(Bytes) /\ CRLF \in Seq(Bytes)
    /\ << >> \in Seq(Bytes)
<1>1. ASSUME NEW c \in Contents
      PROVE  c \in Seq(Bytes) /\ c # << >> /\ Len(c) \in DOMAIN Numeral \ {0}
  <2>1. c \in Seq(ToSet(c)) /\ c # << >> /\ Len(c) \in DOMAIN Numeral
      BY ContentsAssumption
  <2>2. ToSet(c) \subseteq Bytes
      BY DEF Bytes
  <2>3. c \in Seq(Bytes)
      BY <2>1, <2>2, SeqMonotonic
  <2>4. Len(c) # 0
      BY <2>1
  <2> QED
      BY <2>1, <2>3, <2>4
<1>2. \A n \in DOMAIN Numeral : Numeral[n] \in Seq(Digital)
    BY NumeralAssumption DEF Digital
<1>3. ASSUME NEW t \in Seq(Digital) PROVE t \in Seq(Bytes)
  <2>1. Digital \subseteq Bytes
      BY DEF Bytes
  <2> QED
      BY <2>1, SeqMonotonic
<1>4. CR \in Bytes /\ LF \in Bytes
    BY DEF Bytes
<1>5. << CR >> \in Seq(Bytes) /\ << LF >> \in Seq(Bytes) /\ CRLF \in Seq(Bytes)
    BY <1>4 DEF CRLF
<1> QED
    BY <1>1, <1>2, <1>3, <1>5

\* Concatenation by its laws alone.
Cat(x, y) == x \o y

LEMMA CatIs ==
    ASSUME NEW B, NEW x \in Seq(B), NEW y \in Seq(B)
    PROVE  Cat(x, y) \in Seq(B)
BY ConcatProperties DEF Cat

LEMMA CatTwice ==
    ASSUME NEW B, NEW x \in Seq(B), NEW y \in Seq(B), NEW z \in Seq(B)
    PROVE  Cat(Cat(x, y), z) = Cat(x, Cat(y, z))
BY ConcatAssociative DEF Cat

LEMMA CatEmpty ==
    ASSUME NEW B, NEW x \in Seq(B)
    PROVE  Cat(x, << >>) = x /\ Cat(<< >>, x) = x
BY ConcatEmptySeq DEF Cat

LEMMA CatLength ==
    ASSUME NEW B, NEW x \in Seq(B), NEW y \in Seq(B)
    PROVE  Len(x) \in Nat /\ Len(y) \in Nat /\ Len(Cat(x, y)) = Len(x) + Len(y)
BY ConcatProperties DEF Cat

Behind(c, k) == SubSeq(c, k + 1, Len(c))

\* One sequence cut at two places.
CutTwice(B, x, u, c, v) ==
    x \in Seq(B) /\ u \in Seq(B) /\ c \in Seq(B) /\ v \in Seq(B) /\ Cat(x, u) = Cat(c, v)

\* What lies between the places.
LEMMA BetweenTheCuts ==
    ASSUME NEW B, NEW x, NEW u, NEW c, NEW v, CutTwice(B, x, u, c, v), Len(x) <= Len(c)
    PROVE  /\ Behind(c, Len(x)) \in Seq(B) /\ Len(Behind(c, Len(x))) = Len(c) - Len(x)
           /\ c = Cat(x, Behind(c, Len(x))) /\ u = Cat(Behind(c, Len(x)), v)
<1>0. x \in Seq(B) /\ u \in Seq(B) /\ c \in Seq(B) /\ v \in Seq(B) /\ x \o u = c \o v
    BY DEF CutTwice, Cat
<1> DEFINE k == Len(x)
           n == Len(c)
           d == SubSeq(c, k + 1, n)
<1>1. /\ k \in Nat /\ n \in Nat /\ k <= n /\ Len(u) \in Nat /\ Len(v) \in Nat
      /\ k + Len(u) = n + Len(v)
  <2>1. Len(x \o u) = Len(x) + Len(u) /\ Len(c \o v) = Len(c) + Len(v)
      BY <1>0, ConcatProperties
  <2> QED
      BY <1>0, <2>1
<1>2. /\ d \in Seq(B) /\ Len(d) = n - k
      /\ \A i \in 1..(n - k) : d[i] = c[k + i]
  <2>1. \A i \in (k + 1)..n : c[i] \in B
      BY <1>0, <1>1
  <2>2. /\ d \in Seq(B) /\ Len(d) = IF k + 1 <= n THEN n - (k + 1) + 1 ELSE 0
        /\ \A i \in 1..(n - (k + 1) + 1) : d[i] = c[(k + 1) + i - 1]
    <3> HIDE DEF k, n
    <3> QED
        BY <1>1, <2>1, SubSeqProperties DEF d
  <2> HIDE DEF k, n, d
  <2> QED
      BY <1>1, <2>2
<1> HIDE DEF d
<1>3. \A i \in 1..(k + Len(u)) : /\ (x \o u)[i] = IF i <= k THEN x[i] ELSE u[i - k]
                                 /\ (c \o v)[i] = IF i <= n THEN c[i] ELSE v[i - n]
  <2>1. \A i \in 1..(Len(x) + Len(u)) : (x \o u)[i] = IF i <= Len(x) THEN x[i] ELSE u[i - Len(x)]
      BY <1>0, ConcatProperties
  <2>2. \A i \in 1..(Len(c) + Len(v)) : (c \o v)[i] = IF i <= Len(c) THEN c[i] ELSE v[i - Len(c)]
      BY <1>0, ConcatProperties
  <2> QED
      BY <1>0, <1>1, <2>1, <2>2
<1>3a. ASSUME NEW i \in 1..(k + Len(u))
       PROVE  (IF i <= k THEN x[i] ELSE u[i - k]) = (IF i <= n THEN c[i] ELSE v[i - n])
  <2> DEFINE l == x \o u
             r == c \o v
  <2>1. l[i] = (IF i <= k THEN x[i] ELSE u[i - k]) /\ r[i] = (IF i <= n THEN c[i] ELSE v[i - n])
      BY <1>3
  <2>2. l = r
      BY <1>0
  <2> HIDE DEF l, r
  <2> QED
      BY <2>1, <2>2
<1>4. c = x \o d
  <2>1. /\ x \o d \in Seq(B) /\ Len(x \o d) = n
        /\ \A i \in 1..n : (x \o d)[i] = IF i <= k THEN x[i] ELSE d[i - k]
      BY <1>0, <1>1, <1>2, ConcatProperties
  <2>2. ASSUME NEW i \in 1..n PROVE (x \o d)[i] = c[i]
    <3>1. i \in 1..(k + Len(u))
        BY <1>1
    <3>2. CASE i <= k
      <4>1. x[i] = c[i]
          BY <1>1, <1>3a, <3>1, <3>2
      <4> QED
          BY <2>1, <3>2, <4>1
    <3>3. CASE ~(i <= k)
      <4>1. i - k \in 1..(n - k) /\ k + (i - k) = i
          BY <1>1, <3>3
      <4> QED
          BY <1>2, <2>1, <3>3, <4>1
    <3> QED
        BY <3>2, <3>3
  <2> QED
      BY <1>0, <1>1, <2>1, <2>2, SeqEqual
<1>5. u = d \o v
  <2>1. /\ d \o v \in Seq(B) /\ Len(d \o v) = Len(u)
        /\ \A i \in 1..Len(u) : (d \o v)[i] = IF i <= n - k THEN d[i] ELSE v[i - (n - k)]
      BY <1>0, <1>1, <1>2, ConcatProperties, SMTT(30)
  <2>2. ASSUME NEW i \in 1..Len(u) PROVE (d \o v)[i] = u[i]
    <3>1. k + i \in 1..(k + Len(u)) /\ ~(k + i <= k) /\ (k + i) - k = i
        BY <1>1
    <3>2. u[i] = IF k + i <= n THEN c[k + i] ELSE v[(k + i) - n]
        BY <1>3a, <3>1
    <3>3. CASE i <= n - k
        BY <1>1, <1>2, <2>1, <3>2, <3>3
    <3>4. CASE ~(i <= n - k)
      <4>1. (k + i) - n = i - (n - k) /\ ~(k + i <= n)
          BY <1>1, <3>4
      <4> QED
          BY <2>1, <3>2, <3>4, <4>1
    <3> QED
        BY <3>3, <3>4
  <2> QED
      BY <1>0, <1>1, <2>1, <2>2, SeqEqual
<1>6. d = Behind(c, Len(x))
    BY DEF d, Behind
<1> QED
    BY <1>1, <1>2, <1>4, <1>5, <1>6 DEF Cat

LEMMA TheSameCut ==
    ASSUME NEW B, NEW x, NEW u, NEW c, NEW v, CutTwice(B, x, u, c, v), Len(x) = Len(c)
    PROVE  x = c /\ u = v
<1>0. x \in Seq(B) /\ c \in Seq(B) /\ v \in Seq(B) /\ Len(x) \in Nat /\ Len(c) \in Nat
    BY DEF CutTwice
<1> DEFINE d == Behind(c, Len(x))
<1>1. c = Cat(x, d) /\ u = Cat(d, v) /\ Len(d) = Len(c) - Len(x) /\ d \in Seq(B)
  <2>1. Len(x) <= Len(c)
      BY <1>0
  <2> QED
      BY <2>1, BetweenTheCuts
<1> HIDE DEF d
<1>2. d = << >>
    BY <1>0, <1>1
<1>3. Cat(x, << >>) = x /\ Cat(<< >>, v) = v
    BY <1>0, CatEmpty
<1> QED
    BY <1>1, <1>2, <1>3

LEMMA FirstByte ==
    ASSUME NEW B, NEW h, NEW a, NEW u, NEW v, CutTwice(B, << h >>, u, << a >>, v)
    PROVE  h = a /\ u = v
<1> DEFINE x == << h >>
           c == << a >>
<1>1. Len(x) = Len(c) /\ (x = c => h = a) /\ CutTwice(B, x, u, c, v)
    OBVIOUS
<1> HIDE DEF x, c
<1> QED
    BY <1>1, TheSameCut

LEMMA OffTheFront ==
    ASSUME NEW B, NEW s \in Seq(B), NEW u \in Seq(B), s # << >>
    PROVE  /\ Head(s) \in B /\ Tail(s) \in Seq(B)
           /\ Cat(s, u) = Cat(<< Head(s) >>, Cat(Tail(s), u))
<1>1. /\ Head(s) \in B /\ Tail(s) \in Seq(B) /\ << Head(s) >> \in Seq(B)
      /\ s = Cat(<< Head(s) >>, Tail(s))
    BY DEF Cat
<1> DEFINE h == << Head(s) >>
           t == Tail(s)
<1>2. h \in Seq(B) /\ t \in Seq(B) /\ s = Cat(h, t)
    BY <1>1
<1> HIDE DEF h, t
<1>3. Cat(s, u) = Cat(h, Cat(t, u))
    BY <1>2, CatTwice
<1> QED
    BY <1>1, <1>3 DEF h, t

LEMMA OntoTheBack ==
    ASSUME NEW B, NEW s \in Seq(B), NEW h \in B, NEW u \in Seq(B)
    PROVE  Append(s, h) \in Seq(B) /\ Cat(Append(s, h), u) = Cat(s, Cat(<< h >>, u))
<1>1. Append(s, h) \in Seq(B) /\ << h >> \in Seq(B) /\ Append(s, h) = Cat(s, << h >>)
    BY AppendIsConcat DEF Cat
<1> DEFINE x == << h >>
<1>2. x \in Seq(B)
    BY <1>1
<1> HIDE DEF x
<1>3. Cat(Cat(s, x), u) = Cat(s, Cat(x, u))
    BY <1>2, CatTwice, SMTT(30)
<1> QED
    BY <1>1, <1>3 DEF x

LEMMA CutAt ==
    ASSUME NEW B, NEW s \in Seq(B), NEW m \in 0..Len(s)
    PROVE  /\ SubSeq(s, 1, m) \in Seq(B) /\ SubSeq(s, m + 1, Len(s)) \in Seq(B)
           /\ Len(SubSeq(s, 1, m)) = m /\ Len(SubSeq(s, m + 1, Len(s))) = Len(s) - m
           /\ Cat(SubSeq(s, 1, m), SubSeq(s, m + 1, Len(s))) = s
<1>1. Len(s) \in Nat /\ m \in Nat /\ m <= Len(s)
    OBVIOUS
<1>2. SubSeq(s, 1, m) \in Seq(B) /\ Len(SubSeq(s, 1, m)) = m
  <2>1. \A i \in 1..m : s[i] \in B
      BY <1>1
  <2> QED
      BY <1>1, <2>1, SubSeqProperties
<1>3. SubSeq(s, m + 1, Len(s)) \in Seq(B) /\ Len(SubSeq(s, m + 1, Len(s))) = Len(s) - m
  <2>1. \A i \in (m + 1)..Len(s) : s[i] \in B
      BY <1>1
  <2> QED
      BY <1>1, <2>1, SubSeqProperties
<1>4. SubSeq(s, 1, m) \o SubSeq(s, m + 1, Len(s)) = SubSeq(s, 1, Len(s))
  <2>1. 1 \in 1..(Len(s) + 1) /\ m \in (1 - 1)..Len(s) /\ Len(s) \in m..Len(s)
      BY <1>1
  <2> QED
      BY <2>1, ConcatAdjacentSubSeq
<1>5. SubSeq(s, 1, Len(s)) = s
    BY SubSeqFull
<1> QED
    BY <1>2, <1>3, <1>4, <1>5 DEF Cat

-----------------------------------------------------------------------------
(* The chunks on the wire *)

Wire(rest)   == Sent(rest, "chunked")
Chunks(rest) == [i \in DOMAIN rest |-> Chunk(rest[i])]
SizeOf(rest) == IF rest = << >> THEN 0 ELSE Len(Head(rest))

\* What follows the LF after a size.
End(rest) == IF rest = << >> THEN CRLF ELSE Cat(Head(rest), Cat(CRLF, Wire(Tail(rest))))

LEMMA Regroup ==
    ASSUME NEW B, NEW n \in Seq(B), NEW l \in Seq(B), NEW f \in Seq(B), NEW c \in Seq(B),
           NEW z \in Seq(B), NEW w \in Seq(B)
    PROVE  /\ Cat(Cat(Cat(n, Cat(l, f)), c), z) \in Seq(B)
           /\ Cat(Cat(Cat(Cat(n, Cat(l, f)), c), z), w)
                  = Cat(Cat(n, l), Cat(f, Cat(c, Cat(z, w))))
<1>1. /\ Cat(n, l) \in Seq(B) /\ Cat(l, f) \in Seq(B) /\ Cat(z, w) \in Seq(B)
      /\ Cat(n, Cat(l, f)) = Cat(Cat(n, l), f)
    BY CatIs, CatTwice
<1>2. Cat(n, Cat(l, f)) \in Seq(B) /\ Cat(c, Cat(z, w)) \in Seq(B)
    BY <1>1, CatIs
<1>3. Cat(Cat(n, Cat(l, f)), c) \in Seq(B)
    BY <1>2, CatIs
<1>4. Cat(Cat(Cat(Cat(n, Cat(l, f)), c), z), w) = Cat(Cat(Cat(n, Cat(l, f)), c), Cat(z, w))
    BY <1>3, CatTwice
<1>5. Cat(Cat(Cat(n, Cat(l, f)), c), Cat(z, w)) = Cat(Cat(n, Cat(l, f)), Cat(c, Cat(z, w)))
    BY <1>1, <1>2, CatTwice
<1>6. Cat(Cat(Cat(n, l), f), Cat(c, Cat(z, w))) = Cat(Cat(n, l), Cat(f, Cat(c, Cat(z, w))))
    BY <1>1, <1>2, CatTwice
<1>7. Cat(Cat(Cat(n, Cat(l, f)), c), z) \in Seq(B)
    BY <1>3, CatIs
<1> QED
    BY <1>1, <1>4, <1>5, <1>6, <1>7

LEMMA PairIs ==
    ASSUME NEW B, NEW a \in B, NEW b \in B
    PROVE  << a, b >> = << a >> \o << b >>
<1> DEFINE s == Append(<< a >>, b)
           t == << a, b >>
<1>1. << a >> \in Seq(B) /\ << b >> \in Seq(B) /\ t \in Seq(B) /\ s \in Seq(B)
    OBVIOUS
<1>2. Len(s) = 2 /\ Len(t) = 2
    BY <1>1
<1>3. s[1] = t[1] /\ s[2] = t[2]
    BY <1>1
<1>4. s = << a >> \o << b >>
    BY <1>1, AppendIsConcat
<1> HIDE DEF s, t
<1>5. \A i \in 1..Len(s) : s[i] = t[i]
    BY <1>2, <1>3
<1>6. s = t
    BY <1>1, <1>2, <1>5, SeqEqual
<1> QED
    BY <1>4, <1>6 DEF t

LEMMA ChunkIs ==
    ASSUME NEW c \in Seq(Bytes), Len(c) \in DOMAIN Numeral, NEW w \in Seq(Bytes)
    PROVE  /\ Chunk(c) \in Seq(Bytes)
           /\ Cat(Chunk(c), w) = Cat(Append(Numeral[Len(c)], CR),
                                     Cat(<< LF >>, Cat(c, Cat(CRLF, w))))
<1> DEFINE n == Numeral[Len(c)]
           l == << CR >>
           f == << LF >>
<1>1. n \in Seq(Bytes)
    BY ContentsAreBytes
<1>2. l \in Seq(Bytes) /\ f \in Seq(Bytes) /\ CRLF \in Seq(Bytes)
    BY ContentsAreBytes
<1>3. CRLF = Cat(l, f)
  <2>1. CR \in Bytes /\ LF \in Bytes
      BY DEF Bytes
  <2> QED
      BY <2>1, PairIs DEF CRLF, Cat
<1>4. Chunk(c) = Cat(Cat(Cat(n, CRLF), c), CRLF)
    BY DEF Chunk, CRLF, Cat
<1>5. Append(n, CR) = Cat(n, l)
  <2>1. CR \in Bytes
      BY DEF Bytes
  <2> HIDE DEF n
  <2> QED
      BY <1>1, <2>1, AppendIsConcat DEF Cat
<1> HIDE DEF n, l, f, CRLF
<1>6. /\ Cat(Cat(Cat(n, CRLF), c), CRLF) \in Seq(Bytes)
      /\ Cat(Cat(Cat(Cat(n, CRLF), c), CRLF), w)
            = Cat(Cat(n, l), Cat(f, Cat(c, Cat(CRLF, w))))
    BY <1>1, <1>2, <1>3, Regroup
<1>7. Chunk(c) \in Seq(Bytes) /\ Cat(Chunk(c), w) = Cat(Append(n, CR), Cat(f, Cat(c, Cat(CRLF, w))))
    BY <1>4, <1>5, <1>6
<1> QED
    BY <1>7 DEF n, f

LEMMA ChunksAreBytes ==
    ASSUME NEW rest \in Seq(Contents)
    PROVE  /\ rest \in Seq(Seq(Bytes)) /\ Chunks(rest) \in Seq(Seq(Bytes))
           /\ rest # << >> => /\ Tail(rest) \in Seq(Contents) /\ Head(rest) \in Contents
                              /\ Chunks(rest) # << >>
                              /\ Head(Chunks(rest)) = Chunk(Head(rest))
                              /\ Tail(Chunks(rest)) = Chunks(Tail(rest))
<1>1. Contents \subseteq Seq(Bytes)
    BY ContentsAreBytes
<1>2. rest \in Seq(Seq(Bytes))
    BY <1>1, SeqMonotonic
<1>3. DOMAIN rest = 1..Len(rest) /\ Len(rest) \in Nat /\ \A i \in 1..Len(rest) : rest[i] \in Contents
    OBVIOUS
<1>4. ASSUME NEW c \in Contents PROVE Chunk(c) \in Seq(Bytes)
  <2>1. c \in Seq(Bytes) /\ Len(c) \in DOMAIN Numeral /\ << >> \in Seq(Bytes)
      BY ContentsAreBytes
  <2> QED
      BY <2>1, ChunkIs
<1>5. Chunks(rest) \in Seq(Seq(Bytes)) /\ Len(Chunks(rest)) = Len(rest)
  <2> DEFINE S == Seq(Bytes)
  <2>1. \A i \in 1..Len(rest) : Chunk(rest[i]) \in S
      BY <1>3, <1>4
  <2> HIDE DEF S
  <2>2. [i \in 1..Len(rest) |-> Chunk(rest[i])] \in Seq(S)
      BY <1>3, <2>1
  <2>3. Chunks(rest) = [i \in 1..Len(rest) |-> Chunk(rest[i])]
      BY <1>3 DEF Chunks
  <2> QED
      BY <1>3, <2>2, <2>3 DEF S
<1>6. ASSUME rest # << >>
      PROVE  /\ Tail(rest) \in Seq(Contents) /\ Head(rest) \in Contents
             /\ Chunks(rest) # << >> /\ Head(Chunks(rest)) = Chunk(Head(rest))
             /\ Tail(Chunks(rest)) = Chunks(Tail(rest))
  <2>1. /\ Tail(rest) \in Seq(Contents) /\ Head(rest) \in Contents /\ Len(rest) # 0
        /\ Len(Tail(rest)) = Len(rest) - 1
        /\ \A i \in 1..(Len(rest) - 1) : Tail(rest)[i] = rest[i + 1]
        /\ Head(rest) = rest[1]
      BY <1>6
  <2>2. \A i \in 1..Len(rest) : Chunks(rest)[i] = Chunk(rest[i])
      BY <1>3 DEF Chunks
  <2>3. Chunks(rest) # << >>
    <3>1. Len(Chunks(rest)) # 0
        BY <1>5, <2>1
    <3> HIDE DEF Chunks
    <3> QED
        BY <3>1
  <2>4. Head(Chunks(rest)) = Chunk(Head(rest))
      BY <1>3, <2>1, <2>2
  <2>5. Tail(Chunks(rest)) = Chunks(Tail(rest))
    <3> DEFINE a == Chunks(rest)
               b == Tail(rest)
               S == Seq(Bytes)
    <3>1. /\ Tail(a) \in Seq(S) /\ Len(Tail(a)) = Len(rest) - 1
          /\ \A i \in 1..(Len(rest) - 1) : Tail(a)[i] = a[i + 1]
      <4>1. a # << >> /\ a \in Seq(S) /\ Len(a) = Len(rest)
          BY <1>5, <2>3
      <4> HIDE DEF a, S
      <4> QED
          BY <4>1, HeadTailProperties
    <3>2. /\ Chunks(b) \in Seq(S) /\ Len(Chunks(b)) = Len(rest) - 1
          /\ \A i \in 1..(Len(rest) - 1) : Chunks(b)[i] = Chunk(b[i])
      <4>1. DOMAIN b = 1..(Len(rest) - 1) /\ b \in Seq(Contents)
          BY <2>1
      <4>2. \A i \in 1..(Len(rest) - 1) : Chunk(b[i]) \in S
        <5>1. \A i \in 1..(Len(rest) - 1) : b[i] \in Contents
            BY <2>1
        <5> HIDE DEF b, S
        <5> QED
            BY <1>4, <5>1 DEF S
      <4>3. Chunks(b) = [i \in 1..(Len(rest) - 1) |-> Chunk(b[i])]
          BY <4>1 DEF Chunks
      <4>4. Len(rest) - 1 \in Nat
          BY <2>1
      <4> HIDE DEF b, S
      <4> QED
          BY <4>2, <4>3, <4>4
    <3>3. ASSUME NEW i \in 1..(Len(rest) - 1) PROVE a[i + 1] = Chunk(b[i])
      <4>1. i + 1 \in 1..Len(rest)
          BY <1>3
      <4> QED
          BY <2>1, <2>2, <4>1
    <3> HIDE DEF a, b, S
    <3>4. Tail(a) = Chunks(b)
      <4>1. \A i \in 1..Len(Tail(a)) : Tail(a)[i] = Chunks(b)[i]
          BY <3>1, <3>2, <3>3
      <4> QED
          BY <3>1, <3>2, <4>1, SeqEqual
    <3> QED
        BY <3>4 DEF a, b
  <2> QED
      BY <2>1, <2>3, <2>4, <2>5
<1> QED
    BY <1>2, <1>5, <1>6

LEMMA WireIs ==
    ASSUME NEW rest \in Seq(Contents)
    PROVE  /\ Wire(rest) \in Seq(Bytes) /\ End(rest) \in Seq(Bytes)
           /\ SizeOf(rest) \in DOMAIN Numeral
           /\ Wire(rest) = Cat(Append(Numeral[SizeOf(rest)], CR), Cat(<< LF >>, End(rest)))
<1> DEFINE last == Chunk(<< >>)
<1>1. 0 \in DOMAIN Numeral /\ << >> \in Seq(Bytes) /\ Len(<< >>) = 0 /\ CRLF \in Seq(Bytes)
      /\ << LF >> \in Seq(Bytes)
    BY NumeralAssumption, ContentsAreBytes
<1>2. last \in Seq(Bytes) /\ last = Cat(Append(Numeral[0], CR), Cat(<< LF >>, CRLF))
  <2>1. /\ last \in Seq(Bytes)
        /\ Cat(last, << >>)
              = Cat(Append(Numeral[0], CR), Cat(<< LF >>, Cat(<< >>, Cat(CRLF, << >>))))
      BY <1>1, ChunkIs
  <2>2. Cat(last, << >>) = last
    <3> HIDE DEF last
    <3> QED
        BY <2>1, ConcatEmptySeq DEF Cat
  <2>3. Cat(CRLF, << >>) = CRLF /\ Cat(<< >>, CRLF) = CRLF
    <3> HIDE DEF CRLF
    <3> QED
        BY <1>1, ConcatEmptySeq DEF Cat
  <2> HIDE DEF last
  <2> QED
      BY <2>1, <2>2, <2>3
<1> HIDE DEF last
<1>3. ASSUME NEW r \in Seq(Contents)
      PROVE  Wire(r) = Cat(FlattenSeq(Chunks(r)), last) /\ Wire(r) \in Seq(Bytes)
  <2>1. Wire(r) = Cat(FlattenSeq(Chunks(r)), last)
      BY DEF Wire, Sent, Chunks, last, Cat
  <2>2. FlattenSeq(Chunks(r)) \in Seq(Bytes)
      BY ChunksAreBytes, FlattenType
  <2> QED
      BY <1>2, <2>1, <2>2, CatIs
<1>4. CASE rest = << >>
  <2>1. Chunks(rest) = << >>
      BY <1>4 DEF Chunks
  <2>2. Wire(rest) = Cat(<< >>, last)
      BY <1>3, <2>1, FlattenEmpty
  <2>3. Cat(<< >>, last) = last
      BY <1>2, ConcatEmptySeq DEF Cat
  <2> QED
      BY <1>1, <1>2, <1>4, <2>2, <2>3 DEF End, SizeOf
<1>5. CASE rest # << >>
  <2> DEFINE c == Head(rest)
             r == Tail(rest)
  <2>1. /\ r \in Seq(Contents) /\ c \in Contents /\ Chunks(rest) # << >>
        /\ Chunks(rest) \in Seq(Seq(Bytes))
        /\ Head(Chunks(rest)) = Chunk(c) /\ Tail(Chunks(rest)) = Chunks(r)
      BY <1>5, ChunksAreBytes
  <2> HIDE DEF c, r
  <2>2. c \in Seq(Bytes) /\ Len(c) \in DOMAIN Numeral
      BY <2>1, ContentsAreBytes
  <2>3. /\ Chunk(c) \in Seq(Bytes) /\ FlattenSeq(Chunks(r)) \in Seq(Bytes)
        /\ FlattenSeq(Chunks(rest)) = Cat(Chunk(c), FlattenSeq(Chunks(r)))
      BY <2>1, FlattenFront DEF Cat
  <2>4. Wire(rest) = Cat(Chunk(c), Wire(r))
    <3>1. Cat(Cat(Chunk(c), FlattenSeq(Chunks(r))), last)
             = Cat(Chunk(c), Cat(FlattenSeq(Chunks(r)), last))
        BY <1>2, <2>3, CatTwice
    <3> QED
        BY <1>3, <2>1, <2>3, <3>1
  <2>5. Wire(r) \in Seq(Bytes)
      BY <1>3, <2>1
  <2>6. Wire(rest) = Cat(Append(Numeral[Len(c)], CR), Cat(<< LF >>, Cat(c, Cat(CRLF, Wire(r)))))
      BY <2>2, <2>4, <2>5, ChunkIs
  <2>7. Cat(CRLF, Wire(r)) \in Seq(Bytes)
      BY <1>1, <2>5, CatIs
  <2>8. Cat(c, Cat(CRLF, Wire(r))) \in Seq(Bytes)
      BY <2>2, <2>7, CatIs
  <2>9. End(rest) = Cat(c, Cat(CRLF, Wire(r))) /\ SizeOf(rest) = Len(c)
      BY <1>5 DEF End, SizeOf, c, r
  <2> QED
      BY <1>3, <2>2, <2>6, <2>8, <2>9
<1> QED
    BY <1>4, <1>5

-----------------------------------------------------------------------------
(* Where in the body the reader is: "u" is what it has not seen yet, and   *)
(* "more" the content that is in it.                                       *)

InContent(n, u, more) ==
    \E c \in Seq(Bytes), rest \in Seq(Contents) :
        /\ Len(c) = n
        /\ u = Cat(c, Cat(CRLF, Wire(rest))) /\ more = Cat(c, FlattenSeq(rest))

BetweenChunks(u, more) ==
    \E lead \in {<< >>, << LF >>, CRLF}, rest \in Seq(Contents) :
        u = Cat(lead, Wire(rest)) /\ more = FlattenSeq(rest)

InSize(text, u, more) ==
    \E rest \in Seq(Contents) :
        /\ text \in Seq(Bytes) /\ Len(text) <= Len(Numeral[SizeOf(rest)]) + 1
        /\ Cat(text, u) = Wire(rest) /\ more = FlattenSeq(rest)

LEMMA WebIsBytes ==
    ASSUME NEW rest \in Seq(Contents)
    PROVE  /\ Wire(rest) \in Seq(Bytes) /\ Wire(rest) # << >>
           /\ FlattenSeq(rest) \in Seq(Bytes)
           /\ Cat(CRLF, Wire(rest)) \in Seq(Bytes)
<1>1. Wire(rest) \in Seq(Bytes)
    BY WireIs
<1>2. FlattenSeq(rest) \in Seq(Bytes)
    BY ChunksAreBytes, FlattenType
<1>3. Cat(CRLF, Wire(rest)) \in Seq(Bytes)
    BY <1>1, ContentsAreBytes, CatIs
<1>4. Wire(rest) # << >>
  <2> DEFINE n == Append(Numeral[SizeOf(rest)], CR)
             v == Cat(<< LF >>, End(rest))
  <2>1. SizeOf(rest) \in DOMAIN Numeral /\ End(rest) \in Seq(Bytes) /\ Wire(rest) = Cat(n, v)
      BY WireIs
  <2>2. Numeral[SizeOf(rest)] \in Seq(Bytes) /\ CR \in Bytes
      BY <2>1, ContentsAreBytes DEF Bytes
  <2>3. n \in Seq(Bytes) /\ Len(n) > 0
      BY <2>2
  <2>4. v \in Seq(Bytes)
      BY <2>1, ContentsAreBytes, CatIs
  <2> HIDE DEF n, v
  <2>5. Len(Wire(rest)) > 0
      BY <2>1, <2>3, <2>4, CatLength
  <2> QED
      BY <2>5
<1> QED
    BY <1>1, <1>2, <1>3, <1>4

LEMMA PlacesAreTyped ==
    ASSUME NEW u, NEW more, NEW n
    PROVE  InContent(n, u, more) \/ BetweenChunks(u, more) => u # << >> /\ more \in Seq(Bytes)
<1>1. ASSUME InContent(n, u, more) PROVE u # << >> /\ more \in Seq(Bytes)
  <2>1. PICK c \in Seq(Bytes), rest \in Seq(Contents) :
              u = Cat(c, Cat(CRLF, Wire(rest))) /\ more = Cat(c, FlattenSeq(rest))
      BY <1>1 DEF InContent
  <2>2. more \in Seq(Bytes)
      BY <2>1, WebIsBytes, CatIs
  <2>3. CRLF \in Seq(Bytes) /\ Len(CRLF) = 2
      BY ContentsAreBytes DEF CRLF
  <2>4. Len(Cat(CRLF, Wire(rest))) >= 2 /\ Cat(CRLF, Wire(rest)) \in Seq(Bytes)
    <3>1. Wire(rest) \in Seq(Bytes) /\ Cat(CRLF, Wire(rest)) \in Seq(Bytes)
        BY WebIsBytes
    <3>2. Len(Cat(CRLF, Wire(rest))) = 2 + Len(Wire(rest)) /\ Len(Wire(rest)) \in Nat
        BY <2>3, <3>1, CatLength
    <3> QED
        BY <3>1, <3>2
  <2>5. Len(u) >= 2
      BY <2>1, <2>4, CatLength
  <2> QED
      BY <2>2, <2>5
<1>2. ASSUME BetweenChunks(u, more) PROVE u # << >> /\ more \in Seq(Bytes)
  <2>1. PICK lead \in {<< >>, << LF >>, CRLF}, rest \in Seq(Contents) :
              u = Cat(lead, Wire(rest)) /\ more = FlattenSeq(rest)
      BY <1>2 DEF BetweenChunks
  <2>2. lead \in Seq(Bytes)
      BY ContentsAreBytes
  <2>3. Wire(rest) \in Seq(Bytes) /\ Len(Wire(rest)) > 0
      BY WebIsBytes
  <2>4. Len(u) > 0
      BY <2>1, <2>2, <2>3, CatLength
  <2> QED
      BY <2>1, <2>4, WebIsBytes
<1> QED
    BY <1>1, <1>2

\* Within content, a read takes some of it.
LEMMA TakeContent ==
    ASSUME NEW n, NEW x \in Seq(Bytes), NEW u \in Seq(Bytes), NEW more,
           InContent(n, Cat(x, u), more), Len(x) <= n
    PROVE  \E m \in Seq(Bytes) : more = Cat(x, m) /\ InContent(n - Len(x), u, m)
<1>1. PICK c \in Seq(Bytes), rest \in Seq(Contents) :
            /\ Len(c) = n
            /\ Cat(x, u) = Cat(c, Cat(CRLF, Wire(rest))) /\ more = Cat(c, FlattenSeq(rest))
    BY DEF InContent
<1> DEFINE v == Cat(CRLF, Wire(rest))
           d == Behind(c, Len(x))
<1>2. v \in Seq(Bytes) /\ FlattenSeq(rest) \in Seq(Bytes)
    BY WebIsBytes
<1>3. CutTwice(Bytes, x, u, c, v)
    BY <1>1, <1>2 DEF CutTwice
<1>4. d \in Seq(Bytes) /\ Len(d) = n - Len(x) /\ c = Cat(x, d) /\ u = Cat(d, v)
  <2>1. Len(x) <= Len(c)
      BY <1>1
  <2> HIDE DEF v
  <2> QED
      BY <1>1, <1>3, <2>1, BetweenTheCuts
<1> HIDE DEF d
<1> DEFINE m == Cat(d, FlattenSeq(rest))
<1>5. m \in Seq(Bytes) /\ more = Cat(x, m)
    BY <1>1, <1>2, <1>4, CatIs, CatTwice
<1>6. InContent(n - Len(x), u, m)
    BY <1>4 DEF InContent
<1> QED
    BY <1>5, <1>6

\* At the end of content comes its line end.
LEMMA ContentOver ==
    ASSUME NEW u, NEW more, InContent(0, u, more)
    PROVE  BetweenChunks(u, more)
<1>1. PICK c \in Seq(Bytes), rest \in Seq(Contents) :
            /\ Len(c) = 0
            /\ u = Cat(c, Cat(CRLF, Wire(rest))) /\ more = Cat(c, FlattenSeq(rest))
    BY DEF InContent
<1>2. c = << >>
    BY <1>1
<1>3. u = Cat(CRLF, Wire(rest)) /\ more = FlattenSeq(rest)
    BY <1>1, <1>2, WebIsBytes, CatEmpty
<1> QED
    BY <1>3 DEF BetweenChunks

\* Line ends before a size are passed over; any other byte is the first of a size.
LEMMA ByteBetween ==
    ASSUME NEW h \in Bytes, NEW u \in Seq(Bytes), NEW more, BetweenChunks(Cat(<< h >>, u), more)
    PROVE  \/ h \in {CR, LF} /\ BetweenChunks(u, more)
           \/ InSize(<< >>, Cat(<< h >>, u), more)
<1>1. PICK lead \in {<< >>, << LF >>, CRLF}, rest \in Seq(Contents) :
            Cat(<< h >>, u) = Cat(lead, Wire(rest)) /\ more = FlattenSeq(rest)
    BY DEF BetweenChunks
<1> DEFINE x == << h >>
           cr == << CR >>
           lf == << LF >>
           w == Wire(rest)
<1>2. /\ w \in Seq(Bytes) /\ x \in Seq(Bytes) /\ cr \in Seq(Bytes) /\ lf \in Seq(Bytes)
      /\ CR \in Bytes /\ LF \in Bytes /\ CRLF = Cat(cr, lf)
  <2>1. w \in Seq(Bytes) /\ cr \in Seq(Bytes) /\ lf \in Seq(Bytes)
      BY WebIsBytes, ContentsAreBytes
  <2>2. CR \in Bytes /\ LF \in Bytes
      BY DEF Bytes
  <2>3. CRLF = Cat(cr, lf)
      BY <2>2, PairIs DEF CRLF, Cat
  <2>4. x \in Seq(Bytes)
      OBVIOUS
  <2> HIDE DEF w
  <2> QED
      BY <2>1, <2>2, <2>3, <2>4
<1>3. CASE lead = << >>
  <2>1. Cat(<< >>, Cat(x, u)) = w
    <3>1. Cat(x, u) = Cat(<< >>, w) /\ Cat(x, u) \in Seq(Bytes)
        BY <1>1, <1>2, <1>3, CatIs
    <3> HIDE DEF x, w
    <3> QED
        BY <1>2, <3>1, CatEmpty
  <2>2. Len(<< >>) <= Len(Numeral[SizeOf(rest)]) + 1 /\ << >> \in Seq(Bytes)
    <3>1. Numeral[SizeOf(rest)] \in Seq(Digital)
        BY WireIs, ContentsAreBytes
    <3>2. Len(Numeral[SizeOf(rest)]) \in Nat
        BY <3>1
    <3> QED
        BY <3>2
  <2> QED
      BY <1>1, <2>1, <2>2 DEF InSize
<1>4. CASE lead = lf
  <2>1. CutTwice(Bytes, x, u, lf, w)
      BY <1>1, <1>2, <1>4 DEF CutTwice
  <2>2. h = LF /\ u = w
      BY <2>1, FirstByte
  <2>3. u = Cat(<< >>, w)
    <3> HIDE DEF w
    <3> QED
        BY <1>2, <2>2, CatEmpty
  <2> QED
      BY <1>1, <2>2, <2>3 DEF BetweenChunks
<1>5. CASE lead = CRLF
  <2> DEFINE v == Cat(lf, w)
  <2>1. v \in Seq(Bytes) /\ Cat(CRLF, w) = Cat(cr, v)
    <3> HIDE DEF cr, lf, w
    <3> QED
        BY <1>2, CatIs, CatTwice
  <2>2. CutTwice(Bytes, x, u, cr, v)
    <3> HIDE DEF cr, w, v, x
    <3> QED
        BY <1>1, <1>2, <1>5, <2>1 DEF CutTwice, x, w
  <2>3. h = CR /\ u = v
    <3> HIDE DEF v
    <3> QED
        BY <2>2, FirstByte
  <2> QED
      BY <1>1, <2>3 DEF BetweenChunks
<1> QED
    BY <1>1, <1>3, <1>4, <1>5

\* A byte of a size line: one more digit, the CR or, after both, the LF.
LEMMA ByteInSize ==
    ASSUME NEW text, NEW h \in Bytes, NEW u \in Seq(Bytes), NEW more,
           InSize(text, Cat(<< h >>, u), more)
    PROVE  \/ /\ h \in Digital \/ (h = CR /\ text # << >>)
              /\ InSize(Append(text, h), u, more)
           \/ /\ h = LF /\ text # << >>
              /\ Value(TextIn(text)) \in Nat
              /\ Value(TextIn(text)) = 0 => more = << >>
              /\ Value(TextIn(text)) > 0 => InContent(Value(TextIn(text)), u, more)
<1>1. PICK rest \in Seq(Contents) :
            /\ text \in Seq(Bytes) /\ Len(text) <= Len(Numeral[SizeOf(rest)]) + 1
            /\ Cat(text, Cat(<< h >>, u)) = Wire(rest) /\ more = FlattenSeq(rest)
    BY DEF InSize
<1> DEFINE num == Numeral[SizeOf(rest)]
           x == Append(num, CR)
           v == Cat(<< LF >>, End(rest))
           hu == Cat(<< h >>, u)
<1>2. num \in Seq(Digital) /\ num \in Seq(Bytes) /\ num # << >>
    BY WireIs, ContentsAreBytes, NumeralAssumption
<1>3. /\ x \in Seq(Bytes) /\ Len(num) \in Nat /\ Len(x) = Len(num) + 1 /\ Len(num) > 0
      /\ \A i \in 1..Len(num) : x[i] \in Digital
      /\ x[Len(num) + 1] = CR
  <2>1. CR \in Bytes
      BY DEF Bytes
  <2> HIDE DEF num
  <2> QED
      BY <1>2, <2>1
<1>4. << h >> \in Seq(Bytes) /\ << LF >> \in Seq(Bytes) /\ End(rest) \in Seq(Bytes)
    BY WireIs, ContentsAreBytes
<1>5. v \in Seq(Bytes) /\ hu \in Seq(Bytes) /\ Len(text) \in Nat
  <2>1. v \in Seq(Bytes)
      BY <1>4, CatIs
  <2>2. hu \in Seq(Bytes)
    <3>1. \E s \in Seq(Bytes) : s = << h >>
        BY <1>4
    <3>2. PICK s \in Seq(Bytes) : s = << h >>
        BY <3>1
    <3>3. Cat(s, u) \in Seq(Bytes)
        BY CatIs
    <3> QED
        BY <3>2, <3>3
  <2>3. Len(text) \in Nat
      BY <1>1
  <2> QED
      BY <2>1, <2>2, <2>3
<1>6. Cat(text, hu) = Cat(x, v)
    BY <1>1, WireIs
<1>7. CutTwice(Bytes, text, hu, x, v)
  <2> HIDE DEF hu, x, v
  <2> QED
      BY <1>1, <1>3, <1>5, <1>6 DEF CutTwice
<1>8. CASE Len(text) < Len(x)
  <2> DEFINE d == Behind(x, Len(text))
  <2>1. d \in Seq(Bytes) /\ Len(d) = Len(x) - Len(text) /\ x = Cat(text, d) /\ hu = Cat(d, v)
    <3>1. Len(text) <= Len(x)
      <4> HIDE DEF x
      <4> QED
          BY <1>3, <1>5, <1>8
    <3> HIDE DEF hu, x, v
    <3> QED
        BY <1>7, <3>1, BetweenTheCuts
  <2>2. Head(d) = x[Len(text) + 1] /\ d # << >>
    <3>1. Len(text) + 1 \in 1..Len(x) /\ Len(x) \in Nat
      <4> HIDE DEF x
      <4> QED
          BY <1>3, <1>5, <1>8
    <3>2. d = SubSeq(x, Len(text) + 1, Len(x))
      <4> HIDE DEF x
      <4> QED
          BY DEF Behind
    <3> HIDE DEF x, d, hu, v
    <3>3. Len(d) > 0 /\ d \in Seq(Bytes)
        BY <2>1, <1>8, <1>3, <1>5
    <3>4. d # << >> /\ Head(d) = d[1]
        BY <3>3
    <3>5. d[1] = x[Len(text) + 1]
      <4>1. \E a \in Nat, b \in Nat : a = Len(text) + 1 /\ b = Len(x) /\ a \in 1..b
          BY <3>1, <1>5
      <4>2. PICK a \in Nat, b \in Nat : a = Len(text) + 1 /\ b = Len(x) /\ a \in 1..b
          BY <4>1
      <4>3. SubSeq(x, a, b)[1] = x[a]
          BY <4>2
      <4> QED
          BY <3>2, <4>2, <4>3
    <3> QED
        BY <3>4, <3>5
  <2> HIDE DEF d
  <2> DEFINE w == Cat(Tail(d), v)
  <2>3. Tail(d) \in Seq(Bytes) /\ hu = Cat(<< Head(d) >>, w)
    <3> HIDE DEF hu, v
    <3> QED
        BY <1>5, <2>1, <2>2, OffTheFront
  <2>4. << Head(d) >> \in Seq(Bytes) /\ w \in Seq(Bytes)
    <3>1. Head(d) \in Bytes
        BY <2>1, <2>2
    <3>2. w \in Seq(Bytes)
      <4> HIDE DEF v
      <4> QED
          BY <1>5, <2>3, CatIs
    <3> HIDE DEF w
    <3> QED
        BY <3>1, <3>2
  <2>5. CutTwice(Bytes, << h >>, u, << Head(d) >>, w)
    <3> HIDE DEF w, v
    <3> QED
        BY <1>4, <2>3, <2>4 DEF CutTwice, hu
  <2>6. h = Head(d)
    <3> HIDE DEF w
    <3> QED
        BY <2>5, FirstByte
  <2>7. h \in Digital \/ (h = CR /\ text # << >>)
    <3>1. h = x[Len(text) + 1]
        BY <2>2, <2>6
    <3>2. Len(text) + 1 \in 1..Len(num) \/ Len(text) = Len(num)
      <4> HIDE DEF x, num
      <4> QED
          BY <1>3, <1>5, <1>8
    <3>3. Len(text) = Len(num) => text # << >>
      <4> HIDE DEF x, num
      <4> QED
          BY <1>3
    <3> HIDE DEF x, num
    <3> QED
        BY <1>3, <3>1, <3>2, <3>3
  <2>8. InSize(Append(text, h), u, more)
    <3>1. Append(text, h) \in Seq(Bytes) /\ Cat(Append(text, h), u) = Wire(rest)
        BY <1>1, OntoTheBack
    <3>2. Len(Append(text, h)) = Len(text) + 1
        BY <1>1
    <3>3. Len(Append(text, h)) <= Len(num) + 1
      <4> HIDE DEF x, num
      <4> QED
          BY <1>3, <1>5, <1>8, <3>2
    <3> QED
        BY <1>1, <3>1, <3>3 DEF InSize
  <2> QED
      BY <2>7, <2>8
<1>9. CASE Len(text) = Len(x)
  <2>1. text = x /\ hu = v
    <3> HIDE DEF hu, x, v
    <3> QED
        BY <1>7, <1>9, TheSameCut
  <2>2. CutTwice(Bytes, << h >>, u, << LF >>, End(rest))
      BY <1>4, <2>1 DEF CutTwice
  <2>3. h = LF /\ u = End(rest)
      BY <2>2, FirstByte
  <2>4. text # << >>
    <3> HIDE DEF x
    <3> QED
        BY <1>3, <1>9
  <2>5. Value(TextIn(text)) = SizeOf(rest)
    <3>1. TextIn(x) = num
      <4> HIDE DEF num
      <4> QED
          BY <1>2, TextBeforeCR
    <3>2. Value(num) = SizeOf(rest)
        BY WireIs, NumeralAssumption
    <3> HIDE DEF x, num
    <3> QED
        BY <2>1, <3>1, <3>2
  <2>6. SizeOf(rest) \in Nat
      BY WireIs, NumeralAssumption
  <2>7. CASE rest = << >>
    <3>1. SizeOf(rest) = 0 /\ more = << >>
        BY <1>1, <2>7, FlattenEmpty DEF SizeOf
    <3> QED
        BY <2>3, <2>4, <2>5, <3>1
  <2>8. CASE rest # << >>
    <3>1. Tail(rest) \in Seq(Contents) /\ Head(rest) \in Contents /\ rest \in Seq(Seq(Bytes))
        BY <2>8, ChunksAreBytes
    <3>2. Head(rest) \in Seq(Bytes) /\ Len(Head(rest)) \in DOMAIN Numeral \ {0}
        BY <3>1, ContentsAreBytes
    <3>3. u = Cat(Head(rest), Cat(CRLF, Wire(Tail(rest))))
        BY <2>3, <2>8 DEF End
    <3>4. more = Cat(Head(rest), FlattenSeq(Tail(rest)))
        BY <1>1, <2>8, <3>1, FlattenFront DEF Cat
    <3>5. InContent(Len(Head(rest)), u, more)
        BY <3>1, <3>2, <3>3, <3>4 DEF InContent
    <3>6. SizeOf(rest) = Len(Head(rest)) /\ SizeOf(rest) # 0
        BY <2>8, <3>2 DEF SizeOf
    <3> QED
        BY <2>3, <2>4, <2>5, <2>6, <3>5, <3>6
  <2> QED
      BY <2>7, <2>8
<1>10. Len(text) < Len(x) \/ Len(text) = Len(x)
  <2>1. Len(text) <= Len(num) + 1
      BY <1>1
  <2> HIDE DEF x, num
  <2> QED
      BY <2>1, <1>3, <1>5
<1> QED
    BY <1>8, <1>9, <1>10

-----------------------------------------------------------------------------
(* Types *)

Types ==
    /\ framing \in Framings /\ complete \in BOOLEAN /\ read_finished \in BOOLEAN
    /\ payload \in Seq(Bytes) /\ stream \in Seq(Bytes) /\ raw \in Seq(Bytes)
    /\ out \in Seq(Bytes) /\ delivered \in Seq(Bytes)
    /\ residue_size \in 0..Len(stream)
    /\ total_bytes \in Nat \union {NoSize} /\ bytes_readed \in Nat
    /\ length \in Seq(Digital \union {CR})
    /\ pc \in {"idle", "body", "size", "return"} /\ room \in 0..BUFFER_SIZE
    /\ result \in Nat
    /\ pc = "body" => Len(out) < BUFFER_SIZE
    /\ pc = "idle" => out = << >>
    /\ pc # "size" => raw = << >>

LEMMA TypesGiveTypeOK == Types => TypeOK
<1> SUFFICES ASSUME Types PROVE ToSet(length) \subseteq ToSet(Digits) \union {CR}
    BY DEF Types, TypeOK
<1>1. length \in Seq(Digital \union {CR})
    BY DEF Types
<1>2. \A i \in DOMAIN length : length[i] \in Digital \union {CR}
    BY <1>1
<1> QED
    BY <1>2 DEF ToSet, Digital

\* What is sent, and what of it comes.
LEMMA BodiesAreBytes ==
    ASSUME NEW body \in Bodies, NEW how
    PROVE  /\ body \in Seq(Contents) /\ FlattenSeq(body) \in Seq(Bytes)
           /\ Sent(body, how) \in Seq(Bytes)
           /\ how = "chunked" => Sent(body, how) = Wire(body)
           /\ how # "chunked" => Sent(body, how) = FlattenSeq(body)
<1>1. body \in Seq(Contents)
  <2>1. PICK k \in 0..MaxChunks : body \in [1..k -> Contents]
      BY DEF Bodies
  <2>2. k \in Nat
      BY SizesAssumption
  <2> QED
      BY <2>1, <2>2
<1>2. FlattenSeq(body) \in Seq(Bytes) /\ Wire(body) \in Seq(Bytes)
    BY <1>1, WebIsBytes
<1>3. how = "chunked" => Sent(body, how) = Wire(body)
    BY DEF Wire
<1>4. how # "chunked" => Sent(body, how) = FlattenSeq(body)
    BY DEF Sent
<1> QED
    BY <1>1, <1>2, <1>3, <1>4

Lacks(tail) == tail \in Seq(Bytes) /\ (complete => tail = << >>)

LEMMA InitIs ==
    ASSUME Init
    PROVE  \E body \in Bodies, tail \in Seq(Bytes) :
              /\ payload = FlattenSeq(body) /\ stream \in Seq(Bytes)
              /\ Cat(stream, tail) = Sent(body, framing) /\ Lacks(tail)
<1>1. PICK body \in Bodies, lost \in Lost[framing] :
            /\ payload = FlattenSeq(body)
            /\ complete = (lost = 0)
            /\ lost <= Len(Sent(body, framing))
            /\ stream = SubSeq(Sent(body, framing), 1, Len(Sent(body, framing)) - lost)
    BY DEF Init
<1> DEFINE s == Sent(body, framing)
           m == Len(s) - lost
           tail == SubSeq(s, m + 1, Len(s))
<1>2. s \in Seq(Bytes)
    BY BodiesAreBytes
<1>3. lost \in Nat /\ Len(s) \in Nat /\ m \in 0..Len(s)
  <2>1. framing \in Framings
      BY DEF Init
  <2>2. lost \in Nat
      BY <2>1, SizesAssumption
  <2>3. lost <= Len(s) /\ Len(s) \in Nat
      BY <1>1, <1>2
  <2> HIDE DEF s
  <2> QED
      BY <2>2, <2>3
<1> HIDE DEF s
<1>4. /\ SubSeq(s, 1, m) \in Seq(Bytes) /\ tail \in Seq(Bytes) /\ Len(tail) = Len(s) - m
      /\ Cat(SubSeq(s, 1, m), tail) = s
  <2> HIDE DEF m
  <2> QED
      BY <1>2, <1>3, CutAt
<1>5. stream = SubSeq(s, 1, m)
    BY <1>1 DEF s
<1>6. complete => tail = << >>
  <2>1. Len(s) - m = lost
      BY <1>3
  <2> HIDE DEF tail, m
  <2>2. lost = 0 => tail = << >>
      BY <1>4, <2>1
  <2>3. complete = (lost = 0)
      BY <1>1
  <2> QED
      BY <2>2, <2>3
<1>7. Lacks(tail) /\ Cat(stream, tail) = s
  <2> HIDE DEF tail, m
  <2> QED
      BY <1>4, <1>5, <1>6 DEF Lacks
<1> HIDE DEF tail, m
<1> QED
    BY <1>1, <1>4, <1>5, <1>7 DEF s

LEMMA TypesInit == Init => Types
<1> SUFFICES ASSUME Init PROVE Types
    OBVIOUS
<1>1. PICK body \in Bodies, tail \in Seq(Bytes) :
            payload = FlattenSeq(body) /\ stream \in Seq(Bytes)
    BY InitIs
<1>2. payload \in Seq(Bytes)
    BY <1>1, BodiesAreBytes
<1>3. total_bytes \in Nat
    BY <1>2 DEF Init
<1>4. complete \in BOOLEAN
    BY DEF Init
<1>5. << >> \in Seq(Bytes) /\ << >> \in Seq(Digital \union {CR})
    OBVIOUS
<1>6. BUFFER_SIZE \in Nat \ {0} /\ Len(<< >>) = 0
    BY SizesAssumption
<1>7. /\ framing \in Framings /\ read_finished \in BOOLEAN
      /\ residue_size \in 0..Len(stream) /\ bytes_readed \in Nat
      /\ pc = "idle" /\ room = 0 /\ result \in Nat
      /\ raw = << >> /\ out = << >> /\ delivered = << >> /\ length = << >>
    BY <1>6 DEF Init
<1> QED
    BY <1>1, <1>2, <1>3, <1>4, <1>5, <1>6, <1>7 DEF Types

\* A read of at most n bytes takes some off the front of what is to come, or
\* finds nothing there.
LEMMA ReadIs ==
    ASSUME Types, NEW n \in Nat, NEW m \in Available(n), Consume(m)
    PROVE  /\ m \in Nat /\ m <= n /\ (m = 0 /\ n > 0 => stream = << >>)
           /\ SubSeq(stream, 1, m) \in Seq(Bytes) /\ Len(SubSeq(stream, 1, m)) = m
           /\ stream' \in Seq(Bytes) /\ Len(stream') = Len(stream) - m
           /\ stream = Cat(SubSeq(stream, 1, m), stream')
           /\ residue_size' \in 0..Len(stream')
<1>1. stream \in Seq(Bytes) /\ Len(stream) \in Nat /\ residue_size \in 0..Len(stream)
    BY DEF Types
<1>2. m \in 0..Len(stream) /\ m <= n /\ (m = 0 /\ n > 0 => stream = << >>)
  <2>1. CASE residue_size > 0
      BY <1>1, <2>1 DEF Available, Least
  <2>2. CASE residue_size = 0
      BY <1>1, <2>2 DEF Available, Least
  <2> QED
      BY <1>1, <2>1, <2>2
<1>3. stream' = SubSeq(stream, m + 1, Len(stream))
    BY DEF Consume
<1>4. /\ SubSeq(stream, 1, m) \in Seq(Bytes) /\ Len(SubSeq(stream, 1, m)) = m
      /\ stream' \in Seq(Bytes) /\ Len(stream') = Len(stream) - m
      /\ stream = Cat(SubSeq(stream, 1, m), stream')
    BY <1>1, <1>2, <1>3, CutAt
<1>5. residue_size' \in 0..Len(stream')
  <2>1. residue_size' = IF residue_size > m THEN residue_size - m ELSE 0
      BY DEF Consume
  <2> QED
      BY <1>1, <1>2, <1>4, <2>1
<1> QED
    BY <1>1, <1>2, <1>4, <1>5

\* Whatever byte it is, the array holds digits and CRs, and a size is a natural.
LEMMA SizeIs ==
    ASSUME NEW c, length \in Seq(Digital \union {CR})
    PROVE  /\ get_chunk_size(c).size \in Nat \union {NoSize}
           /\ get_chunk_size(c).length \in Seq(Digital \union {CR})
<1>1. Value(TextIn(length)) \in Nat
    BY TextIsDigital, ValueIsNatural
<1>2. \A d \in Digital \union {CR} : Append(length, d) \in Seq(Digital \union {CR})
    OBVIOUS
<1>3. << >> \in Seq(Digital \union {CR})
    OBVIOUS
<1>4. CASE c \in ToSet(Digits)
  <2>1. get_chunk_size(c) = [size |-> NoSize, length |-> Append(length, c)]
      BY <1>4, DigitsAssumption DEF get_chunk_size
  <2> QED
      BY <1>2, <1>4, <2>1 DEF Digital
<1>5. CASE c \notin ToSet(Digits) /\ c = CR /\ length # << >>
  <2>1. get_chunk_size(c) = [size |-> NoSize, length |-> Append(length, CR)]
      BY <1>5 DEF get_chunk_size, CR, LF
  <2> QED
      BY <1>2, <2>1
<1>6. CASE c \notin ToSet(Digits) /\ c = LF /\ length # << >>
  <2>1. get_chunk_size(c) = [size |-> Value(TextIn(length)), length |-> << >>]
      BY <1>6 DEF get_chunk_size, CR, LF
  <2> QED
      BY <1>1, <1>3, <2>1
<1>7. CASE c \notin ToSet(Digits) /\ ~(c = CR /\ length # << >>) /\ ~(c = LF /\ length # << >>)
  <2>1. get_chunk_size(c) = [size |-> NoSize, length |-> length]
      BY <1>7 DEF get_chunk_size
  <2> QED
      BY <2>1
<1> QED
    BY <1>4, <1>5, <1>6, <1>7

LEMMA ResumeIs ==
    ASSUME NEW buffer \in Seq(Bytes), Resume(buffer)
    PROVE  /\ pc' \in {"body", "return"} /\ (pc' = "body" => Len(buffer) < BUFFER_SIZE)
           /\ (pc' = "return" => ~(Len(buffer) < BUFFER_SIZE))
BY DEF Resume

LEMMA TypesStep == Types /\ [Next]_vars => Types'
<1> SUFFICES ASSUME Types, [Next]_vars PROVE Types'
    OBVIOUS
<1>0. BUFFER_SIZE \in Nat /\ Len(out) \in Nat /\ << >> \in Seq(Bytes) /\ Len(<< >>) = 0
    BY SizesAssumption DEF Types
<1>a. BUFFER_SIZE > 0
    BY SizesAssumption
<1>1. CASE Call
    BY <1>0, <1>a, <1>1 DEF Types, Call, response, source, counts, caller
<1>2. CASE ReadKnown
  <2> DEFINE n == Least(BUFFER_SIZE - Len(out), total_bytes - bytes_readed)
  <2>1. PICK m \in Available(n) :
          /\ Consume(m)
          /\ IF m = 0
             THEN ConnectionEnds
             ELSE /\ out' = out \o SubSeq(stream, 1, m)
                  /\ bytes_readed' = bytes_readed + m
                  /\ Resume(out')
                  /\ UNCHANGED << total_bytes, read_finished, room, raw >>
      BY <1>2 DEF ReadKnown
  <2>2. n \in Nat
      BY <1>0, <1>2 DEF ReadKnown, Types, Least, NoSize
  <2>3. /\ m \in Nat /\ SubSeq(stream, 1, m) \in Seq(Bytes)
        /\ stream' \in Seq(Bytes) /\ residue_size' \in 0..Len(stream')
    <3> HIDE DEF n
    <3> QED
        BY <2>1, <2>2, ReadIs
  <2>4. UNCHANGED << response, length, caller >> /\ raw = << >>
      BY <1>2 DEF ReadKnown, Types
  <2> HIDE DEF n
  <2>5. CASE m = 0
      BY <2>1, <2>3, <2>4, <2>5 DEF ConnectionEnds, Types, response, caller, counts
  <2>6. CASE m # 0
    <3>1. out' \in Seq(Bytes)
        BY <2>1, <2>3, <2>6, CatIs DEF Types, Cat
    <3>2. pc' \in {"body", "return"} /\ (pc' = "body" => Len(out') < BUFFER_SIZE)
        BY <2>1, <2>6, <3>1, ResumeIs
    <3>3. bytes_readed' \in Nat /\ UNCHANGED << total_bytes, read_finished, room, raw >>
        BY <2>1, <2>3, <2>6 DEF Types
    <3> QED
        BY <2>3, <2>4, <3>1, <3>2, <3>3 DEF Types, response, caller
  <2> QED
      BY <2>5, <2>6
<1>3. CASE ReadChunk
  <2> DEFINE n == BUFFER_SIZE - Len(out)
  <2>1. PICK m \in Available(n) :
          /\ Consume(m)
          /\ IF m = 0
             THEN ConnectionEnds
             ELSE /\ raw' = SubSeq(stream, 1, m)
                  /\ room' = n
                  /\ total_bytes' = -1
                  /\ pc' = "size"
                  /\ UNCHANGED << bytes_readed, read_finished, out >>
      BY <1>3 DEF ReadChunk
  <2>2. n \in Nat /\ n <= BUFFER_SIZE
      BY <1>0, <1>3 DEF ReadChunk, Types
  <2> HIDE DEF n
  <2>3. /\ m \in Nat /\ SubSeq(stream, 1, m) \in Seq(Bytes)
        /\ stream' \in Seq(Bytes) /\ residue_size' \in 0..Len(stream')
      BY <2>1, <2>2, ReadIs
  <2>4. UNCHANGED << response, length, caller >> /\ raw = << >>
      BY <1>3 DEF ReadChunk, Types
  <2>5. CASE m = 0
      BY <2>1, <2>3, <2>4, <2>5 DEF ConnectionEnds, Types, response, caller, counts
  <2>6. CASE m # 0
    <3>1. raw' \in Seq(Bytes) /\ room' \in 0..BUFFER_SIZE
        BY <1>0, <2>1, <2>2, <2>3, <2>6
    <3>2. /\ total_bytes' = NoSize /\ pc' = "size"
          /\ UNCHANGED << bytes_readed, read_finished, out >>
        BY <2>1, <2>6 DEF NoSize
    <3> QED
        BY <2>3, <2>4, <3>1, <3>2 DEF Types, response, caller
  <2> QED
      BY <2>5, <2>6
<1>4. CASE BodyEnds
    BY <1>4 DEF Types, BodyEnds, response, source, counts, caller
<1>5. CASE Return
  <2>1. delivered' \in Seq(Bytes)
      BY <1>5, CatIs DEF Return, Types, Cat
  <2>2. result' = Len(out)
      BY <1>5 DEF Return
  <2> QED
      BY <1>0, <1>5, <2>1, <2>2 DEF Types, Return, response, source, counts
<1>6. CASE LookAtByte
  <2>1. total_bytes' \in Nat \union {NoSize} /\ length' \in Seq(Digital \union {CR})
      BY <1>6, SizeIs DEF LookAtByte, Types
  <2>2. raw' \in Seq(Bytes)
      BY <1>6 DEF LookAtByte, Types
  <2> QED
      BY <1>6, <2>1, <2>2 DEF Types, LookAtByte, response, source, caller
<1>7. CASE ReadMore
  <2>1. PICK m \in Available(room) : Consume(m) /\ raw' = SubSeq(stream, 1, m)
      BY <1>7 DEF ReadMore
  <2>2. room \in Nat
      BY <1>0 DEF Types
  <2>3. /\ raw' \in Seq(Bytes)
        /\ stream' \in Seq(Bytes) /\ residue_size' \in 0..Len(stream')
      BY <2>1, <2>2, ReadIs
  <2> QED
      BY <1>7, <2>3 DEF Types, ReadMore, response, counts, caller
<1>8. CASE LastChunk
  <2>1. out \in Seq(Bytes) /\ Resume(out)
      BY <1>8 DEF Types, LastChunk
  <2>2. pc' \in {"body", "return"} /\ (pc' = "body" => Len(out) < BUFFER_SIZE)
      BY <2>1, ResumeIs
  <2> QED
      BY <1>0, <1>8, <2>2 DEF Types, LastChunk, response, source, counts, caller
<1>9. CASE ChunkContent
  <2>1. Len(raw) \in Nat /\ raw \in Seq(Bytes) /\ total_bytes \in Nat
      BY <1>9 DEF Types, ChunkContent, NoSize
  <2>2. /\ UNCHANGED << response, source, read_finished, length, room, caller >>
        /\ bytes_readed' = Len(raw) /\ pc = "size"
      BY <1>9 DEF ChunkContent
  <2>3. CASE ChunkEnds
    <3>1. /\ out' = out \o SubSeq(raw, 1, total_bytes)
          /\ raw' = SubSeq(raw, total_bytes + 1, Len(raw))
          /\ total_bytes' = NoSize /\ pc' = pc
        BY <1>9, <2>3 DEF ChunkContent
    <3>2. total_bytes \in 0..Len(raw)
        BY <2>1, <2>3 DEF ChunkEnds
    <3>3. SubSeq(raw, 1, total_bytes) \in Seq(Bytes) /\ raw' \in Seq(Bytes)
        BY <2>1, <3>1, <3>2, CutAt
    <3>4. out' \in Seq(Bytes)
        BY <3>1, <3>3, CatIs DEF Types, Cat
    <3>5. total_bytes' = NoSize /\ pc' = "size"
        BY <2>2, <3>1
    <3> QED
        BY <2>1, <2>2, <3>3, <3>4, <3>5 DEF Types, response, source, caller
  <2>4. CASE ~ChunkEnds
    <3>1. out' = out \o raw /\ raw' = << >> /\ Resume(out') /\ UNCHANGED total_bytes
        BY <1>9, <2>4 DEF ChunkContent
    <3>2. out' \in Seq(Bytes)
        BY <2>1, <3>1, CatIs DEF Types, Cat
    <3>3. pc' \in {"body", "return"} /\ (pc' = "body" => Len(out') < BUFFER_SIZE)
        BY <3>1, <3>2, ResumeIs
    <3>4. raw' = << >> /\ total_bytes' \in Nat
        BY <2>1, <3>1
    <3> QED
        BY <1>0, <2>1, <2>2, <3>2, <3>3, <3>4 DEF Types, response, source, caller
  <2> QED
      BY <2>3, <2>4
<1>10. CASE UNCHANGED vars
    BY <1>10 DEF Types, vars, response, source, counts, caller
<1> QED
    BY <1>1, <1>2, <1>3, <1>4, <1>5, <1>6, <1>7, <1>8, <1>9, <1>10 DEF Next, Running

(* A call's types hold, however the body is framed and cut.                *)
THEOREM BodyTypeCorrect == Spec => []TypeOK
BY TypesInit, TypesStep, TypesGiveTypeOK, PTL DEF Spec

-----------------------------------------------------------------------------
(* The static array of get_chunk_size *)

(* ChunkStateIsClean does not say what the array holds while the size is   *)
(* looked for: nothing as soon as one has been found.                      *)
CleanInv == length # << >> => pc = "size" /\ total_bytes = NoSize

LEMMA CleanInit == Init => CleanInv
BY DEF Init, CleanInv

\* A character that ends a size clears the array.
LEMMA SizeClears ==
    ASSUME NEW c, get_chunk_size(c).size # NoSize
    PROVE  get_chunk_size(c).length = << >>
BY DEF get_chunk_size

LEMMA CleanStep == CleanInv /\ [Next]_vars => CleanInv'
<1> SUFFICES ASSUME CleanInv, [Next]_vars, length' # << >>
             PROVE  pc' = "size" /\ total_bytes' = NoSize
    BY DEF CleanInv
<1>1. CASE LookAtByte
  <2>1. /\ pc = "size" /\ pc' = pc
        /\ total_bytes' = get_chunk_size(Head(raw)).size
        /\ length' = get_chunk_size(Head(raw)).length
      BY <1>1 DEF LookAtByte
  <2> QED
      BY <2>1, SizeClears
<1>2. CASE ReadMore
    BY <1>2 DEF ReadMore, counts
<1>3. CASE Call \/ ReadKnown \/ ReadChunk \/ BodyEnds \/ Return \/ LastChunk \/ ChunkContent
  <2>1. length' = length /\ ~(pc = "size" /\ total_bytes = NoSize)
      BY <1>3 DEF Call, ReadKnown, ReadChunk, BodyEnds, Return, LastChunk, ChunkContent, NoSize
  <2> QED
      BY <2>1 DEF CleanInv
<1>4. CASE UNCHANGED vars
    BY <1>4 DEF CleanInv, vars, counts
<1> QED
    BY <1>1, <1>2, <1>3, <1>4 DEF Next, Running

(* Whatever a server sends and wherever the connection is cut, or ends, a  *)
(* call that returns leaves nothing in the static variables of             *)
(* get_chunk_size for the next response (requests.c:433-459, 465-480).     *)
THEOREM ChunkStateStaysClean == Spec => []ChunkStateIsClean
<1>1. CleanInv => ChunkStateIsClean
    BY DEF CleanInv, ChunkStateIsClean
<1> QED
    BY <1>1, CleanInit, CleanStep, PTL DEF Spec

-----------------------------------------------------------------------------
(* What the caller got *)

Got == Cat(delivered, out)

\* A step adds to what the caller got, and a return moves it.
LEMMA GotIs ==
    ASSUME Types
    PROVE  /\ Got \in Seq(Bytes)
           /\ out' = out /\ delivered' = delivered => Got' = Got
           /\ \A x \in Seq(Bytes) :
                 out' = out \o x /\ delivered' = delivered => Got' = Cat(Got, x)
           /\ out' = << >> /\ delivered' = delivered \o out => Got' = Got
           /\ out = << >> => Got = delivered
<1>1. delivered \in Seq(Bytes) /\ out \in Seq(Bytes)
    BY DEF Types
<1>2. Got \in Seq(Bytes)
    BY <1>1, CatIs DEF Got
<1>3. out' = out /\ delivered' = delivered => Got' = Got
    BY DEF Got
<1>4. ASSUME NEW x \in Seq(Bytes), out' = Cat(out, x), delivered' = delivered
      PROVE  Got' = Cat(Got, x)
  <2>1. Got' = Cat(delivered, Cat(out, x))
      BY <1>4 DEF Got
  <2>2. Cat(Cat(delivered, out), x) = Cat(delivered, Cat(out, x))
      BY <1>1, CatTwice
  <2> QED
      BY <2>1, <2>2 DEF Got
<1>5. ASSUME out' = << >>, delivered' = Cat(delivered, out) PROVE Got' = Got
  <2>1. Got' = Cat(Got, << >>)
      BY <1>5 DEF Got
  <2> QED
      BY <1>2, <2>1, CatEmpty
<1>6. out = << >> => Got = delivered
    BY <1>1, CatEmpty DEF Got
<1>7. /\ \A x \in Seq(Bytes) :
            out' = Cat(out, x) /\ delivered' = delivered => Got' = Cat(Got, x)
      /\ out' = << >> /\ delivered' = Cat(delivered, out) => Got' = Got
    BY <1>4, <1>5
<1>8. \A x, y : Cat(x, y) = x \o y
    BY DEF Cat
<1> HIDE DEF Got
<1> QED
    BY <1>2, <1>3, <1>6, <1>7, <1>8

(* A call ends when the buffer is full or, with a complete body, when all  *)
(* of it was given.                                                        *)
Settled ==
    \/ pc = "body" /\ ~read_finished
         /\ (stream = << >> \/ (total_bytes <= bytes_readed /\ ~chunked))
    \/ pc = "size" /\ total_bytes = 0
    => (complete => payload = Got)

EndsInv ==
    /\ read_finished => pc # "size" /\ (complete => payload = Got)
    /\ pc = "return" /\ Len(out) < BUFFER_SIZE /\ complete => payload = Got
    /\ result = 0 => pc = "idle" /\ (complete => payload = delivered)

LEMMA EndsInit == Init => EndsInv
<1> SUFFICES ASSUME Init PROVE EndsInv
    OBVIOUS
<1>1. pc = "idle" /\ ~read_finished /\ result # 0
    BY SizesAssumption DEF Init
<1> QED
    BY <1>1 DEF EndsInv

LEMMA EndsStep ==
    ASSUME Types, EndsInv, Settled, [Next]_vars
    PROVE  EndsInv'
<1>0. BUFFER_SIZE \in Nat \ {0} /\ Len(out) \in Nat /\ out \in Seq(Bytes) /\ Types'
    BY SizesAssumption, TypesStep DEF Types
<1>1. CASE Call
  <2>1. out = << >> /\ out' = << >>
      BY <1>1 DEF Call, Types
  <2>2. UNCHANGED << response, read_finished, caller >> /\ pc' = "body" /\ result # 0
      BY <1>1 DEF Call
  <2>3. Got' = Got
      BY <2>1, <2>2, GotIs DEF caller
  <2> QED
      BY <2>2, <2>3 DEF EndsInv, response, caller
<1>2. CASE ReadKnown \/ ReadChunk
  <2>1. UNCHANGED << response, caller >> /\ pc = "body" /\ ~read_finished
      BY <1>2 DEF ReadKnown, ReadChunk
  <2>2. result' = result /\ result # 0
      BY <2>1 DEF EndsInv, caller
  <2>3. CASE ConnectionEnds
    <3>1. stream = << >>
      <4>1. CASE ReadKnown
        <5> DEFINE n == Least(BUFFER_SIZE - Len(out), total_bytes - bytes_readed)
        <5>1. PICK m \in Available(n) : Consume(m) /\ (m # 0 => bytes_readed' = bytes_readed + m)
            BY <4>1 DEF ReadKnown
        <5>2. n \in Nat /\ n > 0
          <6>1. total_bytes > bytes_readed /\ Len(out) < BUFFER_SIZE
              BY <4>1 DEF ReadKnown, Types
          <6>2. total_bytes \in Int /\ bytes_readed \in Int
              BY DEF Types, NoSize
          <6> QED
              BY <1>0, <6>1, <6>2 DEF Least
        <5>3. bytes_readed' = bytes_readed
            BY <2>3 DEF ConnectionEnds, counts
        <5> HIDE DEF n
        <5>4. m \in Nat /\ (m = 0 => stream = << >>)
            BY <5>1, <5>2, ReadIs
        <5> QED
            BY <5>1, <5>3, <5>4 DEF Types
      <4>2. CASE ReadChunk
        <5> DEFINE n == BUFFER_SIZE - Len(out)
        <5>1. PICK m \in Available(n) : Consume(m) /\ (m # 0 => pc' = "size")
            BY <4>2 DEF ReadChunk
        <5>2. n \in Nat /\ n > 0
            BY <1>0, <4>2, SMTT(30) DEF ReadChunk, Types
        <5>3. pc' = "return"
            BY <2>3 DEF ConnectionEnds
        <5> HIDE DEF n
        <5>4. m \in Nat /\ (m = 0 => stream = << >>)
            BY <5>1, <5>2, ReadIs
        <5> QED
            BY <5>1, <5>3, <5>4
      <4> QED
          BY <1>2, <4>1, <4>2
    <3>2. complete => payload = Got
        BY <2>1, <3>1 DEF Settled
    <3>3. Got' = Got
        BY <2>1, <2>3, GotIs DEF ConnectionEnds, caller
    <3>4. pc' = "return" /\ payload' = payload /\ complete' = complete
        BY <2>1, <2>3 DEF ConnectionEnds, response
    <3> QED
        BY <2>2, <3>2, <3>3, <3>4 DEF EndsInv
  <2>4. CASE ~ConnectionEnds
    <3>1. read_finished' = read_finished /\ (pc' = "size" \/ Resume(out'))
        BY <1>2, <2>4 DEF ReadKnown, ReadChunk
    <3>2. pc' = "return" => ~(Len(out') < BUFFER_SIZE)
      <4>1. out' \in Seq(Bytes)
          BY <1>0 DEF Types
      <4> QED
          BY <3>1, <4>1, ResumeIs
    <3> QED
        BY <2>1, <2>2, <3>1, <3>2 DEF EndsInv
  <2> QED
      BY <2>3, <2>4
<1>3. CASE BodyEnds
  <2>1. /\ UNCHANGED << response, read_finished, out, caller >>
        /\ pc = "body" /\ pc' = "return"
        /\ read_finished \/ (total_bytes <= bytes_readed /\ ~chunked)
      BY <1>3 DEF BodyEnds
  <2>2. complete => payload = Got
      BY <2>1 DEF Settled, EndsInv
  <2>3. Got' = Got
      BY <2>1, GotIs DEF caller
  <2>4. payload' = payload /\ complete' = complete /\ result' = result /\ result # 0
      BY <2>1 DEF response, caller, EndsInv
  <2> QED
      BY <2>1, <2>2, <2>3, <2>4 DEF EndsInv
<1>4. CASE Return
  <2>1. /\ UNCHANGED << response, read_finished >>
        /\ pc = "return" /\ pc' = "idle"
        /\ delivered' = delivered \o out /\ result' = Len(out) /\ out' = << >>
      BY <1>4 DEF Return
  <2>2. Got' = Got
      BY <2>1, GotIs
  <2>3. Got' = delivered'
      BY <2>1, CatEmpty, <1>0 DEF Got, Types
  <2>4. payload' = payload /\ complete' = complete
      BY <2>1 DEF response
  <2>5. result' = 0 /\ complete => payload = Got
      BY <1>0, <2>1 DEF EndsInv
  <2> HIDE DEF Got
  <2> QED
      BY <2>1, <2>2, <2>3, <2>4, <2>5 DEF EndsInv
<1>5. CASE LookAtByte \/ ReadMore
  <2>1. UNCHANGED << response, read_finished, pc, out, caller >> /\ pc = "size"
      BY <1>5 DEF LookAtByte, ReadMore
  <2> QED
      BY <2>1 DEF EndsInv, response, caller
<1>6. CASE LastChunk
  <2>1. /\ UNCHANGED << response, out, caller >> /\ pc = "size" /\ total_bytes = 0 /\ Resume(out)
      BY <1>6 DEF LastChunk
  <2>2. complete => payload = Got
      BY <2>1 DEF Settled
  <2>3. Got' = Got
      BY <2>1, GotIs DEF caller
  <2>4. pc' \in {"body", "return"} /\ (pc' = "return" => ~(Len(out) < BUFFER_SIZE))
      BY <1>0, <2>1, ResumeIs
  <2>5. /\ payload' = payload /\ complete' = complete /\ out' = out
        /\ result' = result /\ result # 0
      BY <2>1 DEF response, caller, EndsInv
  <2> QED
      BY <2>2, <2>3, <2>4, <2>5 DEF EndsInv
<1>7. CASE ChunkContent
  <2>1. /\ UNCHANGED << response, read_finished, caller >> /\ pc = "size"
        /\ pc' = pc \/ Resume(out')
      BY <1>7 DEF ChunkContent
  <2>2. ~read_finished /\ result' = result /\ result # 0
      BY <2>1 DEF EndsInv, caller
  <2>3. pc' = "return" => ~(Len(out') < BUFFER_SIZE)
    <3>1. out' \in Seq(Bytes)
        BY <1>0 DEF Types
    <3> QED
        BY <2>1, <3>1, ResumeIs
  <2> QED
      BY <2>1, <2>2, <2>3 DEF EndsInv
<1>8. CASE UNCHANGED vars
    BY <1>8 DEF EndsInv, Got, vars, response, caller
<1> QED
    BY <1>1, <1>2, <1>3, <1>4, <1>5, <1>6, <1>7, <1>8 DEF Next, Running

-----------------------------------------------------------------------------
(* A body with Content-Length *)

\* "tail" is what the connection will never bring.
LengthAt(tail) ==
    /\ Lacks(tail) /\ payload = Cat(Got, Cat(stream, tail))
    /\ total_bytes = bytes_readed + Len(stream) + Len(tail)

LengthInv == pc # "size" /\ \E tail \in Seq(Bytes) : LengthAt(tail)

LEMMA LengthInit == Init /\ framing = "length" => LengthInv
<1> SUFFICES ASSUME Init, framing = "length" PROVE LengthInv
    OBVIOUS
<1>1. PICK body \in Bodies, tail \in Seq(Bytes) :
            /\ payload = FlattenSeq(body) /\ stream \in Seq(Bytes)
            /\ Cat(stream, tail) = Sent(body, framing) /\ Lacks(tail)
    BY InitIs
<1>2. Sent(body, framing) = payload /\ payload \in Seq(Bytes)
    BY <1>1, BodiesAreBytes
<1>3. Got = << >> /\ bytes_readed = 0 /\ total_bytes = Len(payload) /\ pc = "idle"
  <2>1. Got = << >>
      BY CatEmpty DEF Init, Got, Cat
  <2> QED
      BY <2>1 DEF Init, chunked
<1>4. payload = Cat(Got, Cat(stream, tail))
    BY <1>1, <1>2, <1>3, CatEmpty
<1>5. total_bytes = bytes_readed + Len(stream) + Len(tail)
  <2>1. Len(Cat(stream, tail)) = Len(stream) + Len(tail) /\ Len(stream) \in Nat /\ Len(tail) \in Nat
      BY <1>1, CatLength
  <2> QED
      BY <1>1, <1>2, <1>3, <2>1
<1> QED
    BY <1>1, <1>3, <1>4, <1>5 DEF LengthInv, LengthAt

LEMMA LengthSettled == Types /\ framing = "length" /\ LengthInv => Settled
<1> SUFFICES ASSUME Types, framing = "length", LengthInv, complete,
                    stream = << >> \/ total_bytes <= bytes_readed
             PROVE  payload = Got
    BY DEF Settled, LengthInv
<1>1. PICK tail \in Seq(Bytes) : LengthAt(tail)
    BY DEF LengthInv
<1>2. tail = << >>
    BY <1>1 DEF LengthAt, Lacks
<1>3. stream \in Seq(Bytes) /\ Len(stream) \in Nat /\ bytes_readed \in Nat /\ Len(<< >>) = 0
    BY DEF Types
<1>4. stream = << >>
  <2>1. total_bytes = bytes_readed + Len(stream)
      BY <1>1, <1>2, <1>3 DEF LengthAt
  <2>2. stream # << >> => Len(stream) > 0
      BY <1>3
  <2> QED
      BY <1>3, <2>1, <2>2
<1>5. Cat(stream, tail) = << >>
    BY <1>2, <1>3, <1>4, CatEmpty
<1>6. Got \in Seq(Bytes)
    BY GotIs
<1> QED
    BY <1>1, <1>5, <1>6, CatEmpty DEF LengthAt

LEMMA LengthStep ==
    ASSUME Types, framing = "length", LengthInv, [Next]_vars
    PROVE  LengthInv'
<1>1. PICK tail \in Seq(Bytes) : LengthAt(tail)
    BY DEF LengthInv
<1>2. pc # "size" /\ ~chunked
    BY DEF LengthInv, chunked
<1>3. CASE Call \/ BodyEnds \/ Return \/ UNCHANGED vars
  <2>1. UNCHANGED << response, source, counts >> /\ pc' # "size"
      BY <1>2, <1>3 DEF Call, BodyEnds, Return, vars
  <2>2. Got' = Got
    <3>1. CASE Call
      <4>1. out' = out /\ delivered' = delivered
          BY <3>1 DEF Call, Types, caller
      <4> QED
          BY <4>1, GotIs
    <3>2. CASE BodyEnds \/ UNCHANGED vars
      <4>1. out' = out /\ delivered' = delivered
          BY <3>2 DEF BodyEnds, vars, caller
      <4> QED
          BY <4>1, GotIs
    <3>3. CASE Return
      <4>1. out' = << >> /\ delivered' = delivered \o out
          BY <3>3 DEF Return
      <4> QED
          BY <4>1, GotIs
    <3> QED
        BY <1>3, <3>1, <3>2, <3>3
  <2>3. LengthAt(tail)'
    <3> HIDE DEF Got
    <3> QED
        BY <1>1, <2>1, <2>2 DEF LengthAt, Lacks, response, source, counts
  <2> QED
      BY <2>1, <2>3 DEF LengthInv
<1>4. CASE ReadKnown
  <2> DEFINE n == Least(BUFFER_SIZE - Len(out), total_bytes - bytes_readed)
  <2>1. PICK m \in Available(n) :
          /\ Consume(m)
          /\ IF m = 0
             THEN ConnectionEnds
             ELSE /\ out' = out \o SubSeq(stream, 1, m)
                  /\ bytes_readed' = bytes_readed + m
                  /\ Resume(out')
                  /\ UNCHANGED << total_bytes, read_finished, room, raw >>
      BY <1>4 DEF ReadKnown
  <2>2. n \in Nat
      BY SizesAssumption, <1>4 DEF ReadKnown, Types, Least, NoSize
  <2> DEFINE x == SubSeq(stream, 1, m)
             s == stream'
  <2>3. /\ m \in Nat /\ x \in Seq(Bytes) /\ Len(x) = m
        /\ s \in Seq(Bytes) /\ Len(s) = Len(stream) - m
        /\ stream = Cat(x, s)
    <3> HIDE DEF n
    <3> QED
        BY <2>1, <2>2, ReadIs
  <2> HIDE DEF n, s
  <2>4. UNCHANGED << response, length, caller >>
      BY <1>4 DEF ReadKnown
  <2>5. Got' = Cat(Got, x) /\ bytes_readed' = bytes_readed + m /\ total_bytes' = total_bytes
        /\ pc' # "size"
    <3>1. CASE m = 0
      <4>1. x = << >>
        <5> HIDE DEF x
        <5> QED
            BY <2>3, <3>1
      <4>2. out' = out /\ UNCHANGED << total_bytes, bytes_readed >> /\ pc' = "return"
          BY <2>1, <3>1 DEF ConnectionEnds, counts
      <4>3. Got' = Got /\ Got \in Seq(Bytes)
          BY <2>4, <4>2, GotIs DEF caller
      <4>4. Cat(Got, x) = Got
        <5> HIDE DEF Got, x
        <5> QED
            BY <4>1, <4>3, CatEmpty
      <4> QED
          BY <3>1, <4>2, <4>3, <4>4 DEF Types
    <3>2. CASE m # 0
      <4>1. out' = out \o x /\ delivered' = delivered /\ Resume(out')
            /\ bytes_readed' = bytes_readed + m /\ total_bytes' = total_bytes
          BY <2>1, <2>4, <3>2 DEF caller
      <4>2. Got' = Cat(Got, x)
        <5> HIDE DEF x
        <5> QED
            BY <2>3, <4>1, GotIs
      <4>3. pc' # "size"
          BY <4>1 DEF Resume
      <4> QED
          BY <4>1, <4>2, <4>3
    <3> QED
        BY <3>1, <3>2
  <2> HIDE DEF x
  <2>6. Cat(Got, Cat(stream, tail)) = Cat(Cat(Got, x), Cat(s, tail))
    <3>1. Got \in Seq(Bytes)
        BY GotIs
    <3>2. Cat(stream, tail) = Cat(x, Cat(s, tail)) /\ Cat(s, tail) \in Seq(Bytes)
        BY <2>3, CatTwice, CatIs
    <3> HIDE DEF Got
    <3>3. Cat(Cat(Got, x), Cat(s, tail)) = Cat(Got, Cat(x, Cat(s, tail)))
        BY <2>3, <3>1, <3>2, CatTwice
    <3> QED
        BY <3>2, <3>3
  <2>7. payload' = Cat(Got', Cat(stream', tail))
    <3> HIDE DEF Got
    <3>1. payload' = payload /\ payload = Cat(Got, Cat(stream, tail))
        BY <1>1, <2>4 DEF LengthAt, response
    <3> QED
        BY <2>5, <2>6, <3>1 DEF s
  <2>8. total_bytes' = bytes_readed' + Len(stream') + Len(tail)
    <3>1. total_bytes = bytes_readed + Len(stream) + Len(tail) /\ bytes_readed \in Nat
        BY <1>1 DEF LengthAt, Types
    <3>2. Len(stream) \in Nat /\ Len(tail) \in Nat /\ Len(stream') = Len(stream) - m
        BY <2>3 DEF Types, s
    <3> QED
        BY <2>3, <2>5, <3>1, <3>2
  <2>9. Lacks(tail)'
      BY <1>1, <2>4 DEF LengthAt, Lacks, response
  <2> QED
      BY <2>5, <2>7, <2>8, <2>9 DEF LengthInv, LengthAt
<1>5. ~(ReadChunk \/ LookAtByte \/ ReadMore \/ LastChunk \/ ChunkContent)
    BY <1>2 DEF ReadChunk, LookAtByte, ReadMore, LastChunk, ChunkContent
<1> QED
    BY <1>3, <1>4, <1>5 DEF Next, Running

-----------------------------------------------------------------------------
(* A body in chunks *)

\* What the state knows of the place "u" begins at.
ChunkPlace(u, more) ==
    \/ read_finished /\ pc # "size"
    \/ /\ ~read_finished /\ pc = "size"
       /\ \/ total_bytes = 0 /\ more = << >>
          \/ total_bytes > 0 /\ InContent(total_bytes, u, more)
          \/ total_bytes = NoSize /\ length = << >> /\ BetweenChunks(u, more)
          \/ total_bytes = NoSize /\ InSize(length, u, more)
    \/ /\ ~read_finished /\ pc # "size"
       /\ \/ total_bytes >= bytes_readed /\ InContent(total_bytes - bytes_readed, u, more)
          \/ total_bytes <= bytes_readed /\ BetweenChunks(u, more)

Ahead(tail) == Cat(raw, Cat(stream, tail))

ChunkedAt(tail, more) ==
    Lacks(tail) /\ payload = Cat(Got, more) /\ ChunkPlace(Ahead(tail), more)

ChunkedInv == \E tail \in Seq(Bytes), more \in Seq(Bytes) : ChunkedAt(tail, more)

\* What is ahead of the reader is what it holds and what the connection brings.
LEMMA AheadIs ==
    ASSUME Types, NEW tail \in Seq(Bytes)
    PROVE  /\ Cat(stream, tail) \in Seq(Bytes) /\ Ahead(tail) \in Seq(Bytes)
           /\ raw = << >> => Ahead(tail) = Cat(stream, tail)
<1>1. stream \in Seq(Bytes) /\ raw \in Seq(Bytes)
    BY DEF Types
<1>2. Cat(stream, tail) \in Seq(Bytes)
    BY <1>1, CatIs
<1> QED
    BY <1>1, <1>2, CatIs, CatEmpty DEF Ahead

LEMMA ChunkedInit == Init /\ framing = "chunked" => ChunkedInv
<1> SUFFICES ASSUME Init, framing = "chunked" PROVE ChunkedInv
    OBVIOUS
<1>1. PICK body \in Bodies, tail \in Seq(Bytes) :
            /\ payload = FlattenSeq(body) /\ stream \in Seq(Bytes)
            /\ Cat(stream, tail) = Sent(body, framing) /\ Lacks(tail)
    BY InitIs
<1>2. /\ body \in Seq(Contents) /\ Cat(stream, tail) = Wire(body)
      /\ Wire(body) \in Seq(Bytes) /\ payload \in Seq(Bytes)
    BY <1>1, BodiesAreBytes, WebIsBytes
<1>3. Got = << >>
    BY CatEmpty DEF Init, Got, Cat
<1>4. payload = Cat(Got, payload)
    BY <1>2, <1>3, CatEmpty
<1>5. Ahead(tail) = Cat(<< >>, Wire(body))
    BY <1>2 DEF Ahead, Init
<1>6. BetweenChunks(Ahead(tail), payload)
    BY <1>1, <1>2, <1>5 DEF BetweenChunks
<1>7. ~read_finished /\ pc # "size" /\ total_bytes <= bytes_readed
    BY DEF Init, chunked
<1>8. ChunkedAt(tail, payload)
    BY <1>1, <1>4, <1>6, <1>7 DEF ChunkedAt, ChunkPlace
<1> QED
    BY <1>2, <1>8 DEF ChunkedInv

LEMMA ChunkedSettled == Types /\ framing = "chunked" /\ ChunkedInv => Settled
<1> SUFFICES ASSUME Types, framing = "chunked", ChunkedInv, complete,
                    \/ pc = "body" /\ ~read_finished /\ stream = << >>
                    \/ pc = "size" /\ total_bytes = 0
             PROVE  payload = Got
    BY DEF Settled, chunked
<1>1. PICK tail \in Seq(Bytes), more \in Seq(Bytes) : ChunkedAt(tail, more)
    BY DEF ChunkedInv
<1>2. CASE pc = "body" /\ ~read_finished /\ stream = << >>
  <2>1. raw = << >> /\ tail = << >>
      BY <1>1, <1>2 DEF ChunkedAt, Lacks, Types
  <2>2. Ahead(tail) = << >>
      BY <1>2, <2>1, AheadIs, CatEmpty
  <2>3. \E k : InContent(k, Ahead(tail), more) \/ BetweenChunks(Ahead(tail), more)
      BY <1>1, <1>2 DEF ChunkedAt, ChunkPlace
  <2> QED
      BY <2>2, <2>3, PlacesAreTyped
<1>3. CASE pc = "size" /\ total_bytes = 0
  <2>1. more = << >> /\ payload = Cat(Got, more)
      BY <1>1, <1>3 DEF ChunkedAt, ChunkPlace, NoSize
  <2>2. Got \in Seq(Bytes)
      BY GotIs
  <2> QED
      BY <2>1, <2>2, CatEmpty
<1> QED
    BY <1>2, <1>3

\* Once x is taken out of what is ahead and given to the caller.
LEMMA Given ==
    ASSUME Types, NEW x \in Seq(Bytes), NEW m \in Seq(Bytes), NEW more,
           payload = Cat(Got, more), more = Cat(x, m),
           payload' = payload, out' = out \o x, delivered' = delivered
    PROVE  payload' = Cat(Got', m)
<1>1. Got \in Seq(Bytes) /\ Got' = Cat(Got, x)
    BY GotIs
<1>2. Cat(Cat(Got, x), m) = Cat(Got, Cat(x, m))
    BY <1>1, CatTwice
<1> HIDE DEF Got
<1> QED
    BY <1>1, <1>2

\* Content is taken from the chunk or, if nothing comes, the body is over.
LEMMA InChunk ==
    ASSUME Types, framing = "chunked", ReadKnown,
           NEW tail \in Seq(Bytes), NEW more \in Seq(Bytes), ChunkedAt(tail, more)
    PROVE  ChunkedInv'
<1> DEFINE n == Least(BUFFER_SIZE - Len(out), total_bytes - bytes_readed)
<1>1. PICK m \in Available(n) :
        /\ Consume(m)
        /\ IF m = 0
           THEN ConnectionEnds
           ELSE /\ out' = out \o SubSeq(stream, 1, m)
                /\ bytes_readed' = bytes_readed + m
                /\ Resume(out')
                /\ UNCHANGED << total_bytes, read_finished, room, raw >>
    BY DEF ReadKnown
<1>2. n \in Nat /\ n <= total_bytes - bytes_readed
    BY SizesAssumption DEF ReadKnown, Types, Least, NoSize
<1> DEFINE x == SubSeq(stream, 1, m)
           s == stream'
           k == total_bytes - bytes_readed
<1>3. /\ m \in Nat /\ m <= n /\ x \in Seq(Bytes) /\ Len(x) = m
      /\ s \in Seq(Bytes) /\ stream = Cat(x, s)
  <2> HIDE DEF n
  <2> QED
      BY <1>1, <1>2, ReadIs
<1>4. /\ UNCHANGED << response, length, caller >> /\ raw = << >>
      /\ pc = "body" /\ ~read_finished /\ total_bytes > bytes_readed
    BY DEF ReadKnown, Types
<1>5. payload' = payload /\ Lacks(tail)' /\ delivered' = delivered
    BY <1>4 DEF ChunkedAt, Lacks, response, caller
<1>6. CASE m = 0
  <2>1. read_finished' /\ pc' = "return" /\ out' = out
      BY <1>1, <1>6 DEF ConnectionEnds
  <2>2. Got' = Got
      BY <1>5, <2>1, GotIs
  <2>3. ChunkPlace(Ahead(tail), more)'
      BY <2>1 DEF ChunkPlace
  <2>4. payload' = Cat(Got', more)
    <3> HIDE DEF Got
    <3> QED
        BY <1>5, <2>2 DEF ChunkedAt
  <2> QED
      BY <1>5, <2>3, <2>4 DEF ChunkedInv, ChunkedAt
<1>7. CASE m # 0
  <2>1. /\ out' = out \o x /\ bytes_readed' = bytes_readed + m /\ total_bytes' = total_bytes
        /\ Resume(out') /\ ~read_finished' /\ raw' = << >>
      BY <1>1, <1>4, <1>7
  <2> DEFINE u == Cat(s, tail)
  <2>2. u \in Seq(Bytes) /\ Ahead(tail) = Cat(x, u)
    <3>1. Ahead(tail) = Cat(stream, tail)
        BY <1>4, AheadIs
    <3> HIDE DEF x, s
    <3> QED
        BY <1>3, <3>1, CatIs, CatTwice
  <2>3. InContent(k, Cat(x, u), more) /\ k \in Nat /\ m <= k
    <3>1. ~(total_bytes <= bytes_readed) /\ k \in Nat
        BY <1>4 DEF Types, NoSize
    <3>2. InContent(k, Ahead(tail), more)
        BY <1>4, <3>1 DEF ChunkedAt, ChunkPlace
    <3>3. m <= k
      <4> HIDE DEF n, k
      <4> QED
          BY <1>2, <1>3, <3>1 DEF k
    <3> HIDE DEF u, x, k
    <3> QED
        BY <2>2, <3>1, <3>2, <3>3
  <2> HIDE DEF n, x, u, k, s
  <2>4. PICK m2 \in Seq(Bytes) : more = Cat(x, m2) /\ InContent(k - m, u, m2)
      BY <1>3, <2>2, <2>3, TakeContent
  <2>5. payload' = Cat(Got', m2)
    <3>1. payload = Cat(Got, more)
        BY DEF ChunkedAt
    <3> QED
        BY <1>3, <1>5, <2>1, <2>4, <3>1, Given
  <2>6. Ahead(tail)' = u
    <3>1. Ahead(tail)' = Cat(<< >>, u)
        BY <2>1 DEF Ahead, u, s
    <3> QED
        BY <2>2, <3>1, CatEmpty
  <2>7. total_bytes' >= bytes_readed' /\ total_bytes' - bytes_readed' = k - m
    <3>1. total_bytes \in Int /\ bytes_readed \in Nat
        BY DEF Types, NoSize
    <3> QED
        BY <1>3, <2>1, <2>3, <3>1 DEF k
  <2>8. pc' # "size"
      BY <2>1 DEF Resume
  <2>9. ChunkPlace(Ahead(tail), m2)'
      BY <2>1, <2>4, <2>6, <2>7, <2>8 DEF ChunkPlace
  <2> QED
      BY <1>5, <2>5, <2>9 DEF ChunkedInv, ChunkedAt
<1> QED
    BY <1>6, <1>7

\* What comes behind a chunk is looked at from its first byte on.
LEMMA AfterChunk ==
    ASSUME Types, CleanInv, framing = "chunked", ReadChunk,
           NEW tail \in Seq(Bytes), NEW more \in Seq(Bytes), ChunkedAt(tail, more)
    PROVE  ChunkedInv'
<1> DEFINE n == BUFFER_SIZE - Len(out)
<1>1. PICK m \in Available(n) :
        /\ Consume(m)
        /\ IF m = 0
           THEN ConnectionEnds
           ELSE /\ raw' = SubSeq(stream, 1, m)
                /\ room' = n
                /\ total_bytes' = -1
                /\ pc' = "size"
                /\ UNCHANGED << bytes_readed, read_finished, out >>
    BY DEF ReadChunk
<1>2. n \in Nat
    BY SizesAssumption DEF ReadChunk, Types
<1> DEFINE x == SubSeq(stream, 1, m)
           s == stream'
<1>3. /\ x \in Seq(Bytes) /\ s \in Seq(Bytes) /\ stream = Cat(x, s)
  <2> HIDE DEF n
  <2> QED
      BY <1>1, <1>2, ReadIs
<1>4. /\ UNCHANGED << response, length, caller >> /\ raw = << >>
      /\ pc = "body" /\ ~read_finished /\ total_bytes <= bytes_readed
    BY DEF ReadChunk, Types
<1>5. payload' = payload /\ Lacks(tail)' /\ delivered' = delivered
    BY <1>4 DEF ChunkedAt, Lacks, response, caller
<1>6. out' = out
    BY <1>1 DEF ConnectionEnds
<1>7. payload' = Cat(Got', more)
  <2>1. Got' = Got
      BY <1>5, <1>6, GotIs
  <2> HIDE DEF Got
  <2> QED
      BY <1>5, <2>1 DEF ChunkedAt
<1>8. CASE m = 0
  <2>1. read_finished' /\ pc' = "return"
      BY <1>1, <1>8 DEF ConnectionEnds
  <2>2. ChunkPlace(Ahead(tail), more)'
      BY <2>1 DEF ChunkPlace
  <2> QED
      BY <1>5, <1>7, <2>2 DEF ChunkedInv, ChunkedAt
<1>9. CASE m # 0
  <2>1. raw' = x /\ total_bytes' = NoSize /\ pc' = "size" /\ ~read_finished'
      BY <1>1, <1>4, <1>9 DEF NoSize
  <2>2. Ahead(tail)' = Ahead(tail)
    <3>1. Ahead(tail) = Cat(stream, tail)
        BY <1>4, AheadIs
    <3>2. Ahead(tail)' = Cat(x, Cat(s, tail))
        BY <2>1 DEF Ahead
    <3> HIDE DEF x, s
    <3> QED
        BY <1>3, <3>1, <3>2, CatTwice
  <2>3. BetweenChunks(Ahead(tail), more)
    <3>1. CASE total_bytes >= bytes_readed /\ InContent(total_bytes - bytes_readed, Ahead(tail), more)
      <4>1. total_bytes - bytes_readed = 0
          BY <1>4, <3>1 DEF Types, NoSize
      <4> QED
          BY <3>1, <4>1, ContentOver
    <3>2. CASE BetweenChunks(Ahead(tail), more)
        BY <3>2
    <3> QED
        BY <1>4, <3>1, <3>2 DEF ChunkedAt, ChunkPlace
  <2>4. length' = << >>
      BY <1>4 DEF CleanInv
  <2>5. ChunkPlace(Ahead(tail), more)'
      BY <2>1, <2>2, <2>3, <2>4 DEF ChunkPlace
  <2> QED
      BY <1>5, <1>7, <2>5 DEF ChunkedInv, ChunkedAt
<1> QED
    BY <1>8, <1>9

\* The loop of start_chunk_read recognizes the size, digit by digit.
LEMMA AtByte ==
    ASSUME Types, framing = "chunked", LookAtByte,
           NEW tail \in Seq(Bytes), NEW more \in Seq(Bytes), ChunkedAt(tail, more)
    PROVE  ChunkedInv'
<1> DEFINE h == Head(raw)
           u == Cat(Tail(raw), Cat(stream, tail))
           size == get_chunk_size(h).size
<1>1. /\ pc = "size" /\ total_bytes = NoSize /\ total_bytes' = size
      /\ length' = get_chunk_size(h).length /\ raw' = Tail(raw) /\ raw # << >>
      /\ UNCHANGED << response, source, read_finished, pc, out, caller >>
    BY DEF LookAtByte
<1>2. /\ h \in Bytes /\ Tail(raw) \in Seq(Bytes) /\ Ahead(tail) = Cat(<< h >>, u)
      /\ u \in Seq(Bytes) /\ Ahead(tail)' = u
  <2>1. Cat(stream, tail) \in Seq(Bytes) /\ raw \in Seq(Bytes)
      BY AheadIs DEF Types
  <2>2. h \in Bytes /\ Tail(raw) \in Seq(Bytes) /\ Ahead(tail) = Cat(<< h >>, u)
      BY <1>1, <2>1, OffTheFront DEF Ahead
  <2>3. u \in Seq(Bytes)
      BY <2>1, <2>2, CatIs
  <2>4. Ahead(tail)' = u
      BY <1>1 DEF Ahead, source
  <2> QED
      BY <2>2, <2>3, <2>4
<1>3. payload' = Cat(Got', more) /\ Lacks(tail)'
  <2>1. payload' = payload /\ complete' = complete /\ Got' = Got
      BY <1>1, GotIs DEF response, caller
  <2> HIDE DEF Got
  <2> QED
      BY <2>1 DEF ChunkedAt, Lacks
<1> HIDE DEF u, h
<1>4. ~read_finished
    BY <1>1 DEF ChunkedAt, ChunkPlace
<1>5. \/ length = << >> /\ h \in {CR, LF} /\ BetweenChunks(u, more)
      \/ InSize(length, Cat(<< h >>, u), more)
  <2>1. \/ length = << >> /\ BetweenChunks(Ahead(tail), more)
        \/ InSize(length, Ahead(tail), more)
      BY <1>1 DEF ChunkedAt, ChunkPlace, NoSize
  <2>2. CASE length = << >> /\ BetweenChunks(Ahead(tail), more)
    <3>1. BetweenChunks(Cat(<< h >>, u), more)
        BY <1>2, <2>2
    <3> QED
        BY <1>2, <2>2, <3>1, ByteBetween
  <2> QED
      BY <1>2, <2>1, <2>2
<1>6. ~read_finished' /\ pc' = "size"
    BY <1>1, <1>4
<1>7. SUFFICES \/ total_bytes' = 0 /\ more = << >>
               \/ total_bytes' > 0 /\ InContent(total_bytes', u, more)
               \/ total_bytes' = NoSize /\ length' = << >> /\ BetweenChunks(u, more)
               \/ total_bytes' = NoSize /\ InSize(length', u, more)
  <2>1. ASSUME \/ total_bytes' = 0 /\ more = << >>
               \/ total_bytes' > 0 /\ InContent(total_bytes', u, more)
               \/ total_bytes' = NoSize /\ length' = << >> /\ BetweenChunks(u, more)
               \/ total_bytes' = NoSize /\ InSize(length', u, more)
        PROVE  ChunkPlace(Ahead(tail), more)'
      BY <1>2, <1>6, <2>1 DEF ChunkPlace
  <2> QED
      BY <1>3, <2>1 DEF ChunkedInv, ChunkedAt
<1>8. CASE length = << >> /\ h \in {CR, LF} /\ BetweenChunks(u, more)
  <2>1. get_chunk_size(h) = [size |-> NoSize, length |-> length]
      BY <1>8, DigitsAssumption DEF get_chunk_size
  <2> QED
      BY <1>1, <1>8, <2>1
<1>9. CASE h \in Digital \/ (h = CR /\ length # << >>)
  <2>1. get_chunk_size(h) = [size |-> NoSize, length |-> Append(length, h)]
    <3>1. CASE h \in Digital
        BY <3>1, DigitsAssumption DEF get_chunk_size, Digital
    <3>2. CASE h \notin Digital /\ h = CR /\ length # << >>
        BY <3>2 DEF get_chunk_size, Digital, CR, LF
    <3> QED
        BY <1>9, <3>1, <3>2
  <2>2. InSize(length, Cat(<< h >>, u), more)
      BY <1>5, <1>9, DigitsAssumption DEF Digital
  <2>3. InSize(Append(length, h), u, more)
    <3>1. h # LF
        BY <1>9, DigitsAssumption DEF Digital, CR, LF
    <3> QED
        BY <1>2, <2>2, <3>1, ByteInSize
  <2> QED
      BY <1>1, <2>1, <2>3
<1>10. CASE ~(h \in Digital \/ (h = CR /\ length # << >>)) /\ InSize(length, Cat(<< h >>, u), more)
  <2>1. /\ h = LF /\ length # << >>
        /\ Value(TextIn(length)) \in Nat
        /\ Value(TextIn(length)) = 0 => more = << >>
        /\ Value(TextIn(length)) > 0 => InContent(Value(TextIn(length)), u, more)
      BY <1>2, <1>10, ByteInSize
  <2>2. get_chunk_size(h).size = Value(TextIn(length))
    <3>1. h \notin ToSet(Digits) /\ h # CR
        BY <2>1, DigitsAssumption DEF CR, LF
    <3>2. get_chunk_size(h) = [size |-> Value(TextIn(length)), length |-> << >>]
        BY <2>1, <3>1 DEF get_chunk_size
    <3> QED
        BY <3>2
  <2>3. total_bytes' = Value(TextIn(length))
      BY <1>1, <2>2
  <2> QED
      BY <2>1, <2>3
<1> QED
    BY <1>5, <1>8, <1>9, <1>10

\* A size goes on in the next read.
LEMMA BeyondRead ==
    ASSUME Types, framing = "chunked", ReadMore,
           NEW tail \in Seq(Bytes), NEW more \in Seq(Bytes), ChunkedAt(tail, more)
    PROVE  ChunkedInv'
<1>1. /\ UNCHANGED << response, counts, read_finished, length, pc, out, caller >>
      /\ raw = << >>
    BY DEF ReadMore
<1>2. PICK m \in Available(room) : Consume(m) /\ raw' = SubSeq(stream, 1, m)
    BY DEF ReadMore
<1>3. raw' \in Seq(Bytes) /\ stream' \in Seq(Bytes) /\ stream = Cat(raw', stream')
  <2>1. room \in Nat
      BY SizesAssumption DEF Types
  <2> QED
      BY <1>2, <2>1, ReadIs
<1>4. Ahead(tail)' = Ahead(tail)
  <2>1. Ahead(tail) = Cat(Cat(raw', stream'), tail)
      BY <1>1, <1>3, AheadIs
  <2>2. Ahead(tail)' = Cat(raw', Cat(stream', tail))
      BY DEF Ahead
  <2> QED
      BY <1>3, <2>1, <2>2, CatTwice
<1>5. Got' = Got /\ payload' = payload /\ Lacks(tail)'
    BY <1>1, GotIs DEF ChunkedAt, Lacks, response, caller
<1>6. payload' = Cat(Got', more)
  <2> HIDE DEF Got
  <2> QED
      BY <1>5 DEF ChunkedAt
<1>7. ChunkPlace(Ahead(tail), more)'
    BY <1>1, <1>4 DEF ChunkedAt, ChunkPlace, counts
<1> QED
    BY <1>5, <1>6, <1>7 DEF ChunkedInv, ChunkedAt

\* The content is cut off where the size says.
LEMMA AtContent ==
    ASSUME Types, CleanInv, framing = "chunked", ChunkContent,
           NEW tail \in Seq(Bytes), NEW more \in Seq(Bytes), ChunkedAt(tail, more)
    PROVE  ChunkedInv'
<1> DEFINE w == Cat(stream, tail)
<1>1. /\ UNCHANGED << response, source, read_finished, length, caller >>
      /\ bytes_readed' = Len(raw) /\ pc = "size" /\ total_bytes > 0
    BY DEF ChunkContent
<1>2. /\ raw \in Seq(Bytes) /\ Len(raw) \in Nat /\ total_bytes \in Nat
      /\ w \in Seq(Bytes) /\ stream' = stream
  <2>1. w \in Seq(Bytes)
      BY AheadIs
  <2>2. stream' = stream
      BY <1>1 DEF source
  <2>3. raw \in Seq(Bytes) /\ total_bytes \in Nat
      BY <1>1 DEF Types, NoSize
  <2> HIDE DEF w
  <2> QED
      BY <2>1, <2>2, <2>3
<1>3. ~read_finished /\ InContent(total_bytes, Cat(raw, w), more)
    BY <1>1, <1>2 DEF ChunkedAt, ChunkPlace, Ahead, NoSize
<1>4. payload' = payload /\ Lacks(tail)' /\ delivered' = delivered /\ ~read_finished'
    BY <1>1, <1>3 DEF ChunkedAt, Lacks, response, caller
<1>5. payload = Cat(Got, more)
    BY DEF ChunkedAt
<1>6. CASE ChunkEnds
  <2> DEFINE x == SubSeq(raw, 1, total_bytes)
             r == SubSeq(raw, total_bytes + 1, Len(raw))
  <2>1. out' = out \o x /\ raw' = r /\ total_bytes' = NoSize /\ pc' = "size"
      BY <1>1, <1>6 DEF ChunkContent
  <2>2. /\ x \in Seq(Bytes) /\ r \in Seq(Bytes) /\ Len(x) = total_bytes
        /\ Cat(x, r) = raw
    <3>1. total_bytes \in 0..Len(raw)
        BY <1>2, <1>6 DEF ChunkEnds
    <3> QED
        BY <1>2, <3>1, CutAt
  <2> HIDE DEF x, r, w
  <2> DEFINE u == Cat(r, w)
  <2>3. u \in Seq(Bytes) /\ Cat(raw, w) = Cat(x, u)
      BY <1>2, <2>2, CatIs, CatTwice
  <2> HIDE DEF u
  <2>4. PICK m2 \in Seq(Bytes) : more = Cat(x, m2) /\ InContent(total_bytes - Len(x), u, m2)
    <3>1. InContent(total_bytes, Cat(x, u), more)
        BY <1>3, <2>3
    <3>2. Len(x) <= total_bytes
        BY <1>2, <2>2
    <3> QED
        BY <2>2, <2>3, <3>1, <3>2, TakeContent
  <2>5. BetweenChunks(u, m2)
    <3>1. total_bytes - Len(x) = 0
        BY <1>2, <2>2
    <3> QED
        BY <2>4, <3>1, ContentOver
  <2>6. payload' = Cat(Got', m2)
      BY <1>4, <1>5, <2>1, <2>2, <2>4, Given
  <2>7. Ahead(tail)' = u /\ length' = << >>
    <3>1. Ahead(tail)' = u
        BY <1>2, <2>1 DEF Ahead, u, w
    <3>2. length' = << >>
        BY <1>1 DEF CleanInv, NoSize
    <3> QED
        BY <3>1, <3>2
  <2>8. ChunkPlace(Ahead(tail), m2)'
      BY <1>4, <2>1, <2>5, <2>7 DEF ChunkPlace
  <2> QED
      BY <1>4, <2>6, <2>8 DEF ChunkedInv, ChunkedAt
<1>7. CASE ~ChunkEnds
  <2>1. out' = out \o raw /\ raw' = << >> /\ Resume(out') /\ total_bytes' = total_bytes
      BY <1>7 DEF ChunkContent
  <2>2. Len(raw) <= total_bytes
      BY <1>2, <1>7 DEF ChunkEnds
  <2>3. PICK m2 \in Seq(Bytes) : more = Cat(raw, m2) /\ InContent(total_bytes - Len(raw), w, m2)
    <3> HIDE DEF w
    <3> QED
        BY <1>2, <1>3, <2>2, TakeContent
  <2>4. payload' = Cat(Got', m2)
      BY <1>2, <1>4, <1>5, <2>1, <2>3, Given
  <2>5. Ahead(tail)' = w
    <3>1. Ahead(tail)' = Cat(<< >>, w)
        BY <1>2, <2>1 DEF Ahead
    <3> HIDE DEF w
    <3> QED
        BY <1>2, <3>1, CatEmpty
  <2>6. pc' # "size"
      BY <2>1 DEF Resume
  <2>7. total_bytes' >= bytes_readed' /\ InContent(total_bytes' - bytes_readed', Ahead(tail)', m2)
    <3> HIDE DEF w
    <3> QED
        BY <1>1, <1>2, <2>1, <2>2, <2>3, <2>5
  <2>8. ChunkPlace(Ahead(tail), m2)'
      BY <1>4, <2>6, <2>7 DEF ChunkPlace
  <2> QED
      BY <1>4, <2>4, <2>8 DEF ChunkedInv, ChunkedAt
<1> QED
    BY <1>6, <1>7

LEMMA ChunkedStep ==
    ASSUME Types, CleanInv, framing = "chunked", ChunkedInv, [Next]_vars
    PROVE  ChunkedInv'
<1>1. PICK tail \in Seq(Bytes), more \in Seq(Bytes) : ChunkedAt(tail, more)
    BY DEF ChunkedInv
<1>2. CASE Call \/ BodyEnds \/ Return \/ UNCHANGED vars
  <2>1. /\ UNCHANGED << response, source, counts, read_finished, length, raw >>
        /\ \/ pc' = pc
           \/ pc # "size" /\ pc' # "size"
      BY <1>2 DEF Call, BodyEnds, Return, vars
  <2>2. Got' = Got
    <3>1. CASE Call
      <4>1. out' = out /\ delivered' = delivered
          BY <3>1 DEF Call, Types, caller
      <4> QED
          BY <4>1, GotIs
    <3>2. CASE BodyEnds \/ UNCHANGED vars
      <4>1. out' = out /\ delivered' = delivered
          BY <3>2 DEF BodyEnds, vars, caller
      <4> QED
          BY <4>1, GotIs
    <3>3. CASE Return
      <4>1. out' = << >> /\ delivered' = delivered \o out
          BY <3>3 DEF Return
      <4> QED
          BY <4>1, GotIs
    <3> QED
        BY <1>2, <3>1, <3>2, <3>3
  <2>3. Ahead(tail)' = Ahead(tail)
      BY <2>1 DEF Ahead, source
  <2>4. ChunkPlace(Ahead(tail), more)'
      BY <1>1, <2>1, <2>3 DEF ChunkedAt, ChunkPlace, counts
  <2>5. payload' = Cat(Got', more) /\ Lacks(tail)'
    <3> HIDE DEF Got
    <3> QED
        BY <1>1, <2>1, <2>2 DEF ChunkedAt, Lacks, response
  <2> QED
      BY <2>4, <2>5 DEF ChunkedInv, ChunkedAt
<1>3. CASE LastChunk
  <2>1. /\ UNCHANGED << response, out, caller >>
        /\ read_finished' /\ Resume(out)
      BY <1>3 DEF LastChunk
  <2>2. Got' = Got
      BY <2>1, GotIs DEF caller
  <2>3. ChunkPlace(Ahead(tail), more)'
      BY <2>1 DEF ChunkPlace, Resume
  <2>4. payload' = Cat(Got', more) /\ Lacks(tail)'
    <3> HIDE DEF Got
    <3> QED
        BY <1>1, <2>1, <2>2 DEF ChunkedAt, Lacks, response
  <2> QED
      BY <2>3, <2>4 DEF ChunkedInv, ChunkedAt
<1> QED
    BY <1>1, <1>2, <1>3, InChunk, AfterChunk, AtByte, BeyondRead, AtContent DEF Next, Running

-----------------------------------------------------------------------------
(* The whole *)

Delimited(f) == f \in {"length", "chunked"}

BodyInv ==
    /\ Types /\ CleanInv
    /\ Delimited(framing) => /\ EndsInv
                             /\ framing = "length" => LengthInv
                             /\ framing = "chunked" => ChunkedInv

LEMMA BodyInit == Init => BodyInv
BY TypesInit, CleanInit, EndsInit, LengthInit, ChunkedInit DEF BodyInv

LEMMA BodyStep == BodyInv /\ [Next]_vars => BodyInv'
<1> SUFFICES ASSUME BodyInv, [Next]_vars PROVE BodyInv'
    OBVIOUS
<1>1. Types /\ CleanInv /\ Types' /\ CleanInv'
    BY TypesStep, CleanStep DEF BodyInv
<1>2. framing' = framing
    BY DEF Next, Running, Call, ReadKnown, ReadChunk, BodyEnds, Return, LookAtByte, ReadMore,
           LastChunk, ChunkContent, vars, response
<1>3. SUFFICES ASSUME Delimited(framing)
               PROVE  /\ EndsInv'
                      /\ framing = "length" => LengthInv'
                      /\ framing = "chunked" => ChunkedInv'
    BY <1>1, <1>2 DEF BodyInv
<1>4. Settled
    BY LengthSettled, ChunkedSettled, <1>1, <1>3 DEF BodyInv, Delimited
<1>5. EndsInv'
    BY <1>1, <1>3, <1>4, EndsStep DEF BodyInv
<1>6. framing = "length" => LengthInv'
    BY <1>1, <1>3, LengthStep DEF BodyInv
<1>7. framing = "chunked" => ChunkedInv'
    BY <1>1, <1>3, ChunkedStep DEF BodyInv
<1> QED
    BY <1>5, <1>6, <1>7

\* The first of two joined sequences is a prefix.
LEMMA FrontIsPrefix ==
    ASSUME NEW B, NEW s \in Seq(B), NEW t \in Seq(B), NEW p, p = Cat(s, t)
    PROVE  IsPrefix(s, p)
<1>1. p \in Seq(B) /\ Len(s) \in Nat /\ Len(t) \in Nat /\ Len(p) = Len(s) + Len(t)
    BY CatIs, CatLength
<1>2. SubSeq(s, 1, Len(s)) = SubSeq(p, 1, Len(s))
  <2>1. CASE Len(s) = 0
      BY <1>1, <2>1
  <2>2. CASE Len(s) # 0
    <3>1. 1 \in 1..Len(s) /\ Len(s) \in 1..Len(s)
        BY <1>1, <2>2
    <3> QED
        BY <3>1, SubSeqOfConcat1 DEF Cat
  <2> QED
      BY <2>1, <2>2
<1> QED
    BY <1>1, <1>2 DEF IsPrefix

(* However the connection cuts a body with Content-Length or in chunks,    *)
(* wherever it ends and whatever the size of the buffer, the caller gets   *)
(* the content, in order and nothing else (requests.c:461-586).            *)
THEOREM BodyDeliveredInOrder == Spec => [](Delimited(framing) => DeliveredInOrder)
<1>1. BodyInv => (Delimited(framing) => DeliveredInOrder)
  <2> SUFFICES ASSUME BodyInv, Delimited(framing) PROVE DeliveredInOrder
      OBVIOUS
  <2>1. \E more \in Seq(Bytes) : payload = Cat(Got, more)
    <3>1. CASE framing = "length"
      <4>1. PICK tail \in Seq(Bytes) : LengthAt(tail)
          BY <3>1 DEF BodyInv, LengthInv
      <4>2. Cat(stream, tail) \in Seq(Bytes)
          BY AheadIs DEF BodyInv
      <4> QED
          BY <4>1, <4>2 DEF LengthAt
    <3>2. CASE framing = "chunked"
        BY <3>2 DEF BodyInv, ChunkedInv, ChunkedAt
    <3> QED
        BY <3>1, <3>2 DEF Delimited
  <2>2. Got \in Seq(Bytes)
      BY GotIs DEF BodyInv
  <2>3. IsPrefix(Got, payload)
      BY <2>1, <2>2, FrontIsPrefix
  <2> QED
      BY <2>3 DEF DeliveredInOrder, Got, Cat
<1> QED
    BY <1>1, BodyInit, BodyStep, PTL DEF Spec

(* A call that returns 0 ends a complete body only when the caller has all *)
(* of it (requests.c:502-506).                                             *)
THEOREM ZeroEndsBody == Spec => [](Delimited(framing) => ZeroMeansAll)
<1>1. BodyInv => (Delimited(framing) => ZeroMeansAll)
    BY DEF BodyInv, EndsInv, ZeroMeansAll
<1> QED
    BY <1>1, BodyInit, BodyStep, PTL DEF Spec
=============================================================================
