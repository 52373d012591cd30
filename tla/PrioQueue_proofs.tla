--------------------------- MODULE PrioQueue_proofs ---------------------------
(***************************************************************************)
(* What the operators of PrioQueue return, for every queue and every key.  *)
(***************************************************************************)
EXTENDS PrioQueue, SequenceTheorems, WellFoundedInduction, FiniteSetTheorems,
        FunctionTheorems, TLAPS

\* A non-empty set of naturals has a least element.
LEMMA LeastNatural ==
    ASSUME NEW T \in SUBSET Nat, T # {}
    PROVE  \E m \in T : \A n \in T : m <= n
<1>1. IsWellFoundedOn(OpToRel(<, Nat), Nat)
    BY NatLessThanWellFounded
<1>2. PICK m \in T : \A n \in T : ~(<< n, m >> \in OpToRel(<, Nat))
    BY <1>1, WFMin
<1>3. \A n \in T : ~(n < m)
    BY <1>2 DEF OpToRel
<1> QED
    BY <1>3

(* The walk of queue_add_* stops (queue.c:32-36, 95-99): the place it      *)
(* finds exists, and nothing in front of it but the head may be larger.    *)
LEMMA InsertPosFound ==
    ASSUME NEW S, NEW key \in [S -> Nat], NEW q \in Seq(S), NEW el \in S
    PROVE  LET p == InsertPos(q, el, key)
           IN  /\ p \in 0..Len(q)
               /\ p = 0 => (q = << >> \/ key[el] < key[q[1]])
               /\ p > 0 => /\ key[el] >= key[q[1]]
                           /\ \A j \in 2..p : key[el] >= key[q[j]]
                           /\ p = Len(q) \/ key[el] < key[q[p + 1]]
<1> DEFINE p == InsertPos(q, el, key)
           Stop(i) == i = Len(q) \/ key[el] < key[q[i + 1]]
<1>1. Len(q) \in Nat
    OBVIOUS
<1>2. CASE q = << >> \/ key[el] < key[q[1]]
    BY <1>1, <1>2 DEF InsertPos
<1>3. CASE ~(q = << >> \/ key[el] < key[q[1]])
  <2>1. Len(q) >= 1
      BY <1>3, EmptySeq
  <2>2. \A i \in 1..Len(q) : key[q[i]] \in Nat
      OBVIOUS
  <2>3. key[el] >= key[q[1]]
      BY <1>3, <2>1, <2>2
  <2> DEFINE T == { i \in 1..Len(q) : Stop(i) }
  <2>4. T \in SUBSET Nat /\ Len(q) \in T
      BY <1>1, <2>1
  <2>5. PICK m \in T : \A n \in T : m <= n
      BY <2>4, LeastNatural
  <2>6. \A j \in 2..m : key[el] >= key[q[j]]
    <3> TAKE j \in 2..m
    <3>1. j - 1 \in 1..Len(q) /\ j - 1 \notin T
        BY <1>1, <2>5
    <3>2. ~Stop(j - 1) /\ j \in 1..Len(q)
        BY <1>1, <2>5, <3>1
    <3>3. (j - 1) + 1 = j
        OBVIOUS
    <3> QED
        BY <2>2, <3>2, <3>3
  <2>7. \E i \in 1..Len(q) : (\A j \in 2..i : key[el] >= key[q[j]]) /\ Stop(i)
      BY <2>5, <2>6
  <2>8. p = CHOOSE i \in 1..Len(q) : (\A j \in 2..i : key[el] >= key[q[j]]) /\ Stop(i)
      BY <1>3 DEF InsertPos
  <2>9. p \in 1..Len(q) /\ (\A j \in 2..p : key[el] >= key[q[j]]) /\ Stop(p)
    <3> HIDE DEF p, Stop
    <3> QED
        BY <2>7, <2>8
  <2> QED
      BY <1>1, <2>3, <2>9
<1> QED
    BY <1>2, <1>3

(* queue_add_* keeps what is in the queue and puts the new element at the  *)
(* place the walk found (queue.c:19-40, 82-103).                           *)
LEMMA QueueAddShape ==
    ASSUME NEW S, NEW key \in [S -> Nat], NEW q \in Seq(S), NEW el \in S
    PROVE  LET p == InsertPos(q, el, key)
               r == QueueAdd(q, el, key)
           IN  /\ r \in Seq(S)
               /\ Len(r) = Len(q) + 1
               /\ \A i \in 1..Len(r) :
                     r[i] = IF i <= p THEN q[i] ELSE IF i = p + 1 THEN el ELSE q[i - 1]
<1> DEFINE p == InsertPos(q, el, key)
           r == QueueAdd(q, el, key)
           front == SubSeq(q, 1, p)
           back == SubSeq(q, p + 1, Len(q))
<1>1. p \in 0..Len(q) /\ Len(q) \in Nat
    BY InsertPosFound
<1> HIDE DEF p
<1>2. /\ front \in Seq(S) /\ Len(front) = p
      /\ \A i \in 1..p : front[i] = q[i]
    BY <1>1, SubSeqProperties, ElementOfSeq
<1>3. /\ back \in Seq(S) /\ Len(back) = Len(q) - p
      /\ \A i \in 1..(Len(q) - p) : back[i] = q[p + i]
  <2>1. \A i \in (p + 1)..Len(q) : q[i] \in S
      BY <1>1, ElementOfSeq
  <2>2. /\ back \in Seq(S)
        /\ Len(back) = IF p + 1 <= Len(q) THEN Len(q) - (p + 1) + 1 ELSE 0
        /\ \A i \in 1..(Len(q) - (p + 1) + 1) : back[i] = q[(p + 1) + i - 1]
      BY <1>1, <2>1, SubSeqProperties
  <2>3. /\ (IF p + 1 <= Len(q) THEN Len(q) - (p + 1) + 1 ELSE 0) = Len(q) - p
        /\ Len(q) - (p + 1) + 1 = Len(q) - p
      BY <1>1
  <2>4. \A i \in 1..(Len(q) - p) : (p + 1) + i - 1 = p + i
      BY <1>1
  <2> HIDE DEF back
  <2> QED
      BY <2>2, <2>3, <2>4
<1>4. r = (front \o << el >>) \o back
  <2>1. /\ (p + 1) - 1 = p
        BY <1>1
  <2> QED
      BY <2>1 DEF QueueAdd, InsertAt, p
<1>5. << el >> \in Seq(S) /\ Len(<< el >>) = 1 /\ << el >>[1] = el
    OBVIOUS
<1> DEFINE fe == front \o << el >>
<1>6. /\ fe \in Seq(S) /\ Len(fe) = p + 1
      /\ \A i \in 1..(p + 1) : fe[i] = IF i <= p THEN q[i] ELSE el
  <2>1. /\ fe \in Seq(S) /\ Len(fe) = p + 1
        /\ \A i \in 1..(p + 1) : fe[i] = IF i <= p THEN front[i] ELSE << el >>[i - p]
      BY <1>2, <1>5, ConcatProperties
  <2> HIDE DEF fe, front
  <2> QED
      BY <1>1, <1>2, <1>5, <2>1
<1> HIDE DEF fe, back, front
<1>7. /\ r \in Seq(S) /\ Len(r) = (p + 1) + (Len(q) - p)
      /\ \A i \in 1..((p + 1) + (Len(q) - p)) :
            r[i] = IF i <= p + 1 THEN fe[i] ELSE back[i - (p + 1)]
  <2>1. r = fe \o back
      BY <1>4 DEF fe
  <2> HIDE DEF r
  <2>2. /\ r \in Seq(S) /\ Len(r) = Len(fe) + Len(back)
        /\ \A i \in 1..(Len(fe) + Len(back)) :
              r[i] = IF i <= Len(fe) THEN fe[i] ELSE back[i - Len(fe)]
      BY <1>3, <1>6, <2>1, ConcatProperties
  <2> QED
      BY <1>3, <1>6, <2>2
<1> HIDE DEF r
<1>8. ASSUME NEW i \in 1..Len(r)
      PROVE  r[i] = IF i <= p THEN q[i] ELSE IF i = p + 1 THEN el ELSE q[i - 1]
  <2>1. i \in 1..((p + 1) + (Len(q) - p))
      BY <1>1, <1>7, <1>8
  <2>2. CASE i <= p + 1
    <3>1. i \in 1..(p + 1) /\ r[i] = fe[i]
        BY <1>1, <1>7, <2>1, <2>2
    <3>2. r[i] = IF i <= p THEN q[i] ELSE el
        BY <1>6, <3>1
    <3> QED
        BY <1>1, <3>1, <3>2
  <2>3. CASE i > p + 1
    <3>1. i - (p + 1) \in 1..(Len(q) - p) /\ p + (i - (p + 1)) = i - 1
        BY <1>1, <2>1, <2>3
    <3>2. r[i] = back[i - (p + 1)]
        BY <1>1, <1>7, <2>1, <2>3
    <3>3. back[i - (p + 1)] = q[i - 1]
        BY <1>3, <3>1
    <3>4. ~(i <= p) /\ i # p + 1
        BY <1>1, <2>1, <2>3
    <3> QED
        BY <3>2, <3>3, <3>4
  <2> QED
      BY <1>1, <2>1, <2>2, <2>3
<1> QED
    BY <1>1, <1>7, <1>8 DEF p, r

LEMMA QueueAddLen ==
    ASSUME NEW S, NEW key \in [S -> Nat], NEW q \in Seq(S), NEW el \in S
    PROVE  /\ QueueAdd(q, el, key) \in Seq(S)
           /\ Len(QueueAdd(q, el, key)) = Len(q) + 1
BY QueueAddShape

(* In a sorted queue the new element goes behind every element that is not *)
(* larger and in front of every larger one: equals stay in the order they  *)
(* came (queue.c:25-40, 88-103).                                           *)
LEMMA InsertPosStable ==
    ASSUME NEW S, NEW key \in [S -> Nat], NEW q \in Seq(S), NEW el \in S,
           KeySorted(q, key)
    PROVE  LET p == InsertPos(q, el, key)
           IN  /\ \A i \in 1..p : key[q[i]] <= key[el]
               /\ \A i \in (p + 1)..Len(q) : key[el] < key[q[i]]
<1> DEFINE p == InsertPos(q, el, key)
<1>1. /\ p \in 0..Len(q) /\ Len(q) \in Nat
      /\ p = 0 => (q = << >> \/ key[el] < key[q[1]])
      /\ p > 0 => /\ key[el] >= key[q[1]]
                  /\ \A j \in 2..p : key[el] >= key[q[j]]
                  /\ p = Len(q) \/ key[el] < key[q[p + 1]]
    BY InsertPosFound, SMTT(30)
<1> HIDE DEF p
<1>2. \A i \in 1..Len(q) : key[q[i]] \in Nat
    OBVIOUS
<1>3. key[el] \in Nat
    OBVIOUS
<1>4. \A i \in 1..p : key[q[i]] <= key[el]
  <2> TAKE i \in 1..p
  <2>1. i = 1 \/ i \in 2..p
      BY <1>1
  <2> QED
      BY <1>1, <1>2, <1>3, <2>1
<1>5. \A i \in (p + 1)..Len(q) : key[el] < key[q[i]]
  <2> TAKE i \in (p + 1)..Len(q)
  <2>1. i \in 1..Len(q) /\ p + 1 \in 1..Len(q) /\ p # Len(q)
      BY <1>1
  <2>2. q # << >>
      BY <2>1
  <2>3. key[el] < key[q[p + 1]]
      BY <1>1, <2>1, <2>2
  <2>4. key[q[p + 1]] <= key[q[i]]
    <3>1. CASE p + 1 = i
        BY <1>2, <2>1, <3>1
    <3>2. CASE p + 1 < i
        BY <2>1, <3>2 DEF KeySorted
    <3> QED
        BY <1>1, <2>1, <3>1, <3>2
  <2> QED
      BY <1>2, <1>3, <2>1, <2>3, <2>4
<1> QED
    BY <1>4, <1>5 DEF p

\* queue_add_* keeps a sorted queue sorted (queue.c:7-44, 71-107).
THEOREM QueueAddKeepsSorted ==
    ASSUME NEW S, NEW key \in [S -> Nat], NEW q \in Seq(S), NEW el \in S,
           KeySorted(q, key)
    PROVE  KeySorted(QueueAdd(q, el, key), key)
<1> DEFINE p == InsertPos(q, el, key)
           r == QueueAdd(q, el, key)
<1>1. /\ Len(r) = Len(q) + 1
      /\ \A i \in 1..Len(r) :
            r[i] = IF i <= p THEN q[i] ELSE IF i = p + 1 THEN el ELSE q[i - 1]
    BY QueueAddShape
<1>2. p \in 0..Len(q) /\ Len(q) \in Nat
    BY InsertPosFound
<1>3. /\ \A i \in 1..p : key[q[i]] <= key[el]
      /\ \A i \in (p + 1)..Len(q) : key[el] < key[q[i]]
    BY InsertPosStable
<1> HIDE DEF p, r
<1>4. /\ \A i \in 1..Len(q) : key[q[i]] \in Nat
      /\ key[el] \in Nat
    OBVIOUS
<1>5. SUFFICES ASSUME NEW i \in 1..Len(r), NEW j \in 1..Len(r), i < j
               PROVE  key[r[i]] <= key[r[j]]
    BY DEF KeySorted, r
<1>6. CASE j <= p
  <2>1. r[i] = q[i] /\ r[j] = q[j] /\ i \in 1..Len(q) /\ j \in 1..Len(q)
      BY <1>1, <1>2, <1>5, <1>6
  <2> QED
      BY <1>5, <2>1 DEF KeySorted
<1>7. CASE j = p + 1
  <2>1. r[i] = q[i] /\ r[j] = el /\ i \in 1..p
      BY <1>1, <1>2, <1>5, <1>7
  <2> QED
      BY <1>3, <2>1
<1>8. CASE j > p + 1
  <2>1. r[j] = q[j - 1] /\ j - 1 \in (p + 1)..Len(q)
      BY <1>1, <1>2, <1>5, <1>8
  <2>2. CASE i <= p
    <3>1. r[i] = q[i] /\ i \in 1..Len(q) /\ i < j - 1 /\ j - 1 \in 1..Len(q)
        BY <1>1, <1>2, <1>5, <1>8, <2>1, <2>2
    <3> QED
        BY <2>1, <3>1 DEF KeySorted
  <2>3. CASE i = p + 1
    <3>1. r[i] = el
        BY <1>1, <1>2, <1>5, <2>3
    <3>2. key[el] < key[q[j - 1]] /\ key[q[j - 1]] \in Nat
        BY <1>2, <1>3, <1>4, <2>1
    <3> QED
        BY <1>4, <2>1, <3>1, <3>2
  <2>4. CASE i > p + 1
    <3>1. r[i] = q[i - 1] /\ i - 1 \in 1..Len(q) /\ i - 1 < j - 1 /\ j - 1 \in 1..Len(q)
        BY <1>1, <1>2, <1>5, <2>1, <2>4
    <3> QED
        BY <2>1, <3>1 DEF KeySorted
  <2> QED
      BY <1>2, <1>5, <2>2, <2>3, <2>4
<1>9. j <= p \/ j = p + 1 \/ j > p + 1
  <2>1. j \in Int /\ p \in Int
      BY <1>1, <1>2
  <2> QED
      BY <2>1
<1> QED
    BY <1>6, <1>7, <1>8, <1>9

\* queue_add_* adds the new element and nothing else.
LEMMA QueueAddElements ==
    ASSUME NEW S, NEW key \in [S -> Nat], NEW q \in Seq(S), NEW el \in S
    PROVE  /\ \A i \in 1..Len(QueueAdd(q, el, key)) :
                 \/ QueueAdd(q, el, key)[i] = el
                 \/ \E j \in 1..Len(q) : QueueAdd(q, el, key)[i] = q[j]
           /\ \A j \in 1..Len(q) :
                 \E i \in 1..Len(QueueAdd(q, el, key)) : QueueAdd(q, el, key)[i] = q[j]
           /\ \E i \in 1..Len(QueueAdd(q, el, key)) : QueueAdd(q, el, key)[i] = el
<1> DEFINE p == InsertPos(q, el, key)
           r == QueueAdd(q, el, key)
<1>1. /\ Len(r) = Len(q) + 1
      /\ \A i \in 1..Len(r) :
            r[i] = IF i <= p THEN q[i] ELSE IF i = p + 1 THEN el ELSE q[i - 1]
    BY QueueAddShape
<1>2. p \in 0..Len(q) /\ Len(q) \in Nat
    BY InsertPosFound
<1> HIDE DEF p, r
<1>3. ASSUME NEW i \in 1..Len(r), r[i] # el
      PROVE  \E j \in 1..Len(q) : r[i] = q[j]
  <2>1. CASE i <= p
    <3>1. r[i] = q[i] /\ i \in 1..Len(q)
        BY <1>1, <1>2, <2>1
    <3> QED
        BY <3>1
  <2>2. CASE i > p + 1
    <3>1. r[i] = q[i - 1] /\ i - 1 \in 1..Len(q)
        BY <1>1, <1>2, <2>2
    <3> QED
        BY <3>1
  <2>3. i # p + 1
      BY <1>1, <1>2, <1>3
  <2> QED
      BY <1>1, <1>2, <2>1, <2>2, <2>3
<1>4. ASSUME NEW j \in 1..Len(q)
      PROVE  \E i \in 1..Len(r) : r[i] = q[j]
  <2>1. CASE j <= p
    <3>1. j \in 1..Len(r) /\ r[j] = q[j]
        BY <1>1, <1>2, <2>1
    <3> QED
        BY <3>1
  <2>2. CASE j > p
    <3>1. j + 1 \in 1..Len(r) /\ r[j + 1] = q[(j + 1) - 1] /\ (j + 1) - 1 = j
        BY <1>1, <1>2, <2>2
    <3> QED
        BY <3>1
  <2> QED
      BY <1>2, <2>1, <2>2
<1>5. \E i \in 1..Len(r) : r[i] = el
  <2>1. p + 1 \in 1..Len(r) /\ r[p + 1] = el
      BY <1>1, <1>2
  <2> QED
      BY <2>1
<1>6. \A i \in 1..Len(r) : r[i] = el \/ \E j \in 1..Len(q) : r[i] = q[j]
    BY <1>3
<1>7. \A j \in 1..Len(q) : \E i \in 1..Len(r) : r[i] = q[j]
    BY <1>4
<1> QED
    BY <1>5, <1>6, <1>7 DEF r

(* queue_next_* removes the first element and keeps the others in order,   *)
(* and returns it (queue.c:46-69, 109-132).                                *)
LEMMA QueueNextShape ==
    ASSUME NEW S, NEW q \in Seq(S), q # << >>
    PROVE  /\ QueueNext(q) \in Seq(S)
           /\ Len(QueueNext(q)) = Len(q) - 1
           /\ \A i \in 1..Len(QueueNext(q)) : QueueNext(q)[i] = q[i + 1]
           /\ \A old : NextEl(q, old) = q[1]
           /\ q[1] \in S
<1>1. Len(q) \in Nat \ {0}
    BY EmptySeq
<1>2. QueueNext(q) = Tail(q) /\ \A old : NextEl(q, old) = Head(q)
    BY DEF QueueNext, NextEl
<1> QED
    BY <1>1, <1>2, HeadTailProperties

\* Removing the head keeps a sorted queue sorted (queue.c:58-64, 121-127).
LEMMA QueueNextKeepsSorted ==
    ASSUME NEW S, NEW key \in [S -> Nat], NEW q \in Seq(S), q # << >>, KeySorted(q, key)
    PROVE  KeySorted(QueueNext(q), key)
<1>1. Len(q) \in Nat
    OBVIOUS
<1>2. /\ Len(QueueNext(q)) = Len(q) - 1
      /\ \A i \in 1..Len(QueueNext(q)) : QueueNext(q)[i] = q[i + 1]
    BY QueueNextShape
<1>3. SUFFICES ASSUME NEW i \in 1..Len(QueueNext(q)), NEW j \in 1..Len(QueueNext(q)), i < j
               PROVE  key[QueueNext(q)[i]] <= key[QueueNext(q)[j]]
    BY DEF KeySorted
<1>4. i + 1 \in 1..Len(q) /\ j + 1 \in 1..Len(q) /\ i + 1 < j + 1
    BY <1>1, <1>2, <1>3
<1>5. key[q[i + 1]] <= key[q[j + 1]]
    BY <1>4 DEF KeySorted
<1> QED
    BY <1>2, <1>3, <1>5

-----------------------------------------------------------------------------
(* Counting the elements of a queue *)

\* Two finite sets with a bijection between them have as many elements.
LEMMA SameSize ==
    ASSUME NEW A, NEW B, IsFiniteSet(A), NEW f \in [A -> B],
           \A a, b \in A : f[a] = f[b] => a = b,
           \A t \in B : \E a \in A : f[a] = t
    PROVE  Cardinality(B) = Cardinality(A)
<1>1. f \in Bijection(A, B)
    BY Fun_IsBij
<1>2. ExistsBijection(A, B)
    BY <1>1, Fun_ExistsBij
<1> QED
    BY <1>2, FS_Bijection

\* The positions of q at which there is an element of G.
Held(q, G) == { i \in DOMAIN q : q[i] \in G }

LEMMA HeldFinite ==
    ASSUME NEW S, NEW q \in Seq(S), NEW G
    PROVE  /\ Held(q, G) = { i \in 1..Len(q) : q[i] \in G } /\ Len(q) \in Nat
           /\ IsFiniteSet(Held(q, G)) /\ Cardinality(Held(q, G)) \in Nat
<1>1. DOMAIN q = 1..Len(q) /\ Len(q) \in Nat
    OBVIOUS
<1>2. IsFiniteSet(1..Len(q))
    BY <1>1, FS_Interval
<1>3. Held(q, G) \in SUBSET (1..Len(q))
    BY <1>1 DEF Held
<1>4. IsFiniteSet(Held(q, G))
    BY <1>2, <1>3, FS_Subset
<1> QED
    BY <1>1, <1>4, FS_CardinalityType DEF Held

\* r is q with one more element, at position p.
LEMMA OneMoreHeld ==
    ASSUME NEW S, NEW q \in Seq(S), NEW r \in Seq(S), NEW G, NEW p \in 1..Len(r),
           Len(r) = Len(q) + 1,
           \A i \in 1..Len(q) : q[i] = IF i < p THEN r[i] ELSE r[i + 1]
    PROVE  Cardinality(Held(r, G)) = Cardinality(Held(q, G)) + (IF r[p] \in G THEN 1 ELSE 0)
<1> DEFINE A == Held(q, G)
           B == Held(r, G)
           C == B \ {p}
           f == [i \in A |-> IF i < p THEN i ELSE i + 1]
<1>1. /\ A = { i \in 1..Len(q) : q[i] \in G } /\ IsFiniteSet(A) /\ Cardinality(A) \in Nat
      /\ B = { i \in 1..Len(r) : r[i] \in G } /\ IsFiniteSet(B) /\ Cardinality(B) \in Nat
      /\ Len(q) \in Nat
    BY HeldFinite
<1>2. C = B \ {p}
    OBVIOUS
<1> HIDE DEF A, B, C
<1>3. f \in [A -> C]
  <2> SUFFICES ASSUME NEW i \in A PROVE (IF i < p THEN i ELSE i + 1) \in C
      OBVIOUS
  <2>1. i \in 1..Len(q) /\ q[i] \in G
      BY <1>1
  <2>2. (IF i < p THEN i ELSE i + 1) \in 1..Len(r) /\ (IF i < p THEN i ELSE i + 1) # p
      BY <1>1, <2>1
  <2> QED
      BY <1>1, <1>2, <2>1, <2>2
<1>4. \A a, b \in A : f[a] = f[b] => a = b
    BY <1>1
<1>5. ASSUME NEW t \in C PROVE \E a \in A : f[a] = t
  <2> DEFINE i == IF t < p THEN t ELSE t - 1
  <2>1. t \in 1..Len(r) /\ r[t] \in G /\ t # p
      BY <1>1, <1>2
  <2>2. i \in 1..Len(q) /\ (IF i < p THEN i ELSE i + 1) = t
      BY <1>1, <2>1
  <2>3. i \in A
      BY <1>1, <2>1, <2>2
  <2> QED
      BY <2>2, <2>3
<1>6. IsFiniteSet(A)
    BY <1>1
<1> HIDE DEF f
<1>7. \A t \in C : \E a \in A : f[a] = t
    BY <1>5
<1>8. Cardinality(C) = Cardinality(A)
    BY <1>3, <1>4, <1>6, <1>7, SameSize
<1>9. Cardinality(C) = IF p \in B THEN Cardinality(B) - 1 ELSE Cardinality(B)
    BY <1>1, <1>2, FS_RemoveElement
<1>10. p \in B <=> r[p] \in G
    BY <1>1
<1> QED
    BY <1>1, <1>8, <1>9, <1>10 DEF A, B

\* queue_add_* puts in one element and keeps the others.
LEMMA HeldAdd ==
    ASSUME NEW S, NEW key \in [S -> Nat], NEW q \in Seq(S), NEW el \in S, NEW G
    PROVE  Cardinality(Held(QueueAdd(q, el, key), G))
              = Cardinality(Held(q, G)) + (IF el \in G THEN 1 ELSE 0)
<1> DEFINE p == InsertPos(q, el, key)
           r == QueueAdd(q, el, key)
           n == p + 1
<1>1. /\ r \in Seq(S) /\ Len(r) = Len(q) + 1
      /\ \A i \in 1..Len(r) :
            r[i] = IF i <= p THEN q[i] ELSE IF i = p + 1 THEN el ELSE q[i - 1]
    BY QueueAddShape
<1>2. p \in 0..Len(q) /\ Len(q) \in Nat
    BY InsertPosFound
<1> HIDE DEF p, r
<1>3. n \in 1..Len(r) /\ r[n] = el
    BY <1>1, <1>2
<1>4. \A i \in 1..Len(q) : q[i] = IF i < n THEN r[i] ELSE r[i + 1]
    BY <1>1, <1>2, SMTT(30)
<1> HIDE DEF n
<1>5. Cardinality(Held(r, G)) = Cardinality(Held(q, G)) + (IF r[n] \in G THEN 1 ELSE 0)
  <2>1. r \in Seq(S)
      BY <1>1
  <2>2. Len(r) = Len(q) + 1
      BY <1>1
  <2>3. n \in 1..Len(r)
      BY <1>3
  <2> QED
      BY <1>4, <2>1, <2>2, <2>3, OneMoreHeld, SMTT(30)
<1> QED
    BY <1>3, <1>5 DEF r

\* queue_next_* takes the head.
LEMMA HeldNext ==
    ASSUME NEW S, NEW q \in Seq(S), q # << >>, NEW G
    PROVE  Cardinality(Held(q, G))
              = Cardinality(Held(QueueNext(q), G)) + (IF q[1] \in G THEN 1 ELSE 0)
<1> DEFINE r == QueueNext(q)
<1>1. r \in Seq(S)
    BY QueueNextShape
<1>2. Len(r) = Len(q) - 1 /\ \A i \in 1..Len(r) : r[i] = q[i + 1]
    BY QueueNextShape
<1>3. Len(q) \in Nat \ {0} /\ Len(r) \in Nat
    BY <1>1, EmptySeq
<1> HIDE DEF r
<1>4. \A i \in 1..Len(r) : r[i] = IF i < 1 THEN q[i] ELSE q[i + 1]
    BY <1>2, <1>3
<1>5. 1 \in 1..Len(q) /\ Len(q) = Len(r) + 1
    BY <1>2, <1>3
<1>6. Cardinality(Held(q, G)) = Cardinality(Held(r, G)) + (IF q[1] \in G THEN 1 ELSE 0)
    BY <1>1, <1>4, <1>5, OneMoreHeld
<1> QED
    BY <1>6 DEF r
=============================================================================
