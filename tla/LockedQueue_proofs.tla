-------------------------- MODULE LockedQueue_proofs --------------------------
(***************************************************************************)
(* queue.c at the grain of its pointer writes, for any number of threads,  *)
(* any memory and any number of calls: its cells have one owner, and it    *)
(* implements AtomicQueue.                                                 *)
(***************************************************************************)
EXTENDS LockedQueue, PrioQueue_proofs

-----------------------------------------------------------------------------
(* Lists in memory *)

LEMMA CellAtIs ==
    ASSUME NEW s \in Seq(Nodes), NEW k \in Nat \ {0}
    PROVE  /\ k <= Len(s) => CellAt(s, k) = s[k] /\ CellAt(s, k) \in Nodes
           /\ k > Len(s) => CellAt(s, k) = NULL
BY DEF CellAt

\* Lists that begin with the same pointer have the same cells as far as both go.
LEMMA ListsAgree ==
    ASSUME NEW nxt, NEW r, NEW s \in Seq(Nodes), NEW u \in Seq(Nodes),
           IsList(s, nxt, r), IsList(u, nxt, r), Len(s) <= Len(u)
    PROVE  \A k \in 1..Len(s) : s[k] = u[k]
<1> DEFINE T == { k \in 1..Len(s) : s[k] # u[k] }
<1> SUFFICES ASSUME T # {} PROVE FALSE
    OBVIOUS
<1>1. PICK k \in T : \A m \in T : k <= m
  <2>1. T \in SUBSET Nat
      OBVIOUS
  <2> HIDE DEF T
  <2> QED
      BY <2>1, LeastNatural
<1>2. k \in 1..Len(s) /\ k \in 1..Len(u) /\ s[k] # u[k]
    OBVIOUS
<1>3. CASE k = 1
    BY <1>2, <1>3 DEF IsList, CellAt
<1>4. CASE k # 1
  <2>1. k - 1 \in 1..Len(s) /\ k - 1 \in 1..Len(u) /\ (k - 1) + 1 = k
      BY <1>2, <1>4
  <2>2. s[k - 1] = u[k - 1]
      BY <1>1, <2>1
  <2>3. nxt[s[k - 1]] = CellAt(s, k) /\ nxt[u[k - 1]] = CellAt(u, k)
      BY <2>1 DEF IsList
  <2> QED
      BY <1>2, <2>2, <2>3 DEF CellAt
<1> QED
    BY <1>3, <1>4

\* The list that begins with a pointer is the only one.
LEMMA ListIsUnique ==
    ASSUME NEW nxt, NEW r, NEW s \in Seq(Nodes), NEW u \in Seq(Nodes),
           IsList(s, nxt, r), IsList(u, nxt, r), Len(s) <= Len(u)
    PROVE  s = u
<1>1. \A k \in 1..Len(s) : s[k] = u[k]
    BY ListsAgree
<1>2. CASE Len(s) = Len(u)
    BY <1>1, <1>2
<1>3. CASE Len(s) < Len(u)
  <2> DEFINE n == Len(s)
  <2>1. n \in Nat /\ n + 1 \in 1..Len(u) /\ u[n + 1] \in Nodes
      BY <1>3
  <2>2. CASE n = 0
    <3>1. r = CellAt(s, 1) /\ r = CellAt(u, 1)
        BY DEF IsList
    <3>2. CellAt(s, 1) = NULL /\ CellAt(u, 1) \in Nodes
      <4>1. 1 > Len(s) /\ 1 <= Len(u)
          BY <2>1, <2>2
      <4> HIDE DEF n
      <4> QED
          BY <4>1, CellAtIs
    <3> QED
        BY <3>1, <3>2, NodesAssumption
  <2>3. CASE n # 0
    <3>1. n \in 1..Len(s) /\ n \in 1..Len(u) /\ n + 1 > Len(s)
        BY <2>1, <2>3
    <3>2. nxt[s[n]] = CellAt(s, n + 1) /\ nxt[u[n]] = CellAt(u, n + 1)
        BY <3>1 DEF IsList
    <3>3. CellAt(s, n + 1) = NULL /\ CellAt(u, n + 1) \in Nodes
        BY <2>1, <3>1, CellAtIs
    <3>4. s[n] = u[n]
        BY <1>1, <3>1
    <3> QED
        BY <3>2, <3>3, <3>4, NodesAssumption
  <2> QED
      BY <2>2, <2>3
<1> QED
    BY <1>2, <1>3

\* A list that ends contains no cell twice.
LEMMA NoCellTwice ==
    ASSUME NEW nxt, NEW r, NEW s \in Seq(Nodes), IsList(s, nxt, r)
    PROVE  \A k, m \in 1..Len(s) : s[k] = s[m] => k = m
<1> DEFINE T == { d \in 0..Len(s) : \E k, m \in 1..Len(s) :
                     k < m /\ s[k] = s[m] /\ m = Len(s) - d }
<1>1. T = {}
  <2> SUFFICES ASSUME T # {} PROVE FALSE
      OBVIOUS
  <2>1. PICK d \in T : \A e \in T : d <= e
    <3>1. T \in SUBSET Nat
        OBVIOUS
    <3> HIDE DEF T
    <3> QED
        BY <3>1, LeastNatural
  <2>2. PICK k \in 1..Len(s), m \in 1..Len(s) : k < m /\ s[k] = s[m] /\ m = Len(s) - d
      OBVIOUS
  <2>3. d \in 0..Len(s) /\ (d - 1 \in T => d <= d - 1)
      BY <2>1
  <2>4. ASSUME m + 1 \in 1..Len(s), s[k + 1] = s[m + 1] PROVE d - 1 \in T
    <3>1. k + 1 \in 1..Len(s) /\ k + 1 < m + 1 /\ m + 1 = Len(s) - (d - 1)
        BY <2>2, <2>3, <2>4, SMTT(30)
    <3>2. d - 1 \in 0..Len(s)
        BY <2>3, <2>4, <3>1
    <3> QED
        BY <2>4, <3>1, <3>2
  <2> HIDE DEF T
  <2>5. nxt[s[k]] = CellAt(s, k + 1) /\ nxt[s[m]] = CellAt(s, m + 1)
      BY DEF IsList
  <2>6. k + 1 \in 1..Len(s) /\ k + 1 <= Len(s) /\ k + 1 \in Nat \ {0}
      BY <2>2
  <2>7. CellAt(s, k + 1) = s[k + 1] /\ s[k + 1] \in Nodes
      BY <2>6, CellAtIs
  <2>8. m + 1 \in Nat \ {0}
      OBVIOUS
  <2>9. CASE m + 1 > Len(s)
    <3>1. CellAt(s, m + 1) = NULL
        BY <2>8, <2>9, CellAtIs
    <3> QED
        BY <2>2, <2>5, <2>7, <3>1, NodesAssumption
  <2>10. CASE m + 1 <= Len(s)
    <3>1. CellAt(s, m + 1) = s[m + 1] /\ m + 1 \in 1..Len(s)
        BY <2>8, <2>10, CellAtIs
    <3>2. d - 1 \in T
        BY <2>2, <2>4, <2>5, <2>7, <3>1
    <3> QED
        BY <2>3, <3>2
  <2> QED
      BY <2>9, <2>10
<1>2. ASSUME NEW k \in 1..Len(s), NEW m \in 1..Len(s), s[k] = s[m], k < m PROVE FALSE
  <2>1. Len(s) - m \in 0..Len(s) /\ m = Len(s) - (Len(s) - m)
      OBVIOUS
  <2>2. Len(s) - m \in T
      BY <1>2, <2>1
  <2> QED
      BY <1>1, <2>2
<1> HIDE DEF T
<1> QED
  <2> SUFFICES ASSUME NEW k \in 1..Len(s), NEW m \in 1..Len(s), s[k] = s[m], k # m PROVE FALSE
      OBVIOUS
  <2>1. k < m \/ m < k
      OBVIOUS
  <2> QED
      BY <1>2, <2>1

\* So it fits in the memory.
LEMMA ListFits ==
    ASSUME NEW nxt, NEW r, NEW s \in Seq(Nodes), IsList(s, nxt, r)
    PROVE  s \in Lists
<1>1. s \in [1..Len(s) -> Nodes] /\ Len(s) \in Nat
    OBVIOUS
<1>2. s \in Injection(1..Len(s), Nodes)
    BY <1>1, NoCellTwice DEF Injection, IsInjective
<1>3. Cardinality(1..Len(s)) <= Cardinality(Nodes)
    BY <1>2, FS_Injection, NodesAssumption
<1>4. Cardinality(1..Len(s)) = Len(s)
  <2>1. \A n \in Nat : Cardinality(1..n) = IF 1 > n THEN 0 ELSE n - 1 + 1
      BY FS_Interval
  <2> QED
      BY <1>1, <2>1
<1>5. Cardinality(Nodes) \in Nat
    BY FS_CardinalityType, NodesAssumption
<1>6. Len(s) \in 0..Cardinality(Nodes)
    BY <1>1, <1>3, <1>4, <1>5
<1> QED
    BY <1>1, <1>6 DEF Lists, SeqOf

\* ListFrom finds the list there is.
LEMMA ListFromIs ==
    ASSUME NEW nxt, NEW r, NEW s \in Seq(Nodes), IsList(s, nxt, r)
    PROVE  ListFrom(nxt, r) = s
<1>1. s \in Lists
    BY ListFits
<1> DEFINE u == ListFrom(nxt, r)
<1>2. u \in Lists /\ IsList(u, nxt, r)
    BY <1>1 DEF ListFrom
<1> HIDE DEF u
<1>3. u \in Seq(Nodes)
    BY <1>2 DEF Lists, SeqOf
<1>4. Len(s) <= Len(u) \/ Len(u) <= Len(s)
    BY <1>3
<1> QED
    BY <1>2, <1>3, <1>4, ListIsUnique DEF u

-----------------------------------------------------------------------------
(* The inductive invariant *)

Element == [sn : Nat \ {0}, key : Keys]

keyOf == [e \in Element |-> e.key]

\* Where a thread has been granted the mutex.
Inside == {"insert", "prepend", "walk", "link", "unlock_add",
           "test", "advance", "copy", "free", "unlock_next"}

\* Where a thread has an element to add, and a cell for it the list does not have.
WithElement == {"malloc", "lock_add", "insert", "prepend", "walk"}
WithCell == {"lock_add", "insert", "prepend", "walk"}

QTypeOK ==
    /\ cell \in [Nodes -> [el : Element \union {None}, next : Nodes \union {NULL}]]
    /\ alloc \in SUBSET Nodes
    /\ mutex \in Threads \union {None}
    /\ pc \in [Threads -> Inside \union {"idle", "malloc", "lock_add", "lock_next"}]
    /\ arg \in [Threads -> Element \union {None}]
    /\ res \in [Threads -> Element \union {None}]
    /\ calls \in Nat
    /\ pel \in [Threads -> Nodes \union {NULL}]
    /\ walk \in [Threads -> Nodes \union {NULL}]
    /\ last \in [Threads -> Nodes \union {NULL}]
    /\ ptemp \in [Threads -> Nodes \union {NULL}]

MutexInv == \A t \in Threads : pc[t] \in Inside <=> mutex = t

ListInv == Chain \in Seq(Nodes) /\ IsList(Chain, NextOfs, root)

FilledInv == \A n \in alloc : cell[n].el \in Element

SortedInv == KeySorted(Content, keyOf)

\* n is in the hand of t.
Holds(t, n) == \/ pc[t] \in WithCell /\ n = pel[t]
               \/ pc[t] \in {"copy", "free"} /\ n = ptemp[t]

OwnerInv ==
    /\ \A n : n \in alloc <=> n \in InChain \/ \E t \in Threads : Holds(t, n)
    /\ \A t \in Threads, n \in InChain : ~Holds(t, n)
    /\ \A t, u \in Threads : \A n : Holds(t, n) /\ Holds(u, n) => t = u

\* The cell a thread has filled, and what it knows of the list under the mutex.
Filling(t) ==
    /\ pc[t] \in WithElement => arg[t] \in Element
    /\ pc[t] \in WithCell => cell[pel[t]].el = arg[t]
    /\ pc[t] \in {"lock_add", "insert"} => cell[pel[t]].next = NULL

Knowing(t) ==
    /\ pc[t] = "prepend" => /\ cell[pel[t]].next = root
                            /\ \A i \in DOMAIN Chain : arg[t].key < Content[i].key
    /\ pc[t] = "walk" => \E j \in DOMAIN Chain :
                            /\ walk[t] = Chain[j]
                            /\ \A i \in 1..j : Content[i].key <= arg[t].key
    /\ pc[t] = "link" => pel[t] \in InChain
    /\ pc[t] = "advance" => root # NULL /\ ptemp[t] = root

QInv == /\ QTypeOK /\ MutexInv /\ ListInv /\ FilledInv /\ SortedInv /\ OwnerInv
        /\ \A t \in Threads : Filling(t) /\ Knowing(t)

-----------------------------------------------------------------------------
(* The pointers of the list *)

\* Nobody is between the two writes of an insertion.
LEMMA NextsAreStored ==
    (\A t \in Threads : pc[t] # "link") => \A n \in Nodes : NextOf(n) = cell[n].next
<1> SUFFICES ASSUME \A t \in Threads : pc[t] # "link", NEW n \in Nodes
             PROVE  NextOf(n) = cell[n].next
    OBVIOUS
<1>1. Linking(n) = {}
    BY DEF Linking
<1> QED
    BY <1>1 DEF NextOf

\* One thread is.
LEMMA NextsWhileLinking ==
    MutexInv => \A t \in Threads : pc[t] = "link" =>
        \A n \in Nodes : NextOf(n) = IF n = pel[t] THEN last[t] ELSE cell[n].next
<1> SUFFICES ASSUME MutexInv, NEW t \in Threads, pc[t] = "link", NEW n \in Nodes
             PROVE  NextOf(n) = IF n = pel[t] THEN last[t] ELSE cell[n].next
    OBVIOUS
<1>1. \A u \in Threads : pc[u] = "link" => u = t
    BY DEF MutexInv, Inside
<1>2. Linking(n) = IF n = pel[t] THEN {t} ELSE {}
    BY <1>1 DEF Linking
<1> QED
    BY <1>2 DEF NextOf

LEMMA NextsAreStoredAfter ==
    (\A t \in Threads : pc[t] # "link")' => (\A n \in Nodes : NextOf(n) = cell[n].next)'
BY NextsAreStored, PTL

LEMMA NextsWhileLinkingAfter ==
    MutexInv' => (\A t \in Threads : pc[t] = "link" =>
        \A n \in Nodes : NextOf(n) = IF n = pel[t] THEN last[t] ELSE cell[n].next)'
BY NextsWhileLinking, PTL

\* A thread that is not linking changes what it stores and nothing else.
LEMMA NextsStay ==
    ASSUME NEW t \in Threads, pc[t] # "link", pc'[t] # "link",
           \A u \in Threads \ {t} : pc'[u] = pc[u] /\ pel'[u] = pel[u] /\ last'[u] = last[u],
           NEW n, cell'[n].next = cell[n].next
    PROVE  NextOf(n)' = NextOf(n)
<1>1. Linking(n)' = Linking(n)
    BY DEF Linking
<1>2. CASE Linking(n) = {}
    BY <1>1, <1>2 DEF NextOf
<1>3. CASE Linking(n) # {}
  <2> DEFINE u == CHOOSE v \in Linking(n) : TRUE
  <2>1. u \in Linking(n)
      BY <1>3
  <2>2. u \in Threads \ {t}
      BY <2>1 DEF Linking
  <2>3. NextOf(n) = last[u] /\ NextOf(n)' = last'[u]
      BY <1>1, <1>3 DEF NextOf
  <2> QED
      BY <2>2, <2>3
<1> QED
    BY <1>2, <1>3

LEMMA ChainIs ==
    ASSUME NEW s \in Seq(Nodes), IsList(s, NextOfs', root')
    PROVE  Chain' = s /\ ListInv'
<1>1. Chain' = s
    BY ListFromIs DEF Chain
<1> QED
    BY <1>1 DEF ListInv

LEMMA ListStays ==
    ASSUME ListInv, root' = root,
           \A n \in Nodes : n \in InChain => NextOf(n)' = NextOf(n)
    PROVE  Chain' = Chain /\ ListInv'
<1>1. Chain \in Seq(Nodes) /\ IsList(Chain, NextOfs, root)
    BY DEF ListInv
<1>2. ASSUME NEW i \in DOMAIN Chain PROVE NextOfs'[Chain[i]] = CellAt(Chain, i + 1)
  <2>1. Chain[i] \in Nodes /\ Chain[i] \in InChain
      BY <1>1 DEF InChain
  <2>2. NextOfs[Chain[i]] = CellAt(Chain, i + 1)
      BY <1>1 DEF IsList
  <2> QED
      BY <2>1, <2>2 DEF NextOfs
<1>3. root' = CellAt(Chain, 1)
    BY <1>1 DEF IsList
<1>4. IsList(Chain, NextOfs', root')
    BY <1>2, <1>3 DEF IsList
<1> QED
    BY <1>1, <1>4, ChainIs

LEMMA ContentStays ==
    ASSUME ListInv, Chain' = Chain, \A n \in Nodes : n \in InChain => cell'[n].el = cell[n].el
    PROVE  Content' = Content
<1>1. \A i \in DOMAIN Chain : Chain[i] \in Nodes /\ Chain[i] \in InChain
    BY DEF ListInv, InChain
<1> QED
    BY <1>1 DEF Content

-----------------------------------------------------------------------------
(* Insertion and removal *)

\* s with n behind its first j cells.
Inserted(s, j, n) ==
    [i \in 1..(Len(s) + 1) |-> IF i <= j THEN s[i] ELSE IF i = j + 1 THEN n ELSE s[i - 1]]

\* Linking a cell to its neighbours makes it part of the list.
LEMMA InsertCell ==
    ASSUME NEW nxt, NEW r, NEW s \in Seq(Nodes), IsList(s, nxt, r),
           NEW j \in 0..Len(s), NEW n \in Nodes, NEW nxt2, NEW r2,
           IF j = 0 THEN r2 = n ELSE r2 = r /\ nxt2[s[j]] = n,
           nxt2[n] = CellAt(s, j + 1),
           \A i \in DOMAIN s : i # j => nxt2[s[i]] = nxt[s[i]]
    PROVE  Inserted(s, j, n) \in Seq(Nodes) /\ IsList(Inserted(s, j, n), nxt2, r2)
<1> DEFINE v == Inserted(s, j, n)
<1>1. /\ v \in Seq(Nodes) /\ Len(v) = Len(s) + 1 /\ DOMAIN v = 1..(Len(s) + 1)
      /\ \A i \in 1..(Len(s) + 1) :
            v[i] = IF i <= j THEN s[i] ELSE IF i = j + 1 THEN n ELSE s[i - 1]
    BY DEF Inserted
<1> HIDE DEF v
<1>2. Len(s) \in Nat /\ DOMAIN s = 1..Len(s)
    OBVIOUS
<1>3. \A k \in 1..(Len(s) + 2) :
         CellAt(v, k) = IF k <= j THEN s[k] ELSE IF k = j + 1 THEN n ELSE CellAt(s, k - 1)
  <2> TAKE k \in 1..(Len(s) + 2)
  <2>1. CASE k <= Len(s) + 1
    <3>1. CellAt(v, k) = v[k] /\ k \in 1..(Len(s) + 1)
        BY <1>1, <1>2, <2>1 DEF CellAt
    <3>2. k > j + 1 => CellAt(s, k - 1) = s[k - 1]
        BY <1>2, <3>1 DEF CellAt
    <3> QED
        BY <1>1, <1>2, <3>1, <3>2
  <2>2. CASE k > Len(s) + 1
    <3>1. CellAt(v, k) = NULL /\ k > j + 1
        BY <1>1, <1>2, <2>2 DEF CellAt
    <3>2. CellAt(s, k - 1) = NULL
        BY <1>2, <2>2 DEF CellAt
    <3> QED
        BY <1>2, <3>1, <3>2
  <2> QED
      BY <1>2, <2>1, <2>2
<1>4. \A i \in 1..Len(s) : nxt[s[i]] = CellAt(s, i + 1)
    BY <1>2 DEF IsList
<1>5. r2 = CellAt(v, 1)
  <2>1. CellAt(v, 1) = IF j = 0 THEN n ELSE s[1]
      BY <1>2, <1>3
  <2>2. j # 0 => r = s[1]
      BY <1>2 DEF IsList, CellAt
  <2> QED
      BY <2>1, <2>2
<1>6. ASSUME NEW i \in 1..(Len(s) + 1) PROVE nxt2[v[i]] = CellAt(v, i + 1)
  <2>1. i + 1 \in 1..(Len(s) + 2)
      BY <1>2
  <2>2. CASE i < j
    <3>1. v[i] = s[i] /\ i \in 1..Len(s) /\ i # j /\ i + 1 <= j /\ i + 1 \in 1..Len(s)
        BY <1>1, <1>2, <2>2
    <3>2. CellAt(v, i + 1) = s[i + 1] /\ CellAt(s, i + 1) = s[i + 1]
        BY <1>2, <1>3, <2>1, <3>1 DEF CellAt
    <3> QED
        BY <1>2, <1>4, <3>1, <3>2
  <2>3. CASE i = j
    <3>1. v[i] = s[j] /\ CellAt(v, i + 1) = n
        BY <1>1, <1>2, <1>3, <2>1, <2>3
    <3>2. j # 0
        BY <2>3
    <3> QED
        BY <3>1, <3>2
  <2>4. CASE i = j + 1
    <3>1. v[i] = n /\ CellAt(v, i + 1) = CellAt(s, j + 1)
        BY <1>1, <1>2, <1>3, <2>1, <2>4
    <3> QED
        BY <3>1
  <2>5. CASE i > j + 1
    <3>1. v[i] = s[i - 1] /\ i - 1 \in 1..Len(s) /\ i - 1 # j
        BY <1>1, <1>2, <2>5
    <3>2. CellAt(v, i + 1) = CellAt(s, i)
        BY <1>2, <1>3, <2>1, <2>5
    <3>3. nxt[s[i - 1]] = CellAt(s, i)
        BY <1>2, <1>4, <3>1
    <3>4. nxt2[s[i - 1]] = nxt[s[i - 1]]
        BY <1>2, <3>1
    <3> QED
        BY <3>1, <3>2, <3>3, <3>4
  <2> QED
      BY <1>2, <2>2, <2>3, <2>4, <2>5
<1>7. IsList(v, nxt2, r2)
    BY <1>1, <1>5, <1>6 DEF IsList
<1> QED
    BY <1>1, <1>7 DEF v

\* What queue_add_* returns is determined by the place it inserts at.
LEMMA InsertionIsQueueAdd ==
    ASSUME NEW q \in Seq(Element), NEW el \in Element, KeySorted(q, keyOf), NEW j \in 0..Len(q),
           \A i \in 1..j : q[i].key <= el.key,
           \A i \in (j + 1)..Len(q) : el.key < q[i].key
    PROVE  QueueAdd(q, el, keyOf) = Inserted(q, j, el)
<1>1. keyOf \in [Element -> Nat] /\ \A e \in Element : keyOf[e] = e.key /\ e.key \in Nat
    BY KeysAssumption DEF keyOf, Element
<1> DEFINE p == InsertPos(q, el, keyOf)
           r == QueueAdd(q, el, keyOf)
<1>2. /\ r \in Seq(Element) /\ Len(r) = Len(q) + 1
      /\ \A i \in 1..Len(r) :
            r[i] = IF i <= p THEN q[i] ELSE IF i = p + 1 THEN el ELSE q[i - 1]
    BY <1>1, QueueAddShape
<1>3. p \in 0..Len(q)
    BY <1>1, InsertPosFound
<1>4. /\ \A i \in 1..p : keyOf[q[i]] <= keyOf[el]
      /\ \A i \in (p + 1)..Len(q) : keyOf[el] < keyOf[q[i]]
    BY <1>1, InsertPosStable
<1> HIDE DEF p, r
<1>5. Len(q) \in Nat /\ \A i \in 1..Len(q) : q[i] \in Element
    OBVIOUS
<1>6. /\ \A i \in 1..p : q[i].key <= el.key
      /\ \A i \in (p + 1)..Len(q) : el.key < q[i].key
  <2>1. \A i \in 1..Len(q) : keyOf[q[i]] = q[i].key
      BY <1>1, <1>5
  <2>2. keyOf[el] = el.key
      BY <1>1
  <2> QED
      BY <1>3, <1>4, <1>5, <2>1, <2>2
<1>7. p = j
  <2>1. \A i \in 1..Len(q) : q[i].key \in Nat
      BY <1>1, <1>5
  <2>2. el.key \in Nat
      BY <1>1
  <2>3. CASE p < j
    <3>1. j \in 1..j /\ j \in (p + 1)..Len(q) /\ j \in 1..Len(q)
        BY <1>3, <1>5, <2>3
    <3> QED
        BY <1>6, <2>1, <2>2, <3>1
  <2>4. CASE j < p
    <3>1. p \in 1..p /\ p \in (j + 1)..Len(q) /\ p \in 1..Len(q)
        BY <1>3, <1>5, <2>4
    <3> QED
        BY <1>6, <2>1, <2>2, <3>1
  <2> QED
      BY <1>3, <1>5, <2>3, <2>4
<1>8. Inserted(q, j, el) \in Seq(Element) /\ Len(Inserted(q, j, el)) = Len(q) + 1
      /\ \A i \in 1..(Len(q) + 1) :
            Inserted(q, j, el)[i] = IF i <= j THEN q[i] ELSE IF i = j + 1 THEN el ELSE q[i - 1]
    BY <1>5 DEF Inserted
<1> QED
    BY <1>2, <1>5, <1>7, <1>8 DEF r

\* Without its first cell, a list begins where that cell points.
LEMMA RemoveCell ==
    ASSUME NEW nxt, NEW r, NEW s \in Seq(Nodes), IsList(s, nxt, r), s # << >>
    PROVE  Tail(s) \in Seq(Nodes) /\ IsList(Tail(s), nxt, nxt[r])
<1>1. /\ Len(s) \in Nat \ {0} /\ DOMAIN s = 1..Len(s)
      /\ Tail(s) \in Seq(Nodes) /\ Len(Tail(s)) = Len(s) - 1
      /\ DOMAIN Tail(s) = 1..(Len(s) - 1)
      /\ \A i \in 1..(Len(s) - 1) : Tail(s)[i] = s[i + 1]
    BY EmptySeq, HeadTailProperties
<1>2. \A k \in 1..Len(s) : CellAt(Tail(s), k) = CellAt(s, k + 1)
  <2> TAKE k \in 1..Len(s)
  <2>1. CASE k = Len(s)
      BY <1>1, <2>1 DEF CellAt
  <2>2. CASE k # Len(s)
    <3>1. k \in 1..(Len(s) - 1) /\ k + 1 \in 1..Len(s)
      <4>1. Len(s) \in Nat
          OBVIOUS
      <4> QED
          BY <2>2, <4>1
    <3>2. CellAt(Tail(s), k) = Tail(s)[k] /\ CellAt(s, k + 1) = s[k + 1]
        BY <1>1, <3>1 DEF CellAt
    <3> QED
        BY <1>1, <3>1, <3>2
  <2> QED
      BY <2>1, <2>2
<1>3. r = s[1] /\ \A i \in 1..Len(s) : nxt[s[i]] = CellAt(s, i + 1)
    BY <1>1 DEF IsList, CellAt
<1>4. nxt[r] = CellAt(Tail(s), 1)
    BY <1>1, <1>2, <1>3
<1>5. ASSUME NEW i \in 1..(Len(s) - 1) PROVE nxt[Tail(s)[i]] = CellAt(Tail(s), i + 1)
  <2>1. i + 1 \in 1..Len(s)
      BY <1>1
  <2>2. nxt[s[i + 1]] = CellAt(s, (i + 1) + 1)
      BY <1>3, <2>1
  <2> QED
      BY <1>1, <1>2, <2>1, <2>2
<1> QED
    BY <1>1, <1>4, <1>5 DEF IsList

-----------------------------------------------------------------------------
(* Types and the mutex *)

LEMMA QInit == Init => QInv
<1> SUFFICES ASSUME Init PROVE QInv
    OBVIOUS
<1>1. /\ cell = [n \in Nodes |-> [el |-> None, next |-> NULL]] /\ alloc = {} /\ root = NULL
      /\ mutex = None /\ pc = [t \in Threads |-> "idle"]
      /\ arg = [t \in Threads |-> None] /\ res = [t \in Threads |-> None] /\ calls = 0
      /\ pel = [t \in Threads |-> NULL] /\ walk = [t \in Threads |-> NULL]
      /\ last = [t \in Threads |-> NULL] /\ ptemp = [t \in Threads |-> NULL]
    BY DEF Init
<1>2. QTypeOK /\ MutexInv
    BY <1>1, ThreadsAssumption DEF QTypeOK, MutexInv, Inside
<1>3. << >> \in Seq(Nodes) /\ IsList(<< >>, NextOfs, root)
    BY <1>1 DEF IsList, CellAt
<1>4. Chain = << >>
    BY <1>3, ListFromIs DEF Chain
<1>5. ListInv
    BY <1>3, <1>4 DEF ListInv
<1>6. InChain = {} /\ DOMAIN Content = {} /\ Content = << >>
    BY <1>4 DEF InChain, Content
<1>7. SortedInv
    BY <1>6 DEF SortedInv, KeySorted
<1>8. OwnerInv /\ FilledInv
    BY <1>1, <1>6 DEF OwnerInv, FilledInv, Holds, WithCell
<1>9. \A t \in Threads : Filling(t) /\ Knowing(t)
    BY <1>1 DEF Filling, Knowing, WithElement, WithCell
<1> QED
    BY <1>2, <1>5, <1>7, <1>8, <1>9 DEF QInv

\* The cell a thread has in hand.
LEMMA HandIsAllocated ==
    ASSUME QInv, NEW t \in Threads
    PROVE  /\ pc[t] \in WithCell => /\ pel[t] \in alloc /\ pel[t] \in Nodes
                                    /\ cell[pel[t]].el = arg[t] /\ arg[t] \in Element
           /\ pc[t] \in {"copy", "free"} => /\ ptemp[t] \in alloc /\ ptemp[t] \in Nodes
                                            /\ cell[ptemp[t]].el \in Element
<1>1. alloc \in SUBSET Nodes
    BY DEF QInv, QTypeOK
<1>2. CASE pc[t] \in WithCell
  <2>1. Holds(t, pel[t])
      BY <1>2 DEF Holds
  <2>2. pc[t] \in WithElement /\ pc[t] \notin {"copy", "free"}
      BY <1>2 DEF WithCell, WithElement
  <2> QED
      BY <1>1, <1>2, <2>1, <2>2 DEF QInv, OwnerInv, Filling
<1>3. CASE pc[t] \in {"copy", "free"}
  <2>1. Holds(t, ptemp[t])
      BY <1>3 DEF Holds
  <2>2. pc[t] \notin WithCell
      BY <1>3 DEF WithCell
  <2> QED
      BY <1>1, <1>3, <2>1, <2>2 DEF QInv, OwnerInv, FilledInv
<1> QED
    BY <1>2, <1>3

\* The root is the first cell of the list.
LEMMA RootIsFirst ==
    ASSUME QInv
    PROVE  /\ Chain \in Seq(Nodes)
           /\ root = NULL => Chain = << >>
           /\ root # NULL => Chain # << >> /\ root = Chain[1] /\ root \in Nodes /\ root \in InChain
<1>1. Chain \in Seq(Nodes) /\ root = CellAt(Chain, 1)
    BY DEF QInv, ListInv, IsList
<1>2. CASE Chain = << >>
    BY <1>1, <1>2, CellAtIs DEF CellAt
<1>3. CASE Chain # << >>
  <2>1. 1 \in DOMAIN Chain
      BY <1>1, <1>3
  <2>2. root = Chain[1] /\ root \in Nodes
      BY <1>1, <2>1 DEF CellAt
  <2> QED
      BY <1>1, <1>3, <2>1, <2>2, NodesAssumption DEF InChain
<1> QED
    BY <1>2, <1>3

\* What a call of t may do to what other threads have.
OthersStay(t) ==
    \A u \in Threads \ {t} :
        /\ pc'[u] = pc[u] /\ arg'[u] = arg[u] /\ res'[u] = res[u] /\ pel'[u] = pel[u]
        /\ walk'[u] = walk[u] /\ last'[u] = last[u] /\ ptemp'[u] = ptemp[u]

LEMMA OneThreadSteps ==
    ASSUME QTypeOK, NEW t \in Threads,
           (\E k \in Keys : CallAdd(t, k)) \/ CallNext(t) \/ Step(t)
    PROVE  OthersStay(t)
<1>1. CASE \E k \in Keys : CallAdd(t, k)
    BY <1>1 DEF QTypeOK, OthersStay, CallAdd, Goto, ptrs
<1>2. CASE CallNext(t)
    BY <1>2 DEF QTypeOK, OthersStay, CallNext, Goto, ptrs
<1>3. CASE Malloc(t) \/ LockAdd(t) \/ InsertEmpty(t) \/ PrependNext(t) \/ PrependRoot(t)
    BY <1>3 DEF QTypeOK, OthersStay, Malloc, LockAdd, InsertEmpty, PrependNext, PrependRoot,
                Goto, ptrs
<1>4. CASE WalkStart(t) \/ Walk(t) \/ LinkPrevious(t) \/ LinkNext(t) \/ UnlockAdd(t)
    BY <1>4 DEF QTypeOK, OthersStay, WalkStart, Walk, LinkPrevious, LinkNext, UnlockAdd,
                Goto, ptrs
<1>5. CASE LockNext(t) \/ NextOnEmpty(t) \/ TakeRoot(t) \/ AdvanceRoot(t)
    BY <1>5 DEF QTypeOK, OthersStay, LockNext, NextOnEmpty, TakeRoot, AdvanceRoot, Goto, ptrs
<1>6. CASE CopyOut(t) \/ Free(t) \/ UnlockNext(t)
    BY <1>6 DEF QTypeOK, OthersStay, CopyOut, Free, UnlockNext, Goto, ptrs
<1> QED
    BY <1>1, <1>2, <1>3, <1>4, <1>5, <1>6 DEF Step

LEMMA MutexStep ==
    ASSUME QTypeOK, MutexInv, NEW t \in Threads,
           (\E k \in Keys : CallAdd(t, k)) \/ CallNext(t) \/ Step(t)
    PROVE  MutexInv' /\ mutex' \in Threads \union {None}
<1>1. \A u \in Threads \ {t} : pc'[u] = pc[u]
    BY OneThreadSteps DEF OthersStay
<1>2. \/ mutex' = mutex /\ (pc'[t] \in Inside <=> pc[t] \in Inside)
      \/ mutex = None /\ mutex' = t /\ pc'[t] \in Inside
      \/ pc[t] \in Inside /\ mutex' = None /\ pc'[t] \notin Inside
  <2>1. CASE (\E k \in Keys : CallAdd(t, k)) \/ CallNext(t) \/ Malloc(t)
      BY <2>1 DEF QTypeOK, Inside, CallAdd, CallNext, Malloc, Goto
  <2>2. CASE InsertEmpty(t) \/ PrependNext(t) \/ PrependRoot(t) \/ WalkStart(t) \/ Walk(t)
             \/ LinkPrevious(t) \/ LinkNext(t)
      BY <2>2 DEF QTypeOK, Inside, InsertEmpty, PrependNext, PrependRoot, WalkStart, Walk,
                  LinkPrevious, LinkNext, Goto
  <2>3. CASE NextOnEmpty(t) \/ TakeRoot(t) \/ AdvanceRoot(t) \/ CopyOut(t) \/ Free(t)
      BY <2>3 DEF QTypeOK, Inside, NextOnEmpty, TakeRoot, AdvanceRoot, CopyOut, Free, Goto
  <2>4. CASE LockAdd(t) \/ LockNext(t)
      BY <2>4 DEF QTypeOK, Inside, LockAdd, LockNext, MutexLock, Goto
  <2>5. CASE UnlockAdd(t) \/ UnlockNext(t)
      BY <2>5 DEF QTypeOK, Inside, UnlockAdd, UnlockNext, Goto
  <2> QED
      BY <2>1, <2>2, <2>3, <2>4, <2>5 DEF Step
<1>3. \A u \in Threads : pc[u] \in Inside <=> mutex = u
    BY DEF MutexInv
<1>4. \A u \in Threads : pc'[u] \in Inside <=> mutex' = u
    BY <1>1, <1>2, <1>3, ThreadsAssumption
<1> QED
    BY <1>2, <1>4 DEF MutexInv, QTypeOK

LEMMA QTypeStep ==
    ASSUME QInv, NEW t \in Threads,
           (\E k \in Keys : CallAdd(t, k)) \/ CallNext(t) \/ Step(t)
    PROVE  QTypeOK'
<1> USE DEF QTypeOK, Goto, ptrs
<1>1. QTypeOK /\ mutex' \in Threads \union {None}
    BY MutexStep DEF QInv
<1>2. CASE \E k \in Keys : CallAdd(t, k)
  <2>1. PICK k \in Keys : CallAdd(t, k)
      BY <1>2
  <2>2. [sn |-> calls + 1, key |-> k] \in Element /\ calls + 1 \in Nat
      BY <1>1 DEF Element
  <2> QED
      BY <1>1, <2>1, <2>2 DEF CallAdd, Inside
<1>3. CASE CallNext(t)
    BY <1>1, <1>3 DEF CallNext, Inside
<1>4. CASE Malloc(t)
    BY <1>1, <1>4 DEF Malloc, Inside
<1>5. CASE LockAdd(t) \/ InsertEmpty(t) \/ PrependRoot(t) \/ LockNext(t) \/ NextOnEmpty(t)
           \/ UnlockNext(t) \/ UnlockAdd(t)
    BY <1>1, <1>5 DEF LockAdd, InsertEmpty, PrependRoot, LockNext, NextOnEmpty, UnlockNext,
                      UnlockAdd, Inside
<1>6. CASE PrependNext(t) \/ WalkStart(t) \/ TakeRoot(t) \/ AdvanceRoot(t)
  <2>1. root # NULL => root \in Nodes
      BY RootIsFirst
  <2> QED
      BY <1>1, <1>6, <2>1 DEF PrependNext, WalkStart, TakeRoot, AdvanceRoot, Inside
<1>7. CASE Walk(t) \/ LinkPrevious(t)
  <2>1. walk[t] \in Nodes
      BY <1>7 DEF Walk, LinkPrevious, QInv, Knowing, ListInv
  <2>2. cell[walk[t]].next \in Nodes \union {NULL}
      BY <1>1, <2>1
  <2> QED
      BY <1>1, <1>7, <2>1, <2>2 DEF Walk, LinkPrevious, Inside
<1>8. CASE LinkNext(t)
    BY <1>1, <1>8 DEF LinkNext, Inside
<1>9. CASE CopyOut(t)
  <2>1. cell[ptemp[t]].el \in Element
      BY <1>9, HandIsAllocated DEF CopyOut
  <2> QED
      BY <1>1, <1>9, <2>1 DEF CopyOut, Inside
<1>10. CASE Free(t)
    BY <1>1, <1>10 DEF Free, Inside
<1> QED
    BY <1>2, <1>3, <1>4, <1>5, <1>6, <1>7, <1>8, <1>9, <1>10 DEF Step

-----------------------------------------------------------------------------
(* What a step does to the list *)

\* The mutex is not free, or not its own, for any other thread.
LEMMA AloneInside ==
    ASSUME QInv, NEW t \in Threads, NEW u \in Threads, pc[t] \in Inside, u # t
    PROVE  pc[u] \notin Inside
BY DEF QInv, MutexInv

\* Only what is linked into the list or out of it changes it.
Quiet(t) ==
    \/ \E k \in Keys : CallAdd(t, k)
    \/ CallNext(t) \/ Malloc(t) \/ LockAdd(t) \/ PrependNext(t) \/ WalkStart(t) \/ Walk(t)
    \/ LinkNext(t) \/ UnlockAdd(t) \/ LockNext(t) \/ NextOnEmpty(t) \/ TakeRoot(t)
    \/ CopyOut(t) \/ Free(t) \/ UnlockNext(t)

LEMMA QuietKeepsCells ==
    ASSUME QInv, NEW t \in Threads, Quiet(t), ~LinkNext(t)
    PROVE  /\ pc[t] # "link" /\ pc'[t] # "link" /\ root' = root
           /\ \A n \in Nodes : n \in InChain => cell'[n] = cell[n]
<1> USE DEF QTypeOK, Goto
<1>1. QTypeOK
    BY DEF QInv
<1>2. CASE (\E k \in Keys : CallAdd(t, k)) \/ CallNext(t) \/ LockAdd(t) \/ WalkStart(t) \/ Walk(t)
           \/ UnlockAdd(t) \/ LockNext(t)
    BY <1>1, <1>2 DEF CallAdd, CallNext, LockAdd, WalkStart, Walk, UnlockAdd, LockNext
<1>3. CASE NextOnEmpty(t) \/ TakeRoot(t) \/ CopyOut(t) \/ Free(t) \/ UnlockNext(t)
    BY <1>1, <1>3 DEF NextOnEmpty, TakeRoot, CopyOut, Free, UnlockNext
<1>4. CASE Malloc(t)
  <2>1. \A n \in InChain : n \in alloc
      BY DEF QInv, OwnerInv
  <2> QED
      BY <1>1, <1>4, <2>1 DEF Malloc
<1>5. CASE PrependNext(t)
  <2>1. Holds(t, pel[t])
      BY <1>5 DEF PrependNext, Holds, WithCell
  <2>2. pel[t] \notin InChain
      BY <2>1 DEF QInv, OwnerInv
  <2> QED
      BY <1>1, <1>5, <2>2 DEF PrependNext
<1> QED
    BY <1>2, <1>3, <1>4, <1>5 DEF Quiet

LEMMA LinkNextKeepsNexts ==
    ASSUME QInv, NEW t \in Threads, LinkNext(t)
    PROVE  /\ root' = root
           /\ \A n \in Nodes : NextOf(n)' = NextOf(n) /\ cell'[n].el = cell[n].el
<1>1. QTypeOK /\ pc[t] = "link" /\ pc'[t] = "unlock_add" /\ root' = root
    BY DEF QInv, QTypeOK, LinkNext, Goto
<1>2. \A u \in Threads \ {t} : pc'[u] = pc[u] /\ pc[u] # "link"
  <2>1. OthersStay(t)
      BY <1>1, OneThreadSteps DEF Step
  <2> QED
      BY <1>1, <2>1, AloneInside DEF OthersStay, Inside
<1>3. pel[t] \in InChain
    BY <1>1 DEF QInv, Knowing
<1>4. pel[t] \in Nodes
    BY <1>3 DEF QInv, ListInv, InChain
<1>5. \A n \in Nodes : /\ cell'[n].el = cell[n].el
                       /\ cell'[n].next = IF n = pel[t] THEN last[t] ELSE cell[n].next
    BY <1>1, <1>4 DEF LinkNext, QTypeOK
<1>6. \A n \in Nodes : NextOf(n) = IF n = pel[t] THEN last[t] ELSE cell[n].next
    BY <1>1, NextsWhileLinking DEF QInv
<1>7. (\A u \in Threads : pc[u] # "link")'
    BY <1>1, <1>2
<1>8. \A n \in Nodes : NextOf(n)' = cell'[n].next
    BY <1>7, NextsAreStoredAfter
<1> QED
    BY <1>1, <1>5, <1>6, <1>8

LEMMA QuietKeepsList ==
    ASSUME QInv, NEW t \in Threads, Quiet(t)
    PROVE  ListInv' /\ Chain' = Chain /\ Content' = Content
<1>1. ListInv
    BY DEF QInv
<1>2. CASE LinkNext(t)
  <2>1. /\ root' = root
        /\ \A n \in Nodes : NextOf(n)' = NextOf(n) /\ cell'[n].el = cell[n].el
      BY <1>2, LinkNextKeepsNexts
  <2>2. ListInv' /\ Chain' = Chain
      BY <1>1, <2>1, ListStays
  <2> QED
      BY <1>1, <2>1, <2>2, ContentStays
<1>3. CASE ~LinkNext(t)
  <2>1. /\ pc[t] # "link" /\ pc'[t] # "link" /\ root' = root
        /\ \A n \in Nodes : n \in InChain => cell'[n] = cell[n]
      BY <1>3, QuietKeepsCells
  <2>2. OthersStay(t)
      BY OneThreadSteps DEF Quiet, Step, QInv
  <2>3. \A u \in Threads \ {t} : pc'[u] = pc[u] /\ pel'[u] = pel[u] /\ last'[u] = last[u]
      BY <2>2 DEF OthersStay
  <2>4. ASSUME NEW n \in Nodes, n \in InChain PROVE NextOf(n)' = NextOf(n)
    <3>1. cell'[n].next = cell[n].next
        BY <2>1, <2>4
    <3> QED
        BY <2>1, <2>3, <3>1, NextsStay
  <2>5. ListInv' /\ Chain' = Chain
      BY <1>1, <2>1, <2>4, ListStays
  <2> QED
      BY <1>1, <2>1, <2>5, ContentStays
<1> QED
    BY <1>2, <1>3

\* Where a step of queue_add_* links its cell: behind the first j.
LinksBehind(t, j) ==
    /\ Chain' = Inserted(Chain, j, pel[t])
    /\ \A i \in 1..j : Content[i].key <= arg[t].key
    /\ \A i \in (j + 1)..Len(Content) : arg[t].key < Content[i].key

LEMMA ContentHas ==
    ASSUME QInv
    PROVE  /\ Chain \in Seq(Nodes) /\ Content \in Seq(Element)
           /\ Len(Content) = Len(Chain) /\ DOMAIN Content = DOMAIN Chain
           /\ \A i \in 1..Len(Chain) : Chain[i] \in Nodes /\ Content[i] = cell[Chain[i]].el
           /\ \A i \in 1..Len(Chain) : Content[i].key \in Nat
<1>1. Chain \in Seq(Nodes)
    BY DEF QInv, ListInv
<1>2. \A i \in 1..Len(Chain) : Chain[i] \in Nodes /\ cell[Chain[i]].el \in Element
  <2> TAKE i \in 1..Len(Chain)
  <2>1. Chain[i] \in InChain
      BY <1>1 DEF InChain
  <2>2. Chain[i] \in alloc
      BY <2>1 DEF QInv, OwnerInv
  <2> QED
      BY <1>1, <2>2 DEF QInv, FilledInv
<1>3. Content = [i \in 1..Len(Chain) |-> cell[Chain[i]].el]
    BY <1>1 DEF Content
<1> HIDE DEF Content
<1>4. Content \in Seq(Element) /\ Len(Content) = Len(Chain) /\ DOMAIN Content = DOMAIN Chain
    BY <1>1, <1>2, <1>3
<1>5. \A e \in Element : e.key \in Nat
    BY KeysAssumption DEF Element
<1> QED
    BY <1>1, <1>2, <1>3, <1>4, <1>5

\* The cell in hand has just been filled and is nowhere in the list.
LEMMA HandIsNotInList ==
    ASSUME QInv, NEW t \in Threads, pc[t] \in WithCell
    PROVE  pel[t] \in Nodes /\ \A i \in DOMAIN Chain : Chain[i] # pel[t]
<1>1. Holds(t, pel[t])
    BY DEF Holds
<1> QED
    BY <1>1, HandIsAllocated DEF QInv, OwnerInv, InChain

\* Nobody is linking while another thread is inside, but not linking.
LEMMA NobodyLinks ==
    ASSUME QInv, NEW t \in Threads, pc[t] \in Inside, pc[t] # "link"
    PROVE  \A n \in Nodes : NextOf(n) = cell[n].next
<1>1. \A u \in Threads : pc[u] # "link"
    BY AloneInside DEF Inside
<1> QED
    BY <1>1, NextsAreStored

LEMMA NobodyLinksAfter ==
    ASSUME QInv, NEW t \in Threads, pc[t] \in Inside, pc'[t] # "link", OthersStay(t)
    PROVE  \A n \in Nodes : NextOf(n)' = cell'[n].next
<1>1. \A u \in Threads : pc'[u] # "link"
    BY AloneInside DEF Inside, OthersStay
<1> QED
    BY <1>1, NextsAreStoredAfter

\* An insertion in front of the first cell.
LEMMA HeadLinks ==
    ASSUME QInv, NEW t \in Threads, InsertEmpty(t) \/ PrependRoot(t)
    PROVE  ListInv' /\ LinksBehind(t, 0)
<1>1. /\ pc[t] \in WithCell /\ pc[t] \in Inside /\ pc[t] # "link" /\ pc'[t] = "unlock_add"
      /\ root' = pel[t] /\ cell' = cell
    BY DEF InsertEmpty, PrependRoot, Goto, WithCell, Inside, QInv, QTypeOK
<1>2. OthersStay(t)
    BY OneThreadSteps DEF Step, QInv
<1>3. \A n \in Nodes : NextOf(n) = cell[n].next /\ NextOf(n)' = cell[n].next
    BY <1>1, <1>2, NobodyLinks, NobodyLinksAfter
<1>4. pel[t] \in Nodes /\ (\A i \in DOMAIN Chain : Chain[i] # pel[t])
    BY <1>1, HandIsNotInList
<1>5. Chain \in Seq(Nodes) /\ IsList(Chain, NextOfs, root)
    BY DEF QInv, ListInv
<1>6. cell[pel[t]].next = root
    BY <1>1 DEF InsertEmpty, PrependRoot, Goto, QInv, Filling, Knowing
<1>7. NextOfs'[pel[t]] = CellAt(Chain, 0 + 1)
  <2>1. root = CellAt(Chain, 1)
      BY <1>5 DEF IsList
  <2>2. NextOfs'[pel[t]] = cell[pel[t]].next
      BY <1>3, <1>4 DEF NextOfs
  <2> QED
      BY <1>6, <2>1, <2>2
<1>8. \A i \in DOMAIN Chain : NextOfs'[Chain[i]] = NextOfs[Chain[i]]
    BY <1>3, <1>5 DEF NextOfs
<1>9. 0 \in 0..Len(Chain)
    BY <1>5
<1>10. Inserted(Chain, 0, pel[t]) \in Seq(Nodes) /\ IsList(Inserted(Chain, 0, pel[t]), NextOfs', root')
  <2>1. IF 0 = 0 THEN root' = pel[t] ELSE root' = root /\ NextOfs'[Chain[0]] = pel[t]
      BY <1>1
  <2>2. \A i \in DOMAIN Chain : i # 0 => NextOfs'[Chain[i]] = NextOfs[Chain[i]]
      BY <1>8
  <2> QED
      BY <1>4, <1>5, <1>7, <1>9, <2>1, <2>2, InsertCell
<1>11. \A i \in 1..Len(Content) : arg[t].key < Content[i].key
  <2>1. CASE InsertEmpty(t)
    <3>1. Chain = << >>
        BY <2>1, RootIsFirst DEF InsertEmpty
    <3> QED
        BY <3>1, ContentHas
  <2>2. CASE PrependRoot(t)
      BY <2>2, ContentHas DEF PrependRoot, Goto, QInv, Knowing
  <2> QED
      BY <2>1, <2>2
<1> QED
    BY <1>10, <1>11, ChainIs DEF LinksBehind

\* An insertion behind a cell.
LEMMA WalkLinks ==
    ASSUME QInv, MutexInv', NEW t \in Threads, LinkPrevious(t)
    PROVE  ListInv' /\ \E j \in 1..Len(Chain) : LinksBehind(t, j)
<1>1. /\ pc[t] = "walk" /\ pc[t] \in WithCell /\ pc[t] \in Inside /\ pc'[t] = "link"
      /\ root' = root /\ pel' = pel /\ ~WalkOn(walk[t], arg[t].key)
    BY DEF LinkPrevious, Goto, WithCell, Inside, QInv, QTypeOK
<1>2. \A n \in Nodes : NextOf(n) = cell[n].next
    BY <1>1, NobodyLinks
<1>3. PICK j \in DOMAIN Chain : /\ walk[t] = Chain[j]
                                /\ \A i \in 1..j : Content[i].key <= arg[t].key
    BY <1>1 DEF QInv, Knowing
<1>4. /\ Chain \in Seq(Nodes) /\ Content \in Seq(Element) /\ Len(Content) = Len(Chain)
      /\ \A i \in 1..Len(Chain) : Chain[i] \in Nodes /\ Content[i] = cell[Chain[i]].el
      /\ \A i \in 1..Len(Chain) : Content[i].key \in Nat
    BY ContentHas
<1>5. IsList(Chain, NextOfs, root)
    BY DEF QInv, ListInv
<1>6. pel[t] \in Nodes /\ (\A i \in DOMAIN Chain : Chain[i] # pel[t])
    BY <1>1, HandIsNotInList
<1>7. j \in 1..Len(Chain) /\ Len(Chain) \in Nat /\ walk[t] \in Nodes
    BY <1>3, <1>4
<1>8. cell[walk[t]].next = CellAt(Chain, j + 1)
    BY <1>2, <1>3, <1>5, <1>7 DEF IsList, NextOfs
<1>9. \A i, k \in 1..Len(Chain) : i # k => Chain[i] # Chain[k]
    BY <1>4, <1>5, NoCellTwice
<1>10. QTypeOK
    BY DEF QInv
<1>11. /\ last'[t] = CellAt(Chain, j + 1)
       /\ \A n \in Nodes : cell'[n].next = IF n = walk[t] THEN pel[t] ELSE cell[n].next
    BY <1>7, <1>8, <1>10 DEF LinkPrevious, QTypeOK
<1>12. \A n \in Nodes : NextOf(n)' = IF n = pel[t] THEN last'[t] ELSE cell'[n].next
  <2>1. (pc[t] = "link" =>
            \A n \in Nodes : NextOf(n) = IF n = pel[t] THEN last[t] ELSE cell[n].next)'
      BY NextsWhileLinkingAfter
  <2> QED
      BY <1>1, <2>1
<1>13. NextOfs'[pel[t]] = CellAt(Chain, j + 1)
    BY <1>6, <1>11, <1>12 DEF NextOfs
<1>14. NextOfs'[Chain[j]] = pel[t]
    BY <1>3, <1>6, <1>7, <1>11, <1>12 DEF NextOfs
<1>15. \A i \in DOMAIN Chain : i # j => NextOfs'[Chain[i]] = NextOfs[Chain[i]]
  <2> SUFFICES ASSUME NEW i \in DOMAIN Chain, i # j
               PROVE  NextOfs'[Chain[i]] = NextOfs[Chain[i]]
      OBVIOUS
  <2>1. Chain[i] # Chain[j] /\ Chain[i] \in Nodes /\ Chain[i] # pel[t]
      BY <1>4, <1>6, <1>7, <1>9
  <2> QED
      BY <1>2, <1>3, <1>11, <1>12, <2>1 DEF NextOfs
<1>16. /\ Inserted(Chain, j, pel[t]) \in Seq(Nodes)
       /\ IsList(Inserted(Chain, j, pel[t]), NextOfs', root')
  <2>1. j \in 0..Len(Chain) /\ j # 0
      BY <1>7
  <2>2. IF j = 0 THEN root' = pel[t] ELSE root' = root /\ NextOfs'[Chain[j]] = pel[t]
      BY <1>1, <1>14, <2>1
  <2> QED
      BY <1>4, <1>5, <1>6, <1>13, <1>15, <2>1, <2>2, InsertCell, ZenonT(30)
<1>17. \A i \in (j + 1)..Len(Content) : arg[t].key < Content[i].key
  <2> SUFFICES ASSUME NEW i \in (j + 1)..Len(Content) PROVE arg[t].key < Content[i].key
      OBVIOUS
  <2>1. j + 1 \in 1..Len(Chain) /\ i \in 1..Len(Chain)
      BY <1>4, <1>7
  <2>2. CellAt(Chain, j + 1) = Chain[j + 1] /\ Chain[j + 1] \in Nodes
      BY <1>4, <2>1 DEF CellAt
  <2>3. cell[walk[t]].next # NULL /\ KeyAt(cell[walk[t]].next) = Content[j + 1].key
      BY <1>4, <1>8, <2>1, <2>2, NodesAssumption DEF KeyAt
  <2>4. ~(arg[t].key >= Content[j + 1].key)
      BY <1>1, <2>3 DEF WalkOn
  <2>5. arg[t].key \in Nat
    <3>1. arg[t] \in Element
        BY <1>1, HandIsAllocated
    <3> QED
        BY <3>1, KeysAssumption DEF Element
  <2>6. Content[j + 1].key <= Content[i].key
    <3>1. CASE i = j + 1
        BY <1>4, <2>1, <3>1
    <3>2. CASE i # j + 1
      <4>1. j + 1 < i
          BY <1>7, <3>2
      <4>2. keyOf[Content[j + 1]] <= keyOf[Content[i]]
          BY <1>4, <2>1, <4>1 DEF QInv, SortedInv, KeySorted
      <4>3. keyOf[Content[j + 1]] = Content[j + 1].key /\ keyOf[Content[i]] = Content[i].key
          BY <1>4, <2>1 DEF keyOf
      <4> QED
          BY <4>2, <4>3
    <3> QED
        BY <3>1, <3>2
  <2> QED
      BY <1>4, <2>1, <2>4, <2>5, <2>6
<1> QED
    BY <1>3, <1>7, <1>16, <1>17, ChainIs DEF LinksBehind

\* What the two have in common: the queue has the element where QueueAdd puts it.
LEMMA LinksBehindAdds ==
    ASSUME QInv, NEW t \in Threads, InsertEmpty(t) \/ PrependRoot(t) \/ LinkPrevious(t),
           NEW j \in 0..Len(Chain), LinksBehind(t, j)
    PROVE  /\ InChain' = InChain \union {pel[t]}
           /\ Content' = QueueAdd(Content, arg[t], keyOf)
<1>1. pc[t] \in WithCell
    BY DEF InsertEmpty, PrependRoot, LinkPrevious, Goto, WithCell
<1>2. pel[t] \in Nodes /\ cell[pel[t]].el = arg[t] /\ arg[t] \in Element
    BY <1>1, HandIsAllocated
<1>3. \A n \in Nodes : cell'[n].el = cell[n].el
    BY DEF InsertEmpty, PrependRoot, LinkPrevious, QInv, QTypeOK
<1>4. /\ Chain \in Seq(Nodes) /\ Content \in Seq(Element) /\ Len(Content) = Len(Chain)
      /\ \A i \in 1..Len(Chain) : Chain[i] \in Nodes /\ Content[i] = cell[Chain[i]].el
    BY ContentHas
<1>5. Len(Chain) \in Nat /\ DOMAIN Chain = 1..Len(Chain)
    BY <1>4
<1>6. /\ Chain' = [i \in 1..(Len(Chain) + 1) |->
                     IF i <= j THEN Chain[i] ELSE IF i = j + 1 THEN pel[t] ELSE Chain[i - 1]]
      /\ DOMAIN Chain' = 1..(Len(Chain) + 1)
    BY DEF LinksBehind, Inserted
<1>7. InChain' = InChain \union {pel[t]}
  <2>1. ASSUME NEW n \in InChain' PROVE n \in InChain \union {pel[t]}
    <3>1. PICK i \in 1..(Len(Chain) + 1) : n = Chain'[i]
        BY <1>6, <2>1 DEF InChain
    <3>2. i <= j => i \in 1..Len(Chain)
        BY <1>5
    <3>3. i > j + 1 => i - 1 \in 1..Len(Chain)
        BY <1>5
    <3> QED
        BY <1>5, <1>6, <3>1, <3>2, <3>3 DEF InChain
  <2>2. ASSUME NEW n \in InChain PROVE n \in InChain'
    <3>1. PICK i \in 1..Len(Chain) : n = Chain[i]
        BY <1>5 DEF InChain
    <3>2. CASE i <= j
      <4>1. i \in 1..(Len(Chain) + 1) /\ Chain'[i] = n
          BY <1>5, <1>6, <3>1, <3>2
      <4> QED
          BY <1>6, <4>1 DEF InChain
    <3>3. CASE i > j
      <4>1. i + 1 \in 1..(Len(Chain) + 1) /\ ~(i + 1 <= j) /\ i + 1 # j + 1 /\ (i + 1) - 1 = i
          BY <1>5, <3>3
      <4>2. Chain'[i + 1] = n
          BY <1>6, <3>1, <4>1
      <4> QED
          BY <1>6, <4>1, <4>2 DEF InChain
    <3> QED
        BY <1>5, <3>2, <3>3
  <2>3. pel[t] \in InChain'
    <3>1. j + 1 \in 1..(Len(Chain) + 1) /\ Chain'[j + 1] = pel[t]
        BY <1>5, <1>6
    <3> QED
        BY <1>6, <3>1 DEF InChain
  <2> QED
      BY <2>1, <2>2, <2>3
<1>8. Content' = Inserted(Content, j, arg[t])
  <2>1. Content' = [i \in 1..(Len(Chain) + 1) |-> cell'[Chain'[i]].el]
      BY <1>6 DEF Content
  <2>2. ASSUME NEW i \in 1..(Len(Chain) + 1)
        PROVE  cell'[Chain'[i]].el =
                  IF i <= j THEN Content[i] ELSE IF i = j + 1 THEN arg[t] ELSE Content[i - 1]
    <3>1. CASE i <= j
      <4>1. i \in 1..Len(Chain) /\ Chain'[i] = Chain[i]
          BY <1>5, <1>6, <3>1
      <4> QED
          BY <1>3, <1>4, <3>1, <4>1
    <3>2. CASE i = j + 1
      <4>1. Chain'[i] = pel[t] /\ ~(i <= j)
          BY <1>5, <1>6, <3>2
      <4> QED
          BY <1>2, <1>3, <3>2, <4>1
    <3>3. CASE i > j + 1
      <4>1. i - 1 \in 1..Len(Chain) /\ Chain'[i] = Chain[i - 1] /\ ~(i <= j) /\ i # j + 1
          BY <1>5, <1>6, <3>3
      <4> QED
          BY <1>3, <1>4, <3>3, <4>1
    <3> QED
        BY <1>5, <3>1, <3>2, <3>3
  <2> QED
      BY <1>4, <2>1, <2>2 DEF Inserted
<1>9. KeySorted(Content, keyOf)
    BY DEF QInv, SortedInv
<1>10. j \in 0..Len(Content)
    BY <1>4
<1>11. /\ \A i \in 1..j : Content[i].key <= arg[t].key
       /\ \A i \in (j + 1)..Len(Content) : arg[t].key < Content[i].key
    BY DEF LinksBehind
<1>12. QueueAdd(Content, arg[t], keyOf) = Inserted(Content, j, arg[t])
    BY <1>2, <1>4, <1>9, <1>10, <1>11, InsertionIsQueueAdd
<1> QED
    BY <1>7, <1>8, <1>12

\* The first cell leaves the list and is the one the thread has in ptemp.
LEMMA RootIsRemoved ==
    ASSUME QInv, NEW t \in Threads, AdvanceRoot(t)
    PROVE  /\ ListInv'
           /\ root \in InChain /\ ptemp[t] = root
           /\ InChain' = InChain \ {root}
           /\ Content # << >> /\ cell[root].el = Content[1]
           /\ Content' = QueueNext(Content)
<1>1. /\ pc[t] = "advance" /\ pc[t] \in Inside /\ pc[t] # "link" /\ pc'[t] = "copy"
      /\ root' = cell[root].next /\ cell' = cell
    BY DEF AdvanceRoot, Goto, Inside, QInv, QTypeOK
<1>2. OthersStay(t)
    BY OneThreadSteps DEF Step, QInv
<1>3. \A n \in Nodes : NextOf(n) = cell[n].next /\ NextOf(n)' = cell[n].next
    BY <1>1, <1>2, NobodyLinks, NobodyLinksAfter
<1>4. root # NULL /\ ptemp[t] = root
    BY <1>1 DEF QInv, Knowing
<1>5. /\ Chain \in Seq(Nodes) /\ Chain # << >> /\ root = Chain[1]
      /\ root \in Nodes /\ root \in InChain
    BY <1>4, RootIsFirst
<1>6. IsList(Chain, NextOfs, root)
    BY DEF QInv, ListInv
<1>7. NextOfs' = NextOfs
    BY <1>3 DEF NextOfs
<1>8. root' = NextOfs[root]
    BY <1>1, <1>3, <1>5 DEF NextOfs
<1>9. Tail(Chain) \in Seq(Nodes) /\ IsList(Tail(Chain), NextOfs', root')
    BY <1>5, <1>6, <1>7, <1>8, RemoveCell
<1>10. ListInv' /\ Chain' = Tail(Chain)
    BY <1>9, ChainIs
<1>11. /\ Len(Chain) \in Nat \ {0} /\ DOMAIN Chain = 1..Len(Chain)
       /\ DOMAIN Tail(Chain) = 1..(Len(Chain) - 1)
       /\ \A i \in 1..(Len(Chain) - 1) : Tail(Chain)[i] = Chain[i + 1]
    BY <1>5, EmptySeq, HeadTailProperties
<1>12. \A i, k \in 1..Len(Chain) : i # k => Chain[i] # Chain[k]
    BY <1>5, <1>6, NoCellTwice
<1>13. InChain' = InChain \ {root}
  <2>1. ASSUME NEW n \in InChain' PROVE n \in InChain \ {root}
    <3>1. PICK i \in 1..(Len(Chain) - 1) : n = Chain[i + 1]
        BY <1>10, <1>11, <2>1 DEF InChain
    <3>2. i + 1 \in 1..Len(Chain) /\ 1 \in 1..Len(Chain) /\ i + 1 # 1
        BY <1>11
    <3> QED
        BY <1>5, <1>11, <1>12, <3>1, <3>2 DEF InChain
  <2>2. ASSUME NEW n \in InChain, n # root PROVE n \in InChain'
    <3>1. PICK i \in 1..Len(Chain) : n = Chain[i]
        BY <1>11 DEF InChain
    <3>2. i - 1 \in 1..(Len(Chain) - 1) /\ (i - 1) + 1 = i
        BY <1>5, <1>11, <2>2, <3>1
    <3>3. Tail(Chain)[i - 1] = n
        BY <1>11, <3>1, <3>2
    <3> QED
        BY <1>10, <1>11, <3>2, <3>3 DEF InChain
  <2> QED
      BY <2>1, <2>2
<1>14. /\ Content \in Seq(Element) /\ Len(Content) = Len(Chain)
       /\ \A i \in 1..Len(Chain) : Content[i] = cell[Chain[i]].el
    BY ContentHas
<1>15. Content # << >> /\ cell[root].el = Content[1]
    BY <1>5, <1>11, <1>14
<1>16. Content' = QueueNext(Content)
  <2>1. /\ QueueNext(Content) \in Seq(Element) /\ Len(QueueNext(Content)) = Len(Content) - 1
        /\ \A i \in 1..(Len(Content) - 1) : QueueNext(Content)[i] = Content[i + 1]
    <3>1. /\ QueueNext(Content) \in Seq(Element)
          /\ Len(QueueNext(Content)) = Len(Content) - 1
          /\ \A i \in 1..Len(QueueNext(Content)) : QueueNext(Content)[i] = Content[i + 1]
        BY <1>14, <1>15, QueueNextShape
    <3> QED
        BY <3>1
  <2>2. Content' = [i \in 1..(Len(Chain) - 1) |-> cell[Tail(Chain)[i]].el]
      BY <1>1, <1>10, <1>11 DEF Content
  <2>3. \A i \in 1..(Len(Chain) - 1) : cell[Tail(Chain)[i]].el = Content[i + 1]
    <3> TAKE i \in 1..(Len(Chain) - 1)
    <3>1. i + 1 \in 1..Len(Chain)
        BY <1>11
    <3> QED
        BY <1>11, <1>14, <3>1
  <2>4. QueueNext(Content) = [i \in 1..(Len(Chain) - 1) |-> Content[i + 1]]
      BY <1>11, <1>14, <2>1
  <2> QED
      BY <2>2, <2>3, <2>4
<1> QED
    BY <1>4, <1>5, <1>10, <1>13, <1>15, <1>16

\* The cell leaves the hand of the thread and is in the list.
LEMMA CellIsLinked ==
    ASSUME QInv, MutexInv', NEW t \in Threads,
           InsertEmpty(t) \/ PrependRoot(t) \/ LinkPrevious(t)
    PROVE  /\ ListInv'
           /\ InChain' = InChain \union {pel[t]}
           /\ Content' = QueueAdd(Content, arg[t], keyOf)
<1>1. CASE InsertEmpty(t) \/ PrependRoot(t)
  <2>1. ListInv' /\ LinksBehind(t, 0)
      BY <1>1, HeadLinks
  <2>2. 0 \in 0..Len(Chain)
    <3>1. Len(Chain) \in Nat
        BY ContentHas
    <3> QED
        BY <3>1
  <2> QED
      BY <1>1, <2>1, <2>2, LinksBehindAdds
<1>2. CASE LinkPrevious(t)
  <2>1. ListInv' /\ \E j \in 1..Len(Chain) : LinksBehind(t, j)
      BY <1>2, WalkLinks
  <2>2. PICK j \in 1..Len(Chain) : LinksBehind(t, j)
      BY <2>1
  <2>3. j \in 0..Len(Chain)
      OBVIOUS
  <2> QED
      BY <1>2, <2>1, <2>2, <2>3, LinksBehindAdds
<1> QED
    BY <1>1, <1>2

\* The three ways a step changes the queue.
LEMMA QueueOfSteps ==
    ASSUME QInv, MutexInv', NEW t \in Threads,
           (\E k \in Keys : CallAdd(t, k)) \/ CallNext(t) \/ Step(t)
    PROVE  /\ ListInv'
           /\ \/ Quiet(t) /\ Chain' = Chain /\ Content' = Content
              \/ /\ InsertEmpty(t) \/ PrependRoot(t) \/ LinkPrevious(t)
                 /\ Content' = QueueAdd(Content, arg[t], keyOf)
              \/ AdvanceRoot(t) /\ Content # << >> /\ Content' = QueueNext(Content)
<1>1. CASE Quiet(t)
    BY <1>1, QuietKeepsList
<1>2. CASE InsertEmpty(t) \/ PrependRoot(t) \/ LinkPrevious(t)
    BY <1>2, CellIsLinked
<1>3. CASE AdvanceRoot(t)
    BY <1>3, RootIsRemoved
<1> QED
    BY <1>1, <1>2, <1>3 DEF Step, Quiet

LEMMA SortedQueueStep ==
    ASSUME QInv, MutexInv', NEW t \in Threads,
           (\E k \in Keys : CallAdd(t, k)) \/ CallNext(t) \/ Step(t)
    PROVE  SortedInv'
<1>1. keyOf \in [Element -> Nat] /\ Content \in Seq(Element) /\ KeySorted(Content, keyOf)
    BY ContentHas, KeysAssumption DEF keyOf, Element, QInv, SortedInv
<1>2. CASE Content' = Content
    BY <1>1, <1>2 DEF SortedInv
<1>3. CASE /\ InsertEmpty(t) \/ PrependRoot(t) \/ LinkPrevious(t)
           /\ Content' = QueueAdd(Content, arg[t], keyOf)
  <2>1. pc[t] \in WithCell
      BY <1>3 DEF InsertEmpty, PrependRoot, LinkPrevious, Goto, WithCell
  <2>2. arg[t] \in Element
      BY <2>1, HandIsAllocated
  <2>3. KeySorted(QueueAdd(Content, arg[t], keyOf), keyOf)
      BY <1>1, <2>2, QueueAddKeepsSorted
  <2> QED
      BY <1>3, <2>3 DEF SortedInv
<1>4. CASE Content # << >> /\ Content' = QueueNext(Content)
  <2>1. KeySorted(QueueNext(Content), keyOf)
      BY <1>1, <1>4, QueueNextKeepsSorted
  <2> QED
      BY <1>4, <2>1 DEF SortedInv
<1> QED
    BY <1>2, <1>3, <1>4, QueueOfSteps

-----------------------------------------------------------------------------
(* The owner of a cell *)

\* A step gives a cell to a thread, to the list or back to malloc, and moves no other.
LEMMA OwnerStep ==
    ASSUME QInv, MutexInv', NEW t \in Threads,
           (\E k \in Keys : CallAdd(t, k)) \/ CallNext(t) \/ Step(t)
    PROVE  OwnerInv'
<1>1. QTypeOK /\ OwnerInv
    BY DEF QInv
<1>2. \A u \in Threads \ {t} : \A n : Holds(u, n)' <=> Holds(u, n)
    BY <1>1, OneThreadSteps DEF OthersStay, Holds
<1> USE DEF QTypeOK, Goto, Holds, WithCell
<1>3. CASE Quiet(t) /\ ~Malloc(t) /\ ~Free(t)
  <2>1. Chain' = Chain
      BY <1>3, QuietKeepsList
  <2>2. InChain' = InChain
      BY <2>1 DEF InChain
  <2>3. alloc' = alloc /\ \A n : Holds(t, n)' <=> Holds(t, n)
    <3>1. CASE (\E k \in Keys : CallAdd(t, k)) \/ CallNext(t) \/ LockAdd(t) \/ PrependNext(t)
               \/ WalkStart(t) \/ Walk(t)
        BY <1>1, <3>1 DEF CallAdd, CallNext, LockAdd, PrependNext, WalkStart, Walk, ptrs
    <3>2. CASE LinkNext(t) \/ UnlockAdd(t) \/ LockNext(t) \/ NextOnEmpty(t) \/ TakeRoot(t)
        BY <1>1, <3>2 DEF LinkNext, UnlockAdd, LockNext, NextOnEmpty, TakeRoot, ptrs
    <3>3. CASE CopyOut(t) \/ UnlockNext(t)
        BY <1>1, <3>3 DEF CopyOut, UnlockNext, ptrs
    <3> QED
        BY <1>3, <3>1, <3>2, <3>3 DEF Quiet
  <2>4. \A u \in Threads : \A n : Holds(u, n)' <=> Holds(u, n)
      BY <1>2, <2>3
  <2> HIDE DEF Holds
  <2> QED
      BY <1>1, <2>2, <2>3, <2>4 DEF OwnerInv
<1>4. CASE Malloc(t)
  <2>1. Chain' = Chain
      BY <1>4, QuietKeepsList DEF Quiet
  <2>2. InChain' = InChain
      BY <2>1 DEF InChain
  <2>3. PICK m \in Nodes \ alloc : alloc' = alloc \union {m} /\ pel' = [pel EXCEPT ![t] = m]
      BY <1>4 DEF Malloc
  <2>4. \A n : Holds(t, n)' <=> n = m
      BY <1>1, <1>4, <2>3 DEF Malloc
  <2>5. \A n : ~Holds(t, n)
      BY <1>4 DEF Malloc
  <2>6. \A u \in Threads : ~Holds(u, m)
      BY <1>1, <2>3 DEF OwnerInv
  <2> HIDE DEF Holds
  <2>7. m \notin InChain
      BY <1>1, <2>3 DEF OwnerInv
  <2> QED
      BY <1>1, <1>2, <2>2, <2>3, <2>4, <2>5, <2>6, <2>7 DEF OwnerInv
<1>5. CASE Free(t)
  <2>1. Chain' = Chain
      BY <1>5, QuietKeepsList DEF Quiet
  <2>2. InChain' = InChain
      BY <2>1 DEF InChain
  <2>3. alloc' = alloc \ {ptemp[t]}
      BY <1>5 DEF Free
  <2>4. \A n : Holds(t, n) <=> n = ptemp[t]
      BY <1>5 DEF Free
  <2>5. \A n : ~Holds(t, n)'
      BY <1>1, <1>5 DEF Free
  <2> HIDE DEF Holds
  <2> QED
      BY <1>1, <1>2, <2>2, <2>3, <2>4, <2>5 DEF OwnerInv
<1>6. CASE InsertEmpty(t) \/ PrependRoot(t) \/ LinkPrevious(t)
  <2>1. InChain' = InChain \union {pel[t]}
      BY <1>6, CellIsLinked
  <2>2. alloc' = alloc
      BY <1>6 DEF InsertEmpty, PrependRoot, LinkPrevious
  <2>3. \A n : Holds(t, n) <=> n = pel[t]
      BY <1>6 DEF InsertEmpty, PrependRoot, LinkPrevious
  <2>4. \A n : ~Holds(t, n)'
      BY <1>1, <1>6 DEF InsertEmpty, PrependRoot, LinkPrevious
  <2> HIDE DEF Holds
  <2> QED
      BY <1>1, <1>2, <2>1, <2>2, <2>3, <2>4 DEF OwnerInv
<1>7. CASE AdvanceRoot(t)
  <2>1. root \in InChain /\ ptemp[t] = root /\ InChain' = InChain \ {root}
      BY <1>7, RootIsRemoved
  <2>2. alloc' = alloc
      BY <1>7 DEF AdvanceRoot
  <2>3. \A n : ~Holds(t, n)
      BY <1>7 DEF AdvanceRoot
  <2>4. \A n : Holds(t, n)' <=> n = root
      BY <1>1, <1>7, <2>1 DEF AdvanceRoot, ptrs
  <2> HIDE DEF Holds
  <2> QED
      BY <1>1, <1>2, <2>1, <2>2, <2>3, <2>4 DEF OwnerInv
<1> QED
    BY <1>3, <1>4, <1>5, <1>6, <1>7 DEF Step, Quiet

-----------------------------------------------------------------------------
(* The contents of the cells *)

\* No thread writes to a cell another one has in hand.
LEMMA CellsInHandStay ==
    ASSUME QInv, NEW t \in Threads,
           (\E k \in Keys : CallAdd(t, k)) \/ CallNext(t) \/ Step(t),
           NEW u \in Threads, u # t, NEW n \in Nodes, Holds(u, n)
    PROVE  cell'[n] = cell[n]
<1>1. QTypeOK /\ n \in alloc /\ n \notin InChain /\ ~Holds(t, n)
    BY DEF QInv, OwnerInv
<1>2. CASE (\E k \in Keys : CallAdd(t, k)) \/ CallNext(t) \/ LockAdd(t) \/ InsertEmpty(t)
           \/ PrependRoot(t) \/ WalkStart(t) \/ Walk(t) \/ UnlockAdd(t)
    BY <1>2 DEF CallAdd, CallNext, LockAdd, InsertEmpty, PrependRoot, WalkStart, Walk, UnlockAdd
<1>3. CASE LockNext(t) \/ NextOnEmpty(t) \/ TakeRoot(t) \/ AdvanceRoot(t) \/ CopyOut(t)
           \/ Free(t) \/ UnlockNext(t)
    BY <1>3 DEF LockNext, NextOnEmpty, TakeRoot, AdvanceRoot, CopyOut, Free, UnlockNext
<1>4. CASE Malloc(t)
    BY <1>1, <1>4 DEF Malloc, QTypeOK
<1>5. CASE PrependNext(t)
  <2>1. n # pel[t]
      BY <1>1, <1>5 DEF PrependNext, Goto, Holds, WithCell
  <2> QED
      BY <1>1, <1>5, <2>1 DEF PrependNext, QTypeOK
<1>6. CASE LinkPrevious(t)
  <2>1. walk[t] \in InChain
      BY <1>6 DEF LinkPrevious, Goto, QInv, Knowing, InChain
  <2> QED
      BY <1>1, <1>6, <2>1 DEF LinkPrevious, QTypeOK
<1>7. CASE LinkNext(t)
  <2>1. pel[t] \in InChain
      BY <1>7 DEF LinkNext, Goto, QInv, Knowing
  <2> QED
      BY <1>1, <1>7, <2>1 DEF LinkNext, QTypeOK
<1> QED
    BY <1>2, <1>3, <1>4, <1>5, <1>6, <1>7 DEF Step

LEMMA FilledStep ==
    ASSUME QInv, NEW t \in Threads,
           (\E k \in Keys : CallAdd(t, k)) \/ CallNext(t) \/ Step(t)
    PROVE  FilledInv'
<1>1. QTypeOK /\ \A n \in alloc : n \in Nodes /\ cell[n].el \in Element
    BY DEF QInv, QTypeOK, FilledInv
<1>2. CASE Malloc(t)
  <2>1. arg[t] \in Element
      BY <1>2 DEF Malloc, Goto, QInv, Filling, WithElement
  <2> QED
      BY <1>1, <1>2, <2>1 DEF Malloc, QTypeOK, FilledInv
<1>3. CASE ~Malloc(t)
  <2>1. /\ alloc' \subseteq alloc
        /\ \A n \in Nodes : cell'[n].el = cell[n].el
    <3>1. CASE (\E k \in Keys : CallAdd(t, k)) \/ CallNext(t) \/ LockAdd(t) \/ InsertEmpty(t)
               \/ PrependRoot(t) \/ WalkStart(t) \/ Walk(t) \/ UnlockAdd(t)
        BY <3>1 DEF CallAdd, CallNext, LockAdd, InsertEmpty, PrependRoot, WalkStart, Walk,
                    UnlockAdd
    <3>2. CASE LockNext(t) \/ NextOnEmpty(t) \/ TakeRoot(t) \/ AdvanceRoot(t) \/ CopyOut(t)
               \/ Free(t) \/ UnlockNext(t)
        BY <3>2 DEF LockNext, NextOnEmpty, TakeRoot, AdvanceRoot, CopyOut, Free, UnlockNext
    <3>3. CASE PrependNext(t) \/ LinkPrevious(t) \/ LinkNext(t)
        BY <1>1, <3>3 DEF PrependNext, LinkPrevious, LinkNext, QTypeOK
    <3> QED
        BY <1>3, <3>1, <3>2, <3>3 DEF Step
  <2> QED
      BY <1>1, <2>1 DEF FilledInv
<1> QED
    BY <1>2, <1>3

LEMMA FillingStep ==
    ASSUME QInv, NEW t \in Threads,
           (\E k \in Keys : CallAdd(t, k)) \/ CallNext(t) \/ Step(t),
           NEW u \in Threads
    PROVE  Filling(u)'
<1>1. QTypeOK /\ Filling(u) /\ Filling(t)
    BY DEF QInv
<1>2. CASE u # t
  <2>1. pc'[u] = pc[u] /\ arg'[u] = arg[u] /\ pel'[u] = pel[u]
      BY <1>1, <1>2, OneThreadSteps DEF OthersStay
  <2>2. pc[u] \in WithCell => cell'[pel[u]] = cell[pel[u]]
    <3>1. SUFFICES ASSUME pc[u] \in WithCell PROVE cell'[pel[u]] = cell[pel[u]]
        OBVIOUS
    <3>2. pel[u] \in Nodes /\ Holds(u, pel[u])
        BY <3>1, HandIsAllocated DEF Holds
    <3> QED
        BY <1>2, <3>2, CellsInHandStay
  <2> QED
      BY <1>1, <2>1, <2>2 DEF Filling, WithCell
<1>3. CASE u = t
  <2> USE DEF QTypeOK, Goto, Filling, WithElement, WithCell
  <2>1. CASE \E k \in Keys : CallAdd(t, k)
      BY <1>1, <1>3, <2>1 DEF CallAdd, Element
  <2>2. CASE Malloc(t)
      BY <1>1, <1>3, <2>2 DEF Malloc
  <2>3. CASE LockAdd(t) \/ WalkStart(t) \/ Walk(t)
      BY <1>1, <1>3, <2>3 DEF LockAdd, WalkStart, Walk, ptrs
  <2>4. CASE PrependNext(t)
    <3>1. pel[t] \in Nodes
        BY <2>4, HandIsAllocated DEF PrependNext
    <3> QED
        BY <1>1, <1>3, <2>4, <3>1 DEF PrependNext, ptrs
  <2>5. CASE InsertEmpty(t) \/ PrependRoot(t) \/ LinkPrevious(t) \/ LinkNext(t) \/ UnlockAdd(t)
             \/ CallNext(t)
      BY <1>1, <1>3, <2>5 DEF InsertEmpty, PrependRoot, LinkPrevious, LinkNext, UnlockAdd, CallNext
  <2>6. CASE LockNext(t) \/ NextOnEmpty(t) \/ TakeRoot(t) \/ AdvanceRoot(t) \/ CopyOut(t)
             \/ Free(t) \/ UnlockNext(t)
      BY <1>1, <1>3, <2>6 DEF LockNext, NextOnEmpty, TakeRoot, AdvanceRoot, CopyOut, Free,
                              UnlockNext
  <2> QED
      BY <2>1, <2>2, <2>3, <2>4, <2>5, <2>6 DEF Step
<1> QED
    BY <1>2, <1>3

-----------------------------------------------------------------------------
(* What a thread knows of the list *)

\* What another thread knows under the mutex is not changed outside.
LEMMA OthersKnowing ==
    ASSUME QInv, NEW t \in Threads,
           (\E k \in Keys : CallAdd(t, k)) \/ CallNext(t) \/ Step(t),
           NEW u \in Threads, u # t
    PROVE  Knowing(u)'
<1>1. QTypeOK /\ Knowing(u)
    BY DEF QInv
<1>2. /\ pc'[u] = pc[u] /\ arg'[u] = arg[u] /\ pel'[u] = pel[u]
      /\ walk'[u] = walk[u] /\ ptemp'[u] = ptemp[u]
    BY <1>1, OneThreadSteps DEF OthersStay
<1>3. CASE pc[u] \notin Inside
    BY <1>2, <1>3 DEF Knowing, Inside
<1>4. CASE pc[u] \in Inside
  <2>1. pc[t] \notin Inside /\ mutex = u
      BY <1>4, AloneInside DEF QInv, MutexInv
  <2>2. (\E k \in Keys : CallAdd(t, k)) \/ CallNext(t) \/ Malloc(t)
    <3>1. mutex # None
        BY <2>1, ThreadsAssumption
    <3> QED
        BY <2>1, <3>1 DEF Step, Inside, Goto, LockAdd, LockNext, MutexLock, InsertEmpty, PrependNext,
           PrependRoot, WalkStart, Walk, LinkPrevious, LinkNext, UnlockAdd, NextOnEmpty, TakeRoot,
           AdvanceRoot, CopyOut, Free, UnlockNext
  <2>3. Chain' = Chain /\ Content' = Content
      BY <2>2, QuietKeepsList DEF Quiet
  <2>4. InChain' = InChain /\ root' = root
      BY <2>2, <2>3 DEF InChain, CallAdd, CallNext, Malloc
  <2>5. pc[u] = "prepend" => cell'[pel[u]] = cell[pel[u]]
    <3>1. SUFFICES ASSUME pc[u] = "prepend" PROVE cell'[pel[u]] = cell[pel[u]]
        OBVIOUS
    <3>2. pel[u] \in Nodes /\ Holds(u, pel[u])
        BY <3>1, HandIsAllocated DEF Holds, WithCell
    <3> QED
        BY <3>2, CellsInHandStay
  <2> QED
      BY <1>1, <1>2, <2>3, <2>4, <2>5 DEF Knowing
<1> QED
    BY <1>3, <1>4

LEMMA OwnKnowing ==
    ASSUME QInv, MutexInv', NEW t \in Threads,
           (\E k \in Keys : CallAdd(t, k)) \/ CallNext(t) \/ Step(t)
    PROVE  Knowing(t)'
<1>1. QTypeOK /\ Knowing(t)
    BY DEF QInv
<1>2. /\ Chain \in Seq(Nodes) /\ Content \in Seq(Element)
      /\ Len(Content) = Len(Chain) /\ DOMAIN Content = DOMAIN Chain
      /\ \A i \in 1..Len(Chain) : Chain[i] \in Nodes /\ Content[i] = cell[Chain[i]].el
      /\ \A i \in 1..Len(Chain) : Content[i].key \in Nat
    BY ContentHas
<1>3. Len(Chain) \in Nat /\ DOMAIN Chain = 1..Len(Chain)
    BY <1>2
<1>4. CASE PrependNext(t)
  <2>1. /\ pc[t] = "insert" /\ pc'[t] = "prepend" /\ root' = root /\ root # NULL
        /\ arg[t].key < KeyAt(root) /\ pel' = pel /\ arg' = arg
        /\ cell' = [cell EXCEPT ![pel[t]].next = root]
      BY <1>1, <1>4 DEF PrependNext, Goto, QTypeOK, ptrs
  <2>2. Chain' = Chain /\ Content' = Content
      BY <1>4, QuietKeepsList DEF Quiet
  <2>3. pel[t] \in Nodes /\ arg[t] \in Element
      BY <2>1, HandIsAllocated DEF WithCell
  <2>4. cell'[pel'[t]].next = root'
      BY <1>1, <2>1, <2>3 DEF QTypeOK
  <2>5. root = Chain[1] /\ Chain # << >>
      BY <2>1, RootIsFirst
  <2>6. 1 \in 1..Len(Chain) /\ arg[t].key < Content[1].key /\ arg[t].key \in Nat
    <3>1. 1 \in 1..Len(Chain)
        BY <1>2, <2>5
    <3>2. KeyAt(root) = Content[1].key
        BY <1>2, <2>5, <3>1 DEF KeyAt
    <3> QED
        BY <2>1, <2>3, <3>1, <3>2, KeysAssumption DEF Element
  <2>7. \A i \in DOMAIN Chain : arg[t].key < Content[i].key
    <3> SUFFICES ASSUME NEW i \in 1..Len(Chain), i # 1 PROVE arg[t].key < Content[i].key
        BY <1>3, <2>6
    <3>1. keyOf[Content[1]] <= keyOf[Content[i]]
      <4>1. 1 < i /\ 1 \in 1..Len(Content) /\ i \in 1..Len(Content)
          BY <1>2, <1>3, <2>6
      <4> QED
          BY <4>1 DEF QInv, SortedInv, KeySorted
    <3>2. keyOf[Content[1]] = Content[1].key /\ keyOf[Content[i]] = Content[i].key
      <4>1. Content[1] \in Element /\ Content[i] \in Element
          BY <1>2, <2>6
      <4> QED
          BY <4>1 DEF keyOf
    <3>3. Content[1].key \in Nat /\ Content[i].key \in Nat
        BY <1>2, <2>6
    <3> QED
        BY <2>6, <3>1, <3>2, <3>3
  <2> QED
      BY <2>1, <2>2, <2>4, <2>7 DEF Knowing
<1>5. CASE WalkStart(t)
  <2>1. /\ pc[t] = "insert" /\ pc'[t] = "walk" /\ walk'[t] = root /\ arg' = arg /\ root # NULL
        /\ arg[t].key >= KeyAt(root)
      BY <1>1, <1>5 DEF WalkStart, Goto, QTypeOK
  <2>2. Chain' = Chain /\ Content' = Content
      BY <1>5, QuietKeepsList DEF Quiet
  <2>3. root = Chain[1] /\ Chain # << >>
      BY <2>1, RootIsFirst
  <2>4. 1 \in DOMAIN Chain /\ KeyAt(root) = Content[1].key
      BY <1>2, <2>3 DEF KeyAt
  <2>5. Content[1].key <= arg[t].key
    <3>1. arg[t] \in Element
        BY <2>1, HandIsAllocated DEF WithCell
    <3>2. arg[t].key \in Nat /\ Content[1].key \in Nat
        BY <1>2, <1>3, <2>4, <3>1, KeysAssumption DEF Element
    <3> QED
        BY <2>1, <2>4, <3>2
  <2>6. \A i \in 1..1 : Content[i].key <= arg[t].key
      BY <2>5
  <2> QED
      BY <2>1, <2>2, <2>3, <2>4, <2>6 DEF Knowing
<1>6. CASE Walk(t)
  <2>1. /\ pc[t] = "walk" /\ pc'[t] = "walk" /\ walk'[t] = cell[walk[t]].next /\ arg' = arg
        /\ WalkOn(walk[t], arg[t].key)
      BY <1>1, <1>6 DEF Walk, Goto, QTypeOK
  <2>2. Chain' = Chain /\ Content' = Content
      BY <1>6, QuietKeepsList DEF Quiet
  <2>3. PICK j \in DOMAIN Chain : /\ walk[t] = Chain[j]
                                  /\ \A i \in 1..j : Content[i].key <= arg[t].key
      BY <1>1, <2>1 DEF Knowing
  <2>4. \A n \in Nodes : NextOf(n) = cell[n].next
      BY <2>1, NobodyLinks DEF Inside
  <2>5. cell[walk[t]].next = CellAt(Chain, j + 1)
      BY <1>2, <1>3, <2>3, <2>4 DEF QInv, ListInv, IsList, NextOfs
  <2>6. j + 1 \in DOMAIN Chain /\ walk'[t] = Chain[j + 1]
      BY <2>1, <2>5 DEF WalkOn, CellAt
  <2>7. Content[j + 1].key <= arg[t].key
    <3>1. KeyAt(cell[walk[t]].next) = Content[j + 1].key
        BY <1>2, <1>3, <2>1, <2>6 DEF KeyAt
    <3>2. arg[t] \in Element
        BY <2>1, HandIsAllocated DEF WithCell
    <3>3. arg[t].key \in Nat /\ Content[j + 1].key \in Nat
        BY <1>2, <1>3, <2>6, <3>2, KeysAssumption DEF Element
    <3> QED
        BY <2>1, <3>1, <3>3 DEF WalkOn
  <2>8. \A i \in 1..(j + 1) : Content[i].key <= arg[t].key
    <3> TAKE i \in 1..(j + 1)
    <3>1. i \in 1..j \/ i = j + 1
        BY <1>3, <2>3
    <3> QED
        BY <2>3, <2>7, <3>1
  <2> QED
      BY <2>1, <2>2, <2>6, <2>8 DEF Knowing
<1>7. CASE LinkPrevious(t)
  <2>1. InChain' = InChain \union {pel[t]}
      BY <1>7, CellIsLinked
  <2>2. pc'[t] = "link" /\ pel' = pel
      BY <1>1, <1>7 DEF LinkPrevious, Goto, QTypeOK
  <2> QED
      BY <2>1, <2>2 DEF Knowing
<1>8. CASE TakeRoot(t)
    BY <1>1, <1>8 DEF TakeRoot, Goto, QTypeOK, Knowing
<1>9. CASE (\E k \in Keys : CallAdd(t, k)) \/ CallNext(t) \/ Malloc(t) \/ LockAdd(t)
           \/ InsertEmpty(t) \/ PrependRoot(t) \/ LinkNext(t) \/ UnlockAdd(t)
  <2>1. pc'[t] \notin {"prepend", "walk", "link", "advance"}
      BY <1>1, <1>9 DEF CallAdd, CallNext, Malloc, LockAdd, InsertEmpty, PrependRoot, LinkNext,
                        UnlockAdd, Goto, QTypeOK
  <2> QED
      BY <2>1 DEF Knowing
<1>10. CASE LockNext(t) \/ NextOnEmpty(t) \/ AdvanceRoot(t) \/ CopyOut(t) \/ Free(t)
            \/ UnlockNext(t)
  <2>1. pc'[t] \notin {"prepend", "walk", "link", "advance"}
      BY <1>1, <1>10 DEF LockNext, NextOnEmpty, AdvanceRoot, CopyOut, Free, UnlockNext, Goto,
                         QTypeOK
  <2> QED
      BY <2>1 DEF Knowing
<1> QED
    BY <1>4, <1>5, <1>6, <1>7, <1>8, <1>9, <1>10 DEF Step

-----------------------------------------------------------------------------
(* The invariant *)

LEMMA StutterKeepsList ==
    ASSUME UNCHANGED vars
    PROVE  NextOfs' = NextOfs /\ Chain' = Chain /\ Content' = Content
<1>1. cell' = cell /\ root' = root /\ pc' = pc /\ pel' = pel /\ last' = last
    BY DEF vars, ptrs
<1>2. \A n : Linking(n)' = Linking(n)
    BY <1>1 DEF Linking
<1>3. \A n : NextOf(n)' = NextOf(n)
  <2> TAKE n
  <2>1. CASE Linking(n) = {}
      BY <1>1, <1>2, <2>1 DEF NextOf
  <2>2. CASE Linking(n) # {}
    <3> DEFINE t == CHOOSE u \in Linking(n) : TRUE
    <3>1. NextOf(n) = last[t] /\ NextOf(n)' = last'[t]
        BY <1>2, <2>2 DEF NextOf
    <3> QED
        BY <1>1, <3>1
  <2> QED
      BY <2>1, <2>2
<1>4. NextOfs' = NextOfs
    BY <1>3 DEF NextOfs
<1>5. Chain' = Chain
    BY <1>1, <1>4 DEF Chain
<1> QED
    BY <1>1, <1>4, <1>5 DEF Content

LEMMA QInvStep == QInv /\ [Next]_vars => QInv'
<1> SUFFICES ASSUME QInv, [Next]_vars PROVE QInv'
    OBVIOUS
<1>1. ASSUME NEW t \in Threads,
             (\E k \in Keys : CallAdd(t, k)) \/ CallNext(t) \/ Step(t)
      PROVE  QInv'
  <2>1. QTypeOK /\ MutexInv
      BY DEF QInv
  <2>2. QTypeOK'
      BY <1>1, QTypeStep
  <2>3. MutexInv'
      BY <1>1, <2>1, MutexStep
  <2>4. ListInv'
      BY <1>1, <2>3, QueueOfSteps
  <2>5. FilledInv'
      BY <1>1, FilledStep
  <2>6. SortedInv'
      BY <1>1, <2>3, SortedQueueStep
  <2>7. OwnerInv'
      BY <1>1, <2>3, OwnerStep
  <2>8. \A u \in Threads : Filling(u)'
      BY <1>1, FillingStep
  <2>9. \A u \in Threads : Knowing(u)'
    <3> SUFFICES ASSUME NEW u \in Threads PROVE Knowing(u)'
        OBVIOUS
    <3>1. CASE u = t
        BY <1>1, <2>3, <3>1, OwnKnowing
    <3>2. CASE u # t
        BY <1>1, <3>2, OthersKnowing
    <3> QED
        BY <3>1, <3>2
  <2> QED
      BY <2>2, <2>3, <2>4, <2>5, <2>6, <2>7, <2>8, <2>9 DEF QInv
<1>2. CASE UNCHANGED vars
  <2>1. /\ cell' = cell /\ alloc' = alloc /\ root' = root /\ mutex' = mutex /\ pc' = pc
        /\ arg' = arg /\ res' = res /\ calls' = calls
        /\ pel' = pel /\ walk' = walk /\ last' = last /\ ptemp' = ptemp
      BY <1>2 DEF vars, ptrs
  <2>2. NextOfs' = NextOfs /\ Chain' = Chain /\ Content' = Content
      BY <1>2, StutterKeepsList
  <2>3. Chain' = Chain
      BY <2>2
  <2>4. Content' = Content /\ InChain' = InChain
      BY <2>2, <2>3 DEF InChain
  <2>5. QTypeOK' /\ MutexInv' /\ FilledInv'
      BY <2>1 DEF QInv, QTypeOK, MutexInv, FilledInv
  <2>6. ListInv' /\ SortedInv'
      BY <2>1, <2>2, <2>3, <2>4 DEF QInv, ListInv, SortedInv
  <2>7. OwnerInv'
      BY <2>1, <2>4 DEF QInv, OwnerInv, Holds
  <2>8. \A t \in Threads : Filling(t)' /\ Knowing(t)'
      BY <2>1, <2>3, <2>4 DEF QInv, Filling, Knowing
  <2> QED
      BY <2>5, <2>6, <2>7, <2>8 DEF QInv
<1> QED
    BY <1>1, <1>2 DEF Next

THEOREM QInvHolds == Spec => []QInv
BY QInit, QInvStep, PTL DEF Spec

(* In every interleaving of any number of threads a cell is in the list    *)
(* once, or in the hand of one thread, or free: no use after free, no      *)
(* double free, no leak and no loop (queue.c:17-43, 50-66, 80-106,         *)
(* 113-129).                                                               *)
THEOREM EveryCellHasOneOwner == Spec => []CellsHaveOneOwner
<1>1. QInv => CellsHaveOneOwner
  <2> SUFFICES ASSUME QInv PROVE CellsHaveOneOwner
      OBVIOUS
  <2>1. \E s \in Lists : IsList(s, NextOfs, root)
      BY ListFits DEF QInv, ListInv
  <2>2. \A t \in Threads : pc[t] = "advance" => root = ptemp[t]
      BY DEF QInv, Knowing
  <2>3. \A t \in Threads : \A n : n \in InHand(t) <=> Holds(t, n)
      BY DEF InHand, Holds, WithCell
  <2>4. /\ \A n : n \in alloc <=> n \in InChain \/ \E t \in Threads : Holds(t, n)
        /\ \A t \in Threads, n \in InChain : ~Holds(t, n)
        /\ \A t, u \in Threads : \A n : Holds(t, n) /\ Holds(u, n) => t = u
      BY DEF QInv, OwnerInv
  <2>5. \A t \in Threads : InHand(t) \intersect InChain = {}
      BY <2>3, <2>4
  <2>6. \A t, u \in Threads : t # u => InHand(t) \intersect InHand(u) = {}
      BY <2>3, <2>4
  <2>7. alloc = InChain \union UNION { InHand(t) : t \in Threads }
      BY <2>3, <2>4
  <2> QED
      BY <2>1, <2>2, <2>5, <2>6, <2>7 DEF CellsHaveOneOwner
<1> QED
    BY <1>1, QInvHolds, PTL

-----------------------------------------------------------------------------
(* The refinement *)

\* The state of AtomicQueue the mapping gives.
AbsOp == [t \in Threads |-> OpOf(pc[t])]
AbsArg == [t \in Threads |-> IF OpOf(pc[t]) = "adding" THEN arg[t] ELSE None]
AbsRes == [t \in Threads |-> IF pc[t] = "copy" THEN cell[ptemp[t]].el ELSE res[t]]

LEMMA MappedStateChanges ==
    ASSUME QInv, NEW t \in Threads,
           (\E k \in Keys : CallAdd(t, k)) \/ CallNext(t) \/ Step(t)
    PROVE  /\ AbsOp' = [AbsOp EXCEPT ![t] = OpOf(pc'[t])]
           /\ AbsArg' = [AbsArg EXCEPT ![t] = IF OpOf(pc'[t]) = "adding" THEN arg'[t] ELSE None]
           /\ AbsRes' = [AbsRes EXCEPT ![t] =
                            IF pc'[t] = "copy" THEN cell'[ptemp'[t]].el ELSE res'[t]]
<1>1. \A u \in Threads \ {t} :
         pc'[u] = pc[u] /\ arg'[u] = arg[u] /\ res'[u] = res[u] /\ ptemp'[u] = ptemp[u]
    BY OneThreadSteps DEF OthersStay, QInv
<1>2. \A u \in Threads \ {t} : pc[u] = "copy" => cell'[ptemp[u]] = cell[ptemp[u]]
  <2> SUFFICES ASSUME NEW u \in Threads \ {t}, pc[u] = "copy"
               PROVE  cell'[ptemp[u]] = cell[ptemp[u]]
      OBVIOUS
  <2>1. ptemp[u] \in Nodes /\ Holds(u, ptemp[u])
      BY HandIsAllocated DEF Holds
  <2> QED
      BY <2>1, CellsInHandStay
<1>3. AbsOp' = [AbsOp EXCEPT ![t] = OpOf(pc'[t])]
    BY <1>1 DEF AbsOp
<1>4. AbsArg' = [AbsArg EXCEPT ![t] = IF OpOf(pc'[t]) = "adding" THEN arg'[t] ELSE None]
    BY <1>1 DEF AbsArg
<1>5. AbsRes' = [AbsRes EXCEPT ![t] = IF pc'[t] = "copy" THEN cell'[ptemp'[t]].el ELSE res'[t]]
  <2> DEFINE After(u) == IF pc'[u] = "copy" THEN cell'[ptemp'[u]].el ELSE res'[u]
             Before(u) == IF pc[u] = "copy" THEN cell[ptemp[u]].el ELSE res[u]
  <2>1. \A u \in Threads \ {t} : After(u) = Before(u)
      BY <1>1, <1>2
  <2>2. AbsRes' = [u \in Threads |-> After(u)] /\ AbsRes = [u \in Threads |-> Before(u)]
      BY DEF AbsRes
  <2> HIDE DEF After, Before
  <2>3. AbsRes' = [AbsRes EXCEPT ![t] = After(t)]
      BY <2>1, <2>2
  <2> QED
      BY <2>3 DEF After
<1> QED
    BY <1>3, <1>4, <1>5

\* A step that leaves what the mapping shows of its thread as it was.
LEMMA StepIsHidden ==
    ASSUME QInv, NEW t \in Threads,
           (\E k \in Keys : CallAdd(t, k)) \/ CallNext(t) \/ Step(t),
           OpOf(pc'[t]) = OpOf(pc[t]),
           OpOf(pc[t]) = "adding" => arg'[t] = arg[t],
           (IF pc'[t] = "copy" THEN cell'[ptemp'[t]].el ELSE res'[t]) = AbsRes[t],
           Content' = Content, calls' = calls
    PROVE  UNCHANGED << Content, AbsOp, AbsArg, AbsRes, calls >>
<1>1. AbsOp' = AbsOp
    BY MappedStateChanges DEF AbsOp
<1>2. AbsArg' = AbsArg
    BY MappedStateChanges DEF AbsArg
<1>3. AbsRes' = [AbsRes EXCEPT ![t] = AbsRes[t]]
    BY MappedStateChanges
<1>4. AbsRes' = AbsRes
    BY <1>3 DEF AbsRes
<1> QED
    BY <1>1, <1>2, <1>4

LEMMA MapInit == Init => Abs!Init
<1> SUFFICES ASSUME Init PROVE Abs!Init
    OBVIOUS
<1>1. << >> \in Seq(Nodes) /\ IsList(<< >>, NextOfs, root)
    BY DEF Init, IsList, CellAt
<1>2. Chain = << >>
    BY <1>1, ListFromIs DEF Chain
<1>3. Content = << >>
    BY <1>2 DEF Content
<1>4. /\ [t \in Threads |-> OpOf(pc[t])] = [t \in Threads |-> "idle"]
      /\ [t \in Threads |-> IF OpOf(pc[t]) = "adding" THEN arg[t] ELSE None]
            = [t \in Threads |-> None]
      /\ [t \in Threads |-> IF pc[t] = "copy" THEN cell[ptemp[t]].el ELSE res[t]]
            = [t \in Threads |-> None]
      /\ calls = 0
    BY DEF Init, OpOf
<1> QED
    BY <1>3, <1>4 DEF Abs!Init

\* The sort key of the two modules is the same.
LEMMA SameKey == Abs!elKey = keyOf
BY DEF Abs!elKey, Abs!Elems, keyOf, Element

\* And so is what queue_add_* does.
LEMMA SameAdd == \A q, el, key : Abs!QueueAdd(q, el, key) = QueueAdd(q, el, key)
<1> TAKE q, el, key
<1>1. Abs!InsertPos(q, el, key) = InsertPos(q, el, key)
    BY DEF Abs!InsertPos, InsertPos
<1> QED
    BY <1>1 DEF Abs!QueueAdd, QueueAdd, Abs!InsertAt, InsertAt

LEMMA MapStep ==
    ASSUME QInv, MutexInv', NEW t \in Threads,
           (\E k \in Keys : CallAdd(t, k)) \/ CallNext(t) \/ Step(t)
    PROVE  Abs!Next \/ UNCHANGED << Content, AbsOp, AbsArg, AbsRes, calls >>
<1>1. QTypeOK
    BY DEF QInv
<1>2. /\ AbsOp' = [AbsOp EXCEPT ![t] = OpOf(pc'[t])]
      /\ AbsArg' = [AbsArg EXCEPT ![t] = IF OpOf(pc'[t]) = "adding" THEN arg'[t] ELSE None]
      /\ AbsRes' = [AbsRes EXCEPT ![t] =
                       IF pc'[t] = "copy" THEN cell'[ptemp'[t]].el ELSE res'[t]]
    BY MappedStateChanges
<1>3. /\ AbsOp[t] = OpOf(pc[t])
      /\ AbsArg[t] = (IF OpOf(pc[t]) = "adding" THEN arg[t] ELSE None)
      /\ AbsRes[t] = (IF pc[t] = "copy" THEN cell[ptemp[t]].el ELSE res[t])
    BY DEF AbsOp, AbsArg, AbsRes
<1>4. /\ [AbsArg EXCEPT ![t] = AbsArg[t]] = AbsArg /\ [AbsRes EXCEPT ![t] = AbsRes[t]] = AbsRes
    BY DEF AbsArg, AbsRes
<1>5. CASE \E k \in Keys : CallAdd(t, k)
  <2>1. PICK k \in Keys : CallAdd(t, k)
      BY <1>5
  <2>2. /\ pc[t] = "idle" /\ pc'[t] = "malloc" /\ calls' = calls + 1
        /\ arg'[t] = [sn |-> calls + 1, key |-> k] /\ res' = res
      BY <1>1, <2>1 DEF CallAdd, Goto, QTypeOK
  <2>3. Content' = Content
      BY <1>5, QuietKeepsList DEF Quiet
  <2>4. /\ AbsOp[t] = "idle" /\ AbsOp' = [AbsOp EXCEPT ![t] = "adding"]
        /\ AbsArg' = [AbsArg EXCEPT ![t] = [sn |-> calls + 1, key |-> k]]
      BY <1>2, <1>3, <2>2 DEF OpOf
  <2>5. AbsRes' = AbsRes
      BY <1>2, <1>3, <1>4, <2>2
  <2>6. Abs!CallAdd(t, k)
      BY <2>2, <2>3, <2>4, <2>5 DEF Abs!CallAdd, AbsOp, AbsArg, AbsRes
  <2> QED
      BY <2>6 DEF Abs!Next
<1>6. CASE CallNext(t)
  <2>1. pc[t] = "idle" /\ pc'[t] = "lock_next" /\ calls' = calls /\ res' = res
      BY <1>1, <1>6 DEF CallNext, Goto, QTypeOK
  <2>2. Content' = Content
      BY <1>6, QuietKeepsList DEF Quiet
  <2>3. /\ AbsOp[t] = "idle" /\ AbsOp' = [AbsOp EXCEPT ![t] = "nexting"] /\ AbsArg' = AbsArg
      BY <1>2, <1>3, <1>4, <2>1 DEF OpOf
  <2>4. AbsRes' = AbsRes
      BY <1>2, <1>3, <1>4, <2>1
  <2>5. Abs!CallNext(t)
      BY <2>1, <2>2, <2>3, <2>4 DEF Abs!CallNext, AbsOp, AbsArg, AbsRes
  <2> QED
      BY <2>5 DEF Abs!Next
<1>7. CASE InsertEmpty(t) \/ PrependRoot(t) \/ LinkPrevious(t)
  <2>1. /\ OpOf(pc[t]) = "adding" /\ pc[t] # "copy" /\ pc'[t] \in {"unlock_add", "link"}
        /\ calls' = calls /\ res' = res
      BY <1>1, <1>7 DEF InsertEmpty, PrependRoot, LinkPrevious, Goto, QTypeOK, OpOf
  <2>2. Content' = QueueAdd(Content, arg[t], Abs!elKey)
      BY <1>7, CellIsLinked, SameKey
  <2>3. /\ AbsOp[t] = "adding" /\ AbsOp' = [AbsOp EXCEPT ![t] = "added"]
        /\ AbsArg[t] = arg[t] /\ AbsArg' = [AbsArg EXCEPT ![t] = None]
      BY <1>2, <1>3, <2>1 DEF OpOf
  <2>4. AbsRes' = AbsRes
      BY <1>2, <1>3, <1>4, <2>1
  <2>5. Abs!DoAdd(t)
      BY <2>1, <2>2, <2>3, <2>4, SameAdd DEF Abs!DoAdd, AbsOp, AbsArg, AbsRes
  <2> QED
      BY <2>5 DEF Abs!Next
<1>8. CASE AdvanceRoot(t)
  <2>1. pc[t] = "advance" /\ pc'[t] = "copy" /\ calls' = calls /\ ptemp' = ptemp /\ cell' = cell
      BY <1>1, <1>8 DEF AdvanceRoot, Goto, QTypeOK, ptrs
  <2>2. /\ ptemp[t] = root /\ Content # << >> /\ cell[root].el = Content[1]
        /\ Content' = QueueNext(Content)
      BY <1>8, RootIsRemoved
  <2>3. NextEl(Content, AbsRes[t]) = Content[1]
      BY <2>2 DEF NextEl
  <2>4. AbsOp[t] = "nexting" /\ AbsOp' = [AbsOp EXCEPT ![t] = "got"] /\ AbsArg' = AbsArg
      BY <1>2, <1>3, <1>4, <2>1 DEF OpOf
  <2>5. AbsRes' = [AbsRes EXCEPT ![t] = NextEl(Content, AbsRes[t])]
      BY <1>2, <2>1, <2>2, <2>3
  <2>6. Abs!DoNext(t)
      BY <2>1, <2>2, <2>4, <2>5 DEF Abs!DoNext, Abs!QueueNext, Abs!NextEl, QueueNext, NextEl, AbsOp, AbsArg, AbsRes
  <2> QED
      BY <2>6 DEF Abs!Next
<1>9. CASE NextOnEmpty(t)
  <2>1. pc[t] = "test" /\ pc'[t] = "unlock_next" /\ calls' = calls /\ res' = res /\ root = NULL
      BY <1>1, <1>9 DEF NextOnEmpty, Goto, QTypeOK
  <2>2. Content' = Content
      BY <1>9, QuietKeepsList DEF Quiet
  <2>3. Content = << >>
    <3>1. Chain = << >>
        BY <2>1, RootIsFirst
    <3> QED
        BY <3>1 DEF Content
  <2>4. AbsOp[t] = "nexting" /\ AbsOp' = [AbsOp EXCEPT ![t] = "got"] /\ AbsArg' = AbsArg
      BY <1>2, <1>3, <1>4, <2>1 DEF OpOf
  <2>5. AbsRes' = [AbsRes EXCEPT ![t] = NextEl(Content, AbsRes[t])]
      BY <1>2, <1>3, <2>1, <2>3 DEF NextEl
  <2>6. Content' = QueueNext(Content)
      BY <2>2, <2>3 DEF QueueNext
  <2>7. Abs!DoNext(t)
      BY <2>1, <2>4, <2>5, <2>6 DEF Abs!DoNext, Abs!QueueNext, Abs!NextEl, QueueNext, NextEl, AbsOp, AbsArg, AbsRes
  <2> QED
      BY <2>7 DEF Abs!Next
<1>10. CASE UnlockAdd(t) \/ UnlockNext(t)
  <2>1. /\ pc[t] \in {"unlock_add", "unlock_next"} /\ pc'[t] = "idle" /\ calls' = calls
        /\ res' = res
      BY <1>1, <1>10 DEF UnlockAdd, UnlockNext, Goto, QTypeOK
  <2>2. Content' = Content
      BY <1>10, QuietKeepsList DEF Quiet
  <2>3. /\ AbsOp[t] \in {"added", "got"} /\ AbsOp' = [AbsOp EXCEPT ![t] = "idle"]
        /\ AbsArg' = AbsArg
      BY <1>2, <1>3, <1>4, <2>1 DEF OpOf
  <2>4. AbsRes' = AbsRes
      BY <1>2, <1>3, <1>4, <2>1
  <2>5. Abs!Return(t)
      BY <2>1, <2>2, <2>3, <2>4 DEF Abs!Return, AbsOp, AbsArg, AbsRes
  <2> QED
      BY <2>5 DEF Abs!Next
<1>11. CASE Malloc(t) \/ LockAdd(t) \/ PrependNext(t) \/ WalkStart(t) \/ Walk(t)
  <2>1. /\ OpOf(pc[t]) = "adding" /\ OpOf(pc'[t]) = "adding" /\ pc[t] # "copy" /\ pc'[t] # "copy"
        /\ arg' = arg /\ res' = res /\ calls' = calls
      BY <1>1, <1>11 DEF Malloc, LockAdd, PrependNext, WalkStart, Walk, Goto, QTypeOK, OpOf
  <2>2. Content' = Content
      BY <1>11, QuietKeepsList DEF Quiet
  <2> QED
      BY <1>3, <1>11, <2>1, <2>2, StepIsHidden DEF Step
<1>12. CASE LinkNext(t) \/ LockNext(t) \/ TakeRoot(t)
  <2>1. /\ OpOf(pc'[t]) = OpOf(pc[t]) /\ OpOf(pc[t]) # "adding" /\ pc[t] # "copy" /\ pc'[t] # "copy"
        /\ res' = res /\ calls' = calls
      BY <1>1, <1>12 DEF LinkNext, LockNext, TakeRoot, Goto, QTypeOK, OpOf
  <2>2. Content' = Content
      BY <1>12, QuietKeepsList DEF Quiet
  <2> QED
      BY <1>3, <1>12, <2>1, <2>2, StepIsHidden DEF Step
<1>13. CASE CopyOut(t) \/ Free(t)
  <2>1. /\ OpOf(pc'[t]) = OpOf(pc[t]) /\ OpOf(pc[t]) # "adding" /\ pc'[t] # "copy"
        /\ calls' = calls
      BY <1>1, <1>13 DEF CopyOut, Free, Goto, QTypeOK, OpOf
  <2>2. res'[t] = AbsRes[t]
      BY <1>1, <1>3, <1>13 DEF CopyOut, Free, Goto, QTypeOK
  <2>3. Content' = Content
      BY <1>13, QuietKeepsList DEF Quiet
  <2> QED
      BY <1>13, <2>1, <2>2, <2>3, StepIsHidden DEF Step
<1> QED
    BY <1>5, <1>6, <1>7, <1>8, <1>9, <1>10, <1>11, <1>12, <1>13 DEF Step

(* The list of queue.c implements a queue whose operations take effect at  *)
(* one instant: in every interleaving, an add is seen whole at the write   *)
(* that links its cell, behind the elements that are not larger and in     *)
(* front of the larger ones; a next takes the first element at the write   *)
(* that moves the root, and returns that one, whatever is added before it  *)
(* copies and frees the cell (queue.c:7-132).                              *)
THEOREM QueueIsAtomic == Spec => Abs!Init /\ [][Abs!Next]_(Abs!vars)
<1>1. QInv /\ QInv' /\ [Next]_vars => [Abs!Next]_(Abs!vars)
  <2> SUFFICES ASSUME QInv, QInv', [Next]_vars PROVE [Abs!Next]_(Abs!vars)
      OBVIOUS
  <2>1. CASE Next
    <3>1. PICK t \in Threads : (\E k \in Keys : CallAdd(t, k)) \/ CallNext(t) \/ Step(t)
        BY <2>1 DEF Next
    <3>2. Abs!Next \/ UNCHANGED << Content, AbsOp, AbsArg, AbsRes, calls >>
        BY <3>1, MapStep DEF QInv
    <3> QED
        BY <3>2 DEF Abs!vars, AbsOp, AbsArg, AbsRes
  <2>2. CASE UNCHANGED vars
    <3>1. /\ cell' = cell /\ root' = root /\ pc' = pc /\ arg' = arg /\ res' = res
          /\ calls' = calls /\ ptemp' = ptemp /\ pel' = pel /\ last' = last
        BY <2>2 DEF vars, ptrs
    <3>2. AbsOp' = AbsOp /\ AbsArg' = AbsArg /\ AbsRes' = AbsRes
        BY <3>1 DEF AbsOp, AbsArg, AbsRes
    <3>3. Content' = Content
        BY <2>2, StutterKeepsList DEF QInv
    <3> QED
        BY <3>1, <3>2, <3>3 DEF Abs!vars, AbsOp, AbsArg, AbsRes
  <2> QED
      BY <2>1, <2>2
<1> QED
    BY <1>1, MapInit, QInvHolds, PTL DEF Spec
=============================================================================
