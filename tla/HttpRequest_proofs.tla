-------------------------- MODULE HttpRequest_proofs --------------------------
(***************************************************************************)
(* A request, for every size of the buffers, every web of servers and      *)
(* redirections and every answer: the descriptors it opens and closes, the *)
(* tree its headers are stored in, the arrays they are scanned into, the   *)
(* place in the header the scanner is at, and what it has read there.      *)
(***************************************************************************)
EXTENDS HttpRequest, SequenceTheorems, WellFoundedInduction, TLAPS

(* Where no connection is held.                                            *)
Unconnected == {"connect", "null", "end"}

(* SocketsAccountedFor does not say that a connection is held everywhere   *)
(* else, which is what closing it relies on.                               *)
IInv ==
    /\ handle \in BOOLEAN /\ failed \in Nat /\ abandoned \in Nat
    /\ sockets = failed + abandoned + (IF handle THEN 1 ELSE 0)
    /\ handle <=> pc \notin Unconnected

(* A request begins without a descriptor.                                  *)
LEMMA InitAccounted == Init => IInv
<1> SUFFICES ASSUME Init PROVE IInv
    OBVIOUS
<1>1. handle = FALSE /\ sockets = 0 /\ failed = 0 /\ abandoned = 0 /\ pc = "connect"
    BY DEF Init
<1>2. sockets = failed + abandoned + (IF handle THEN 1 ELSE 0)
    BY <1>1
<1>3. handle <=> pc \notin Unconnected
    BY <1>1 DEF Unconnected
<1>4. handle \in BOOLEAN /\ failed \in Nat /\ abandoned \in Nat
    BY <1>1
<1> QED
    BY <1>2, <1>3, <1>4 DEF IInv

(* The header scanner runs on a connection and leaves it open.             *)
LEMMA ParseKeepsConnected ==
    ASSUME ParseStep
    PROVE  pc \notin Unconnected /\ pc' \notin Unconnected
<1>1. CASE Read
    BY <1>1 DEF Read, Unconnected
<1>2. CASE Flush \/ ScanColon \/ ScanOtherLine \/ ScanCharacter
    <2>1. pc = "scan" /\ pc' = pc
        BY <1>2 DEF Flush, ScanColon, ScanOtherLine, ScanCharacter, Scanning
    <2> QED
        BY <2>1 DEF Unconnected
<1>3. CASE ScanValueEnd
    BY <1>3 DEF ScanValueEnd, Scanning, Unconnected
<1>4. CASE Push
    BY <1>4 DEF Push, Unconnected
<1>5. CASE EndPiece
    BY <1>5 DEF EndPiece, Unconnected
<1>6. CASE Finish
    BY <1>6 DEF Finish, Unconnected
<1> QED
    BY <1>1, <1>2, <1>3, <1>4, <1>5, <1>6 DEF ParseStep

(* Closing the connection that is held gives one descriptor back.          *)
LEMMA ClosingAccounted ==
    ASSUME IInv, pc \notin Unconnected, CloseSocket, UNCHANGED << failed, abandoned >>,
           pc' \in Unconnected
    PROVE  IInv'
<1>1. handle = TRUE /\ sockets = failed + abandoned + 1
    BY DEF IInv
<1>2. handle' = FALSE /\ sockets' = failed' + abandoned'
    BY <1>1 DEF IInv, CloseSocket
<1>3. failed' \in Nat /\ abandoned' \in Nat
    BY DEF IInv
<1>4. handle' \in BOOLEAN
    BY <1>2
<1>5. sockets' = failed' + abandoned' + (IF handle' THEN 1 ELSE 0)
    BY <1>2, <1>3
<1>6. handle' <=> pc' \notin Unconnected
    BY <1>2
<1> QED
    BY <1>3, <1>4, <1>5, <1>6 DEF IInv

(* Nothing is opened or closed as long as the request stays connected, or  *)
(* stays unconnected.                                                      *)
LEMMA UntouchedAccounted ==
    ASSUME IInv, UNCHANGED socketVars, (pc' \in Unconnected) = (pc \in Unconnected)
    PROVE  IInv'
<1>1. handle' = handle /\ sockets' = sockets /\ failed' = failed /\ abandoned' = abandoned
    BY DEF socketVars
<1>2. sockets' = failed' + abandoned' + (IF handle' THEN 1 ELSE 0)
    BY <1>1 DEF IInv
<1>3. handle' <=> pc' \notin Unconnected
    BY <1>1 DEF IInv
<1>4. handle' \in BOOLEAN /\ failed' \in Nat /\ abandoned' \in Nat
    BY <1>1 DEF IInv
<1> QED
    BY <1>2, <1>3, <1>4 DEF IInv

(* A descriptor is opened or lost, and counted where it is.                *)
LEMMA ChangeAccounted ==
    ASSUME IInv, handle' \in BOOLEAN, handle' <=> pc' \notin Unconnected,
           failed' \in Nat, abandoned' \in Nat,
           sockets' = failed' + abandoned' + (IF handle' THEN 1 ELSE 0)
    PROVE  IInv'
BY DEF IInv

(* Every step accounts for the descriptors it opens, closes or loses.      *)
LEMMA NextAccounted == IInv /\ [Next]_vars => IInv'
<1> SUFFICES ASSUME IInv, [Next]_vars PROVE IInv'
    OBVIOUS
<1>1. CASE NoConnection
    BY <1>1, UntouchedAccounted DEF NoConnection, Unconnected
<1>2. CASE ConnectFails
    <2>1. handle = FALSE /\ handle' = FALSE /\ pc' = "null"
        BY <1>2 DEF ConnectFails, IInv, Unconnected
    <2>2. sockets' = sockets + 1 /\ failed' = failed + 1 /\ abandoned' = abandoned
        BY <1>2 DEF ConnectFails
    <2>3. handle' \in BOOLEAN /\ (handle' <=> pc' \notin Unconnected)
        BY <2>1 DEF Unconnected
    <2>4. sockets' = failed' + abandoned' + (IF handle' THEN 1 ELSE 0)
        BY <2>1, <2>2 DEF IInv
    <2>5. failed' \in Nat /\ abandoned' \in Nat
        BY <2>2 DEF IInv
    <2> QED
        BY <2>3, <2>4, <2>5, ChangeAccounted
<1>3. CASE Connect
    <2>1. handle = FALSE /\ handle' = TRUE /\ pc' = "read"
        BY <1>3 DEF Connect, StartScan, IInv, Unconnected
    <2>2. sockets' = sockets + 1 /\ failed' = failed /\ abandoned' = abandoned
        BY <1>3 DEF Connect
    <2>3. handle' \in BOOLEAN /\ (handle' <=> pc' \notin Unconnected)
        BY <2>1 DEF Unconnected
    <2>4. sockets' = failed' + abandoned' + (IF handle' THEN 1 ELSE 0)
        BY <2>1, <2>2 DEF IInv
    <2>5. failed' \in Nat /\ abandoned' \in Nat
        BY <2>2 DEF IInv
    <2> QED
        BY <2>3, <2>4, <2>5, ChangeAccounted
<1>4. CASE GiveUp
    <2>1. pc \notin Unconnected /\ UNCHANGED << failed, abandoned >>
        BY <1>4 DEF GiveUp, Unconnected
    <2>2. CASE pc = "refused" /\ ~Walkable
        BY <1>4, <2>1, <2>2, UntouchedAccounted DEF GiveUp, Unconnected, socketVars
    <2>3. CASE ~(pc = "refused" /\ ~Walkable)
        BY <1>4, <2>1, <2>3, ClosingAccounted DEF GiveUp, Unconnected
    <2> QED
        BY <2>2, <2>3
<1>5. CASE Parse
    BY <1>5, ParseKeepsConnected, UntouchedAccounted DEF Parse
<1>6. CASE UseFraming
    BY <1>6, UntouchedAccounted DEF UseFraming, Unconnected
<1>7. CASE Follow
    BY <1>7, ClosingAccounted DEF Follow, Unconnected
<1>8. CASE FollowNowhere
    BY <1>8, ClosingAccounted DEF FollowNowhere, Unconnected
<1>9. CASE ReturnHandler
    BY <1>9, UntouchedAccounted DEF ReturnHandler, Unconnected
<1>10. CASE TryGet \/ GotNothing
    BY <1>10, UntouchedAccounted DEF TryGet, GotNothing, Unconnected
<1>11. CASE DropHandler
    <2>1. handle = TRUE /\ handle' = FALSE /\ pc' = "end"
        BY <1>11 DEF DropHandler, IInv, Unconnected
    <2>2. sockets' = sockets /\ failed' = failed /\ abandoned' = abandoned + 1
        BY <1>11 DEF DropHandler
    <2>3. handle' \in BOOLEAN /\ (handle' <=> pc' \notin Unconnected)
        BY <2>1 DEF Unconnected
    <2>4. sockets' = failed' + abandoned' + (IF handle' THEN 1 ELSE 0)
        BY <2>1, <2>2 DEF IInv
    <2>5. failed' \in Nat /\ abandoned' \in Nat
        BY <2>2 DEF IInv
    <2> QED
        BY <2>3, <2>4, <2>5, ChangeAccounted
<1>12. CASE UseHandler
    <2>1. CASE Walkable
        BY <1>12, <2>1, ClosingAccounted DEF UseHandler, Unconnected
    <2>2. CASE ~Walkable
        BY <1>12, <2>2, UntouchedAccounted DEF UseHandler, Unconnected, socketVars
    <2> QED
        BY <2>1, <2>2
<1>13. CASE UNCHANGED vars
    BY <1>13, UntouchedAccounted DEF vars
<1> QED
    BY <1>1, <1>2, <1>3, <1>4, <1>5, <1>6, <1>7, <1>8, <1>9, <1>10, <1>11, <1>12, <1>13 DEF Next

(* Whatever the servers answer and however often they redirect, a request  *)
(* loses descriptors on two paths only: a refused connection and an error  *)
(* status (easy_tcp_tls.c:198-203, scrapping_unit.c:216, cmp_hash.c:92).   *)
THEOREM SocketsAreAccountedFor == Spec => []SocketsAccountedFor
<1>1. IInv => SocketsAccountedFor
    BY DEF IInv, SocketsAccountedFor, Unconnected
<1> QED
    BY <1>1, InitAccounted, NextAccounted, PTL DEF Spec

-----------------------------------------------------------------------------
(* Walks in the header tree *)

Sides == {"left", "right"}

\* Its nodes are not arbitrarily deep, and each one is where the walk for its own
\* name leads.
TreeSound(t) ==
    /\ DOMAIN t \subseteq Seq(Sides)
    /\ \E n \in Nat : \A p \in DOMAIN t : Len(p) <= n
    /\ \A p \in DOMAIN t : t[p] = [key |-> t[p].key, value |-> t[p].value]
    /\ \A p \in DOMAIN t : LeadsTo(t, t[p].key, p)

\* The walk for key stops at p.
StopsAt(t, key, p) ==
    /\ p \in Children(t)
    /\ LeadsTo(t, key, p)
    /\ p \in DOMAIN t => SameName(key, t[p].key)

\* A non-empty set of naturals has a least element.
LEMMA LeastNumber ==
    ASSUME NEW T \in SUBSET Nat, T # {}
    PROVE  \E m \in T : \A n \in T : m <= n
<1>1. IsWellFoundedOn(OpToRel(<, Nat), Nat)
    BY NatLessThanWellFounded
<1>2. PICK m \in T : \A n \in T : ~(<< n, m >> \in OpToRel(<, Nat))
    BY <1>1, WFMin
<1>3. \A n \in T : ~(n < m)
    BY <1>2 DEF OpToRel
<1> QED
    BY <1>3

LEMMA ChildrenAre ==
    ASSUME NEW t, NEW p
    PROVE  p \in Children(t) <=> \/ p = Root
                                \/ \E q \in DOMAIN t, s \in Sides : p = Append(q, s)
<1> DEFINE C == { Append(q, s) : q \in DOMAIN t, s \in {"left", "right"} }
<1>1. Children(t) = {Root} \union C
    BY DEF Children
<1>2. p \in C <=> \E q \in DOMAIN t, s \in {"left", "right"} : p = Append(q, s)
    OBVIOUS
<1> HIDE DEF C
<1> QED
    BY <1>1, <1>2 DEF Sides

LEMMA SidesOfChildren ==
    ASSUME NEW t, DOMAIN t \subseteq Seq(Sides), NEW p \in Children(t)
    PROVE  p \in Seq(Sides) /\ Len(p) \in Nat
<1>1. CASE p = Root
    BY <1>1 DEF Root
<1>2. CASE \E q \in DOMAIN t, s \in Sides : p = Append(q, s)
  <2>1. PICK q \in Seq(Sides), s \in Sides : p = Append(q, s)
      BY <1>2
  <2> QED
      BY <2>1
<1> QED
    BY <1>1, <1>2, ChildrenAre

\* Two walks for the same name go the same way.
LEMMA WalksAgree ==
    ASSUME NEW t, NEW key, NEW p \in Seq(Sides), NEW q \in Seq(Sides),
           LeadsTo(t, key, p), LeadsTo(t, key, q), NEW n \in Nat, n <= Len(p), n <= Len(q)
    PROVE  SubSeq(p, 1, n) = SubSeq(q, 1, n)
<1> DEFINE T == { x \in 1..n : p[x] # q[x] }
<1>1. T = {}
  <2> SUFFICES ASSUME T # {} PROVE FALSE
      OBVIOUS
  <2>1. PICK x \in T : \A k \in T : x <= k
    <3>1. T \in SUBSET Nat
        OBVIOUS
    <3> HIDE DEF T
    <3> QED
        BY <3>1, LeastNumber
  <2>2. x \in 1..n /\ p[x] # q[x] /\ x \in 1..Len(p) /\ x \in 1..Len(q)
      OBVIOUS
  <2>3. SubSeq(p, 1, x - 1) = SubSeq(q, 1, x - 1)
    <3>1. \A k \in 1..(x - 1) : p[k] = q[k]
        BY <2>1, <2>2
    <3>2. SubSeq(p, 1, x - 1) = [k \in 1..(x - 1) |-> p[k]]
        BY <2>2
    <3>3. SubSeq(q, 1, x - 1) = [k \in 1..(x - 1) |-> q[k]]
        BY <2>2
    <3> QED
        BY <3>1, <3>2, <3>3
  <2>4. p[x] = Side(t, SubSeq(p, 1, x - 1), key) /\ q[x] = Side(t, SubSeq(q, 1, x - 1), key)
      BY <2>2 DEF LeadsTo
  <2> QED
      BY <2>2, <2>3, <2>4
<1>2. \A k \in 1..n : p[k] = q[k]
    BY <1>1
<1>3. SubSeq(p, 1, n) = [k \in 1..n |-> p[k]]
    OBVIOUS
<1>4. SubSeq(q, 1, n) = [k \in 1..n |-> q[k]]
    OBVIOUS
<1> QED
    BY <1>2, <1>3, <1>4

LEMMA NoShorterStop ==
    ASSUME NEW t, NEW key, NEW p \in Seq(Sides), NEW q \in Seq(Sides),
           StopsAt(t, key, p), LeadsTo(t, key, q)
    PROVE  ~(Len(p) < Len(q))
<1> SUFFICES ASSUME Len(p) < Len(q) PROVE FALSE
    OBVIOUS
<1> DEFINE x == Len(p) + 1
<1>1. x \in 1..Len(q) /\ x - 1 = Len(p)
    OBVIOUS
<1>2. SubSeq(q, 1, Len(p)) = SubSeq(p, 1, Len(p))
    BY WalksAgree DEF StopsAt
<1>3. SubSeq(p, 1, Len(p)) = p
    OBVIOUS
<1>4. SubSeq(q, 1, x - 1) = p
    BY <1>1, <1>2, <1>3
<1>5. p \in DOMAIN t /\ ~SameName(key, t[p].key)
    BY <1>1, <1>4 DEF LeadsTo
<1> QED
    BY <1>5 DEF StopsAt

\* A walk stops at one place only.
LEMMA OneStop ==
    ASSUME NEW t, DOMAIN t \subseteq Seq(Sides), NEW key, NEW p, NEW q,
           StopsAt(t, key, p), StopsAt(t, key, q)
    PROVE  p = q
<1>1. p \in Seq(Sides) /\ q \in Seq(Sides) /\ Len(p) \in Nat /\ Len(q) \in Nat
    BY SidesOfChildren DEF StopsAt
<1>2. ~(Len(p) < Len(q)) /\ ~(Len(q) < Len(p))
    BY <1>1, NoShorterStop DEF StopsAt
<1>3. Len(p) = Len(q)
    BY <1>1, <1>2
<1>4. SubSeq(p, 1, Len(p)) = SubSeq(q, 1, Len(p))
    BY <1>1, <1>3, WalksAgree DEF StopsAt
<1>5. SubSeq(p, 1, Len(p)) = p /\ SubSeq(q, 1, Len(q)) = q
    BY <1>1
<1> QED
    BY <1>3, <1>4, <1>5

\* One step down.
LEMMA WalkGoesOn ==
    ASSUME NEW t, DOMAIN t \subseteq Seq(Sides), NEW key, NEW p \in DOMAIN t,
           LeadsTo(t, key, p), ~SameName(key, t[p].key)
    PROVE  \E c \in Children(t) : LeadsTo(t, key, c) /\ Len(c) = Len(p) + 1
<1> DEFINE s == Side(t, p, key)
           c == Append(p, s)
<1>1. p \in Seq(Sides) /\ s \in Sides /\ Len(p) \in Nat
    BY DEF Side, Sides
<1>2. c \in Children(t)
    BY <1>1 DEF Children, Sides
<1>3. Len(c) = Len(p) + 1 /\ c[Len(p) + 1] = s /\ \A x \in 1..Len(p) : c[x] = p[x]
    BY <1>1
<1>4. \A x \in 1..Len(c) : SubSeq(c, 1, x - 1) = SubSeq(p, 1, x - 1)
  <2> TAKE x \in 1..Len(c)
  <2>1. c \in Seq(Sides) /\ x - 1 \in 0..Len(p) /\ x - 1 <= Len(c)
      BY <1>1, <1>3
  <2> HIDE DEF c
  <2>2. SubSeq(c, 1, x - 1) = [k \in 1..(x - 1) |-> c[k]]
      BY <2>1
  <2>3. SubSeq(p, 1, x - 1) = [k \in 1..(x - 1) |-> p[k]]
      BY <1>1, <2>1
  <2>4. \A k \in 1..(x - 1) : c[k] = p[k]
      BY <1>3, <2>1
  <2> QED
      BY <2>2, <2>3, <2>4
<1> HIDE DEF c, s
<1>5. SubSeq(p, 1, Len(p)) = p
    BY <1>1
<1>6. LeadsTo(t, key, c)
  <2> SUFFICES ASSUME NEW x \in 1..Len(c)
               PROVE  /\ SubSeq(c, 1, x - 1) \in DOMAIN t
                      /\ ~SameName(key, t[SubSeq(c, 1, x - 1)].key)
                      /\ c[x] = Side(t, SubSeq(c, 1, x - 1), key)
      BY DEF LeadsTo
  <2>1. CASE x \in 1..Len(p)
      BY <1>3, <1>4, <2>1 DEF LeadsTo
  <2>2. CASE x = Len(p) + 1
    <3>1. SubSeq(c, 1, x - 1) = p
        BY <1>1, <1>4, <1>5, <2>2
    <3> QED
        BY <1>3, <2>2, <3>1 DEF s
  <2> QED
      BY <1>1, <1>3, <2>1, <2>2
<1> QED
    BY <1>2, <1>3, <1>6

\* Every walk stops.
LEMMA SomeStop ==
    ASSUME NEW t, TreeSound(t), NEW key
    PROVE  \E p : StopsAt(t, key, p)
<1> SUFFICES ASSUME \A p : ~StopsAt(t, key, p) PROVE FALSE
    OBVIOUS
<1>1. DOMAIN t \subseteq Seq(Sides)
    BY DEF TreeSound
<1>2. PICK n \in Nat : \A p \in DOMAIN t : Len(p) <= n
    BY DEF TreeSound
<1> DEFINE On(p) == p \in Children(t) /\ LeadsTo(t, key, p)
           T == { d \in 0..(n + 1) : \E p : On(p) /\ Len(p) = n + 1 - d }
<1>3. On(Root) /\ Len(Root) = 0
    BY EmptySeq DEF Children, Root, LeadsTo
<1>4. n + 1 \in T
    BY <1>3
<1>5. PICK d \in T : \A e \in T : d <= e
  <2>1. T \in SUBSET Nat
      OBVIOUS
  <2> HIDE DEF T
  <2> QED
      BY <1>4, <2>1, LeastNumber
<1>6. PICK p : On(p) /\ Len(p) = n + 1 - d
    BY <1>5
<1>7. p \in DOMAIN t /\ ~SameName(key, t[p].key)
    BY <1>6 DEF StopsAt
<1>8. PICK c \in Children(t) : LeadsTo(t, key, c) /\ Len(c) = Len(p) + 1
    BY <1>1, <1>6, <1>7, WalkGoesOn
<1>9. Len(p) <= n
    BY <1>2, <1>7
<1>10. d - 1 \in T
    BY <1>5, <1>6, <1>8, <1>9
<1> QED
    BY <1>5, <1>10

\* Where a walk stops is its place.
LEMMA PlaceStops ==
    ASSUME NEW t, TreeSound(t), NEW key
    PROVE  /\ StopsAt(t, key, PlaceOf(t, key))
           /\ \A p : StopsAt(t, key, p) => PlaceOf(t, key) = p
<1>1. PICK q : StopsAt(t, key, q)
    BY SomeStop
<1>2. PlaceOf(t, key) = CHOOSE p \in Children(t) :
                           LeadsTo(t, key, p) /\ (p \in DOMAIN t => SameName(key, t[p].key))
    BY DEF PlaceOf
<1>3. StopsAt(t, key, PlaceOf(t, key))
    BY <1>1, <1>2 DEF StopsAt
<1>4. DOMAIN t \subseteq Seq(Sides)
    BY DEF TreeSound
<1> QED
    BY <1>3, <1>4, OneStop

\* strcasecmp does not tell two spellings of a name apart.
LEMMA SpellingIsIgnored ==
    ASSUME NEW t, NEW a, NEW b, SameName(a, b)
    PROVE  /\ \A p : Side(t, p, a) = Side(t, p, b)
           /\ \A c : SameName(a, c) = SameName(b, c)
           /\ \A p : LeadsTo(t, a, p) = LeadsTo(t, b, p)
<1>1. Folded(a) = Folded(b)
    BY DEF SameName
<1>2. \A c : Before(a, c) = Before(b, c)
    BY <1>1 DEF Before
<1>3. \A p : Side(t, p, a) = Side(t, p, b)
    BY <1>2 DEF Side
<1>4. \A c : SameName(a, c) = SameName(b, c)
    BY <1>1 DEF SameName
<1>5. \A p : LeadsTo(t, a, p) = LeadsTo(t, b, p)
    BY <1>3, <1>4 DEF LeadsTo
<1> QED
    BY <1>3, <1>4, <1>5

\* A node is the place of every spelling of its name.
LEMMA NodeIsPlace ==
    ASSUME NEW t, TreeSound(t), NEW p \in DOMAIN t, NEW key, SameName(key, t[p].key)
    PROVE  PlaceOf(t, key) = p
<1>1. LeadsTo(t, t[p].key, p) /\ p \in Seq(Sides)
    BY DEF TreeSound
<1>2. LeadsTo(t, key, p)
    BY <1>1, SpellingIsIgnored
<1>3. p \in Children(t)
  <2>1. CASE p = Root
      BY <2>1 DEF Children
  <2>2. CASE p # Root
    <3>1. Len(p) \in Nat \ {0}
        BY <1>1, <2>2, EmptySeq DEF Root
    <3>2. SubSeq(p, 1, Len(p) - 1) \in DOMAIN t /\ p[Len(p)] \in Sides
        BY <1>1, <3>1 DEF LeadsTo
    <3>3. p = Append(SubSeq(p, 1, Len(p) - 1), p[Len(p)])
        BY <1>1, <3>1
    <3> QED
        BY <3>2, <3>3, ChildrenAre
  <2> QED
      BY <2>1, <2>2
<1>4. StopsAt(t, key, p)
    BY <1>2, <1>3 DEF StopsAt
<1> QED
    BY <1>4, PlaceStops

-----------------------------------------------------------------------------
(* The tree is a map *)

\* The history has the names of the nodes and their values.
HoldsLatest(t, l) ==
    /\ DOMAIN l = { Folded(t[p].key) : p \in DOMAIN t }
    /\ \A p \in DOMAIN t : l[Folded(t[p].key)] = t[p].value

\* The paths in front of a node stay nodes, with their names.
LEMMA LeadsToAgain ==
    ASSUME NEW t, NEW r, DOMAIN t \subseteq DOMAIN r,
           \A p \in DOMAIN t : r[p].key = t[p].key,
           NEW key, NEW q, LeadsTo(t, key, q)
    PROVE  LeadsTo(r, key, q)
BY DEF LeadsTo, Side

\* A new value in the node that has the name.
LEMMA RenewKeepsTree ==
    ASSUME NEW t, NEW l, TreeSound(t), HoldsLatest(t, l), NEW key, NEW value,
           NEW p \in DOMAIN t, SameName(key, t[p].key),
           NEW r, DOMAIN r = DOMAIN t, r[p] = [key |-> t[p].key, value |-> value],
           \A q \in DOMAIN t : q # p => r[q] = t[q],
           NEW m, DOMAIN m = DOMAIN l \union {Folded(key)}, m[Folded(key)] = value,
           \A k \in DOMAIN l : k # Folded(key) => m[k] = l[k]
    PROVE  TreeSound(r) /\ HoldsLatest(r, m)
<1>1. /\ DOMAIN t \subseteq Seq(Sides)
      /\ \E n \in Nat : \A q \in DOMAIN t : Len(q) <= n
      /\ \A q \in DOMAIN t : t[q] = [key |-> t[q].key, value |-> t[q].value]
      /\ \A q \in DOMAIN t : LeadsTo(t, t[q].key, q)
    BY DEF TreeSound
<1>2. DOMAIN r = DOMAIN t /\ \A q \in DOMAIN t : q # p => r[q] = t[q]
    OBVIOUS
<1>4. r[p] = [key |-> t[p].key, value |-> value]
    OBVIOUS
<1>5. \A q \in DOMAIN t : r[q].key = t[q].key
    BY <1>2, <1>4
<1>6. \A q \in DOMAIN t : r[q] = [key |-> r[q].key, value |-> r[q].value]
    BY <1>1, <1>2, <1>4
<1>7. \A q \in DOMAIN t : LeadsTo(r, r[q].key, q)
    BY <1>1, <1>2, <1>5, LeadsToAgain
<1>8. TreeSound(r)
    BY <1>1, <1>2, <1>6, <1>7 DEF TreeSound
<1>9. /\ DOMAIN l = { Folded(t[q].key) : q \in DOMAIN t }
      /\ \A q \in DOMAIN t : l[Folded(t[q].key)] = t[q].value
    BY DEF HoldsLatest
<1>10. Folded(key) = Folded(t[p].key)
    BY DEF SameName
<1>11. \A q \in DOMAIN t : Folded(t[q].key) = Folded(key) => q = p
  <2> TAKE q \in DOMAIN t
  <2>1. SUFFICES ASSUME Folded(t[q].key) = Folded(key) PROVE q = p
      OBVIOUS
  <2>2. SameName(key, t[q].key)
      BY <2>1 DEF SameName
  <2> QED
      BY <2>2, NodeIsPlace
<1>12. { Folded(r[q].key) : q \in DOMAIN r } = { Folded(t[q].key) : q \in DOMAIN t }
    BY <1>2, <1>5
<1>13. DOMAIN m = { Folded(r[q].key) : q \in DOMAIN r }
    BY <1>9, <1>10, <1>12
<1>14. ASSUME NEW q \in DOMAIN r PROVE m[Folded(r[q].key)] = r[q].value
  <2>1. q \in DOMAIN t /\ Folded(r[q].key) = Folded(t[q].key)
      BY <1>2, <1>5
  <2>2. Folded(t[q].key) \in DOMAIN l
      BY <1>9, <2>1
  <2>3. CASE q = p
      BY <1>4, <1>10, <2>1, <2>3
  <2>4. CASE q # p
      BY <1>2, <1>9, <1>11, <2>1, <2>2, <2>4
  <2> QED
      BY <2>3, <2>4
<1> QED
    BY <1>8, <1>13, <1>14 DEF HoldsLatest

\* A new leaf where the walk for its name stops.
LEMMA LeafKeepsTree ==
    ASSUME NEW t, NEW l, TreeSound(t), HoldsLatest(t, l), NEW key, NEW value,
           NEW p, p \notin DOMAIN t, StopsAt(t, key, p),
           NEW r, DOMAIN r = DOMAIN t \union {p}, r[p] = [key |-> key, value |-> value],
           \A q \in DOMAIN t : r[q] = t[q],
           NEW m, DOMAIN m = DOMAIN l \union {Folded(key)}, m[Folded(key)] = value,
           \A k \in DOMAIN l : k # Folded(key) => m[k] = l[k]
    PROVE  TreeSound(r) /\ HoldsLatest(r, m)
<1>1. /\ DOMAIN t \subseteq Seq(Sides)
      /\ \A q \in DOMAIN t : t[q] = [key |-> t[q].key, value |-> t[q].value]
      /\ \A q \in DOMAIN t : LeadsTo(t, t[q].key, q)
    BY DEF TreeSound
<1>2. PICK n \in Nat : \A q \in DOMAIN t : Len(q) <= n
    BY DEF TreeSound
<1>3. p \in Seq(Sides) /\ Len(p) \in Nat
    BY <1>1, SidesOfChildren DEF StopsAt
<1>4. /\ DOMAIN r = DOMAIN t \union {p} /\ r[p] = [key |-> key, value |-> value]
      /\ \A q \in DOMAIN t : q # p /\ r[q] = t[q]
    OBVIOUS
<1>5. \E n1 \in Nat : \A q \in DOMAIN r : Len(q) <= n1
  <2> DEFINE n1 == n + Len(p)
  <2>1. n1 \in Nat /\ Len(p) <= n1
      BY <1>3
  <2>2. ASSUME NEW q \in DOMAIN t PROVE Len(q) <= n1
    <3>1. q \in Seq(Sides) /\ Len(q) <= n
        BY <1>1, <1>2
    <3> QED
        BY <1>3, <3>1
  <2> HIDE DEF n1
  <2> QED
      BY <1>4, <2>1, <2>2
<1>6. \A q \in DOMAIN r : r[q] = [key |-> r[q].key, value |-> r[q].value]
    BY <1>1, <1>4
<1>7. \A q \in DOMAIN t : r[q].key = t[q].key
    BY <1>4
<1>8. ASSUME NEW q \in DOMAIN r PROVE LeadsTo(r, r[q].key, q)
  <2>1. DOMAIN t \subseteq DOMAIN r
      BY <1>4
  <2>2. CASE q = p
    <3>1. LeadsTo(t, key, p)
        BY DEF StopsAt
    <3>2. LeadsTo(r, key, p)
        BY <1>7, <2>1, <3>1, LeadsToAgain
    <3> QED
        BY <1>4, <2>2, <3>2
  <2>3. CASE q \in DOMAIN t
    <3>1. LeadsTo(t, t[q].key, q)
        BY <1>1, <2>3
    <3>2. LeadsTo(r, t[q].key, q)
        BY <1>7, <2>1, <3>1, LeadsToAgain
    <3> QED
        BY <1>7, <2>3, <3>2
  <2> QED
      BY <1>4, <2>2, <2>3
<1>9. DOMAIN r \subseteq Seq(Sides)
    BY <1>1, <1>3, <1>4
<1>10. TreeSound(r)
    BY <1>5, <1>6, <1>8, <1>9 DEF TreeSound
<1>11. /\ DOMAIN l = { Folded(t[q].key) : q \in DOMAIN t }
       /\ \A q \in DOMAIN t : l[Folded(t[q].key)] = t[q].value
    BY DEF HoldsLatest
<1>12. \A q \in DOMAIN t : Folded(t[q].key) # Folded(key)
  <2> SUFFICES ASSUME NEW q \in DOMAIN t, Folded(t[q].key) = Folded(key) PROVE FALSE
      OBVIOUS
  <2>1. SameName(key, t[q].key)
      BY DEF SameName
  <2>2. PlaceOf(t, key) = q
      BY <2>1, NodeIsPlace
  <2>3. PlaceOf(t, key) = p
      BY PlaceStops
  <2> QED
      BY <2>2, <2>3
<1>13. DOMAIN m = { Folded(r[q].key) : q \in DOMAIN r }
  <2>1. DOMAIN m = DOMAIN l \union {Folded(key)}
      OBVIOUS
  <2>2. { Folded(r[q].key) : q \in DOMAIN r }
           = { Folded(t[q].key) : q \in DOMAIN t } \union {Folded(r[p].key)}
      BY <1>4, <1>7
  <2>3. r[p].key = key
      BY <1>4
  <2> QED
      BY <1>11, <2>1, <2>2, <2>3
<1>14. ASSUME NEW q \in DOMAIN r PROVE m[Folded(r[q].key)] = r[q].value
  <2>1. CASE q = p
      BY <1>4, <2>1
  <2>2. CASE q \in DOMAIN t
    <3>1. Folded(t[q].key) \in DOMAIN l /\ Folded(t[q].key) # Folded(key)
        BY <1>11, <1>12, <2>2
    <3> QED
        BY <1>4, <1>11, <2>2, <3>1
  <2> QED
      BY <1>4, <2>1, <2>2
<1> QED
    BY <1>10, <1>13, <1>14 DEF HoldsLatest

LEMMA StoredKeepsTree ==
    ASSUME NEW t, NEW l, TreeSound(t), HoldsLatest(t, l), NEW key, NEW value
    PROVE  LET r == Stored(t, key, value)
               m == [k \in DOMAIN l \union {Folded(key)} |->
                        IF k = Folded(key) THEN value ELSE l[k]]
           IN  TreeSound(r) /\ HoldsLatest(r, m)
<1> DEFINE p == PlaceOf(t, key)
           r == Stored(t, key, value)
           m == [k \in DOMAIN l \union {Folded(key)} |->
                    IF k = Folded(key) THEN value ELSE l[k]]
<1>1. StopsAt(t, key, p)
    BY PlaceStops
<1>2. p \in DOMAIN t => r = [t EXCEPT ![p].value = value] /\ SameName(key, t[p].key)
    BY <1>1 DEF Stored, StopsAt
<1>3. p \notin DOMAIN t => r = [q \in DOMAIN t \union {p} |->
                                  IF q = p THEN [key |-> key, value |-> value] ELSE t[q]]
    BY DEF Stored
<1>4. /\ DOMAIN m = DOMAIN l \union {Folded(key)} /\ m[Folded(key)] = value
      /\ \A k \in DOMAIN l : k # Folded(key) => m[k] = l[k]
    OBVIOUS
<1> HIDE DEF p, r, m
<1>5. CASE p \in DOMAIN t
  <2>1. r = [t EXCEPT ![p].value = value]
      BY <1>2, <1>5
  <2>2. SameName(key, t[p].key)
      BY <1>2, <1>5
  <2>3. t[p] = [key |-> t[p].key, value |-> t[p].value]
      BY <1>5 DEF TreeSound
  <2>4. DOMAIN r = DOMAIN t /\ \A q \in DOMAIN t : q # p => r[q] = t[q]
      BY <2>1
  <2>5. r[p] = [t[p] EXCEPT !.value = value]
      BY <1>5, <2>1
  <2>6. r[p] = [key |-> t[p].key, value |-> value]
      BY <2>3, <2>5
  <2>7. TreeSound(r) /\ HoldsLatest(r, m)
      BY <1>4, <1>5, <2>2, <2>4, <2>6, RenewKeepsTree
  <2> QED
      BY <2>7 DEF m, r
<1>6. CASE p \notin DOMAIN t
  <2>1. r = [q \in DOMAIN t \union {p} |->
                IF q = p THEN [key |-> key, value |-> value] ELSE t[q]]
      BY <1>3, <1>6
  <2>2. DOMAIN r = DOMAIN t \union {p} /\ r[p] = [key |-> key, value |-> value]
      BY <2>1
  <2>3. \A q \in DOMAIN t : r[q] = t[q]
      BY <1>6, <2>1
  <2>4. TreeSound(r) /\ HoldsLatest(r, m)
      BY <1>1, <1>4, <1>6, <2>2, <2>3, LeafKeepsTree
  <2> QED
      BY <2>4 DEF m, r
<1> QED
    BY <1>5, <1>6

\* What such a tree answers.
LEMMA SoundTreesAnswer ==
    ASSUME TreeSound(tree), HoldsLatest(tree, latest)
    PROVE  NodesAreReachable /\ LookupFindsLatest
<1>1. ASSUME NEW p \in DOMAIN tree, p # Root PROVE Parent(p) \in DOMAIN tree
  <2>1. p \in Seq(Sides) /\ LeadsTo(tree, tree[p].key, p)
      BY DEF TreeSound
  <2>2. Len(p) \in Nat \ {0}
      BY <1>1, <2>1, EmptySeq DEF Root
  <2>3. SubSeq(p, 1, Len(p) - 1) \in DOMAIN tree
      BY <2>1, <2>2 DEF LeadsTo
  <2> QED
      BY <2>3 DEF Parent, Front
<1>2. ASSUME NEW p \in DOMAIN tree PROVE PlaceOf(tree, tree[p].key) = p
  <2>1. SameName(tree[p].key, tree[p].key)
      BY DEF SameName
  <2> QED
      BY <2>1, NodeIsPlace
<1>3. ASSUME NEW name \in Names
      PROVE  ptree_get_value(tree, name) =
                IF Folded(name) \in DOMAIN latest THEN latest[Folded(name)] ELSE NULL
  <2>1. /\ DOMAIN latest = { Folded(tree[p].key) : p \in DOMAIN tree }
        /\ \A p \in DOMAIN tree : latest[Folded(tree[p].key)] = tree[p].value
      BY DEF HoldsLatest
  <2>2. CASE Folded(name) \in DOMAIN latest
    <3>1. PICK p \in DOMAIN tree : Folded(name) = Folded(tree[p].key)
        BY <2>1, <2>2
    <3>2. PlaceOf(tree, name) = p
        BY <3>1, NodeIsPlace DEF SameName
    <3>3. ptree_get_value(tree, name) = tree[p].value
        BY <3>2 DEF ptree_get_value
    <3> QED
        BY <2>1, <2>2, <3>1, <3>3
  <2>3. CASE Folded(name) \notin DOMAIN latest
    <3>1. PlaceOf(tree, name) \notin DOMAIN tree
        BY <2>1, <2>3, PlaceStops DEF StopsAt, SameName
    <3> QED
        BY <2>3, <3>1 DEF ptree_get_value
  <2> QED
      BY <2>2, <2>3
<1> QED
    BY <1>1, <1>2, <1>3 DEF NodesAreReachable, LookupFindsLatest

-----------------------------------------------------------------------------
(* The header tree of a request *)

TreeInv == TreeSound(tree) /\ HoldsLatest(tree, latest)

\* A tree without nodes is one.
LEMMA EmptyTreeIsSound == TreeSound(<< >>) /\ HoldsLatest(<< >>, << >>)
<1>1. DOMAIN << >> = {}
    BY EmptySeq
<1> QED
    BY <1>1 DEF TreeSound, HoldsLatest

LEMMA TreeInvStep == TreeInv /\ [Next]_vars => TreeInv'
<1> SUFFICES ASSUME TreeInv, [Next]_vars PROVE TreeInv'
    OBVIOUS
<1>1. CASE Connect
  <2>1. tree' = << >> /\ latest' = << >>
      BY <1>1 DEF Connect, StartScan
  <2> QED
      BY <2>1, EmptyTreeIsSound DEF TreeInv, TreeSound, HoldsLatest, LeadsTo, Folded, SameName
<1>2. CASE Push
  <2>1. /\ tree' = Stored(tree, current_key, current_value)
        /\ latest' = [k \in DOMAIN latest \union {Folded(current_key)} |->
                        IF k = Folded(current_key) THEN current_value ELSE latest[k]]
      BY <1>2 DEF Push, ptree_push
  <2>2. TreeSound(tree') /\ HoldsLatest(tree', latest')
      BY <2>1, StoredKeepsTree DEF TreeInv
  <2> QED
      BY <2>2 DEF TreeInv
<1>3. CASE UNCHANGED << tree, latest >>
    BY <1>3 DEF TreeInv
<1>4. Connect \/ Push \/ UNCHANGED << tree, latest >>
    BY DEF Next, NoConnection, ConnectFails, GiveUp, Parse, ParseStep, Read, Flush, ScanColon,
       ScanValueEnd, ScanOtherLine, ScanCharacter, EndPiece, Finish, UseFraming, Follow,
       FollowNowhere, ReturnHandler, TryGet, GotNothing, DropHandler, UseHandler,
       ptree_update_key, ptree_update_value, ptree_abort, scanVars, treeVars, vars
<1> QED
    BY <1>1, <1>2, <1>3, <1>4

(* No push ever hides a header that is already in the tree, and no name is *)
(* in it twice, whatever headers come in whatever order and spelling and   *)
(* however requests.c cuts and aborts them (parser_tree.c:107-137).        *)
THEOREM EveryHeaderIsReachable == Spec => []NodesAreReachable
<1>1. Init => TreeInv
    BY EmptyTreeIsSound DEF Init, ptree_init, TreeInv
<1>2. TreeInv => NodesAreReachable
    BY SoundTreesAnswer DEF TreeInv
<1> QED
    BY <1>1, <1>2, TreeInvStep, PTL DEF Spec

(* The tree is a map without case: a lookup finds the value pushed last    *)
(* under the name, in any spelling, and nothing under another name         *)
(* (parser_tree.c:78-162).                                                 *)
THEOREM LookupsFindTheLatest == Spec => []LookupFindsLatest
<1>1. Init => TreeInv
    BY EmptyTreeIsSound DEF Init, ptree_init, TreeInv
<1>2. TreeInv => LookupFindsLatest
    BY SoundTreesAnswer DEF TreeInv
<1> QED
    BY <1>1, <1>2, TreeInvStep, PTL DEF Spec

-----------------------------------------------------------------------------
(* The arrays of the header scanner *)

Characters == DOMAIN Lower \union {UNINIT, NUL}

(* The index never gets behind the piece that is scanned, and the arrays   *)
(* have the size they were declared with: TypeOK relies on it.             *)
ArraysInv ==
    /\ stream \in Texts
    /\ pc \in {"read", "scan", "push", "finish"} =>
          /\ buffer \in Seq(Characters) /\ Len(buffer) = PARSER_BUFFER_SIZE
          /\ key_value \in Seq(Characters) /\ Len(key_value) = PARSER_BUFFER_SIZE
    /\ pc = "scan" => i <= size
    /\ pc = "push" => i < size

\* TypeOK without what the request adds.
ScannerTypeOK ==
    /\ size \in -1..PARSER_BUFFER_SIZE /\ i \in 0..PARSER_BUFFER_SIZE
    /\ j \in 0..(PARSER_BUFFER_SIZE - 1) /\ offset \in -1..(PARSER_BUFFER_SIZE + 1)
    /\ Len(buffer) \in {0, PARSER_BUFFER_SIZE} /\ Len(key_value) \in {0, PARSER_BUFFER_SIZE}

RequestTypeOK ==
    /\ job \in Jobs /\ method \in {"GET", "HEAD"} /\ link \in Urls /\ url \in Urls
    /\ pc \in {"connect", "read", "scan", "push", "finish", "refused", "accepted", "framed",
               "handler", "null", "end", "crashed"}

ScanInv == ScannerTypeOK /\ ArraysInv /\ RequestTypeOK

LEMMA SizeIs ==
    PARSER_BUFFER_SIZE \in Nat /\ PARSER_BUFFER_SIZE > 1
BY AlphabetAssumption

LEMMA FreshArray ==
    LET a == [k \in 1..PARSER_BUFFER_SIZE |-> UNINIT]
    IN  a \in Seq(Characters) /\ Len(a) = PARSER_BUFFER_SIZE
BY SizeIs DEF Characters

\* A character is written at a valid index.
LEMMA WrittenArray ==
    ASSUME NEW a \in Seq(Characters), NEW k \in 1..Len(a), NEW c \in Characters
    PROVE  [a EXCEPT ![k] = c] \in Seq(Characters) /\ Len([a EXCEPT ![k] = c]) = Len(a)
OBVIOUS

LEMMA TerminatedArray ==
    ASSUME ScanInv, pc \in {"scan", "push"}
    PROVE  /\ Terminated \in Seq(Characters) /\ Len(Terminated) = PARSER_BUFFER_SIZE
           /\ j + 1 \in 1..PARSER_BUFFER_SIZE
<1>1. key_value \in Seq(Characters) /\ Len(key_value) = PARSER_BUFFER_SIZE
    BY DEF ScanInv, ArraysInv
<1>2. j + 1 \in 1..PARSER_BUFFER_SIZE /\ NUL \in Characters
    BY SizeIs DEF ScanInv, ScannerTypeOK, Characters
<1> QED
    BY <1>1, <1>2, WrittenArray DEF Terminated

LEMMA CharacterIs ==
    ASSUME ScanInv, pc = "scan" PROVE Character \in Characters
<1>1. buffer \in Seq(Characters) /\ Len(buffer) = PARSER_BUFFER_SIZE /\ i \in 0..PARSER_BUFFER_SIZE
    BY DEF ScanInv, ArraysInv, ScannerTypeOK
<1>2. i # PARSER_BUFFER_SIZE => i + 1 \in 1..Len(buffer)
    BY <1>1, SizeIs
<1> QED
    BY <1>1, <1>2 DEF Character, Characters

\* A piece of m characters replaces what was at the front of the buffer.
LEMMA ReadArray ==
    ASSUME NEW st \in Texts, NEW b \in Seq(Characters), Len(b) = PARSER_BUFFER_SIZE,
           NEW m \in 1..PARSER_BUFFER_SIZE, m <= Len(st)
    PROVE  LET r == SubSeq(st, 1, m) \o SubSeq(b, m + 1, PARSER_BUFFER_SIZE)
           IN  /\ r \in Seq(Characters) /\ Len(r) = PARSER_BUFFER_SIZE
               /\ SubSeq(st, m + 1, Len(st)) \in Texts
<1>1. PARSER_BUFFER_SIZE \in Nat /\ Len(st) \in Nat
    BY SizeIs DEF Texts
<1>2. st \in Seq(Characters) /\ \A k \in 1..Len(st) : st[k] \in DOMAIN Lower
    BY DEF Texts, Characters
<1>3. SubSeq(st, 1, m) \in Seq(Characters) /\ Len(SubSeq(st, 1, m)) = m
    BY <1>1, <1>2
<1>4. SubSeq(b, m + 1, PARSER_BUFFER_SIZE) \in Seq(Characters)
      /\ Len(SubSeq(b, m + 1, PARSER_BUFFER_SIZE)) = PARSER_BUFFER_SIZE - m
    BY <1>1
<1>5. SubSeq(st, m + 1, Len(st)) \in Seq(DOMAIN Lower)
    BY <1>1, <1>2 DEF Texts
<1> QED
    BY <1>1, <1>3, <1>4, <1>5 DEF Texts

LEMMA ScanInvInit == Init => ScanInv
<1> SUFFICES ASSUME Init PROVE ScanInv
    OBVIOUS
<1>1. RequestTypeOK
    BY AnswersAssumption DEF Init, RequestTypeOK, Jobs
<1>2. ScannerTypeOK
    BY SizeIs, EmptySeq DEF Init, ScannerTypeOK
<1>3. ArraysInv
    BY DEF Init, ArraysInv, Texts
<1> QED
    BY <1>1, <1>2, <1>3 DEF ScanInv

LEMMA RequestTypeStep == RequestTypeOK /\ [Next]_vars => RequestTypeOK'
<1> SUFFICES ASSUME RequestTypeOK, [Next]_vars PROVE RequestTypeOK'
    OBVIOUS
<1>1. CASE Follow \/ TryGet
  <2>1. method' \in {"GET", "HEAD"} /\ job' = job /\ link' = link /\ pc' = "connect"
      BY <1>1 DEF Follow, TryGet, Ask, RequestTypeOK
  <2>2. url' \in Urls
      BY <1>1, AnswersAssumption DEF Follow, TryGet, Ask, Redirected, RequestTypeOK
  <2> QED
      BY <2>1, <2>2 DEF RequestTypeOK
<1>2. CASE UNCHANGED << requestVars, pc >>
    BY <1>2 DEF RequestTypeOK, requestVars
<1>3. CASE /\ UNCHANGED requestVars
           /\ pc' \in {"read", "scan", "push", "finish", "refused", "accepted", "framed",
                       "handler", "null", "end", "crashed"}
    BY <1>3 DEF RequestTypeOK, requestVars
<1>4. CASE Parse
  <2>1. \/ pc' = pc
        \/ pc' \in {"read", "scan", "push", "finish", "refused", "accepted"}
      BY <1>4 DEF Parse, ParseStep, Read, Flush, ScanColon, ScanValueEnd, Push, ScanOtherLine,
         ScanCharacter, EndPiece, Finish
  <2> QED
      BY <1>2, <1>3, <1>4, <2>1 DEF Parse
<1>5. CASE Connect
    BY <1>3, <1>5 DEF Connect, StartScan
<1>6. CASE NoConnection \/ ConnectFails \/ GiveUp \/ UseFraming \/ FollowNowhere
           \/ ReturnHandler \/ GotNothing \/ DropHandler \/ UseHandler
    BY <1>3, <1>6 DEF NoConnection, ConnectFails, GiveUp, UseFraming, FollowNowhere,
       ReturnHandler, GotNothing, DropHandler, UseHandler
<1>7. CASE UNCHANGED vars
    BY <1>2, <1>7 DEF vars
<1> QED
    BY <1>1, <1>4, <1>5, <1>6, <1>7 DEF Next

LEMMA ConnectKeepsScanner == ScanInv /\ Connect => ScannerTypeOK' /\ ArraysInv'
<1> SUFFICES ASSUME ScanInv, Connect PROVE ScannerTypeOK' /\ ArraysInv'
    OBVIOUS
<1>1. PICK r \in Answers[url] :
         StartScan(IF method = "HEAD" THEN [r EXCEPT !.body = << >>] ELSE r)
    BY DEF Connect
<1>2. /\ r \in [status : DOMAIN Lower, lines : Seq([name : Texts, value : Texts]), body : Texts]
      /\ Header(r) \in Texts
    BY ResponsesAssumption DEF ScanInv, RequestTypeOK
<1> DEFINE s == IF method = "HEAD" THEN [r EXCEPT !.body = << >>] ELSE r
<1>3. s.status = r.status /\ s.lines = r.lines /\ s.body \in Texts
  <2> DEFINE L == Seq([name : Texts, value : Texts])
  <2>1. r \in [status : DOMAIN Lower, lines : L, body : Texts] /\ << >> \in Texts
      BY <1>2 DEF Texts
  <2> HIDE DEF L
  <2>2. CASE method = "HEAD"
    <3>1. s = [r EXCEPT !.body = << >>]
        BY <2>2
    <3> HIDE DEF s
    <3> QED
        BY <2>1, <3>1
  <2>3. CASE method # "HEAD"
    <3>1. s = r
        BY <2>3
    <3> HIDE DEF s
    <3> QED
        BY <2>1, <3>1
  <2> QED
      BY <2>2, <2>3
<1>4. StartScan(s)
    BY <1>1
<1> HIDE DEF s
<1>5. Header(s) = Header(r)
    BY <1>3 DEF Header
<1>6. Header(s) \o s.body \in Texts
  <2>1. Header(s) \in Texts
      BY <1>2, <1>5
  <2> QED
      BY <1>3, <2>1 DEF Texts
<1>7. stream' \in Texts
    BY <1>4, <1>6 DEF StartScan
<1>8. /\ buffer' \in Seq(Characters) /\ Len(buffer') = PARSER_BUFFER_SIZE
      /\ key_value' \in Seq(Characters) /\ Len(key_value') = PARSER_BUFFER_SIZE
    BY <1>4, FreshArray DEF StartScan
<1>9. size' = 0 /\ i' = 0 /\ offset' = -1 /\ j' = 0 /\ pc' = "read"
    BY <1>4 DEF StartScan
<1>10. ScannerTypeOK'
    BY <1>8, <1>9, SizeIs DEF ScannerTypeOK
<1> QED
    BY <1>7, <1>8, <1>9, <1>10 DEF ArraysInv

LEMMA ReadKeepsScanner == ScanInv /\ Read => ScannerTypeOK' /\ ArraysInv'
<1> SUFFICES ASSUME ScanInv, Read PROVE ScannerTypeOK' /\ ArraysInv'
    OBVIOUS
<1>1. /\ stream \in Texts
      /\ buffer \in Seq(Characters) /\ Len(buffer) = PARSER_BUFFER_SIZE
      /\ key_value \in Seq(Characters) /\ Len(key_value) = PARSER_BUFFER_SIZE
    BY DEF Read, ScanInv, ArraysInv
<1>2. UNCHANGED << key_value, j, offset >> /\ i' = 0
    BY DEF Read, textVars
<1>3. CASE \E m \in 1..Smaller(PARSER_BUFFER_SIZE, Len(stream)) :
             /\ size' = m /\ pc' = "scan"
             /\ buffer' = SubSeq(stream, 1, m) \o SubSeq(buffer, m + 1, PARSER_BUFFER_SIZE)
             /\ stream' = SubSeq(stream, m + 1, Len(stream))
  <2>1. PICK m \in 1..Smaller(PARSER_BUFFER_SIZE, Len(stream)) :
             /\ size' = m /\ pc' = "scan"
             /\ buffer' = SubSeq(stream, 1, m) \o SubSeq(buffer, m + 1, PARSER_BUFFER_SIZE)
             /\ stream' = SubSeq(stream, m + 1, Len(stream))
      BY <1>3
  <2>2. Len(stream) \in Nat
      BY <1>1 DEF Texts
  <2>3. m \in 1..PARSER_BUFFER_SIZE /\ m <= Len(stream)
      BY <2>2, SizeIs DEF Smaller
  <2>4. buffer' \in Seq(Characters) /\ Len(buffer') = PARSER_BUFFER_SIZE /\ stream' \in Texts
      BY <1>1, <2>1, <2>3, ReadArray
  <2>5. ScannerTypeOK'
      BY <1>1, <1>2, <2>1, <2>3, <2>4, SizeIs DEF ScanInv, ScannerTypeOK
  <2> QED
      BY <1>1, <1>2, <2>1, <2>3, <2>4, <2>5 DEF ArraysInv
<1>4. CASE size' \in {0, -1} /\ pc' = "finish" /\ UNCHANGED << buffer, stream >>
  <2>1. ScannerTypeOK'
      BY <1>1, <1>2, <1>4, SizeIs DEF ScanInv, ScannerTypeOK
  <2> QED
      BY <1>1, <1>2, <1>4, <2>1 DEF ArraysInv
<1> QED
    BY <1>3, <1>4 DEF Read

\* The steps that write to key_value, or move on without reading.
LEMMA ScanKeepsScanner ==
    ScanInv /\ (Flush \/ ScanColon \/ ScanValueEnd \/ ScanOtherLine \/ ScanCharacter \/ Push)
        => ScannerTypeOK' /\ ArraysInv'
<1> SUFFICES ASSUME ScanInv,
                    Flush \/ ScanColon \/ ScanValueEnd \/ ScanOtherLine \/ ScanCharacter \/ Push
             PROVE  ScannerTypeOK' /\ ArraysInv'
    OBVIOUS
<1>1. pc \in {"scan", "push"} /\ pc' \in {"scan", "push"} /\ i < size
    BY DEF Flush, ScanColon, ScanValueEnd, ScanOtherLine, ScanCharacter, Push, Scanning,
       ScanInv, ArraysInv
<1>2. /\ stream \in Texts
      /\ buffer \in Seq(Characters) /\ Len(buffer) = PARSER_BUFFER_SIZE
      /\ key_value \in Seq(Characters) /\ Len(key_value) = PARSER_BUFFER_SIZE
      /\ PARSER_BUFFER_SIZE \in Nat /\ PARSER_BUFFER_SIZE > 1
      /\ size \in -1..PARSER_BUFFER_SIZE /\ i \in 0..PARSER_BUFFER_SIZE
      /\ j \in 0..(PARSER_BUFFER_SIZE - 1) /\ offset \in -1..(PARSER_BUFFER_SIZE + 1)
    BY <1>1, SizeIs DEF ScanInv, ArraysInv, ScannerTypeOK
<1>3. /\ Terminated \in Seq(Characters) /\ Len(Terminated) = PARSER_BUFFER_SIZE
      /\ j + 1 \in 1..PARSER_BUFFER_SIZE
    BY <1>1, TerminatedArray
<1>4. UNCHANGED << stream, buffer, size, offset >>
    BY DEF Flush, ScanColon, ScanValueEnd, ScanOtherLine, ScanCharacter, Push, serverVars, pieceVars
<1>5. key_value' \in Seq(Characters) /\ Len(key_value') = PARSER_BUFFER_SIZE
  <2>1. CASE Flush
    <3>1. key_value' = [Terminated EXCEPT ![1] = NUL]
        BY <2>1 DEF Flush
    <3>2. 1 \in 1..Len(Terminated) /\ NUL \in Characters
        BY <1>2, <1>3 DEF Characters
    <3> QED
        BY <1>3, <3>1, <3>2, WrittenArray
  <2>2. CASE ScanCharacter
    <3>1. key_value' = [Terminated EXCEPT ![j + 1] = Character] /\ pc = "scan"
        BY <2>2 DEF ScanCharacter, Scanning
    <3>2. j + 1 \in 1..Len(Terminated) /\ Character \in Characters
        BY <1>3, <3>1, CharacterIs
    <3> QED
        BY <1>3, <3>1, <3>2, WrittenArray
  <2>3. CASE ScanColon \/ ScanValueEnd \/ ScanOtherLine
      BY <1>3, <2>3 DEF ScanColon, ScanValueEnd, ScanOtherLine
  <2>4. CASE Push
      BY <1>2, <2>4 DEF Push
  <2> QED
      BY <2>1, <2>2, <2>3, <2>4
<1>6. j' \in 0..(PARSER_BUFFER_SIZE - 1)
  <2>1. CASE ScanCharacter
    <3>1. j' = j + 1 /\ j # PARSER_BUFFER_SIZE - 1
        BY <2>1 DEF ScanCharacter, TextIsFull
    <3> QED
        BY <1>2, <3>1
  <2>2. j' = 0 \/ j' = j \/ ScanCharacter
      BY DEF Flush, ScanColon, ScanValueEnd, ScanOtherLine, Push
  <2> QED
      BY <1>2, <2>1, <2>2
<1>7. i' \in 0..PARSER_BUFFER_SIZE /\ i' <= size /\ (pc' = "push" => i' < size)
  <2>1. \/ i' = i
        \/ i' = i + 1 /\ pc' = "scan"
      BY DEF Flush, ScanColon, ScanValueEnd, ScanOtherLine, ScanCharacter, Push, Scanning
  <2> QED
      BY <1>1, <1>2, <2>1
<1>8. ScannerTypeOK'
    BY <1>2, <1>4, <1>5, <1>6, <1>7 DEF ScannerTypeOK
<1> QED
    BY <1>2, <1>4, <1>5, <1>7, <1>8 DEF ArraysInv

LEMMA EndsKeepScanner == ScanInv /\ (EndPiece \/ Finish) => ScannerTypeOK' /\ ArraysInv'
<1> SUFFICES ASSUME ScanInv, EndPiece \/ Finish PROVE ScannerTypeOK' /\ ArraysInv'
    OBVIOUS
<1>1. UNCHANGED << stream, buffer, size, i, key_value, j >>
    BY DEF EndPiece, Finish, serverVars, pieceVars, textVars
<1>2. /\ i \in 0..PARSER_BUFFER_SIZE /\ offset \in -1..(PARSER_BUFFER_SIZE + 1)
      /\ offset' = offset \/ offset' = i + 1
    BY DEF EndPiece, Finish, pieceVars, ScanInv, ScannerTypeOK
<1>3. offset' \in -1..(PARSER_BUFFER_SIZE + 1)
    BY <1>2, SizeIs
<1>4. pc \in {"scan", "finish"} /\ pc' \in {"read", "finish", "refused", "accepted"}
    BY DEF EndPiece, Finish
<1>5. ScannerTypeOK'
    BY <1>1, <1>3 DEF ScanInv, ScannerTypeOK
<1> QED
    BY <1>1, <1>4, <1>5 DEF ScanInv, ArraysInv

LEMMA ScanInvStep == ScanInv /\ [Next]_vars => ScanInv'
<1> SUFFICES ASSUME ScanInv, [Next]_vars PROVE ScanInv'
    OBVIOUS
<1>1. RequestTypeOK'
    BY RequestTypeStep DEF ScanInv
<1>2. CASE UNCHANGED scanVars /\ (pc' = pc \/ pc' \notin {"read", "scan", "push", "finish"})
  <2>1. UNCHANGED << stream, buffer, size, i, key_value, j, offset >>
      BY <1>2 DEF scanVars, serverVars, pieceVars, textVars
  <2>2. ScannerTypeOK'
      BY <2>1 DEF ScanInv, ScannerTypeOK
  <2> QED
      BY <1>1, <1>2, <2>1, <2>2 DEF ScanInv, ArraysInv
<1>3. CASE Connect \/ Parse
    BY <1>1, <1>3, ConnectKeepsScanner, ReadKeepsScanner, ScanKeepsScanner, EndsKeepScanner
    DEF Parse, ParseStep, ScanInv
<1>4. \/ UNCHANGED scanVars /\ (pc' = pc \/ pc' \notin {"read", "scan", "push", "finish"})
      \/ Connect \/ Parse
    BY DEF Next, NoConnection, ConnectFails, GiveUp, UseFraming, Follow, FollowNowhere,
       ReturnHandler, TryGet, GotNothing, DropHandler, UseHandler, vars
<1> QED
    BY <1>2, <1>3, <1>4

(* For every size of the arrays and everything servers send, in pieces of  *)
(* any size, the scanner indexes its two arrays inside their bounds, the   *)
(* look behind a piece included (requests.c:324-410), and redirections     *)
(* lead to urls only (requests.c:288-296).                                 *)
THEOREM RequestsStayTyped == Spec => []TypeOK
<1>1. IInv /\ ScanInv => TypeOK
    BY DEF IInv, ScanInv, ScannerTypeOK, RequestTypeOK, TypeOK
<1> QED
    BY <1>1, InitAccounted, NextAccounted, ScanInvInit, ScanInvStep, PTL DEF Spec

-----------------------------------------------------------------------------
(* Functions defined by recursion *)

\* H[k] makes one more element of S out of one; f is what comes of it, from x on.
StaysIn(S, N, H) == \A k \in 1..N : \A y \in S : H[k][y] \in S
StartsAt(x, S, N, H, f) == /\ \A k \in 0..N : f[k] \in S
                           /\ f[0] = x /\ \A k \in 1..N : f[k] = H[k][f[k - 1]]

LEMMA RecursionExists ==
    ASSUME NEW S, NEW x \in S, NEW N \in Nat, NEW H, StaysIn(S, N, H)
    PROVE  \E f : StartsAt(x, S, N, H, f)
<1> DEFINE Goes(n) == \E f : StartsAt(x, S, n, H, f)
           T == { n \in 0..N : ~Goes(n) }
<1>1. SUFFICES ASSUME T # {} PROVE FALSE
  <2>1. ASSUME T = {} PROVE Goes(N)
    <3>1. N \in 0..N
        OBVIOUS
    <3> QED
        BY <2>1, <3>1
  <2> QED
      BY <2>1
<1>2. PICK m \in T : \A n \in T : m <= n
  <2>1. T \in SUBSET Nat
      OBVIOUS
  <2> HIDE DEF T
  <2> QED
      BY <1>1, <2>1, LeastNumber
<1>3. m \in 0..N /\ ~Goes(m)
    OBVIOUS
<1>4. CASE m = 0
  <2> DEFINE f == [k \in 0..0 |-> x]
  <2>1. (\A k \in 0..0 : f[k] \in S) /\ f[0] = x /\ \A k \in 1..0 : f[k] = H[k][f[k - 1]]
      OBVIOUS
  <2>2. Goes(0)
    <3>1. StartsAt(x, S, 0, H, f)
      <4> HIDE DEF f
      <4> QED
          BY <2>1 DEF StartsAt
    <3> QED
        BY <3>1
  <2> QED
      BY <1>3, <1>4, <2>2
<1>5. CASE m # 0
  <2>1. m - 1 \in 0..N /\ m - 1 < m /\ m \in 1..N
      BY <1>3, <1>5
  <2>2. m - 1 \notin T
    <3>1. ~(m <= m - 1)
        BY <2>1
    <3> HIDE DEF T
    <3> QED
        BY <1>2, <3>1
  <2>3. Goes(m - 1)
      BY <2>1, <2>2
  <2>3a. PICK g : StartsAt(x, S, m - 1, H, g)
      BY <2>3
  <2>4. /\ \A k \in 0..(m - 1) : g[k] \in S
        /\ g[0] = x /\ \A k \in 1..(m - 1) : g[k] = H[k][g[k - 1]]
      BY <2>3a DEF StartsAt
  <2> DEFINE f == [k \in 0..m |-> IF k = m THEN H[m][g[m - 1]] ELSE g[k]]
  <2>5. g[m - 1] \in S
      BY <2>1, <2>4
  <2>7. H[m][g[m - 1]] \in S
      BY <2>1, <2>5 DEF StaysIn
  <2>8. ASSUME NEW k \in 0..m, k # m PROVE k \in 0..(m - 1) /\ g[k] \in S /\ f[k] = g[k]
    <3>1. k \in 0..(m - 1)
        BY <2>1, <2>8
    <3> QED
        BY <3>1, <2>4, <2>8
  <2>9. \A k \in 0..m : f[k] \in S
      BY <2>7, <2>8
  <2>10. f[0] = x
      BY <2>1, <2>4, <2>8, <1>5
  <2>11. ASSUME NEW k \in 1..m PROVE f[k] = H[k][f[k - 1]]
    <3>1. k - 1 \in 0..m /\ k - 1 # m /\ k \in 0..m
        BY <2>1
    <3>2. f[k - 1] = g[k - 1]
        BY <3>1, <2>8
    <3>3. CASE k = m
        BY <3>2, <3>3, <3>1
    <3>4. CASE k # m
      <4>1. f[k] = g[k] /\ k \in 1..(m - 1)
          BY <2>1, <2>8, <3>1, <3>4
      <4> QED
          BY <4>1, <3>2, <2>4
    <3> QED
        BY <3>3, <3>4
  <2>12. Goes(m)
    <3> HIDE DEF f
    <3>1. StartsAt(x, S, m, H, f)
        BY <2>9, <2>10, <2>11 DEF StartsAt
    <3> QED
        BY <3>1
  <2> QED
      BY <1>3, <2>12
<1> QED
    BY <1>4, <1>5

\* FlattenSeq is the last of the sequences it builds from the first one on.
LEMMA FlattenSteps ==
    ASSUME NEW B, NEW s \in Seq(Seq(B)), s # << >>
    PROVE  \E f :
              /\ \A k \in 1..Len(s) : f[k] \in Seq(B)
              /\ FlattenSeq(s) = f[Len(s)] /\ f[1] = s[1]
              /\ \A k \in 2..Len(s) : f[k] = f[k - 1] \o s[k]
<1> DEFINE count == Len(s)
           Lists == Seq(B)
           Longer == [k \in 1..count |-> [x \in Lists |-> IF k = 1 THEN s[1] ELSE x \o s[k]]]
           Rule(f) == f = [k \in 1..count |-> IF k = 1 THEN s[k] ELSE f[k - 1] \o s[k]]
<1>1. count \in Nat /\ count # 0 /\ \A k \in 1..count : s[k] \in Lists
    OBVIOUS
<1>2. StaysIn(Lists, count, Longer)
  <2>1. ASSUME NEW k \in 1..count, NEW y \in Lists
        PROVE  (IF k = 1 THEN s[1] ELSE y \o s[k]) \in Lists
      BY <1>1, <2>1
  <2> HIDE DEF Lists, count
  <2> QED
      BY <2>1 DEF StaysIn
<1>3. << >> \in Lists
    OBVIOUS
<1>4. PICK g : StartsAt(<< >>, Lists, count, Longer, g)
  <2>1. count \in Nat
      OBVIOUS
  <2> HIDE DEF Longer, Lists, count
  <2> QED
      BY <2>1, <1>2, <1>3, RecursionExists
<1>5. ASSUME NEW k \in 1..count
      PROVE  g[k] \in Lists /\ g[k] = IF k = 1 THEN s[1] ELSE g[k - 1] \o s[k]
  <2>1. k - 1 \in 0..count /\ k \in 0..count
      BY <1>1
  <2>2. g[k - 1] \in Lists
      BY <2>1, <1>4 DEF StartsAt
  <2>3. Longer[k][g[k - 1]] = IF k = 1 THEN s[1] ELSE g[k - 1] \o s[k]
    <3> HIDE DEF Lists, count
    <3> QED
        BY <2>2 DEF Longer
  <2>4. g[k] \in Lists /\ g[k] = Longer[k][g[k - 1]]
    <3> HIDE DEF Longer, Lists, count
    <3> QED
        BY <1>4, <2>1 DEF StartsAt
  <2> QED
      BY <2>3, <2>4
<1> DEFINE h == [k \in 1..count |-> g[k]]
<1>6. Rule(h)
  <2>1. ASSUME NEW k \in 1..count PROVE h[k] = IF k = 1 THEN s[k] ELSE h[k - 1] \o s[k]
    <3>1. k # 1 => k - 1 \in 1..count
        BY <1>1
    <3> QED
        BY <3>1, <1>5
  <2> QED
      BY <2>1
<1> DEFINE f == CHOOSE f : Rule(f)
<1>7. Rule(f)
  <2> HIDE DEF h, Rule
  <2> QED
      BY <1>6
<1>8. FlattenSeq(s) = f[count]
    BY <1>1 DEF FlattenSeq
<1> HIDE DEF f
<1>9. f[1] = s[1] /\ \A k \in 2..count : f[k] = f[k - 1] \o s[k]
  <2>1. \A k \in 1..count : f[k] = IF k = 1 THEN s[k] ELSE f[k - 1] \o s[k]
    <3> HIDE DEF count
    <3> QED
        BY <1>7
  <2>2. 1 \in 1..count /\ \A k \in 2..count : k \in 1..count /\ k # 1
      BY <1>1
  <2> HIDE DEF count
  <2> QED
      BY <2>1, <2>2
<1>10. ASSUME NEW k \in 1..count PROVE f[k] \in Lists
  <2> DEFINE T == { l \in 1..count : f[l] \notin Lists }
  <2>1. SUFFICES ASSUME T # {} PROVE FALSE
      BY <1>10
  <2>2. PICK m \in T : \A l \in T : m <= l
    <3>1. T \in SUBSET Nat
        OBVIOUS
    <3> HIDE DEF T
    <3> QED
        BY <3>1, <2>1, LeastNumber
  <2>3. m \in 1..count /\ f[m] \notin Lists
      OBVIOUS
  <2>4. m # 1
      BY <1>1, <1>9, <2>3
  <2>5. m - 1 \in 1..count /\ m \in 2..count /\ m - 1 < m
      BY <2>3, <2>4
  <2>6. f[m - 1] \in Lists
      BY <2>2, <2>5
  <2>7. f[m] = f[m - 1] \o s[m] /\ s[m] \in Lists
      BY <1>1, <1>9, <2>5
  <2>8. f[m - 1] \o s[m] \in Lists
      BY <2>6, <2>7, ConcatProperties
  <2> QED
      BY <2>3, <2>7, <2>8
<1>11. \A k \in 1..count : f[k] \in Lists
    BY <1>10
<1> QED
    BY <1>8, <1>9, <1>11


\* At the back.
LEMMA FlattenMore ==
    ASSUME NEW B, NEW s \in Seq(Seq(B)), NEW x \in Seq(B)
    PROVE  /\ FlattenSeq(s) \in Seq(B)
           /\ FlattenSeq(Append(s, x)) = FlattenSeq(s) \o x
<1> DEFINE t == Append(s, x)
           count == Len(s)
<1>1. t \in Seq(Seq(B)) /\ Len(t) = count + 1 /\ count \in Nat /\ t # << >>
  <2>1. t \in Seq(Seq(B)) /\ Len(t) = count + 1 /\ count \in Nat
      BY AppendProperties
  <2>2. Len(t) # 0
      BY <2>1
  <2> HIDE DEF t
  <2> QED
      BY <2>1, <2>2, EmptySeq
<1>2. t[count + 1] = x /\ \A k \in 1..count : t[k] = s[k]
    BY AppendProperties
<1> HIDE DEF t, count
<1>3. PICK f : /\ \A k \in 1..Len(t) : f[k] \in Seq(B)
               /\ FlattenSeq(t) = f[Len(t)] /\ f[1] = t[1]
               /\ \A k \in 2..Len(t) : f[k] = f[k - 1] \o t[k]
    BY <1>1, FlattenSteps
<1>4. CASE s = << >>
  <2>1. count = 0
      BY <1>4 DEF count
  <2>2. FlattenSeq(t) = x
      BY <1>1, <1>2, <1>3, <2>1
  <2>3. FlattenSeq(s) = << >>
      BY <1>4 DEF FlattenSeq
  <2>4. << >> \o x = x /\ << >> \in Seq(B)
      OBVIOUS
  <2> QED
      BY <2>2, <2>3, <2>4 DEF t
<1>5. CASE s # << >>
  <2>1. PICK g : /\ \A k \in 1..Len(s) : g[k] \in Seq(B)
                 /\ FlattenSeq(s) = g[Len(s)] /\ g[1] = s[1]
                 /\ \A k \in 2..Len(s) : g[k] = g[k - 1] \o s[k]
      BY <1>5, FlattenSteps
  <2>2. count # 0
      BY <1>5, EmptySeq DEF count
  <2> DEFINE D == { k \in 1..count : f[k] # g[k] }
  <2>3. D = {}
    <3> SUFFICES ASSUME D # {} PROVE FALSE
        OBVIOUS
    <3>1. PICK m \in D : \A k \in D : m <= k
      <4>1. D \in SUBSET Nat
          BY <1>1
      <4> HIDE DEF D
      <4> QED
          BY <4>1, LeastNumber
    <3>2. m \in 1..count /\ f[m] # g[m]
        OBVIOUS
    <3>3. m # 1
        BY <1>2, <1>3, <2>1, <3>2
    <3>4. m - 1 \in 1..count /\ m \in 2..count /\ m - 1 < m
        BY <1>1, <3>2, <3>3
    <3>5. m - 1 \notin D
        BY <3>1, <3>4
    <3>6. f[m - 1] = g[m - 1]
        BY <3>4, <3>5
    <3>7. f[m] = f[m - 1] \o t[m]
      <4>1. m \in 2..Len(t)
          BY <1>1, <3>4
      <4> HIDE DEF D
      <4> QED
          BY <1>3, <4>1
    <3>8. g[m] = g[m - 1] \o s[m]
        BY <2>1, <3>4 DEF count
    <3>9. t[m] = s[m]
        BY <1>2, <3>2
    <3> QED
        BY <3>2, <3>6, <3>7, <3>8, <3>9
  <2>4. count \in 1..count /\ count + 1 \in 2..Len(t) /\ (count + 1) - 1 = count
      BY <1>1, <2>2
  <2>5. f[count] = g[count]
      BY <2>3, <2>4
  <2>6. f[count + 1] = f[count] \o x
      BY <1>2, <1>3, <2>4
  <2>7. FlattenSeq(s) = g[count] /\ g[count] \in Seq(B)
      BY <2>1, <2>4 DEF count
  <2>8. FlattenSeq(t) = f[count + 1]
      BY <1>1, <1>3
  <2> QED
      BY <2>5, <2>6, <2>7, <2>8 DEF t
<1> QED
    BY <1>4, <1>5

-----------------------------------------------------------------------------
(* The lines of a header *)

Symbols == DOMAIN Lower \union {HTTP, CR, LF, SP, COLON}

LEMMA JoinedAt ==
    ASSUME NEW B, NEW s \in Seq(B), NEW t \in Seq(B), NEW u, u = s \o t
    PROVE  /\ u \in Seq(B) /\ Len(u) = Len(s) + Len(t)
           /\ \A k \in 1..Len(s) : u[k] = s[k]
           /\ \A k \in 1..Len(t) : u[Len(s) + k] = t[k]
OBVIOUS

\* One line of a header, with the colon behind its name.
OneLine(l, colon) ==
    /\ l \in Seq(Symbols) /\ colon \in 2..(Len(l) - 1) /\ l[colon] = COLON
    /\ l[1] \notin Below0 \union {COLON}
    /\ l[Len(l)] = LF /\ \A p \in 1..(Len(l) - 1) : l[p] # LF

GoodLine(line) ==
    /\ line.name \in Texts /\ line.value \in Texts
    /\ LF \notin ToSet(line.name) \union ToSet(line.value)
    /\ line.name # << >> /\ line.name[1] \notin Below0 \union {COLON}

LEMMA HeaderLineIsOneLine ==
    ASSUME NEW line, GoodLine(line)
    PROVE  OneLine(HeaderLine(line), Len(line.name) + 1)
<1> DEFINE a == line.name
           b == << COLON, SP >>
           c == line.value
           d == << CR, LF >>
           ab == a \o b
           abc == ab \o c
           l == abc \o d
<1>1. a \in Seq(Symbols) /\ b \in Seq(Symbols) /\ c \in Seq(Symbols) /\ d \in Seq(Symbols)
    BY DEF GoodLine, Texts, Symbols
<1>2. Len(a) \in Nat /\ Len(c) \in Nat /\ Len(b) = 2 /\ Len(d) = 2 /\ Len(a) # 0
    BY <1>1, EmptySeq DEF GoodLine
<1>3. /\ b[1] = COLON /\ b[2] = SP /\ d[1] = CR /\ d[2] = LF
    OBVIOUS
<1>4. /\ \A k \in 1..Len(a) : a[k] # LF
      /\ \A k \in 1..Len(c) : c[k] # LF
  <2>1. \A k \in 1..Len(a) : a[k] \in ToSet(a)
      BY <1>1 DEF ToSet
  <2>2. \A k \in 1..Len(c) : c[k] \in ToSet(c)
      BY <1>1 DEF ToSet
  <2>3. LF \notin ToSet(a) /\ LF \notin ToSet(c)
      BY DEF GoodLine
  <2> QED
      BY <2>1, <2>2, <2>3
<1>5. a[1] \notin Below0 \union {COLON}
    BY DEF GoodLine
<1>6. HeaderLine(line) = l
    BY DEF HeaderLine
<1>6a. ab = a \o b /\ abc = ab \o c /\ l = abc \o d
    OBVIOUS
<1> HIDE DEF a, b, c, d, ab, abc, l
<1>7. /\ ab \in Seq(Symbols) /\ Len(ab) = Len(a) + 2
      /\ \A k \in 1..Len(a) : ab[k] = a[k]
      /\ ab[Len(a) + 1] = COLON /\ ab[Len(a) + 2] = SP
  <2>1. /\ ab \in Seq(Symbols) /\ Len(ab) = Len(a) + Len(b)
        /\ \A k \in 1..Len(a) : ab[k] = a[k]
        /\ \A k \in 1..Len(b) : ab[Len(a) + k] = b[k]
      BY <1>1, <1>6a, JoinedAt
  <2> QED
      BY <1>2, <1>3, <2>1
<1>8. /\ abc \in Seq(Symbols) /\ Len(abc) = Len(ab) + Len(c)
      /\ \A k \in 1..Len(ab) : abc[k] = ab[k]
      /\ \A k \in 1..Len(c) : abc[Len(ab) + k] = c[k]
  <2>1. ab \in Seq(Symbols) /\ c \in Seq(Symbols) /\ abc = ab \o c
      BY <1>1, <1>6a, <1>7
  <2> QED
      BY <2>1, JoinedAt
<1>9. /\ l \in Seq(Symbols) /\ Len(l) = Len(abc) + Len(d)
      /\ \A k \in 1..Len(abc) : l[k] = abc[k]
      /\ \A k \in 1..Len(d) : l[Len(abc) + k] = d[k]
  <2>1. abc \in Seq(Symbols) /\ d \in Seq(Symbols) /\ l = abc \o d
      BY <1>1, <1>6a, <1>8
  <2> QED
      BY <2>1, JoinedAt
<1>10. Len(l) = Len(a) + Len(c) + 4 /\ l[Len(l)] = LF /\ l[Len(l) - 1] = CR
  <2>1. Len(l) = Len(a) + Len(c) + 4 /\ Len(abc) = Len(l) - 2
      BY <1>2, <1>7, <1>8, <1>9
  <2>2. l[Len(abc) + 1] = CR /\ l[Len(abc) + 2] = LF
      BY <1>2, <1>3, <1>9
  <2>3. Len(abc) + 1 = Len(l) - 1 /\ Len(abc) + 2 = Len(l)
      BY <1>2, <2>1
  <2> QED
      BY <2>1, <2>2, <2>3
<1>11. l[Len(a) + 1] = COLON /\ l[1] = a[1]
  <2>1. Len(a) + 1 \in 1..Len(ab) /\ Len(a) + 1 \in 1..Len(abc) /\ 1 \in 1..Len(a)
        /\ 1 \in 1..Len(ab) /\ 1 \in 1..Len(abc)
      BY <1>2, <1>7, <1>8
  <2> QED
      BY <1>7, <1>8, <1>9, <2>1
<1>12. ASSUME NEW p \in 1..(Len(l) - 1) PROVE l[p] # LF
  <2>0. COLON # LF /\ SP # LF /\ CR # LF
      BY DEF COLON, SP, CR, LF
  <2>1. CASE p = Len(l) - 1
      BY <1>10, <2>0, <2>1
  <2>2. CASE p \in 1..Len(a)
    <3>1. p \in 1..Len(ab) /\ p \in 1..Len(abc)
        BY <1>2, <1>7, <1>8, <2>2
    <3> QED
        BY <1>4, <1>7, <1>8, <1>9, <2>2, <3>1
  <2>3. CASE p = Len(a) + 1 \/ p = Len(a) + 2
    <3>1. p \in 1..Len(ab) /\ p \in 1..Len(abc)
        BY <1>2, <1>7, <1>8, <2>3
    <3> QED
        BY <1>7, <1>8, <1>9, <2>0, <2>3, <3>1
  <2>4. CASE p - Len(ab) \in 1..Len(c)
    <3>1. p \in 1..Len(abc) /\ Len(ab) + (p - Len(ab)) = p
        BY <1>2, <1>7, <1>8, <2>4
    <3>2. l[p] = abc[p] /\ abc[p] = c[p - Len(ab)]
        BY <1>8, <1>9, <2>4, <3>1
    <3> QED
        BY <1>4, <2>4, <3>2
  <2>5. \/ p = Len(l) - 1 \/ p \in 1..Len(a) \/ p = Len(a) + 1 \/ p = Len(a) + 2
        \/ p - Len(ab) \in 1..Len(c)
      BY <1>2, <1>7, <1>10
  <2> QED
      BY <2>1, <2>2, <2>3, <2>4, <2>5
<1>13. Len(a) + 1 \in 2..(Len(l) - 1)
    BY <1>2, <1>10
<1>14. OneLine(l, Len(a) + 1)
    BY <1>5, <1>9, <1>10, <1>11, <1>12, <1>13 DEF OneLine
<1> QED
    BY <1>6, <1>14 DEF a

\* The header up to its k-th line, without the blank line.
Through(r, k) == StatusLine(r.status) \o FlattenSeq([m \in 1..k |-> HeaderLine(r.lines[m])])
LineEnds(r) == { Len(Through(r, k)) : k \in 0..Len(r.lines) }

WellFormed(r) ==
    /\ r = [status |-> r.status, lines |-> r.lines, body |-> r.body]
    /\ r.status \in DOMAIN Lower /\ r.status # LF /\ r.body \in Texts
    /\ \E S : r.lines \in Seq(S)
    /\ \A k \in 1..Len(r.lines) : GoodLine(r.lines[k])

LEMMA ThroughStep ==
    ASSUME NEW r, WellFormed(r), NEW k \in 0..Len(r.lines)
    PROVE  /\ Through(r, k) \in Seq(Symbols)
           /\ k # Len(r.lines) => Through(r, k + 1) = Through(r, k) \o HeaderLine(r.lines[k + 1])
<1> DEFINE Lines(m) == [x \in 1..m |-> HeaderLine(r.lines[x])]
           first == StatusLine(r.status)
<1>1. Len(r.lines) \in Nat
    BY DEF WellFormed
<1>2. \A x \in 1..Len(r.lines) : HeaderLine(r.lines[x]) \in Seq(Symbols)
    BY HeaderLineIsOneLine DEF WellFormed, OneLine
<1>3. \A m \in 0..Len(r.lines) : Lines(m) \in Seq(Seq(Symbols))
  <2> TAKE m \in 0..Len(r.lines)
  <2>1. \A x \in 1..m : HeaderLine(r.lines[x]) \in Seq(Symbols)
      BY <1>1, <1>2
  <2>2. m \in Nat
      BY <1>1
  <2> HIDE DEF Symbols
  <2> QED
      BY <2>1, <2>2
<1>4. first \in Seq(Symbols)
    BY DEF StatusLine, Symbols, WellFormed
<1>5. << >> \in Seq(Symbols)
    OBVIOUS
<1>6. FlattenSeq(Lines(k)) \in Seq(Symbols)
    BY <1>3, <1>5, FlattenMore
<1>7. Through(r, k) = first \o FlattenSeq(Lines(k)) /\ Through(r, k) \in Seq(Symbols)
  <2>1. Through(r, k) = first \o FlattenSeq(Lines(k))
      BY DEF Through
  <2> HIDE DEF first, Lines
  <2> QED
      BY <1>4, <1>6, <2>1, ConcatProperties
<1>8. ASSUME k # Len(r.lines)
      PROVE Through(r, k + 1) = Through(r, k) \o HeaderLine(r.lines[k + 1])
  <2> DEFINE l == HeaderLine(r.lines[k + 1])
  <2>1. k + 1 \in 1..Len(r.lines) /\ k \in Nat
      BY <1>1, <1>8
  <2>2. l \in Seq(Symbols)
      BY <1>2, <2>1
  <2>3. Lines(k + 1) = Append(Lines(k), l)
    <3>1. Len(Lines(k)) = k /\ DOMAIN Lines(k + 1) = 1..(k + 1)
        BY <2>1
    <3>2. /\ Append(Lines(k), l) = [x \in 1..(k + 1) |-> IF x = k + 1 THEN l ELSE Lines(k)[x]]
      <4> HIDE DEF l
      <4> QED
          BY <3>1 DEF Append
    <3>3. \A x \in 1..(k + 1) : (IF x = k + 1 THEN l ELSE Lines(k)[x]) = HeaderLine(r.lines[x])
      <4> TAKE x \in 1..(k + 1)
      <4>1. x # k + 1 => x \in 1..k
          BY <2>1
      <4> QED
          BY <4>1
    <3> HIDE DEF l
    <3> QED
        BY <3>2, <3>3
  <2>4. Lines(k) \in Seq(Seq(Symbols))
      BY <1>3
  <2>5. Through(r, k + 1) = first \o FlattenSeq(Lines(k + 1))
      BY DEF Through
  <2> HIDE DEF first, Lines, l
  <2>6. FlattenSeq(Lines(k + 1)) = FlattenSeq(Lines(k)) \o l
      BY <2>2, <2>3, <2>4, FlattenMore
  <2>7. first \o (FlattenSeq(Lines(k)) \o l) = (first \o FlattenSeq(Lines(k))) \o l
      BY <1>4, <1>6, <2>2, ConcatAssociative, SMTT(30)
  <2> QED
      BY <1>7, <2>5, <2>6, <2>7 DEF l
<1> QED
    BY <1>7, <1>8

LEMMA ThroughFirst ==
    ASSUME NEW r, WellFormed(r)
    PROVE  /\ Through(r, 0) = StatusLine(r.status)
           /\ Len(Through(r, 0)) = 4 /\ Through(r, 0)[4] = LF
           /\ \A p \in 1..3 : Through(r, 0)[p] # LF
<1>1. [x \in 1..0 |-> HeaderLine(r.lines[x])] = << >>
    OBVIOUS
<1>2. FlattenSeq(<< >>) = << >>
    BY DEF FlattenSeq
<1>3. StatusLine(r.status) \in Seq(Symbols)
    BY DEF StatusLine, Symbols, WellFormed
<1>4. Through(r, 0) = StatusLine(r.status)
  <2>1. Through(r, 0) = StatusLine(r.status) \o << >>
      BY <1>1, <1>2 DEF Through
  <2> QED
      BY <1>3, <2>1
<1>5. StatusLine(r.status) = << HTTP, r.status, CR, LF >>
    BY DEF StatusLine
<1>6. HTTP # LF /\ CR # LF /\ r.status # LF
    BY DEF HTTP, CR, LF, WellFormed
<1> HIDE DEF Through
<1> QED
    BY <1>4, <1>5, <1>6

\* A text that ends with a line end; E are the places where its lines end.
Ending(t, E) ==
    /\ t \in Seq(Symbols) /\ Len(t) > 0 /\ t[Len(t)] = LF
    /\ \A p \in 1..Len(t) : t[p] = LF => p \in E
    /\ \A p \in 1..(Len(t) - 1) : t[p] = LF => t[p + 1] \notin Below0 \union {COLON}

LEMMA EndingGrows ==
    ASSUME NEW t, NEW E, Ending(t, E), NEW l, NEW c, OneLine(l, c), NEW u, u = t \o l, Len(u) \in E
    PROVE  Ending(u, E) /\ Len(t) < Len(u) /\ \A p \in 1..Len(t) : u[p] = t[p]
<1>1. t \in Seq(Symbols) /\ l \in Seq(Symbols)
    BY DEF Ending, OneLine
<1>2. /\ u \in Seq(Symbols) /\ Len(u) = Len(t) + Len(l)
      /\ \A p \in 1..Len(t) : u[p] = t[p]
      /\ \A p \in 1..Len(l) : u[Len(t) + p] = l[p]
    BY <1>1, JoinedAt
<1>3. Len(t) \in Nat /\ Len(l) \in Nat /\ Len(t) > 0 /\ Len(l) > 0
    BY <1>1 DEF Ending, OneLine
<1>4. u[Len(u)] = LF
    BY <1>2, <1>3 DEF OneLine
<1>5. ASSUME NEW p \in 1..Len(u), u[p] = LF PROVE p \in E
  <2>1. CASE p \in 1..Len(t)
      BY <1>2, <1>5, <2>1 DEF Ending
  <2>2. CASE p \in (Len(t) + 1)..(Len(u) - 1)
    <3>1. p - Len(t) \in 1..(Len(l) - 1) /\ p - Len(t) \in 1..Len(l) /\ Len(t) + (p - Len(t)) = p
        BY <1>2, <1>3, <2>2
    <3>2. u[p] = l[p - Len(t)]
        BY <1>2, <3>1
    <3> QED
        BY <1>5, <3>1, <3>2 DEF OneLine
  <2>3. \/ p \in 1..Len(t) \/ p \in (Len(t) + 1)..(Len(u) - 1) \/ p = Len(u)
    <3>1. PICK a, b \in Nat : a = Len(t) /\ b = Len(l)
        BY <1>3
    <3>2. p \in 1..(a + b)
        BY <1>2, <3>1
    <3>3. p \in 1..a \/ p \in (a + 1)..(a + b - 1) \/ p = a + b
        BY <3>2
    <3> QED
        BY <1>2, <3>1, <3>3
  <2> QED
      BY <2>1, <2>2, <2>3
<1>6. ASSUME NEW p \in 1..(Len(u) - 1), u[p] = LF PROVE u[p + 1] \notin Below0 \union {COLON}
  <2>1. CASE p \in 1..(Len(t) - 1)
    <3>1. u[p] = t[p] /\ u[p + 1] = t[p + 1]
        BY <1>2, <1>3, <2>1
    <3> QED
        BY <1>6, <2>1, <3>1 DEF Ending
  <2>2. CASE p = Len(t)
    <3>1. u[p + 1] = l[1]
        BY <1>2, <1>3, <2>2
    <3> QED
        BY <3>1 DEF OneLine
  <2>3. CASE p \in (Len(t) + 1)..(Len(u) - 1)
    <3>1. p - Len(t) \in 1..(Len(l) - 1) /\ p - Len(t) \in 1..Len(l) /\ Len(t) + (p - Len(t)) = p
        BY <1>2, <1>3, <2>3
    <3>2. u[p] = l[p - Len(t)]
        BY <1>2, <3>1
    <3> QED
        BY <1>6, <3>1, <3>2 DEF OneLine
  <2> QED
      BY <1>2, <1>3, <2>1, <2>2, <2>3
<1>7. Len(u) > 0 /\ Len(t) < Len(u)
    BY <1>2, <1>3
<1> QED
    BY <1>2, <1>4, <1>5, <1>6, <1>7 DEF Ending

LEMMA ThroughEnds ==
    ASSUME NEW r, WellFormed(r), NEW k \in 0..Len(r.lines)
    PROVE  Ending(Through(r, k), LineEnds(r))
<1> DEFINE D == { m \in 0..Len(r.lines) : ~Ending(Through(r, m), LineEnds(r)) }
<1>1. SUFFICES ASSUME D # {} PROVE FALSE
    OBVIOUS
<1>2. Len(r.lines) \in Nat
    BY DEF WellFormed
<1>3. PICK m \in D : \A x \in D : m <= x
  <2>1. D \in SUBSET Nat
      BY <1>2
  <2> HIDE DEF D
  <2> QED
      BY <1>1, <2>1, LeastNumber
<1>4. m \in 0..Len(r.lines) /\ ~Ending(Through(r, m), LineEnds(r))
    OBVIOUS
<1>5. \A x \in 0..Len(r.lines) : Len(Through(r, x)) \in LineEnds(r)
    BY DEF LineEnds
<1>6. CASE m = 0
  <2> DEFINE t == Through(r, 0)
  <2>1. t \in Seq(Symbols) /\ Len(t) = 4 /\ t[4] = LF /\ \A p \in 1..3 : t[p] # LF
      BY <1>2, ThroughStep, ThroughFirst
  <2>2. 4 \in LineEnds(r)
      BY <1>5, <1>4, <1>6, <2>1
  <2> HIDE DEF t
  <2>3. Ending(t, LineEnds(r))
      BY <2>1, <2>2 DEF Ending
  <2> QED
      BY <1>4, <1>6, <2>3 DEF t
<1>7. CASE m # 0
  <2>1. m - 1 \in 0..Len(r.lines) /\ m - 1 < m /\ m - 1 # Len(r.lines) /\ (m - 1) + 1 = m
        /\ m \in 1..Len(r.lines)
      BY <1>2, <1>4, <1>7
  <2>2. m - 1 \notin D
      BY <1>3, <2>1
  <2>3. Ending(Through(r, m - 1), LineEnds(r))
      BY <2>1, <2>2
  <2>4. Through(r, m) = Through(r, m - 1) \o HeaderLine(r.lines[m])
      BY <2>1, ThroughStep
  <2>5. OneLine(HeaderLine(r.lines[m]), Len(r.lines[m].name) + 1)
      BY <2>1, HeaderLineIsOneLine DEF WellFormed
  <2>6. Len(Through(r, m)) \in LineEnds(r)
      BY <1>4, <1>5
  <2> QED
      BY <1>4, <2>3, <2>4, <2>5, <2>6, EndingGrows
<1> QED
    BY <1>6, <1>7

\* A later part of the header begins with an earlier one.
LEMMA ThroughGrows ==
    ASSUME NEW r, WellFormed(r), NEW a \in 0..Len(r.lines), NEW b \in a..Len(r.lines)
    PROVE  /\ Len(Through(r, a)) <= Len(Through(r, b))
           /\ \A p \in 1..Len(Through(r, a)) : Through(r, b)[p] = Through(r, a)[p]
<1> DEFINE Begins(m) == /\ Len(Through(r, a)) <= Len(Through(r, m))
                        /\ \A p \in 1..Len(Through(r, a)) : Through(r, m)[p] = Through(r, a)[p]
           D == { m \in a..Len(r.lines) : ~Begins(m) }
<1>1. SUFFICES ASSUME D # {} PROVE FALSE
    OBVIOUS
<1>2. Len(r.lines) \in Nat /\ a \in Nat
    BY DEF WellFormed
<1>2a. \A x \in 0..Len(r.lines) : Len(Through(r, x)) \in Nat
    BY ThroughStep
<1>3. PICK m \in D : \A x \in D : m <= x
  <2>1. D \in SUBSET Nat
      BY <1>2
  <2> HIDE DEF D
  <2> QED
      BY <1>1, <2>1, LeastNumber
<1>4. m \in a..Len(r.lines) /\ ~Begins(m)
    OBVIOUS
<1>5. CASE m = a
    BY <1>2a, <1>4, <1>5
<1>6. CASE m # a
  <2>1. m - 1 \in a..Len(r.lines) /\ m - 1 \in 0..Len(r.lines) /\ m - 1 < m
        /\ m - 1 # Len(r.lines) /\ (m - 1) + 1 = m /\ m \in 1..Len(r.lines)
      BY <1>2, <1>4, <1>6
  <2>2. m - 1 \notin D
      BY <1>3, <2>1
  <2>3. Begins(m - 1)
      BY <2>1, <2>2
  <2>4. Through(r, m) = Through(r, m - 1) \o HeaderLine(r.lines[m])
      BY <2>1, ThroughStep
  <2>5. OneLine(HeaderLine(r.lines[m]), Len(r.lines[m].name) + 1)
      BY <2>1, HeaderLineIsOneLine DEF WellFormed
  <2>6. Len(Through(r, m)) \in LineEnds(r)
      BY <2>1 DEF LineEnds
  <2>7. Ending(Through(r, m - 1), LineEnds(r))
      BY <2>1, ThroughEnds
  <2>8. /\ Len(Through(r, m - 1)) < Len(Through(r, m))
        /\ \A p \in 1..Len(Through(r, m - 1)) : Through(r, m)[p] = Through(r, m - 1)[p]
      BY <2>4, <2>5, <2>6, <2>7, EndingGrows
  <2>9. Len(Through(r, m)) \in Nat /\ Len(Through(r, m - 1)) \in Nat /\ Len(Through(r, a)) \in Nat
      BY <1>2a, <2>1
  <2>10. Begins(m)
      BY <2>3, <2>8, <2>9
  <2> QED
      BY <1>4, <2>10
<1> QED
    BY <1>5, <1>6

-----------------------------------------------------------------------------
(* The places in a header *)

\* h is a header whose lines end at E: the blank line is the only one that begins with
\* a character below '0', or with a colon.
HeaderShaped(h, E) ==
    /\ h \in Seq(Symbols) /\ Len(h) > 3
    /\ h[Len(h) - 2] = LF /\ h[Len(h) - 1] = CR /\ h[Len(h)] = LF
    /\ \A p \in 1..(Len(h) - 1) : h[p] = LF => p \in E
    /\ \A p \in 1..(Len(h) - 3) : h[p] = LF => h[p + 1] \notin Below0 \union {COLON}

\* Its first line has a colon and ends at e.
FirstLineShaped(h, colon, e) ==
    /\ colon \in 1..e /\ e \in 1..(Len(h) - 2) /\ h[colon] = COLON /\ h[e] = LF
    /\ \A p \in colon..(e - 1) : h[p] # LF

Colon(r) == Len(Through(r, 0)) + Len(r.lines[1].name) + 1

LEMMA HeaderIs ==
    ASSUME NEW r, WellFormed(r)
    PROVE  Header(r) = Through(r, Len(r.lines)) \o << CR, LF >>
<1>1. DOMAIN r.lines = 1..Len(r.lines)
    BY DEF WellFormed
<1>2. Header(r) = (StatusLine(r.status) \o FlattenSeq([k \in DOMAIN r.lines |-> HeaderLine(r.lines[k])]))
                     \o << CR, LF >>
    BY DEF Header
<1> QED
    BY <1>1, <1>2 DEF Through

LEMMA HeaderPieces ==
    ASSUME NEW r, WellFormed(r)
    PROVE  LET t == Through(r, Len(r.lines))
               h == Header(r)
           IN  /\ t \in Seq(Symbols) /\ Len(t) > 0
               /\ h \in Seq(Symbols) /\ Len(h) = Len(t) + 2
               /\ \A p \in 1..Len(t) : h[p] = t[p]
               /\ h[Len(h) - 1] = CR /\ h[Len(h)] = LF
<1> DEFINE t == Through(r, Len(r.lines))
           h == Header(r)
           d == << CR, LF >>
<1>1. Len(r.lines) \in 0..Len(r.lines)
    BY DEF WellFormed
<1>2. t \in Seq(Symbols) /\ Len(t) > 0
    BY <1>1, ThroughEnds DEF Ending
<1>3. d \in Seq(Symbols) /\ Len(d) = 2 /\ d[1] = CR /\ d[2] = LF
    BY DEF Symbols
<1>4. h = t \o d
    BY HeaderIs
<1> HIDE DEF t, h, d
<1>5. /\ h \in Seq(Symbols) /\ Len(h) = Len(t) + Len(d)
      /\ \A p \in 1..Len(t) : h[p] = t[p]
      /\ \A p \in 1..Len(d) : h[Len(t) + p] = d[p]
  <2>1. t \in Seq(Symbols) /\ d \in Seq(Symbols)
      BY <1>2, <1>3
  <2> QED
      BY <1>4, <2>1, JoinedAt
<1>6. h[Len(t) + 1] = CR /\ h[Len(t) + 2] = LF /\ Len(t) \in Nat
    BY <1>2, <1>3, <1>5
<1>7. Len(h) = Len(t) + 2 /\ Len(t) + 1 = Len(h) - 1
    BY <1>3, <1>5, <1>6
<1> QED
    BY <1>2, <1>5, <1>6, <1>7 DEF t, h

LEMMA HeadersAreShaped ==
    ASSUME NEW r, WellFormed(r)
    PROVE  /\ HeaderShaped(Header(r), LineEnds(r))
           /\ r.lines # << >> =>
                 FirstLineShaped(Header(r), Colon(r), Len(Through(r, 1)))
<1> DEFINE n == Len(r.lines)
           t == Through(r, n)
           h == Header(r)
           E == LineEnds(r)
<1>1. n \in Nat /\ n \in 0..n
    BY DEF WellFormed
<1>2. Ending(t, E)
    BY <1>1, ThroughEnds
<1>3. /\ t \in Seq(Symbols) /\ Len(t) > 0
      /\ h \in Seq(Symbols) /\ Len(h) = Len(t) + 2
      /\ \A p \in 1..Len(t) : h[p] = t[p]
      /\ h[Len(h) - 1] = CR /\ h[Len(h)] = LF
    BY HeaderPieces
<1>4. CR # LF
    BY DEF CR, LF
<1>5. HeaderShaped(h, E)
  <2> HIDE DEF t, h, E
  <2>0. Len(t) \in Nat /\ Len(t) # 1 /\ Len(t) > 3 - 2
    <3>1. Len(Through(r, 0)) = 4
        BY ThroughFirst
    <3>2. 0 \in 0..n /\ n \in 0..n
        BY <1>1
    <3>3. Len(Through(r, 0)) <= Len(t)
        BY <3>2, ThroughGrows DEF t
    <3>4. Len(t) \in Nat
        BY <1>3
    <3>5. 4 <= Len(t)
        BY <3>1, <3>3
    <3>6. PICK b \in Nat : b = Len(t)
        BY <3>4
    <3>7. 4 <= b
        BY <3>5, <3>6
    <3>8. b # 1 /\ b > 3 - 2
        BY <3>7
    <3> QED
        BY <3>6, <3>8
  <2>1. Len(h) > 3 /\ Len(h) - 2 = Len(t) /\ Len(h) - 1 = Len(t) + 1 /\ Len(t) \in 1..Len(t)
      BY <1>3, <2>0
  <2>2. h[Len(h) - 2] = LF
      BY <1>2, <1>3, <2>1 DEF Ending
  <2>3. ASSUME NEW p \in 1..(Len(h) - 1), h[p] = LF PROVE p \in E
    <3>1. p # Len(h) - 1
        BY <1>3, <1>4, <2>3
    <3>2. p \in 1..Len(t)
        BY <2>0, <2>1, <3>1
    <3> QED
        BY <1>2, <1>3, <2>3, <3>2 DEF Ending
  <2>4. ASSUME NEW p \in 1..(Len(h) - 3), h[p] = LF PROVE h[p + 1] \notin Below0 \union {COLON}
    <3>1. p \in 1..(Len(t) - 1) /\ p \in 1..Len(t) /\ p + 1 \in 1..Len(t)
        BY <2>0, <2>1
    <3> QED
        BY <1>2, <1>3, <2>4, <3>1 DEF Ending
  <2> QED
      BY <1>3, <2>1, <2>2, <2>3, <2>4 DEF HeaderShaped
<1>6. ASSUME r.lines # << >> PROVE FirstLineShaped(h, Colon(r), Len(Through(r, 1)))
  <2> DEFINE t0 == Through(r, 0)
             t1 == Through(r, 1)
             l == HeaderLine(r.lines[1])
             c == Len(r.lines[1].name) + 1
  <2>1. n # 0 /\ 1 \in 1..n /\ 0 \in 0..n /\ 1 \in 0..n /\ n \in 1..n
      BY <1>1, <1>6, EmptySeq DEF WellFormed
  <2>2. t1 = t0 \o l /\ t0 \in Seq(Symbols)
    <3>1. 0 # n /\ 0 + 1 = 1
        BY <2>1
    <3> QED
        BY <2>1, <3>1, ThroughStep
  <2>3. OneLine(l, c)
      BY <2>1, HeaderLineIsOneLine DEF WellFormed
  <2>4. Len(t0) = 4
      BY ThroughFirst
  <2>5. Len(t1) <= Len(t) /\ \A p \in 1..Len(t1) : t[p] = t1[p]
      BY <2>1, ThroughGrows
  <2>5a. Colon(r) = 4 + c
    <3>1. r.lines[1].name \in Texts
        BY <2>1 DEF WellFormed, GoodLine
    <3>2. Len(r.lines[1].name) \in Nat
        BY <3>1 DEF Texts
    <3>3. Colon(r) = Len(t0) + Len(r.lines[1].name) + 1
        BY DEF Colon
    <3> HIDE DEF t0
    <3> QED
        BY <2>4, <3>2, <3>3
  <2> HIDE DEF t0, t1, l, c, t, h
  <2>6. l \in Seq(Symbols)
      BY <2>3 DEF OneLine
  <2>7. /\ t1 \in Seq(Symbols) /\ Len(t1) = Len(t0) + Len(l)
        /\ \A p \in 1..Len(l) : t1[Len(t0) + p] = l[p]
      BY <2>2, <2>6, JoinedAt
  <2>8. Len(l) \in Nat /\ c \in 2..(Len(l) - 1) /\ Len(t) \in Nat
      BY <1>3, <2>3, <2>6 DEF OneLine
  <2>9. ASSUME NEW p \in 1..Len(l) PROVE h[4 + p] = l[p]
    <3>1. 4 + p \in 1..Len(t1) /\ 4 + p \in 1..Len(t)
        BY <2>4, <2>5, <2>7, <2>8
    <3>2. t1[4 + p] = l[p]
        BY <2>4, <2>7
    <3> QED
        BY <1>3, <2>5, <3>1, <3>2
  <2>10. h[4 + c] = COLON /\ h[Len(t1)] = LF
    <3>1. c \in 1..Len(l) /\ Len(l) \in 1..Len(l) /\ Len(t1) = 4 + Len(l)
        BY <2>4, <2>7, <2>8
    <3> QED
        BY <2>3, <2>9, <3>1 DEF OneLine
  <2>11. ASSUME NEW p \in (4 + c)..(Len(t1) - 1) PROVE h[p] # LF
    <3>1. p - 4 \in 1..Len(l) /\ p - 4 \in 1..(Len(l) - 1) /\ 4 + (p - 4) = p
        BY <2>4, <2>7, <2>8
    <3>2. h[p] = l[p - 4]
        BY <2>9, <3>1
    <3> QED
        BY <2>3, <3>1, <3>2 DEF OneLine
  <2>12. 4 + c \in 1..Len(t1) /\ Len(t1) \in 1..(Len(h) - 2)
      BY <1>3, <2>4, <2>5, <2>7, <2>8
  <2>13. FirstLineShaped(h, 4 + c, Len(t1))
      BY <2>10, <2>11, <2>12 DEF FirstLineShaped
  <2> QED
      BY <2>5a, <2>13 DEF t1
<1> QED
    BY <1>5, <1>6

LEMMA UpToIs ==
    ASSUME NEW k \in 0..Len(response.lines), WellFormed(response)
    PROVE  Len(UpTo(k)) \in Nat /\ Len(UpTo(k)) - 2 = Len(Through(response, k))
<1> DEFINE r == [response EXCEPT !.lines = SubSeq(@, 1, k)]
<1>1. response = [status |-> response.status, lines |-> response.lines, body |-> response.body]
    BY DEF WellFormed
<1>2. r.status = response.status /\ r.lines = SubSeq(response.lines, 1, k) /\ r.body = response.body
      /\ r = [status |-> r.status, lines |-> r.lines, body |-> r.body]
  <2> DEFINE s == SubSeq(response.lines, 1, k)
  <2>1. r = [response EXCEPT !.lines = s]
      OBVIOUS
  <2> HIDE DEF r, s
  <2>2. r = [status |-> response.status, lines |-> s, body |-> response.body]
      BY <1>1, <2>1
  <2>3. r.status = response.status /\ r.lines = s /\ r.body = response.body
      BY <2>2
  <2> QED
      BY <2>2, <2>3 DEF s
<1>3. Header(r) = UpTo(k)
    BY DEF UpTo
<1> HIDE DEF r
<1>4. PICK S : response.lines \in Seq(S)
    BY DEF WellFormed
<1>5. k \in Nat /\ k <= Len(response.lines) /\ Len(response.lines) \in Nat
    BY <1>4
<1>6. r.lines \in Seq(S) /\ Len(r.lines) = k /\ \A m \in 1..k : r.lines[m] = response.lines[m]
    BY <1>2, <1>4, <1>5
<1>7. WellFormed(r)
  <2>1. \A m \in 1..Len(r.lines) : GoodLine(r.lines[m])
      BY <1>5, <1>6 DEF WellFormed
  <2> QED
      BY <1>2, <1>6, <2>1 DEF WellFormed
<1>8. Through(r, k) = Through(response, k)
  <2>1. [m \in 1..k |-> HeaderLine(r.lines[m])] = [m \in 1..k |-> HeaderLine(response.lines[m])]
      BY <1>6
  <2> QED
      BY <1>2, <2>1 DEF Through
<1>9. Len(UpTo(k)) = Len(Through(r, k)) + 2 /\ Len(Through(r, k)) \in Nat
    BY <1>3, <1>6, <1>7, HeaderPieces
<1> QED
    BY <1>8, <1>9

\* p characters of the header have been scanned; back is c_return.
AtPlace(h, p, back) ==
    /\ p \in 0..(Len(h) - 1) /\ back \in BOOLEAN
    /\ back => p > 0 /\ (h[p] = LF \/ p = Len(h) - 1)
    /\ p >= Len(h) - 2 => back

LEMMA CharactersDiffer ==
    /\ CR # LF /\ CR # COLON /\ LF # COLON /\ CR \in Below0 /\ LF \in Below0
BY AlphabetAssumption DEF CR, LF, COLON

\* Only the end of the header is a line end behind a line end.
LEMMA BlankLineIsLast ==
    ASSUME NEW h, NEW E, HeaderShaped(h, E), NEW p, NEW back, AtPlace(h, p, back), back
    PROVE  /\ h[p + 1] = LF => p + 1 = Len(h)
           /\ h[p + 1] # COLON
           /\ h[p + 1] \in Below0 /\ h[p + 1] # LF => p + 1 = Len(h) - 1
<1>1. Len(h) \in Nat /\ Len(h) > 3
    BY DEF HeaderShaped
<1>2. p \in 1..(Len(h) - 1) /\ (h[p] = LF \/ p = Len(h) - 1)
    BY <1>1 DEF AtPlace
<1>3. CASE p = Len(h) - 1
    BY <1>1, <1>3, CharactersDiffer DEF HeaderShaped
<1>4. CASE p = Len(h) - 2
    BY <1>1, <1>4, CharactersDiffer DEF HeaderShaped
<1>5. CASE p \in 1..(Len(h) - 3)
  <2>1. h[p + 1] \notin Below0 \union {COLON}
      BY <1>1, <1>2, <1>5 DEF HeaderShaped
  <2> QED
      BY <2>1, CharactersDiffer
<1> QED
    BY <1>1, <1>2, <1>3, <1>4, <1>5

LEMMA PlaceAfterLine ==
    ASSUME NEW h, NEW E, HeaderShaped(h, E), NEW p, AtPlace(h, p, FALSE), h[p + 1] = LF
    PROVE  AtPlace(h, p + 1, TRUE)
<1>1. Len(h) \in Nat /\ Len(h) > 3
    BY DEF HeaderShaped
<1>2. p \in 0..(Len(h) - 3)
    BY <1>1 DEF AtPlace
<1> QED
    BY <1>1, <1>2 DEF AtPlace

LEMMA PlaceAfterCharacter ==
    ASSUME NEW h, NEW E, HeaderShaped(h, E), NEW p, NEW back, AtPlace(h, p, back),
           h[p + 1] # LF
    PROVE  /\ \A b \in BOOLEAN : (b = (back /\ h[p + 1] \in Below0)) => AtPlace(h, p + 1, b)
           /\ h[p + 1] = COLON => AtPlace(h, p + 1, back)
<1>1. Len(h) \in Nat /\ Len(h) > 3 /\ h[Len(h) - 2] = LF /\ h[Len(h)] = LF
    BY DEF HeaderShaped
<1>2. p \in 0..(Len(h) - 1) /\ back \in BOOLEAN
    BY DEF AtPlace
<1>3. CASE ~back
  <2>1. p \in 0..(Len(h) - 3)
      BY <1>1, <1>2, <1>3 DEF AtPlace
  <2>2. p + 1 # Len(h) - 2
      BY <1>1, <2>1
  <2>3. p + 1 \in 0..(Len(h) - 3)
      BY <1>1, <2>1, <2>2
  <2>4. AtPlace(h, p + 1, FALSE)
      BY <1>1, <2>3 DEF AtPlace
  <2> QED
      BY <1>3, <1>2, <2>4
<1>4. CASE back
  <2>1. h[p + 1] # COLON
      BY <1>4, BlankLineIsLast
  <2>2. CASE h[p + 1] \in Below0
    <3>1. p + 1 = Len(h) - 1
        BY <1>4, <2>2, BlankLineIsLast
    <3>2. AtPlace(h, p + 1, TRUE)
        BY <1>1, <1>2, <3>1 DEF AtPlace
    <3> QED
        BY <1>4, <2>1, <2>2, <3>2
  <2>3. CASE h[p + 1] \notin Below0
    <3>1. p + 1 # Len(h) - 2 /\ p + 1 # Len(h) - 1 /\ p + 1 # Len(h)
        BY <1>1, <2>3, CharactersDiffer DEF HeaderShaped
    <3>2. p + 1 \in 0..(Len(h) - 3)
        BY <1>1, <1>2, <3>1
    <3>3. AtPlace(h, p + 1, FALSE)
        BY <1>1, <3>2 DEF AtPlace
    <3> QED
        BY <2>1, <2>3, <3>3
  <2> QED
      BY <2>2, <2>3
<1> QED
    BY <1>2, <1>3, <1>4

\* The first header line: nodes has an element once it is behind the scanner, and from
\* its colon on the scanner is in the value.
AtHeader(colon, e, p, value, nodes) ==
    /\ p \in colon..(e - 1) => value
    /\ p >= e => nodes # {}

LEMMA HeaderGoesOn ==
    ASSUME NEW h, NEW colon, NEW e, FirstLineShaped(h, colon, e), NEW p \in Nat,
           NEW value, NEW nodes, AtHeader(colon, e, p, value, nodes)
    PROVE  /\ h[p + 1] # LF /\ (h[p + 1] = COLON => value)
                => AtHeader(colon, e, p + 1, value, nodes)
           /\ h[p + 1] # LF => AtHeader(colon, e, p + 1, TRUE, nodes)
           /\ h[p + 1] = LF /\ ~value => AtHeader(colon, e, p + 1, value, nodes)
<1>1. /\ colon \in Nat /\ e \in Nat /\ colon <= e
      /\ h[colon] = COLON /\ h[e] = LF /\ \A q \in colon..(e - 1) : h[q] # LF
  <2>1. e \in Nat
      BY DEF FirstLineShaped
  <2> QED
      BY <2>1 DEF FirstLineShaped
<1>2. colon < e
    BY <1>1, CharactersDiffer
<1>3. ASSUME h[p + 1] # LF PROVE p + 1 >= e => nodes # {}
    BY <1>1, <1>3 DEF AtHeader
<1>4. ASSUME h[p + 1] # LF, h[p + 1] = COLON => value, p + 1 \in colon..(e - 1) PROVE value
    BY <1>1, <1>4 DEF AtHeader
<1>5. ASSUME h[p + 1] = LF, ~value
      PROVE  p + 1 \notin colon..(e - 1) /\ (p + 1 >= e => nodes # {})
    BY <1>1, <1>2, <1>5 DEF AtHeader
<1> QED
    BY <1>3, <1>4, <1>5 DEF AtHeader

LEMMA HeaderPushed ==
    ASSUME NEW h, NEW colon, NEW e, FirstLineShaped(h, colon, e), NEW p \in Nat,
           NEW value, NEW nodes, nodes # {}, h[p + 1] = LF
    PROVE  AtHeader(colon, e, p + 1, value, nodes)
<1>1. \A q \in colon..(e - 1) : h[q] # LF
    BY DEF FirstLineShaped
<1> QED
    BY <1>1 DEF AtHeader

-----------------------------------------------------------------------------
(* Where the scanner is *)

Wire == Header(response) \o response.body

\* How much of the header has been scanned.
Place == Received - (size - i)

Arrives == {"read", "scan", "push", "finish", "refused", "accepted"}

\* The stream is what has not been received of the wire, and the buffer what was
\* received last.
FlowInv ==
    /\ pc \notin Unconnected => WellFormed(response)
    /\ pc \in Arrives =>
          /\ Received \in Nat
          /\ \A k \in 1..Len(stream) : stream[k] = Wire[Received + k]
          /\ ~broken => size \in 0..Received /\ \A k \in 1..size : buffer[k] = Wire[Received - size + k]
          /\ pc = "read" => i = size

\* Behind the end of the header, or behind a line end and the piece.
Found ==
    \/ offset \in 1..size /\ Received - size + offset = Len(Header(response))
    \/ /\ offset = size + 1 /\ Received \in 1..(Len(Header(response)) - 1)
       /\ Header(response)[Received] = LF \/ Received = Len(Header(response)) - 1

PlaceInv ==
    /\ pc \in {"read", "scan", "push"} => ~broken /\ offset = -1
    /\ pc \in {"read", "scan"} => AtPlace(Header(response), Place, c_return)
    /\ pc = "push" => /\ AtPlace(Header(response), Place + 1, TRUE) /\ c_return = TRUE
                      /\ Place \in Nat /\ Header(response)[Place + 1] = LF
    /\ pc \in {"finish", "refused", "accepted"} =>
          /\ broken => offset = -1 /\ size \in {0, -1} /\ pc # "refused"
          /\ ~broken => /\ Found
                        /\ pc = "refused" => offset > size
                        /\ pc = "accepted" => /\ offset <= size /\ residue \in Seq(Characters)
                                                /\ Len(residue) = size - offset
                                                /\ \A k \in 1..(size - offset) : residue[k] = buffer[offset + k]

FirstEnd == Len(Through(response, 1))

ValueInv ==
    /\ pc \notin Unconnected /\ response.lines # << >> =>
        /\ pc \in {"read", "scan"} =>
              AtHeader(Colon(response), FirstEnd, Place, in_value, DOMAIN tree)
        /\ pc \notin {"read", "scan", "push"} /\ Received >= FirstEnd => DOMAIN tree # {}
    /\ pc = "crashed" => Root \notin DOMAIN tree

HeadInv == FlowInv /\ PlaceInv /\ ValueInv

LEMMA WireIs ==
    ASSUME NEW r, WellFormed(r), NEW w, w = Header(r) \o r.body
    PROVE  LET h == Header(r)
           IN  /\ Len(h) \in Nat /\ Len(r.body) \in Nat /\ r.body \in Seq(DOMAIN Lower)
               /\ Len(w) = Len(h) + Len(r.body)
               /\ \A k \in 1..Len(h) : w[k] = h[k]
               /\ \A k \in 1..Len(r.body) : w[Len(h) + k] = r.body[k]
<1> DEFINE h == Header(r)
           b == r.body
<1>1. h \in Seq(Symbols) /\ b \in Seq(Symbols) /\ b \in Seq(DOMAIN Lower)
  <2>1. h \in Seq(Symbols)
      BY HeaderPieces
  <2>2. b \in Texts
      BY DEF WellFormed
  <2>3. b \in Seq(DOMAIN Lower)
      BY <2>2 DEF Texts
  <2>4. \A x \in Seq(DOMAIN Lower) : x \in Seq(Symbols)
      BY DEF Symbols
  <2> QED
      BY <2>1, <2>3, <2>4
<1>2. w = h \o b
    OBVIOUS
<1> HIDE DEF h, b
<1>3. /\ Len(w) = Len(h) + Len(b)
      /\ \A k \in 1..Len(h) : w[k] = h[k]
      /\ \A k \in 1..Len(b) : w[Len(h) + k] = b[k]
  <2>1. h \in Seq(Symbols) /\ b \in Seq(Symbols)
      BY <1>1
  <2> QED
      BY <1>2, <2>1, JoinedAt
<1> QED
    BY <1>1, <1>3 DEF h, b

LEMMA ResponseIsWire ==
    ASSUME WellFormed(response)
    PROVE  /\ Len(Header(response)) \in Nat /\ Len(response.body) \in Nat
           /\ response.body \in Seq(DOMAIN Lower)
           /\ Len(Wire) = Len(Header(response)) + Len(response.body)
           /\ \A k \in 1..Len(Header(response)) : Wire[k] = Header(response)[k]
           /\ \A k \in 1..Len(response.body) : Wire[Len(Header(response)) + k] = response.body[k]
BY WireIs DEF Wire

LEMMA PlaceIs ==
    ASSUME FlowInv, PlaceInv, ScanInv, pc \in {"read", "scan", "push"}
    PROVE  /\ Received \in Nat /\ size \in Nat /\ i \in Nat /\ i <= size
           /\ Place = Received - size + i
           /\ pc \in {"read", "scan"} => Place \in Nat /\ Place < Len(Header(response))
<1>1. Received \in Nat /\ size \in 0..Received
    BY DEF FlowInv, PlaceInv, Arrives
<1>2. i \in Nat /\ i <= size
    BY <1>1 DEF FlowInv, ScanInv, ScannerTypeOK, ArraysInv, Arrives
<1>3. size \in Nat
    BY <1>1
<1>4. Place = Received - size + i
    BY <1>1, <1>2, <1>3 DEF Place
<1>5. WellFormed(response)
    BY DEF FlowInv, Unconnected
<1>6. Len(Header(response)) \in Nat
    BY <1>5, ResponseIsWire
<1>7. pc \in {"read", "scan"} => Place \in 0..(Len(Header(response)) - 1)
    BY DEF PlaceInv, AtPlace
<1> QED
    BY <1>1, <1>2, <1>3, <1>4, <1>6, <1>7

LEMMA CharacterIsNext ==
    ASSUME FlowInv, PlaceInv, ScanInv, pc = "scan", i < size
    PROVE  Character = Header(response)[Place + 1]
<1>1. /\ Received \in Nat /\ size \in Nat /\ i \in Nat
      /\ Place = Received - size + i /\ Place \in Nat /\ Place < Len(Header(response))
    BY PlaceIs
<1>2. i # PARSER_BUFFER_SIZE
  <2>1. size \in -1..PARSER_BUFFER_SIZE
      BY DEF ScanInv, ScannerTypeOK
  <2> QED
      BY <1>1, <2>1, SizeIs
<1>3. i + 1 \in 1..size /\ Received - size + (i + 1) = Place + 1
    BY <1>1
<1>4. buffer[i + 1] = Wire[Received - size + (i + 1)]
    BY <1>3 DEF FlowInv, PlaceInv, Arrives
<1>5. WellFormed(response)
    BY DEF FlowInv, Unconnected
<1>6. Place + 1 \in 1..Len(Header(response))
    BY <1>1, <1>5, ResponseIsWire
<1> QED
    BY <1>2, <1>3, <1>4, <1>5, <1>6, ResponseIsWire DEF Character

LEMMA ResponsesAreWellFormed ==
    ASSUME NEW u \in Urls, NEW r \in Answers[u]
    PROVE  WellFormed(r) /\ WellFormed([r EXCEPT !.body = << >>])
<1> DEFINE L == Seq([name : Texts, value : Texts])
           s == [r EXCEPT !.body = << >>]
<1>1. r \in [status : DOMAIN Lower, lines : L, body : Texts]
    BY ResponsesAssumption
<1>2. << >> \in Texts
    BY DEF Texts
<1>3. r.status # LF
    BY LinesAssumption
<1>4. ASSUME NEW k \in 1..Len(r.lines) PROVE GoodLine(r.lines[k])
  <2>1. r.lines \in L
      BY <1>1
  <2>2. r.lines[k] \in [name : Texts, value : Texts]
    <3>1. PICK ls : ls = r.lines
        OBVIOUS
    <3>2. ls \in Seq([name : Texts, value : Texts]) /\ k \in 1..Len(ls)
        BY <2>1, <3>1
    <3>3. ls[k] \in [name : Texts, value : Texts]
      <4> HIDE DEF L
      <4> QED
          BY <3>2, ElementOfSeq
    <3> QED
        BY <3>1, <3>3
  <2>3. r.lines[k] \in ToSet(r.lines)
      BY <2>1 DEF ToSet
  <2>4. /\ LF \notin ToSet(r.lines[k].name) \union ToSet(r.lines[k].value)
        /\ r.lines[k].name # << >> /\ r.lines[k].name[1] \notin Below0 \union {COLON}
      BY <2>3, LinesAssumption
  <2> QED
      BY <2>2, <2>4 DEF GoodLine
<1>5. r.lines \in L
    BY <1>1
<1>6. \E S : r.lines \in Seq(S)
    BY <1>5
<1> HIDE DEF L
<1>7. WellFormed(r)
  <2>1. r = [status |-> r.status, lines |-> r.lines, body |-> r.body] /\ r.status \in DOMAIN Lower
        /\ r.body \in Texts
      BY <1>1
  <2> QED
      BY <1>3, <1>4, <1>6, <2>1 DEF WellFormed
<1>8. WellFormed(s)
  <2>1. s.status = r.status /\ s.lines = r.lines /\ s.body = << >>
        /\ s = [status |-> s.status, lines |-> s.lines, body |-> s.body]
        /\ s.status \in DOMAIN Lower
      BY <1>1
  <2> HIDE DEF s
  <2> QED
      BY <1>2, <1>3, <1>4, <1>6, <2>1 DEF WellFormed
<1> QED
    BY <1>7, <1>8

LEMMA ConnectGivesHead == ScanInv /\ Connect => HeadInv'
<1> SUFFICES ASSUME ScanInv, Connect PROVE HeadInv'
    OBVIOUS
<1>1. url \in Urls
    BY DEF ScanInv, RequestTypeOK
<1>2. PICK r \in Answers[url] :
         StartScan(IF method = "HEAD" THEN [r EXCEPT !.body = << >>] ELSE r)
    BY DEF Connect
<1>3. PICK s : s = IF method = "HEAD" THEN [r EXCEPT !.body = << >>] ELSE r
    OBVIOUS
<1>4. WellFormed(s) /\ StartScan(s)
    BY <1>1, <1>2, <1>3, ResponsesAreWellFormed
<1>5. /\ response' = s /\ stream' = Header(s) \o s.body /\ broken' = FALSE
      /\ tree' = << >> /\ size' = 0 /\ i' = 0 /\ offset' = -1
      /\ in_value' = FALSE /\ c_return' = FALSE /\ pc' = "read"
    BY <1>4 DEF StartScan
<1>6. WellFormed(response)'
    BY <1>4, <1>5
<1>7. /\ Len(Header(s)) \in Nat /\ Len(s.body) \in Nat
      /\ Len(Wire') = Len(Header(s)) + Len(s.body) /\ stream' = Wire'
  <2>1. Wire' = Header(s) \o s.body
      BY <1>5 DEF Wire
  <2> QED
      BY <1>4, <1>5, <2>1, WireIs
<1>8. Received' = 0
    BY <1>5, <1>7 DEF Received
<1>9. Place' = 0
    BY <1>5, <1>8 DEF Place
<1>10. \A k \in 1..Len(stream') : stream'[k] = Wire'[Received' + k]
    BY <1>7, <1>8
<1>11. FlowInv'
    BY <1>5, <1>6, <1>8, <1>10 DEF FlowInv, Arrives
<1>12. /\ HeaderShaped(Header(s), LineEnds(s))
       /\ s.lines # << >> => FirstLineShaped(Header(s), Colon(s), Len(Through(s, 1)))
    BY <1>4, HeadersAreShaped
<1>13. AtPlace(Header(s), 0, FALSE)
    BY <1>7, <1>12 DEF AtPlace, HeaderShaped
<1>14. PlaceInv'
    BY <1>5, <1>9, <1>13 DEF PlaceInv
<1>15. s.lines # << >> => AtHeader(Colon(s), Len(Through(s, 1)), 0, FALSE, {})
  <2> SUFFICES ASSUME s.lines # << >> PROVE AtHeader(Colon(s), Len(Through(s, 1)), 0, FALSE, {})
      OBVIOUS
  <2>1. Len(Through(s, 1)) \in 1..(Len(Header(s)) - 2) /\ Colon(s) \in 1..Len(Through(s, 1))
      BY <1>12 DEF FirstLineShaped
  <2> QED
      BY <1>7, <2>1 DEF AtHeader
<1>16. DOMAIN tree' = {}
    BY <1>5, EmptySeq
<1>17. ValueInv'
    BY <1>5, <1>9, <1>15, <1>16 DEF ValueInv, FirstEnd
<1> QED
    BY <1>11, <1>14, <1>17 DEF HeadInv

\* A piece of m characters.
LEMMA PieceKeepsFlow ==
    ASSUME NEW w, NEW got \in Nat, NEW st \in Texts, \A k \in 1..Len(st) : st[k] = w[got + k],
           NEW b \in Seq(Characters), Len(b) = PARSER_BUFFER_SIZE,
           NEW m \in 1..PARSER_BUFFER_SIZE, m <= Len(st)
    PROVE  /\ Len(SubSeq(st, m + 1, Len(st))) = Len(st) - m
           /\ \A k \in 1..(Len(st) - m) : SubSeq(st, m + 1, Len(st))[k] = w[got + m + k]
           /\ \A k \in 1..m : (SubSeq(st, 1, m) \o SubSeq(b, m + 1, PARSER_BUFFER_SIZE))[k] = w[got + k]
<1>1. PARSER_BUFFER_SIZE \in Nat /\ Len(st) \in Nat /\ st \in Seq(DOMAIN Lower)
    BY SizeIs DEF Texts
<1>2. Len(SubSeq(st, m + 1, Len(st))) = Len(st) - m
    BY <1>1
<1>3. ASSUME NEW k \in 1..(Len(st) - m) PROVE SubSeq(st, m + 1, Len(st))[k] = w[got + m + k]
  <2>1. SubSeq(st, m + 1, Len(st))[k] = st[m + k]
      BY <1>1
  <2>2. m + k \in 1..Len(st) /\ got + (m + k) = got + m + k
      BY <1>1
  <2> QED
      BY <2>1, <2>2
<1>4. ASSUME NEW k \in 1..m
      PROVE (SubSeq(st, 1, m) \o SubSeq(b, m + 1, PARSER_BUFFER_SIZE))[k] = w[got + k]
  <2>1. PICK x, y, z : /\ x = SubSeq(st, 1, m) /\ y = SubSeq(b, m + 1, PARSER_BUFFER_SIZE)
                       /\ z = x \o y
      OBVIOUS
  <2>2. x \in Seq(DOMAIN Lower) /\ Len(x) = m /\ x[k] = st[k]
      BY <1>1, <2>1, SMTT(30)
  <2>3. y \in Seq(Characters)
      BY <1>1, <2>1
  <2>4. x \in Seq(Characters)
      BY <2>2 DEF Characters
  <2>5. z[k] = x[k]
      BY <2>1, <2>2, <2>3, <2>4, JoinedAt
  <2>6. st[k] = w[got + k]
      BY <1>1
  <2> QED
      BY <2>1, <2>2, <2>5, <2>6
<1> QED
    BY <1>2, <1>3, <1>4

LEMMA ReadKeepsHead == ScanInv /\ HeadInv /\ Read => HeadInv'
<1> SUFFICES ASSUME ScanInv, HeadInv, Read PROVE HeadInv'
    OBVIOUS
<1> USE DEF HeadInv
<1>1. /\ pc = "read" /\ i' = 0
      /\ response' = response /\ offset' = offset /\ c_return' = c_return /\ in_value' = in_value
      /\ tree' = tree /\ residue' = residue
    BY DEF Read, treeVars, textVars
<1>2. /\ stream \in Texts /\ Len(stream) \in Nat
      /\ buffer \in Seq(Characters) /\ Len(buffer) = PARSER_BUFFER_SIZE
    BY <1>1 DEF ScanInv, ArraysInv, Texts
<1>3. WellFormed(response) /\ Received \in Nat /\ i = size
    BY <1>1 DEF FlowInv, Arrives, Unconnected
<1>3a. \A k \in 1..Len(stream) : stream[k] = Wire[Received + k]
    BY <1>1 DEF FlowInv, Arrives
<1>4. ~broken /\ offset = -1 /\ AtPlace(Header(response), Place, c_return)
    BY <1>1 DEF PlaceInv
<1>5. size \in Nat /\ Place = Received
  <2>1. size \in Nat /\ Place = Received - size + i
      BY <1>1, PlaceIs
  <2> QED
      BY <1>3, <2>1
<1>6. response.lines # << >> => AtHeader(Colon(response), FirstEnd, Place, in_value, DOMAIN tree)
    BY <1>1 DEF ValueInv, Unconnected
<1>7. Len(Header(response)) \in Nat /\ Len(response.body) \in Nat
    BY <1>3, ResponseIsWire
<1>8. Wire' = Wire /\ FirstEnd' = FirstEnd
    BY <1>1 DEF Wire, FirstEnd
<1>9. CASE \E m \in 1..Smaller(PARSER_BUFFER_SIZE, Len(stream)) :
             /\ size' = m /\ pc' = "scan"
             /\ buffer' = SubSeq(stream, 1, m) \o SubSeq(buffer, m + 1, PARSER_BUFFER_SIZE)
             /\ stream' = SubSeq(stream, m + 1, Len(stream))
             /\ UNCHANGED broken
  <2>1. PICK m \in 1..Smaller(PARSER_BUFFER_SIZE, Len(stream)) :
             /\ size' = m /\ pc' = "scan"
             /\ buffer' = SubSeq(stream, 1, m) \o SubSeq(buffer, m + 1, PARSER_BUFFER_SIZE)
             /\ stream' = SubSeq(stream, m + 1, Len(stream))
             /\ UNCHANGED broken
      BY <1>9
  <2>2. m \in 1..PARSER_BUFFER_SIZE /\ m <= Len(stream)
      BY <1>2, SizeIs DEF Smaller
  <2>3. /\ Len(stream') = Len(stream) - m
        /\ \A k \in 1..(Len(stream) - m) : stream'[k] = Wire[Received + m + k]
        /\ \A k \in 1..m : buffer'[k] = Wire[Received + k]
    <3>1. \A st \in Texts : st = stream => \A b \in Seq(Characters) : b = buffer =>
             /\ Len(SubSeq(st, m + 1, Len(st))) = Len(st) - m
             /\ \A k \in 1..(Len(st) - m) : SubSeq(st, m + 1, Len(st))[k] = Wire[Received + m + k]
             /\ \A k \in 1..m : (SubSeq(st, 1, m) \o SubSeq(b, m + 1, PARSER_BUFFER_SIZE))[k] = Wire[Received + k]
      <4>1. Received \in Nat
          BY <1>3
      <4>2. Len(buffer) = PARSER_BUFFER_SIZE
          BY <1>2
      <4>3. m \in 1..PARSER_BUFFER_SIZE
          BY <2>2
      <4>4. m <= Len(stream)
          BY <2>2
      <4> QED
          BY <1>3a, <4>1, <4>2, <4>3, <4>4, PieceKeepsFlow
    <3>2. stream \in Texts /\ buffer \in Seq(Characters)
        BY <1>2
    <3>3. /\ Len(SubSeq(stream, m + 1, Len(stream))) = Len(stream) - m
          /\ \A k \in 1..(Len(stream) - m) :
                SubSeq(stream, m + 1, Len(stream))[k] = Wire[Received + m + k]
          /\ \A k \in 1..m :
                (SubSeq(stream, 1, m) \o SubSeq(buffer, m + 1, PARSER_BUFFER_SIZE))[k] = Wire[Received + k]
        BY <3>1, <3>2
    <3> QED
        BY <2>1, <3>3
  <2>4. Received' = Received + m
      BY <1>1, <1>2, <1>3, <1>7, <2>2, <2>3 DEF Received
  <2>5. Received' \in Nat /\ size' \in 0..Received' /\ Received' - size' = Received
      BY <1>3, <2>1, <2>2, <2>4
  <2>6. Place' = Place
    <3>1. Place' = Received' - (size' - 0)
        BY <1>1 DEF Place
    <3>2. PICK a, b \in Nat : a = Received' /\ b = size'
        BY <2>1, <2>2, <2>5
    <3>3. a - (b - 0) = a - b
        BY <3>2
    <3> QED
        BY <1>5, <2>5, <3>1, <3>2, <3>3
  <2>7. /\ \A k \in 1..Len(stream') : stream'[k] = Wire'[Received' + k]
        /\ \A k \in 1..size' : buffer'[k] = Wire'[Received' - size' + k]
      BY <1>8, <2>1, <2>3, <2>4, <2>5
  <2>8. FlowInv'
      BY <1>1, <1>3, <2>1, <2>5, <2>7 DEF FlowInv, Unconnected
  <2>9. PlaceInv'
      BY <1>1, <1>4, <2>1, <2>6 DEF PlaceInv
  <2>10. ValueInv'
      BY <1>1, <1>6, <1>8, <2>1, <2>6 DEF ValueInv
  <2> QED
      BY <2>8, <2>9, <2>10
<1>10. CASE /\ size' \in {0, -1} /\ broken' = TRUE /\ pc' = "finish"
            /\ UNCHANGED << buffer, stream >>
  <2>1. Received' = Received
      BY <1>1, <1>10 DEF Received
  <2>2. FlowInv'
      BY <1>1, <1>3, <1>3a, <1>8, <1>10, <2>1 DEF FlowInv, Unconnected
  <2>3. PlaceInv'
      BY <1>1, <1>4, <1>10 DEF PlaceInv
  <2>4. ValueInv'
      BY <1>1, <1>5, <1>6, <1>8, <1>10, <2>1 DEF ValueInv, AtHeader
  <2> QED
      BY <2>2, <2>3, <2>4
<1> QED
    BY <1>9, <1>10 DEF Read

\* What is read of a stored header is a tree with a node.
LEMMA StoredIsNotEmpty ==
    ASSUME NEW t, NEW key, NEW value PROVE DOMAIN Stored(t, key, value) # {}
<1>1. CASE PlaceOf(t, key) \in DOMAIN t
  <2>1. DOMAIN Stored(t, key, value) = DOMAIN t
      BY <1>1 DEF Stored
  <2> QED
      BY <1>1, <2>1
<1>2. CASE PlaceOf(t, key) \notin DOMAIN t
  <2>1. PlaceOf(t, key) \in DOMAIN Stored(t, key, value)
      BY <1>2 DEF Stored
  <2> QED
      BY <2>1
<1> QED
    BY <1>1, <1>2

\* Nothing arrives.
LEMMA SilenceKeepsFlow ==
    ASSUME FlowInv, pc \in Arrives, UNCHANGED << response, stream, broken, buffer, size >>,
           pc' \in Arrives, pc' = "read" => i' = size
    PROVE  FlowInv' /\ Received' = Received /\ Wire' = Wire
<1>1. Received' = Received /\ Wire' = Wire
    BY DEF Received, Wire
<1>2. WellFormed(response)'
    BY DEF FlowInv, Arrives, Unconnected
<1>3. /\ Received \in Nat
      /\ \A k \in 1..Len(stream) : stream[k] = Wire[Received + k]
      /\ ~broken => size \in 0..Received /\ \A k \in 1..size : buffer[k] = Wire[Received - size + k]
    BY DEF FlowInv
<1> QED
    BY <1>1, <1>2, <1>3 DEF FlowInv

ScanStep == Flush \/ ScanColon \/ ScanValueEnd \/ ScanOtherLine \/ ScanCharacter \/ Push

LEMMA ScanKeepsFlow ==
    ASSUME ScanInv, HeadInv, ScanStep
    PROVE  /\ FlowInv' /\ Received' = Received /\ response' = response
           /\ pc \in {"scan", "push"} /\ pc' \in {"scan", "push"}
           /\ ~broken' /\ offset' = -1
           /\ Received \in Nat /\ size \in Nat /\ i \in Nat /\ i < size /\ Place \in Nat
           /\ Place = Received - size + i
           /\ i' = i => Place' = Place
           /\ i' = i + 1 => Place' = Place + 1
           /\ WellFormed(response)
           /\ pc = "scan" => Character = Header(response)[Place + 1]
<1>1. /\ pc \in {"scan", "push"} /\ pc' \in {"scan", "push"} /\ i < size
      /\ UNCHANGED << response, stream, broken, buffer, size, offset >>
    BY DEF ScanStep, Flush, ScanColon, ScanValueEnd, ScanOtherLine, ScanCharacter, Push, Scanning,
       ScanInv, ArraysInv, serverVars, pieceVars
<1>2. ~broken /\ offset = -1
    BY <1>1 DEF HeadInv, PlaceInv
<1>3. FlowInv' /\ Received' = Received
    BY <1>1, SilenceKeepsFlow DEF HeadInv, Arrives
<1>4. Received \in Nat /\ size \in Nat /\ i \in Nat /\ Place = Received - size + i
    BY <1>1, PlaceIs DEF HeadInv
<1>5. Place \in Nat
    BY <1>1, PlaceIs DEF HeadInv, PlaceInv
<1>6. Place' = Received - (size - i')
    BY <1>1, <1>3 DEF Place
<1>7. i' = i => Place' = Place
    BY <1>6 DEF Place
<1>8. i' = i + 1 => Place' = Place + 1
    BY <1>4, <1>6
<1>9. WellFormed(response)
    BY <1>1 DEF HeadInv, FlowInv, Unconnected
<1>10. pc = "scan" => Character = Header(response)[Place + 1]
    BY <1>1, CharacterIsNext DEF HeadInv
<1> QED
    BY <1>1, <1>2, <1>3, <1>4, <1>5, <1>7, <1>8, <1>9, <1>10

LEMMA ScanKeepsPlace == ScanInv /\ HeadInv /\ ScanStep => PlaceInv'
<1> SUFFICES ASSUME ScanInv, HeadInv, ScanStep PROVE PlaceInv'
    OBVIOUS
<1> DEFINE h == Header(response)
<1>1. /\ pc' \in {"scan", "push"} /\ ~broken' /\ offset' = -1 /\ Place \in Nat
      /\ response' = response /\ WellFormed(response)
      /\ i' = i => Place' = Place
      /\ i' = i + 1 => Place' = Place + 1
      /\ pc = "scan" => Character = h[Place + 1]
    BY ScanKeepsFlow
<1>2. pc = "scan" => AtPlace(h, Place, c_return)
    BY DEF HeadInv, PlaceInv
<1>3. HeaderShaped(h, LineEnds(response))
    BY <1>1, HeadersAreShaped
<1>4. SUFFICES ASSUME TRUE
      PROVE /\ pc' = "scan" => AtPlace(h, Place', c_return')
            /\ pc' = "push" => /\ AtPlace(h, Place' + 1, TRUE) /\ c_return' = TRUE
                               /\ Place' \in Nat /\ h[Place' + 1] = LF
    BY <1>1 DEF PlaceInv
<1> HIDE DEF h
<1>5. CASE Flush
    BY <1>1, <1>2, <1>5 DEF Flush, Scanning
<1>6. CASE ScanColon
  <2>1. /\ pc = "scan" /\ pc' = "scan" /\ c_return' = c_return /\ i' = i + 1 /\ Character = COLON
      BY <1>6 DEF ScanColon, Scanning
  <2>2. h[Place + 1] = COLON /\ h[Place + 1] # LF
      BY <1>1, <2>1, CharactersDiffer
  <2>3. AtPlace(h, Place + 1, c_return)
      BY <1>2, <1>3, <2>1, <2>2, PlaceAfterCharacter
  <2> QED
      BY <1>1, <2>1, <2>3
<1>7. CASE ScanValueEnd
  <2>1. /\ pc = "scan" /\ pc' = "push" /\ c_return' = TRUE /\ i' = i /\ Character = LF /\ ~AtBlankLine
      BY <1>7 DEF ScanValueEnd, Scanning
  <2>2. ~c_return /\ h[Place + 1] = LF
      BY <1>1, <2>1 DEF AtBlankLine
  <2>2a. c_return = FALSE /\ AtPlace(h, Place, FALSE)
    <3>1. AtPlace(h, Place, c_return) /\ c_return \in BOOLEAN
        BY <1>2, <2>1 DEF AtPlace
    <3>2. c_return = FALSE
        BY <2>2, <3>1
    <3> QED
        BY <3>1, <3>2
  <2>3. AtPlace(h, Place + 1, TRUE)
      BY <1>3, <2>2, <2>2a, PlaceAfterLine
  <2> QED
      BY <1>1, <2>1, <2>2, <2>3
<1>8. CASE ScanOtherLine
  <2>1. /\ pc = "scan" /\ pc' = "scan" /\ c_return' = TRUE /\ i' = i + 1 /\ Character = LF /\ ~AtBlankLine
      BY <1>8 DEF ScanOtherLine, Scanning
  <2>2. ~c_return /\ h[Place + 1] = LF
      BY <1>1, <2>1 DEF AtBlankLine
  <2>2a. c_return = FALSE /\ AtPlace(h, Place, FALSE)
    <3>1. AtPlace(h, Place, c_return) /\ c_return \in BOOLEAN
        BY <1>2, <2>1 DEF AtPlace
    <3>2. c_return = FALSE
        BY <2>2, <3>1
    <3> QED
        BY <3>1, <3>2
  <2>3. AtPlace(h, Place + 1, TRUE)
      BY <1>3, <2>2, <2>2a, PlaceAfterLine
  <2> QED
      BY <1>1, <2>1, <2>3
<1>9. CASE ScanCharacter
  <2>1. /\ pc = "scan" /\ pc' = "scan" /\ c_return' = AtLineEnd(Character) /\ i' = i + 1
        /\ Character # LF
      BY <1>9 DEF ScanCharacter, Scanning
  <2>2. h[Place + 1] # LF
      BY <1>1, <2>1
  <2>3. c_return' = (c_return /\ h[Place + 1] \in Below0)
      BY <1>1, <2>1 DEF AtLineEnd
  <2>4. c_return' \in BOOLEAN
      BY <2>3
  <2>5. AtPlace(h, Place + 1, c_return')
      BY <1>2, <1>3, <2>1, <2>2, <2>3, <2>4, PlaceAfterCharacter
  <2> QED
      BY <1>1, <2>1, <2>5
<1>10. CASE Push
  <2>1. pc = "push" /\ pc' = "scan" /\ c_return' = c_return /\ i' = i + 1
      BY <1>10 DEF Push
  <2>2. AtPlace(h, Place + 1, TRUE) /\ c_return = TRUE
      BY <2>1 DEF HeadInv, PlaceInv, h
  <2> QED
      BY <1>1, <2>1, <2>2
<1> QED
    BY <1>5, <1>6, <1>7, <1>8, <1>9, <1>10 DEF ScanStep

LEMMA ScanKeepsValue == ScanInv /\ HeadInv /\ ScanStep => ValueInv'
<1> SUFFICES ASSUME ScanInv, HeadInv, ScanStep PROVE ValueInv'
    OBVIOUS
<1> DEFINE h == Header(response)
           colon == Colon(response)
           e == FirstEnd
<1>1. /\ pc' \in {"scan", "push"} /\ Place \in Nat
      /\ response' = response /\ WellFormed(response)
      /\ i' = i => Place' = Place
      /\ i' = i + 1 => Place' = Place + 1
      /\ pc = "scan" => Character = h[Place + 1]
    BY ScanKeepsFlow
<1>2. SUFFICES ASSUME response.lines # << >>, pc' = "scan"
               PROVE  AtHeader(colon, e, Place', in_value', DOMAIN tree')
    BY <1>1 DEF ValueInv, FirstEnd
<1>3. pc = "scan" => AtHeader(colon, e, Place, in_value, DOMAIN tree)
    BY <1>2 DEF HeadInv, ValueInv, Unconnected
<1>4. FirstLineShaped(h, colon, e)
    BY <1>1, <1>2, HeadersAreShaped DEF FirstEnd
<1> HIDE DEF h, colon, e
<1>5. CASE Flush
  <2>1. pc = "scan" /\ i' = i /\ in_value' = in_value /\ tree' = tree
      BY <1>5 DEF Flush, Scanning, ptree_update_key, ptree_update_value
  <2> QED
      BY <1>1, <1>3, <2>1
<1>6. CASE ScanColon
  <2>1. /\ pc = "scan" /\ in_value' = TRUE /\ i' = i + 1 /\ Character = COLON /\ tree' = tree
      BY <1>6 DEF ScanColon, Scanning, ptree_update_key
  <2>2. h[Place + 1] # LF
      BY <1>1, <2>1, CharactersDiffer
  <2>3. AtHeader(colon, e, Place + 1, TRUE, DOMAIN tree)
      BY <1>1, <1>3, <1>4, <2>1, <2>2, HeaderGoesOn
  <2> QED
      BY <1>1, <2>1, <2>3
<1>7. CASE ScanOtherLine
  <2>1. /\ pc = "scan" /\ in_value' = in_value /\ ~in_value /\ i' = i + 1 /\ Character = LF /\ tree' = tree
      BY <1>7 DEF ScanOtherLine, Scanning, ptree_abort
  <2>2. h[Place + 1] = LF
      BY <1>1, <2>1
  <2>3. AtHeader(colon, e, Place + 1, in_value, DOMAIN tree)
      BY <1>1, <1>3, <1>4, <2>1, <2>2, HeaderGoesOn
  <2> QED
      BY <1>1, <2>1, <2>3
<1>8. CASE ScanCharacter
  <2>1. /\ pc = "scan" /\ in_value' = in_value /\ i' = i + 1 /\ tree' = tree
        /\ Character # LF /\ ~(Character = COLON /\ ~in_value)
      BY <1>8 DEF ScanCharacter, Scanning, treeVars
  <2>2. h[Place + 1] # LF /\ (h[Place + 1] = COLON => in_value)
      BY <1>1, <2>1
  <2>3. AtHeader(colon, e, Place + 1, in_value, DOMAIN tree)
      BY <1>1, <1>3, <1>4, <2>1, <2>2, HeaderGoesOn
  <2> QED
      BY <1>1, <2>1, <2>3
<1>9. CASE Push
  <2>1. /\ pc = "push" /\ in_value' = in_value /\ i' = i + 1
        /\ tree' = Stored(tree, current_key, current_value)
      BY <1>9 DEF Push, ptree_push
  <2>2. h[Place + 1] = LF
      BY <2>1 DEF HeadInv, PlaceInv, h
  <2>3. DOMAIN tree' # {}
      BY <2>1, StoredIsNotEmpty
  <2>4. AtHeader(colon, e, Place + 1, in_value, DOMAIN tree')
      BY <1>1, <1>4, <2>2, <2>3, HeaderPushed
  <2> QED
      BY <1>1, <2>1, <2>4
<1>10. CASE ScanValueEnd
    BY <1>2, <1>10 DEF ScanValueEnd
<1> QED
    BY <1>5, <1>6, <1>7, <1>8, <1>9, <1>10 DEF ScanStep

LEMMA EndPieceKeepsHead == ScanInv /\ HeadInv /\ EndPiece => HeadInv'
<1> SUFFICES ASSUME ScanInv, HeadInv, EndPiece PROVE HeadInv'
    OBVIOUS
<1> DEFINE h == Header(response)
<1>1. /\ pc = "scan" /\ (i = size \/ AtBlankLine)
      /\ UNCHANGED << response, stream, broken, buffer, size, i, c_return, in_value, tree, residue >>
    BY DEF EndPiece, serverVars, textVars, treeVars
<1>2. \/ offset' = i + 1 /\ pc' = "finish" /\ c_return
      \/ offset' = offset /\ pc' = "read" /\ ~AtBlankLine
    BY DEF EndPiece, AtBlankLine, LF, UNINIT
<1>3. /\ Received \in Nat /\ size \in Nat /\ i \in Nat /\ i <= size
      /\ Place = Received - size + i /\ Place \in Nat /\ Place < Len(h)
    BY <1>1, PlaceIs DEF HeadInv
<1>4. ~broken /\ offset = -1 /\ AtPlace(h, Place, c_return)
    BY <1>1 DEF HeadInv, PlaceInv
<1>5. WellFormed(response)
    BY <1>1 DEF HeadInv, FlowInv, Unconnected
<1>6. HeaderShaped(h, LineEnds(response))
    BY <1>5, HeadersAreShaped
<1>6a. Len(h) \in Nat /\ Len(h) > 3
    BY <1>6 DEF HeaderShaped
<1>7. FlowInv' /\ Received' = Received
  <2>1. pc' = "read" => i' = size
      BY <1>1, <1>2
  <2> QED
      BY <1>1, <1>2, <2>1, SilenceKeepsFlow DEF HeadInv, Arrives
<1>8. Place' = Place
    BY <1>1, <1>7 DEF Place
<1>9. response.lines # << >> =>
         /\ AtHeader(Colon(response), FirstEnd, Place, in_value, DOMAIN tree)
         /\ FirstEnd \in 1..(Len(h) - 2)
  <2> SUFFICES ASSUME response.lines # << >>
               PROVE  /\ AtHeader(Colon(response), FirstEnd, Place, in_value, DOMAIN tree)
                      /\ FirstEnd \in 1..(Len(h) - 2)
      OBVIOUS
  <2>1. AtHeader(Colon(response), FirstEnd, Place, in_value, DOMAIN tree)
      BY <1>1 DEF HeadInv, ValueInv, Unconnected
  <2>2. FirstLineShaped(h, Colon(response), FirstEnd)
      BY <1>5, HeadersAreShaped DEF FirstEnd
  <2> QED
      BY <2>1, <2>2 DEF FirstLineShaped
<1> HIDE DEF h
<1>10. CASE pc' = "read"
  <2>1. PlaceInv'
      BY <1>1, <1>2, <1>4, <1>8, <1>10 DEF PlaceInv, h
  <2>2. ValueInv'
      BY <1>1, <1>8, <1>9, <1>10 DEF ValueInv, FirstEnd
  <2> QED
      BY <1>7, <2>1, <2>2 DEF HeadInv
<1>11. CASE pc' = "finish" /\ i = size
  <2>1. Place = Received /\ offset' = size + 1
      BY <1>2, <1>3, <1>11
  <2>2. c_return
      BY <1>2, <1>11
  <2>3. Received \in 1..(Len(h) - 1) /\ (h[Received] = LF \/ Received = Len(h) - 1)
      BY <1>3, <1>4, <1>6a, <2>1, <2>2 DEF AtPlace
  <2>4. Found'
      BY <1>1, <1>7, <2>1, <2>3 DEF Found, h
  <2>5. PlaceInv'
      BY <1>1, <1>4, <1>11, <2>4 DEF PlaceInv
  <2>6. ValueInv'
      BY <1>1, <1>7, <1>9, <1>11, <2>1 DEF ValueInv, FirstEnd, AtHeader
  <2> QED
      BY <1>7, <2>5, <2>6 DEF HeadInv
<1>12. CASE pc' = "finish" /\ i # size
  <2>1. c_return /\ Character = LF /\ i < size /\ offset' = i + 1
      BY <1>1, <1>2, <1>3, <1>12 DEF AtBlankLine
  <2>2. h[Place + 1] = LF
      BY <1>1, <2>1, CharacterIsNext DEF HeadInv, h
  <2>3. Place + 1 = Len(h)
      BY <1>4, <1>6, <2>1, <2>2, BlankLineIsLast
  <2>4. offset' \in 1..size /\ Received - size + offset' = Len(h)
      BY <1>3, <2>1, <2>3
  <2>5. Found'
      BY <1>1, <1>7, <2>4 DEF Found, h
  <2>6. PlaceInv'
      BY <1>1, <1>4, <1>12, <2>5 DEF PlaceInv
  <2>7. response.lines # << >> => Place >= FirstEnd
      BY <1>3, <1>6a, <1>9, <2>3
  <2>8. ValueInv'
      BY <1>1, <1>9, <1>12, <2>7 DEF ValueInv, FirstEnd, AtHeader
  <2> QED
      BY <1>7, <2>6, <2>8 DEF HeadInv
<1> QED
    BY <1>2, <1>10, <1>11, <1>12

LEMMA PieceOfArray ==
    ASSUME NEW B, NEW b \in Seq(B), NEW n \in Nat, n <= Len(b), NEW o \in 1..n
    PROVE  LET s == SubSeq(b, o + 1, n)
           IN  s \in Seq(B) /\ Len(s) = n - o /\ \A k \in 1..(n - o) : s[k] = b[o + k]
<1> DEFINE s == SubSeq(b, o + 1, n)
<1>1. s \in Seq(B) /\ Len(s) = n - o
    OBVIOUS
<1>2. ASSUME NEW k \in 1..(n - o) PROVE s[k] = b[o + k]
  <2>1. s[k] = b[(o + 1) + k - 1] /\ (o + 1) + k - 1 = o + k
      OBVIOUS
  <2> QED
      BY <2>1
<1> QED
    BY <1>1, <1>2

LEMMA FinishKeepsHead == ScanInv /\ HeadInv /\ Finish => HeadInv'
<1> SUFFICES ASSUME ScanInv, HeadInv, Finish PROVE HeadInv'
    OBVIOUS
<1>1. /\ pc = "finish" /\ UNCHANGED << response, stream, broken, buffer, size, i, offset, tree >>
      /\ IF offset > size THEN pc' = "refused" /\ UNCHANGED residue
                          ELSE pc' = "accepted" /\ residue' = Residue
    BY DEF Finish, serverVars, pieceVars, treeVars
<1>2. pc' \in {"refused", "accepted"}
    BY <1>1
<1>3. FlowInv' /\ Received' = Received
    BY <1>1, <1>2, SilenceKeepsFlow DEF HeadInv, Arrives
<1>4. /\ broken => offset = -1 /\ size \in {0, -1}
      /\ ~broken => Found
    BY <1>1 DEF HeadInv, PlaceInv
<1>5. CASE broken
  <2>1. pc' = "accepted"
      BY <1>1, <1>4, <1>5
  <2> QED
      BY <1>1, <1>3, <1>4, <1>5, <2>1 DEF HeadInv, PlaceInv, ValueInv, FirstEnd, Unconnected
<1>6. CASE ~broken
  <2>1. Found' /\ Found
      BY <1>1, <1>3, <1>4, <1>6 DEF Found
  <2>2. size \in Nat
      BY <1>1, <1>6 DEF HeadInv, FlowInv, Arrives
  <2>3. offset # -1
      BY <2>1, <2>2 DEF Found
  <2>4. offset \in Int
      BY <2>1, <2>2 DEF Found
  <2>5. /\ pc' = "refused" => offset > size
        /\ pc' = "accepted" => offset <= size /\ residue' = SubSeq(buffer, offset + 1, size)
      BY <1>1, <2>2, <2>3, <2>4 DEF Residue
  <2>5a. ASSUME pc' = "accepted"
         PROVE  /\ residue' \in Seq(Characters) /\ Len(residue') = size - offset
                /\ \A k \in 1..(size - offset) : residue'[k] = buffer[offset + k]
    <3>1. buffer \in Seq(Characters) /\ Len(buffer) = PARSER_BUFFER_SIZE /\ size <= PARSER_BUFFER_SIZE
        BY <1>1, SizeIs DEF ScanInv, ArraysInv, ScannerTypeOK
    <3>2. offset \in 1..size
        BY <2>1, <2>2, <2>5, <2>5a DEF Found
    <3>3. buffer \in Seq(Characters)
        BY <3>1
    <3>4. size <= Len(buffer)
        BY <3>1
    <3>5. /\ SubSeq(buffer, offset + 1, size) \in Seq(Characters)
          /\ Len(SubSeq(buffer, offset + 1, size)) = size - offset
          /\ \A k \in 1..(size - offset) : SubSeq(buffer, offset + 1, size)[k] = buffer[offset + k]
        BY <2>2, <3>2, <3>3, <3>4, PieceOfArray
    <3>6. residue' = SubSeq(buffer, offset + 1, size)
        BY <2>5, <2>5a
    <3> QED
        BY <3>5, <3>6
  <2>6. PlaceInv'
      BY <1>1, <1>2, <1>6, <2>1, <2>5, <2>5a DEF PlaceInv
  <2>7. ValueInv'
      BY <1>1, <1>2, <1>3 DEF HeadInv, ValueInv, FirstEnd, Unconnected
  <2> QED
      BY <1>3, <2>6, <2>7 DEF HeadInv
<1> QED
    BY <1>5, <1>6

\* Nothing is scanned.
RequestStep ==
    /\ UNCHANGED scanVars
    /\ \/ pc' = pc \/ pc' \in Unconnected
       \/ pc \in {"accepted", "framed"} /\ pc' \in {"framed", "handler"}
       \/ pc \in {"refused", "handler"} /\ ~Walkable /\ pc' = "crashed"

LEMMA RequestKeepsHead == HeadInv /\ RequestStep => HeadInv'
<1> SUFFICES ASSUME HeadInv, RequestStep PROVE HeadInv'
    OBVIOUS
<1>1. UNCHANGED << response, stream, broken, buffer, size, i, offset, c_return, in_value, tree, residue >>
    BY DEF RequestStep, scanVars, serverVars, pieceVars, textVars, treeVars
<1>2. Received' = Received /\ Wire' = Wire /\ Place' = Place /\ FirstEnd' = FirstEnd /\ Found' = Found
    BY <1>1 DEF Received, Wire, Place, FirstEnd, Found
<1>3. CASE pc' = pc
  <2>1. FlowInv'
      BY <1>1, <1>2, <1>3 DEF HeadInv, FlowInv
  <2>2. PlaceInv'
      BY <1>1, <1>2, <1>3 DEF HeadInv, PlaceInv
  <2>3. ValueInv'
      BY <1>1, <1>2, <1>3 DEF HeadInv, ValueInv
  <2> QED
      BY <2>1, <2>2, <2>3 DEF HeadInv
<1>4. CASE pc' \in Unconnected
  <2>1. /\ pc' \notin Arrives /\ pc' \notin {"read", "scan", "push", "finish", "refused", "accepted"}
        /\ pc' # "crashed"
      BY <1>4 DEF Unconnected, Arrives
  <2> QED
      BY <1>4, <2>1 DEF HeadInv, FlowInv, PlaceInv, ValueInv
<1>5. CASE pc \in {"accepted", "framed"} /\ pc' \in {"framed", "handler"}
  <2>1. /\ pc' \notin Arrives /\ pc' \notin {"read", "scan", "push", "finish", "refused", "accepted"}
        /\ pc' # "crashed" /\ pc \notin Unconnected /\ pc \notin {"read", "scan", "push"}
      BY <1>5 DEF Unconnected, Arrives
  <2>2. FlowInv' /\ PlaceInv'
      BY <1>1, <2>1 DEF HeadInv, FlowInv, PlaceInv
  <2>3. ValueInv'
      BY <1>1, <1>2, <2>1 DEF HeadInv, ValueInv
  <2> QED
      BY <2>2, <2>3 DEF HeadInv
<1>6. CASE pc \in {"refused", "handler"} /\ ~Walkable /\ pc' = "crashed"
  <2>1. /\ pc' \notin Arrives /\ pc' \notin {"read", "scan", "push", "finish", "refused", "accepted"}
        /\ pc \notin Unconnected /\ pc \notin {"read", "scan", "push"}
      BY <1>6 DEF Unconnected, Arrives
  <2>2. FlowInv' /\ PlaceInv'
      BY <1>1, <2>1 DEF HeadInv, FlowInv, PlaceInv
  <2>3. ValueInv'
      BY <1>1, <1>2, <1>6, <2>1 DEF HeadInv, ValueInv, Walkable
  <2> QED
      BY <2>2, <2>3 DEF HeadInv
<1> QED
    BY <1>3, <1>4, <1>5, <1>6 DEF RequestStep

LEMMA HeadInvInit == Init => HeadInv
<1> SUFFICES ASSUME Init PROVE HeadInv
    OBVIOUS
<1>1. pc = "connect"
    BY DEF Init
<1> QED
    BY <1>1 DEF HeadInv, FlowInv, PlaceInv, ValueInv, Unconnected, Arrives

LEMMA HeadInvStep == ScanInv /\ HeadInv /\ [Next]_vars => HeadInv'
<1> SUFFICES ASSUME ScanInv, HeadInv, [Next]_vars PROVE HeadInv'
    OBVIOUS
<1>1. CASE Connect
    BY <1>1, ConnectGivesHead
<1>2. CASE Parse
  <2>1. CASE ScanStep
    <3>1. FlowInv'
        BY <2>1, ScanKeepsFlow
    <3> QED
        BY <2>1, <3>1, ScanKeepsPlace, ScanKeepsValue DEF HeadInv
  <2>2. Read \/ ScanStep \/ EndPiece \/ Finish
      BY <1>2 DEF Parse, ParseStep, ScanStep
  <2> QED
      BY <2>1, <2>2, ReadKeepsHead, EndPieceKeepsHead, FinishKeepsHead
<1>3. RequestStep \/ Connect \/ Parse
    BY DEF Next, NoConnection, ConnectFails, GiveUp, UseFraming, Follow, FollowNowhere,
       ReturnHandler, TryGet, GotNothing, DropHandler, UseHandler, RequestStep, Unconnected, vars
<1> QED
    BY <1>1, <1>2, <1>3, RequestKeepsHead

-----------------------------------------------------------------------------
\* The residue is what the buffer holds behind the header.
LEMMA ResidueIsBody == ScanInv /\ HeadInv => BodyStartsAfterBlankLine
<1> SUFFICES ASSUME ScanInv, HeadInv, pc = "accepted", ~broken
             PROVE  residue \o stream = response.body
    BY DEF BodyStartsAfterBlankLine
<1> DEFINE N == Len(Header(response))
           body == response.body
<1>1. /\ WellFormed(response) /\ Received \in Nat /\ size \in 0..Received
      /\ Found /\ offset <= size
      /\ residue \in Seq(Characters) /\ Len(residue) = size - offset
      /\ \A k \in 1..(size - offset) : residue[k] = buffer[offset + k]
    BY DEF HeadInv, FlowInv, PlaceInv, Arrives, Unconnected
<1>2. /\ \A k \in 1..Len(stream) : stream[k] = Wire[Received + k]
      /\ \A k \in 1..size : buffer[k] = Wire[Received - size + k]
    BY DEF HeadInv, FlowInv, Arrives
<1>3. offset \in 1..size /\ Received - size + offset = N
    BY <1>1 DEF Found
<1>4. N \in Nat /\ Len(body) \in Nat /\ body \in Seq(DOMAIN Lower)
      /\ \A k \in 1..Len(body) : Wire[N + k] = body[k]
    BY <1>1, ResponseIsWire
<1>5. stream \in Seq(DOMAIN Lower) /\ Len(stream) \in Nat
    BY DEF ScanInv, ArraysInv, Texts
<1>6. Received = N + Len(body) - Len(stream)
    BY DEF Received
<1>7. PICK m \in Nat : m = size - offset
    BY <1>1, <1>3
<1>8. size \in Nat /\ offset + m = size /\ Received = N + m /\ Len(body) = m + Len(stream)
  <2>1. size \in Nat /\ offset \in Nat /\ offset + m = size
      BY <1>1, <1>3, <1>7
  <2>2. PICK a, b, c \in Nat : a = N /\ b = Len(body) /\ c = Len(stream)
      BY <1>4, <1>5
  <2>3. Received - size + offset = a /\ Received = a + b - c
      BY <1>3, <1>6, <2>2
  <2>4. Received = a + m /\ b = m + c
      BY <1>1, <2>1, <2>3
  <2> QED
      BY <2>1, <2>2, <2>4
<1>9. ASSUME NEW k \in 1..m PROVE buffer[offset + k] = body[k]
  <2>1. offset + k \in 1..size /\ Received - size + (offset + k) = N + k /\ k \in 1..Len(body)
      BY <1>3, <1>4, <1>5, <1>8
  <2> QED
      BY <1>2, <1>4, <2>1
<1>11. ASSUME NEW k \in 1..Len(stream) PROVE stream[k] = body[m + k]
  <2>1. Received + k = N + (m + k) /\ m + k \in 1..Len(body)
      BY <1>4, <1>5, <1>8
  <2> QED
      BY <1>2, <1>4, <2>1
<1>12. residue \in Seq(Characters) /\ Len(residue) = m /\ \A k \in 1..m : residue[k] = body[k]
    BY <1>1, <1>7, <1>9
<1>13. PICK t : t = residue \o stream
    OBVIOUS
<1>14. /\ t \in Seq(Characters) /\ Len(t) = m + Len(stream)
       /\ \A k \in 1..m : t[k] = residue[k]
       /\ \A k \in 1..Len(stream) : t[m + k] = stream[k]
  <2>1. residue \in Seq(Characters) /\ stream \in Seq(Characters)
      BY <1>5, <1>12 DEF Characters
  <2>2. /\ t \in Seq(Characters) /\ Len(t) = Len(residue) + Len(stream)
        /\ \A k \in 1..Len(residue) : t[k] = residue[k]
        /\ \A k \in 1..Len(stream) : t[Len(residue) + k] = stream[k]
      BY <1>13, <2>1, JoinedAt
  <2> QED
      BY <1>12, <2>2
<1>15. ASSUME NEW k \in 1..Len(body) PROVE t[k] = body[k]
  <2>1. CASE k \in 1..m
      BY <1>12, <1>14, <2>1
  <2>2. CASE k \notin 1..m
    <3>1. k - m \in 1..Len(stream) /\ m + (k - m) = k
        BY <1>5, <1>8, <2>2
    <3> QED
        BY <1>11, <1>14, <3>1
  <2> QED
      BY <2>1, <2>2
<1>16. t = body
  <2>1. Len(t) = Len(body)
      BY <1>8, <1>14
  <2>2. body \in Seq(Characters)
      BY <1>4 DEF Characters
  <2> HIDE DEF body
  <2> QED
      BY <1>14, <1>15, <2>1, <2>2, SeqEqual
<1> QED
    BY <1>13, <1>16

(* Of a response whose blank line has arrived, the residue and what is     *)
(* still to come are exactly the body, whatever the header and however the *)
(* connection cut it (requests.c:402-412).                                 *)
THEOREM BodiesStartAfterBlankLine == Spec => []BodyStartsAfterBlankLine
BY ScanInvInit, ScanInvStep, HeadInvInit, HeadInvStep, ResidueIsBody, PTL DEF Spec

\* A line end seen behind the piece was in front of it, too.
LEMMA RefusalsAreBetweenLines == HeadInv => RefusedOnlyBetweenLines
<1> SUFFICES ASSUME HeadInv, pc = "refused"
             PROVE  /\ Received < Len(Header(response))
                    /\ \E k \in 0..Len(response.lines) : Received \in {Len(UpTo(k)) - 2, Len(UpTo(k)) - 1}
    BY DEF RefusedOnlyBetweenLines
<1> DEFINE h == Header(response)
           n == Len(response.lines)
<1>1. WellFormed(response) /\ Received \in Nat /\ ~broken /\ offset > size /\ Found
    BY DEF HeadInv, FlowInv, PlaceInv, Arrives, Unconnected
<1>2. size \in Nat
    BY <1>1 DEF HeadInv, FlowInv, Arrives
<1>3. Received \in 1..(Len(h) - 1) /\ (h[Received] = LF \/ Received = Len(h) - 1)
    BY <1>1, <1>2 DEF Found
<1>4. HeaderShaped(h, LineEnds(response)) /\ Len(h) \in Nat
    BY <1>1, HeadersAreShaped, ResponseIsWire
<1>5. n \in 0..n
    BY <1>1 DEF WellFormed
<1>6. \A k \in 0..n : Len(UpTo(k)) - 2 = Len(Through(response, k)) /\ Len(Through(response, k)) \in Nat
    BY <1>1, UpToIs, ThroughStep
<1>6a. \A k \in 0..n : Len(UpTo(k)) - 1 = Len(Through(response, k)) + 1
  <2> TAKE k \in 0..n
  <2>1. Len(UpTo(k)) \in Nat
      BY <1>1, UpToIs
  <2>2. PICK a, b \in Nat : a = Len(UpTo(k)) /\ b = Len(Through(response, k))
      BY <1>6, <2>1
  <2> QED
      BY <1>6, <2>2
<1>7. CASE h[Received] = LF
  <2>1. Received \in LineEnds(response)
      BY <1>3, <1>4, <1>7 DEF HeaderShaped
  <2>2. PICK k \in 0..n : Received = Len(Through(response, k))
      BY <2>1 DEF LineEnds
  <2> QED
      BY <1>3, <1>4, <1>6, <2>2
<1>8. CASE Received = Len(h) - 1
  <2>1. Len(h) = Len(Through(response, n)) + 2
      BY <1>1, HeaderPieces
  <2>2. Received = Len(Through(response, n)) + 1
      BY <1>5, <1>6, <1>8, <2>1
  <2> QED
      BY <1>3, <1>4, <1>5, <1>6a, <2>2
<1> QED
    BY <1>3, <1>7, <1>8

(* A response is refused only when the connection cut it right behind a    *)
(* line end, or behind the CR of the blank line: that the scanner looks at *)
(* the character behind its piece does no other harm (requests.c:402-410). *)
THEOREM RefusalsOnlyBetweenLines == Spec => []RefusedOnlyBetweenLines
BY ScanInvInit, ScanInvStep, HeadInvInit, HeadInvStep, RefusalsAreBetweenLines, PTL DEF Spec

\* A tree with a node has its root.
LEMMA TreesHaveRoots ==
    ASSUME TreeInv, DOMAIN tree # {} PROVE Root \in DOMAIN tree
<1>1. PICK p \in DOMAIN tree : TRUE
    OBVIOUS
<1>2. p \in Seq(Sides) /\ LeadsTo(tree, tree[p].key, p)
    BY DEF TreeInv, TreeSound
<1>3. CASE p = Root
    BY <1>3
<1>4. CASE p # Root
  <2>1. Len(p) \in Nat \ {0}
      BY <1>2, <1>4, EmptySeq DEF Root
  <2>2. SubSeq(p, 1, 1 - 1) \in DOMAIN tree
      BY <1>2, <2>1 DEF LeadsTo
  <2>3. SubSeq(p, 1, 1 - 1) = << >>
      BY <1>2, <2>1
  <2> QED
      BY <2>2, <2>3 DEF Root
<1> QED
    BY <1>3, <1>4

\* A header line that has arrived has left a node.
LEMMA CrashesAreHeaderless == ScanInv /\ TreeInv /\ HeadInv => OnlyHeaderlessAnswersCrash
<1> SUFFICES ASSUME ScanInv, TreeInv, HeadInv, pc = "crashed", NEW k \in Arrived PROVE FALSE
    BY DEF OnlyHeaderlessAnswersCrash
<1>1. WellFormed(response) /\ Root \notin DOMAIN tree
    BY DEF HeadInv, FlowInv, ValueInv, Unconnected
<1>2. Len(response.lines) \in Nat /\ DOMAIN response.lines = 1..Len(response.lines)
    BY <1>1 DEF WellFormed
<1>3. k \in 1..Len(response.lines) /\ Len(UpTo(k)) - 2 <= Received
    BY <1>2 DEF Arrived
<1>4. response.lines # << >>
    BY <1>2, <1>3, EmptySeq
<1>5. Received \in Int
  <2>1. Len(stream) \in Nat
      BY DEF ScanInv, ArraysInv, Texts
  <2> QED
      BY <1>1, <2>1, ResponseIsWire DEF Received
<1>6. FirstEnd <= Received
  <2>1. 1 \in 0..Len(response.lines) /\ k \in 1..Len(response.lines) /\ k \in 0..Len(response.lines)
      BY <1>2, <1>3
  <2>2. Len(Through(response, 1)) <= Len(Through(response, k))
      BY <1>1, <2>1, ThroughGrows
  <2>3. Len(Through(response, 1)) \in Nat /\ Len(Through(response, k)) \in Nat
      BY <1>1, <2>1, ThroughStep
  <2>4. Len(UpTo(k)) - 2 = Len(Through(response, k))
      BY <1>1, <2>1, UpToIs
  <2>5. Len(Through(response, k)) <= Received
      BY <1>3, <2>4
  <2>6. PICK a, b \in Nat : a = Len(Through(response, 1)) /\ b = Len(Through(response, k))
      BY <2>3
  <2> QED
      BY <1>5, <2>2, <2>5, <2>6 DEF FirstEnd
<1>7. DOMAIN tree # {}
    BY <1>4, <1>6 DEF HeadInv, ValueInv, Unconnected
<1> QED
    BY <1>1, <1>7, TreesHaveRoots

(* ptree_display and ptree_free, which do not look whether there is a root *)
(* (parser_tree.c:179-209, requests.c:601), miss it only when the          *)
(* connection ended before any header line had arrived.                    *)
THEOREM CrashesOnlyHeaderless == Spec => []OnlyHeaderlessAnswersCrash
<1>1. Init => TreeInv
    BY EmptyTreeIsSound DEF Init, ptree_init, TreeInv
<1> QED
    BY <1>1, TreeInvStep, ScanInvInit, ScanInvStep, HeadInvInit, HeadInvStep, CrashesAreHeaderless, PTL
    DEF Spec

-----------------------------------------------------------------------------
(* Where a text begins and ends, and the minima and maxima the code looks for. *)

\* The first and the last character of s that are not blank.
SolidEnds(s, a, b) ==
    /\ a \in 1..Len(s) /\ b \in a..Len(s)
    /\ IsSolid(s[a]) /\ IsSolid(s[b])
    /\ \A c \in 1..(a - 1) : ~IsSolid(s[c])
    /\ \A c \in (b + 1)..Len(s) : ~IsSolid(s[c])

\* An element below all others is the minimum the library chooses.
LEMMA LeastIs ==
    ASSUME NEW I, NEW a \in I, \A c \in I : c \in Nat /\ a <= c
    PROVE  I # {} /\ Min(I) = a
<1>1. \A m : m \in I /\ (\A c \in I : m <= c) => m = a
    OBVIOUS
<1> QED
    BY <1>1 DEF Min

\* An element above all others is the maximum it chooses.
LEMMA GreatestIs ==
    ASSUME NEW I, NEW a \in I, \A c \in I : c \in Nat /\ c <= a
    PROVE  I # {} /\ Max(I) = a
<1>1. \A m : m \in I /\ (\A c \in I : m >= c) => m = a
    OBVIOUS
<1> QED
    BY <1>1 DEF Max

\* Where the search for the first character that is not blank ends.
LEMMA FirstSolidIs ==
    ASSUME NEW s, NEW a \in 1..Len(s), IsSolid(s[a]), \A c \in 1..(a - 1) : ~IsSolid(s[c]),
           Len(s) \in Nat
    PROVE  SelectInSeq(s, IsSolid) = a
<1> DEFINE I == { c \in 1..Len(s) : IsSolid(s[c]) }
<1>1. SelectInSeq(s, IsSolid) = IF I # {} THEN Min(I) ELSE 0
    BY DEF SelectInSeq
<1>2. a \in I /\ \A c \in I : c \in Nat /\ a <= c
    OBVIOUS
<1> HIDE DEF I
<1>3. I # {} /\ Min(I) = a
    BY <1>2, LeastIs
<1> QED
    BY <1>1, <1>3

\* Where the search for the end of a string ends.
LEMMA FirstNulIs ==
    ASSUME NEW s, NEW a \in 1..Len(s), IsNul(s[a]), \A c \in 1..(a - 1) : ~IsNul(s[c]),
           Len(s) \in Nat
    PROVE  SelectInSeq(s, IsNul) = a
<1> DEFINE I == { c \in 1..Len(s) : IsNul(s[c]) }
<1>1. SelectInSeq(s, IsNul) = IF I # {} THEN Min(I) ELSE 0
    BY DEF SelectInSeq
<1>2. a \in I /\ \A c \in I : c \in Nat /\ a <= c
    OBVIOUS
<1> HIDE DEF I
<1>3. I # {} /\ Min(I) = a
    BY <1>2, LeastIs
<1> QED
    BY <1>1, <1>3

\* Where the search backwards for a character that is not blank ends.
LEMMA LastSolidIs ==
    ASSUME NEW s, NEW a \in 1..Len(s), IsSolid(s[a]), \A c \in (a + 1)..Len(s) : ~IsSolid(s[c]),
           Len(s) \in Nat
    PROVE  SelectLastInSeq(s, IsSolid) = a
<1> DEFINE I == { c \in 1..Len(s) : IsSolid(s[c]) }
<1>1. SelectLastInSeq(s, IsSolid) = IF I # {} THEN Max(I) ELSE 0
    BY DEF SelectLastInSeq
<1>2. a \in I /\ \A c \in I : c \in Nat /\ c <= a
    OBVIOUS
<1> HIDE DEF I
<1>3. I # {} /\ Max(I) = a
    BY <1>2, GreatestIs
<1> QED
    BY <1>1, <1>3

\* A set of positions has a last one.
\* A bounded set of numbers has a greatest element.
LEMMA GreatestNumber ==
    ASSUME NEW top \in Nat, NEW T \in SUBSET (1..top), T # {}
    PROVE  \E m \in T : \A n \in T : n <= m
<1> DEFINE R == { top - c : c \in T }
<1>1. R \in SUBSET Nat
    OBVIOUS
<1>1a. R # {}
  <2>1. PICK c \in T : TRUE
      OBVIOUS
  <2>2. top - c \in R
      OBVIOUS
  <2> QED
      BY <2>2
<1>2. PICK r \in R : \A n \in R : r <= n
  <2> HIDE DEF R
  <2> QED
      BY <1>1, <1>1a, LeastNumber
<1>3. PICK m \in T : r = top - m
    OBVIOUS
<1>4. ASSUME NEW n \in T PROVE n <= m
  <2>1. top - n \in R
      OBVIOUS
  <2>2. top - m <= top - n
      BY <1>2, <1>3, <2>1
  <2> QED
      BY <2>2
<1> QED
    BY <1>4

\* A text that is not all blank has a first and a last character that are not.
LEMMA SolidHasEnds ==
    ASSUME NEW s, Len(s) \in Nat, NEW c \in 1..Len(s), IsSolid(s[c])
    PROVE  \E a, b \in 1..Len(s) : SolidEnds(s, a, b)
<1> DEFINE I == { d \in 1..Len(s) : IsSolid(s[d]) }
<1>1. I \in SUBSET (1..Len(s)) /\ I # {} /\ I \in SUBSET Nat
    OBVIOUS
<1>2. PICK a \in I : \A d \in I : a <= d
  <2> HIDE DEF I
  <2> QED
      BY <1>1, LeastNumber
<1>3. PICK b \in I : \A d \in I : d <= b
  <2> HIDE DEF I
  <2> QED
      BY <1>1, GreatestNumber
<1>4. SolidEnds(s, a, b)
    BY <1>2, <1>3 DEF SolidEnds
<1> QED
    BY <1>4

\* Without its blanks a text is what lies between the two.
LEMMA TrimmedIs ==
    ASSUME NEW s, Len(s) \in Nat, NEW a, NEW b, SolidEnds(s, a, b)
    PROVE  Trimmed(s) = SubSeq(s, a, b)
<1>1. SelectInSeq(s, IsSolid) = a
    BY FirstSolidIs DEF SolidEnds
<1>2. SelectLastInSeq(s, IsSolid) = b
  <2>1. b \in 1..Len(s)
      BY DEF SolidEnds
  <2> QED
      BY <2>1, LastSolidIs DEF SolidEnds
<1> QED
    BY <1>1, <1>2 DEF Trimmed

-----------------------------------------------------------------------------
(* What strtrim makes of an array that holds a text.                       *)

\* What strtrim sees: the text in front of the first NUL, and what lies behind it.
Filled(array, text) ==
    /\ array \in Seq(Characters) /\ text \in Seq(Characters) /\ Len(text) < Len(array)
    /\ array[Len(text) + 1] = NUL
    /\ \A c \in 1..Len(text) : array[c] = text[c] /\ text[c] # NUL

\* NUL counts as blank, as in strtrim, and a byte nobody wrote does not.
LEMMA BlanksAre == /\ ~IsSolid(NUL) /\ IsSolid(UNINIT) /\ IsNul(NUL)
                   /\ \A c : IsSolid(c) => ~IsNul(c)
BY AlphabetAssumption DEF IsSolid, IsNul

\* What SubSeq returns.
LEMMA PieceOf ==
    ASSUME NEW B, NEW s \in Seq(B), NEW a \in 1..Len(s), NEW b \in a..Len(s)
    PROVE  /\ SubSeq(s, a, b) \in Seq(B) /\ Len(SubSeq(s, a, b)) = b - a + 1
           /\ \A c \in 1..(b - a + 1) : SubSeq(s, a, b)[c] = s[a + c - 1]
OBVIOUS

\* Of a text that is not all blank, strtrim leaves the trimmed text, whatever the
\* array holds behind its NUL.
LEMMA strtrimIs ==
    ASSUME NEW array, NEW text, Filled(array, text), NEW d \in 1..Len(text), IsSolid(text[d])
    PROVE  strtrim(array) = Trimmed(text)
<1> DEFINE tail == << UNINIT, NUL >>
           all  == array \o tail
<1>1. /\ array \in Seq(Characters) /\ text \in Seq(Characters) /\ Len(text) < Len(array)
      /\ array[Len(text) + 1] = NUL
      /\ \A c \in 1..Len(text) : array[c] = text[c] /\ text[c] # NUL
      /\ Len(text) \in Nat /\ Len(array) \in Nat
    BY DEF Filled
<1>2. tail \in Seq(Characters) /\ Len(tail) = 2
    BY DEF Characters
<1>3. PICK a, b \in 1..Len(text) : SolidEnds(text, a, b)
    BY <1>1, SolidHasEnds
<1>4. Trimmed(text) = SubSeq(text, a, b)
    BY <1>1, <1>3, TrimmedIs
<1>5. /\ all \in Seq(Characters) /\ Len(all) = Len(array) + 2
      /\ \A c \in 1..Len(array) : all[c] = array[c]
  <2> HIDE DEF tail
  <2>1. PICK u : u = array \o tail
      OBVIOUS
  <2>2. /\ u \in Seq(Characters) /\ Len(u) = Len(array) + Len(tail)
        /\ \A k \in 1..Len(array) : u[k] = array[k]
    <3>1. array \in Seq(Characters) /\ tail \in Seq(Characters)
        BY <1>1, <1>2
    <3> QED
        BY <2>1, <3>1, JoinedAt
  <2> QED
      BY <1>2, <2>1, <2>2
<1>6. /\ strtrim(array) = LET rest == SubSeq(all, SelectInSeq(all, IsSolid), Len(all))
                              word == SubSeq(rest, 1, SelectInSeq(rest, IsNul) - 1)
                          IN  SubSeq(word, 1, SelectLastInSeq(word, IsSolid))
    BY DEF strtrim
<1> HIDE DEF all, tail
<1> DEFINE L == Len(text)
           z == L + 1 - a
           rest == SubSeq(all, a, Len(all))
           word == SubSeq(rest, 1, z)
<1>7. a \in Nat /\ b \in Nat /\ a <= b /\ b <= L /\ 1 <= a /\ L \in Nat /\ z \in Nat /\ L + 1 <= Len(array)
    BY <1>1, <1>3 DEF SolidEnds
<1>8. SelectInSeq(all, IsSolid) = a
  <2>1. \A c \in 1..a : all[c] = text[c]
      BY <1>1, <1>5, <1>7
  <2>2. a \in 1..Len(all) /\ Len(all) \in Nat
      BY <1>5, <1>7
  <2>3. IsSolid(all[a]) /\ \A c \in 1..(a - 1) : ~IsSolid(all[c])
      BY <1>3, <1>7, <2>1 DEF SolidEnds
  <2> QED
      BY <2>2, <2>3, FirstSolidIs
<1>9. /\ rest \in Seq(Characters) /\ Len(rest) = Len(all) - a + 1
      /\ \A c \in 1..(Len(all) - a + 1) : rest[c] = all[a + c - 1]
  <2>1. a \in 1..Len(all) /\ Len(all) \in a..Len(all)
      BY <1>5, <1>7
  <2> QED
      BY <1>5, <2>1, PieceOf
<1> HIDE DEF rest
<1>10. \A c \in 1..z : rest[c] = text[a + c - 1]
  <2> TAKE c \in 1..z
  <2>1. c \in 1..(Len(all) - a + 1) /\ a + c - 1 \in 1..Len(array) /\ a + c - 1 \in 1..L
      BY <1>5, <1>7
  <2> QED
      BY <1>1, <1>5, <1>9, <2>1
<1>11. SelectInSeq(rest, IsNul) = z + 1
  <2>1. z + 1 \in 1..Len(rest) /\ Len(rest) \in Nat /\ z + 1 \in 1..(Len(all) - a + 1)
        /\ a + (z + 1) - 1 = L + 1 /\ L + 1 \in 1..Len(array)
      BY <1>5, <1>7, <1>9
  <2>2. rest[z + 1] = NUL
      BY <1>1, <1>5, <1>9, <2>1
  <2>3. \A c \in 1..z : ~IsNul(rest[c])
    <3> TAKE c \in 1..z
    <3>1. a + c - 1 \in 1..L
        BY <1>7
    <3> QED
        BY <1>1, <1>10, <3>1 DEF IsNul
  <2>4. \A c \in 1..((z + 1) - 1) : ~IsNul(rest[c])
      BY <1>7, <2>3
  <2>5. IsNul(rest[z + 1])
      BY <2>2, BlanksAre
  <2> QED
      BY <2>1, <2>4, <2>5, FirstNulIs
<1>12. /\ word \in Seq(Characters) /\ Len(word) = z
       /\ \A c \in 1..z : word[c] = text[a + c - 1]
  <2>1. 1 \in 1..Len(rest) /\ z \in 1..Len(rest) /\ z - 1 + 1 = z
      BY <1>5, <1>7, <1>9
  <2>2. /\ word \in Seq(Characters) /\ Len(word) = z - 1 + 1
        /\ \A c \in 1..(z - 1 + 1) : word[c] = rest[1 + c - 1]
      BY <1>9, <2>1, PieceOf
  <2>3. \A c \in 1..z : 1 + c - 1 = c
      BY <1>7
  <2> QED
      BY <1>10, <2>1, <2>2, <2>3
<1> HIDE DEF word
<1> DEFINE y == b - a + 1
<1>13. y \in 1..z
    BY <1>7
<1>14. SelectLastInSeq(word, IsSolid) = y
  <2>1. IsSolid(word[y])
    <3>1. a + y - 1 = b
        BY <1>7
    <3> QED
        BY <1>3, <1>12, <1>13, <3>1 DEF SolidEnds
  <2>2. \A c \in (y + 1)..z : ~IsSolid(word[c])
    <3> TAKE c \in (y + 1)..z
    <3>1. c \in 1..z /\ a + c - 1 \in (b + 1)..L
        BY <1>7
    <3> QED
        BY <1>3, <1>12, <3>1 DEF SolidEnds
  <2> HIDE DEF y, z
  <2>3. y \in 1..Len(word) /\ \A c \in (y + 1)..Len(word) : ~IsSolid(word[c])
      BY <1>12, <1>13, <2>2
  <2>4. Len(word) \in Nat
      BY <1>12
  <2> QED
      BY <2>1, <2>3, <2>4, LastSolidIs
<1>15. strtrim(array) = SubSeq(word, 1, y)
  <2>1. (z + 1) - 1 = z
      BY <1>7
  <2>2. word = SubSeq(rest, 1, SelectInSeq(rest, IsNul) - 1)
      BY <1>11, <2>1 DEF word
  <2> QED
      BY <1>6, <1>8, <1>14, <2>2 DEF rest
<1>16. SubSeq(word, 1, y) = SubSeq(text, a, b)
  <2>1. /\ Len(SubSeq(word, 1, y)) = y - 1 + 1 /\ SubSeq(word, 1, y) \in Seq(Characters)
        /\ \A c \in 1..(y - 1 + 1) : SubSeq(word, 1, y)[c] = word[1 + c - 1]
    <3>1. 1 \in 1..Len(word) /\ y \in 1..Len(word)
        BY <1>12, <1>13
    <3> HIDE DEF y
    <3> QED
        BY <1>12, <3>1, PieceOf
  <2>2. /\ Len(SubSeq(text, a, b)) = y /\ SubSeq(text, a, b) \in Seq(Characters)
        /\ \A c \in 1..y : SubSeq(text, a, b)[c] = text[a + c - 1]
    <3>1. a \in 1..Len(text) /\ b \in a..Len(text)
        BY <1>3 DEF SolidEnds
    <3> QED
        BY <1>1, <3>1, PieceOf
  <2>3. y - 1 + 1 = y /\ \A c \in 1..y : 1 + c - 1 = c /\ c \in 1..z
      BY <1>7, <1>13
  <2>4. \A c \in 1..y : SubSeq(word, 1, y)[c] = SubSeq(text, a, b)[c]
      BY <1>12, <2>1, <2>2, <2>3
  <2>5. Len(SubSeq(word, 1, y)) = Len(SubSeq(text, a, b))
      BY <2>1, <2>2, <2>3
  <2> HIDE DEF y
  <2>6. \A c \in 1..Len(SubSeq(word, 1, y)) : SubSeq(word, 1, y)[c] = SubSeq(text, a, b)[c]
      BY <2>1, <2>3, <2>4
  <2>7. PICK v, w \in Seq(Characters) : v = SubSeq(word, 1, y) /\ w = SubSeq(text, a, b)
      BY <2>1, <2>2
  <2>8. v = w
      BY <2>5, <2>6, <2>7, SeqEqual
  <2> QED
      BY <2>7, <2>8
<1> QED
    BY <1>4, <1>15, <1>16
\* It always returns a text.
LEMMA strtrimGivesText ==
    ASSUME NEW array \in Seq(Characters)
    PROVE  strtrim(array) \in Seq(Characters)
<1> DEFINE tail == << UNINIT, NUL >>
           all  == array \o tail
           n    == Len(array)
<1>1. tail \in Seq(Characters) /\ Len(tail) = 2 /\ tail[1] = UNINIT /\ tail[2] = NUL /\ n \in Nat
    BY DEF Characters
<1>2. /\ all \in Seq(Characters) /\ Len(all) = n + 2 /\ all[n + 1] = UNINIT /\ all[n + 2] = NUL
  <2> HIDE DEF tail
  <2>1. PICK u : u = array \o tail
      OBVIOUS
  <2>2. /\ u \in Seq(Characters) /\ Len(u) = Len(array) + Len(tail)
        /\ \A k \in 1..Len(tail) : u[Len(array) + k] = tail[k]
    <3>1. array \in Seq(Characters) /\ tail \in Seq(Characters)
        BY <1>1
    <3> QED
        BY <2>1, <3>1, JoinedAt
  <2> QED
      BY <1>1, <2>1, <2>2
<1>3. /\ strtrim(array) = LET rest == SubSeq(all, SelectInSeq(all, IsSolid), Len(all))
                              word == SubSeq(rest, 1, SelectInSeq(rest, IsNul) - 1)
                          IN  SubSeq(word, 1, SelectLastInSeq(word, IsSolid))
    BY DEF strtrim
<1> HIDE DEF all, tail
<1>4. PICK a, b \in 1..Len(all) : SolidEnds(all, a, b)
  <2>1. n + 1 \in 1..Len(all) /\ Len(all) \in Nat /\ IsSolid(all[n + 1])
      BY <1>1, <1>2, BlanksAre
  <2> QED
      BY <2>1, SolidHasEnds
<1>5. a \in 1..(n + 1)
  <2>1. ~IsSolid(all[n + 2])
      BY <1>2, BlanksAre
  <2>2. a # n + 2
      BY <1>4, <2>1 DEF SolidEnds
  <2> QED
      BY <1>1, <1>2, <2>2
<1>6. SelectInSeq(all, IsSolid) = a
  <2>1. Len(all) \in Nat
      BY <1>1, <1>2
  <2> QED
      BY <1>4, <2>1, FirstSolidIs DEF SolidEnds
<1> DEFINE rest == SubSeq(all, a, Len(all))
           length == Len(all) - a + 1
<1>7. /\ rest \in Seq(Characters) /\ Len(rest) = length
      /\ \A c \in 1..length : rest[c] = all[a + c - 1]
  <2>1. a \in 1..Len(all) /\ Len(all) \in a..Len(all)
      BY <1>1, <1>2, <1>5
  <2> QED
      BY <1>2, <2>1, PieceOf
<1>8. length \in Nat /\ length > 1 /\ a + length - 1 = n + 2 /\ 1 \in 1..length /\ a + 1 - 1 = a
      /\ length \in 1..length
    BY <1>1, <1>2, <1>5
<1> HIDE DEF rest, length
<1>9. IsSolid(rest[1]) /\ IsNul(rest[length])
    BY <1>2, <1>4, <1>7, <1>8, BlanksAre DEF SolidEnds
<1>10. PICK z \in 1..length : IsNul(rest[z]) /\ \A c \in 1..(z - 1) : ~IsNul(rest[c])
  <2> DEFINE T == { c \in 1..length : IsNul(rest[c]) }
  <2>1. T \in SUBSET Nat /\ T # {}
      BY <1>8, <1>9
  <2>2. PICK z \in T : \A c \in T : z <= c
    <3> HIDE DEF T
    <3> QED
        BY <2>1, LeastNumber
  <2>3. z \in 1..length /\ IsNul(rest[z])
      OBVIOUS
  <2>4. ASSUME NEW c \in 1..(z - 1), IsNul(rest[c]) PROVE FALSE
    <3>1. c \in T /\ ~(z <= c)
        BY <1>8, <2>3, <2>4
    <3> QED
        BY <2>2, <3>1
  <2> QED
      BY <2>3, <2>4
<1>11. SelectInSeq(rest, IsNul) = z
  <2>1. z \in 1..Len(rest) /\ Len(rest) \in Nat
      BY <1>7, <1>8
  <2> QED
      BY <1>10, <2>1, FirstNulIs
<1>12. z - 1 \in 1..Len(rest)
  <2>1. z # 1
      BY <1>9, <1>10, BlanksAre
  <2> QED
      BY <1>7, <1>8, <2>1
<1> DEFINE word == SubSeq(rest, 1, z - 1)
<1>13. word \in Seq(Characters) /\ Len(word) = z - 1 /\ word[1] = rest[1]
  <2>1. PICK y : y = z - 1
      OBVIOUS
  <2>2. y \in 1..Len(rest) /\ 1 \in 1..Len(rest)
      BY <1>7, <1>8, <1>12, <2>1
  <2>3. /\ SubSeq(rest, 1, y) \in Seq(Characters) /\ Len(SubSeq(rest, 1, y)) = y - 1 + 1
        /\ \A c \in 1..(y - 1 + 1) : SubSeq(rest, 1, y)[c] = rest[1 + c - 1]
      BY <1>7, <2>2, PieceOf
  <2>4. y - 1 + 1 = y /\ 1 \in 1..(y - 1 + 1) /\ 1 + 1 - 1 = 1
      BY <1>7, <1>8, <2>2
  <2>5. SubSeq(rest, 1, y) \in Seq(Characters) /\ Len(SubSeq(rest, 1, y)) = y
        /\ SubSeq(rest, 1, y)[1] = rest[1]
      BY <2>3, <2>4
  <2> QED
      BY <2>1, <2>5
<1>14. strtrim(array) = SubSeq(word, 1, SelectLastInSeq(word, IsSolid))
    BY <1>3, <1>6, <1>11 DEF rest
<1>15. Len(word) \in Nat /\ 1 \in 1..Len(word) /\ IsSolid(word[1])
    BY <1>7, <1>8, <1>9, <1>12, <1>13
<1> HIDE DEF word
<1>16. PICK d, e \in 1..Len(word) : SolidEnds(word, d, e)
    BY <1>15, SolidHasEnds
<1>17. SelectLastInSeq(word, IsSolid) = e
    BY <1>15, <1>16, LastSolidIs DEF SolidEnds
<1>18. 1 \in 1..Len(word) /\ e \in 1..Len(word)
    BY <1>15
<1>19. SubSeq(word, 1, e) \in Seq(Characters)
    BY <1>13, <1>18, PieceOf
<1> QED
    BY <1>14, <1>17, <1>19

-----------------------------------------------------------------------------
(* A text cut into fragments, each of which is trimmed.                    *)

\* An array holds a fragment and its NUL.
LEMMA FragmentSizeIs == /\ FragmentSize \in Nat /\ FragmentSize > 3
                        /\ PARSER_BUFFER_SIZE = FragmentSize + 1
BY SizeIs, TextsAssumption DEF FragmentSize

\* Two multiples of f are at least f apart.
LEMMA NextMultiple ==
    ASSUME NEW f \in Nat, f > 0, NEW a \in Nat, NEW b \in Nat, a < b
    PROVE  a * f + f <= b * f
<1>1. b - a - 1 \in Nat
    OBVIOUS
<1>2. PICK e \in Nat : e = b - a - 1
    BY <1>1
<1>3. e * f >= 0
    OBVIOUS
<1>4. b = a + e + 1
    BY <1>2
<1>5. b * f = a * f + e * f + f
    BY <1>4
<1> QED
    BY <1>3, <1>5

\* The quotient, from the multiples around a number.
LEMMA QuotientIs ==
    ASSUME NEW f \in Nat, f > 0, NEW x \in Nat, NEW q \in Nat, q * f <= x, x < q * f + f
    PROVE  x \div f = q
<1>1. PICK d \in Nat : d = x \div f /\ d * f <= x /\ x < d * f + f
    OBVIOUS
<1>2. ~(d < q)
  <2>1. ASSUME d < q PROVE d * f + f <= q * f
      BY <2>1, NextMultiple
  <2> QED
      BY <1>1, <2>1
<1>3. ~(q < d)
  <2>1. ASSUME q < d PROVE q * f + f <= d * f
      BY <2>1, NextMultiple
  <2> QED
      BY <1>1, <2>1
<1> QED
    BY <1>1, <1>2, <1>3

\* The quotient, from a multiple below.
LEMMA QuotientIsAbove ==
    ASSUME NEW f \in Nat, f > 0, NEW x \in Nat, NEW q \in Nat, q * f <= x
    PROVE  x \div f \in Nat /\ q <= x \div f
<1>1. PICK d \in Nat : d = x \div f /\ d * f <= x /\ x < d * f + f
    OBVIOUS
<1>2. ~(d < q)
  <2>1. ASSUME d < q PROVE d * f + f <= q * f
      BY <2>1, NextMultiple
  <2> QED
      BY <1>1, <2>1
<1> QED
    BY <1>1, <1>2

\* The fragments of a text: q of them lie behind the scanner, and it has seen x
\* characters of the next.
FragmentAt(text, q, x) ==
    /\ text \in Seq(Characters) /\ q \in Nat /\ x \in 0..FragmentSize
    /\ q * FragmentSize + x <= Len(text)
    /\ x = FragmentSize \/ q * FragmentSize + x = Len(text)

\* The characters of a fragment, from where it begins and how long it is.
LEMMA FragmentIs ==
    ASSUME NEW text, NEW q, NEW x, FragmentAt(text, q, x)
    PROVE  /\ Fragment(text, q + 1) \in Seq(Characters) /\ Len(Fragment(text, q + 1)) = x
           /\ \A c \in 1..x : Fragment(text, q + 1)[c] = text[q * FragmentSize + c]
<1>1. PICK f \in Nat : f = FragmentSize /\ f > 3
    BY FragmentSizeIs
<1>2. /\ text \in Seq(Characters) /\ Len(text) \in Nat /\ q \in Nat /\ x \in 0..f
      /\ q * f + x <= Len(text) /\ (x = f \/ q * f + x = Len(text))
    BY <1>1 DEF FragmentAt
<1>3. PICK p \in Nat : p = q * f
    BY <1>2
<1>4. PICK k \in Nat : k = q + 1
    BY <1>2
<1>5. (k - 1) * f = p /\ k * f = p + f
    BY <1>2, <1>3, <1>4
<1>6. Fragment(text, q + 1) = SubSeq(text, p + 1, p + x)
  <2>1. Fragment(text, k) = SubSeq(text, (k - 1) * FragmentSize + 1, Smaller(k * FragmentSize, Len(text)))
      BY DEF Fragment
  <2>2. Fragment(text, k) = SubSeq(text, (k - 1) * f + 1, Smaller(k * f, Len(text)))
      BY <1>1, <2>1
  <2>3. Fragment(text, k) = SubSeq(text, p + 1, Smaller(p + f, Len(text)))
      BY <1>5, <2>2
  <2>4. Smaller(p + f, Len(text)) = p + x
      BY <1>2, <1>3 DEF Smaller
  <2> QED
      BY <1>4, <2>3, <2>4
<1>7. /\ SubSeq(text, p + 1, p + x) \in Seq(Characters) /\ Len(SubSeq(text, p + 1, p + x)) = x
      /\ \A c \in 1..x : SubSeq(text, p + 1, p + x)[c] = text[p + c]
  <2>1. CASE x = 0
    <3>1. p + x = p
        BY <2>1
    <3>2. SubSeq(text, p + 1, p) = << >>
        BY <1>2, <1>3
    <3> QED
        BY <2>1, <3>1, <3>2
  <2>2. CASE x # 0
    <3>1. p + 1 \in 1..Len(text) /\ p + x \in (p + 1)..Len(text) /\ (p + x) - (p + 1) + 1 = x
          /\ \A c \in 1..x : (p + 1) + c - 1 = p + c
        BY <1>2, <1>3, <2>2
    <3>2. PICK a, b : a = p + 1 /\ b = p + x
        OBVIOUS
    <3>3. /\ a \in 1..Len(text) /\ b \in a..Len(text) /\ b - a + 1 = x
          /\ \A c \in 1..x : a + c - 1 = p + c
        BY <3>1, <3>2
    <3>4. /\ SubSeq(text, a, b) \in Seq(Characters) /\ Len(SubSeq(text, a, b)) = b - a + 1
          /\ \A c \in 1..(b - a + 1) : SubSeq(text, a, b)[c] = text[a + c - 1]
        BY <1>2, <3>3, PieceOf
    <3>5. /\ SubSeq(text, a, b) \in Seq(Characters) /\ Len(SubSeq(text, a, b)) = x
          /\ \A c \in 1..x : SubSeq(text, a, b)[c] = text[p + c]
        BY <3>3, <3>4
    <3> QED
        BY <3>2, <3>5
  <2> QED
      BY <2>1, <2>2
<1> QED
    BY <1>1, <1>3, <1>6, <1>7

\* How many pieces a text is cut into, and the first q of them without their blanks.
Pieces(text) == (Len(text) + FragmentSize) \div FragmentSize
FragmentsOf(text, q) == [k \in 1..q |-> Trimmed(Fragment(text, k))]

\* Trimming a text leaves a text.
LEMMA TrimmedIsText ==
    ASSUME NEW text \in Seq(Characters), NEW c \in 1..Len(text), IsSolid(text[c])
    PROVE  Trimmed(text) \in Seq(Characters)
<1>1. Len(text) \in Nat
    OBVIOUS
<1>2. PICK a, b \in 1..Len(text) : SolidEnds(text, a, b)
    BY <1>1, SolidHasEnds
<1>3. Trimmed(text) = SubSeq(text, a, b)
    BY <1>1, <1>2, TrimmedIs
<1>4. a \in 1..Len(text) /\ b \in a..Len(text)
    BY <1>2 DEF SolidEnds
<1> QED
    BY <1>3, <1>4, PieceOf

\* What an intact text is, unfolded: no fragment is all blank, and the trimmed ones
\* joined are the text trimmed.
LEMMA IntactIs ==
    ASSUME NEW text \in Seq(Characters), Intact(text)
    PROVE  /\ Pieces(text) \in Nat
           /\ \A k \in 1..Pieces(text) : \E c \in ToSet(Fragment(text, k)) : IsSolid(c)
           /\ FlattenSeq(FragmentsOf(text, Pieces(text))) = Trimmed(text)
<1>1. PICK x \in Nat : x = Len(text) + FragmentSize
    BY FragmentSizeIs
<1>2. 0 * FragmentSize <= x
    BY FragmentSizeIs
<1>3. x \div FragmentSize \in Nat
    BY <1>2, FragmentSizeIs, QuotientIsAbove
<1> QED
    BY <1>1, <1>3 DEF Intact, Pieces, FragmentsOf

\* A fragment that is handed over in an intact text is one of its pieces, not blank.
LEMMA FragmentIsSolid ==
    ASSUME NEW text, Intact(text), NEW q, NEW x, FragmentAt(text, q, x)
    PROVE  /\ \E c \in 1..x : IsSolid(Fragment(text, q + 1)[c])
           /\ q + 1 \in 1..Pieces(text)
<1>1. PICK f \in Nat : f = FragmentSize /\ f > 3
    BY FragmentSizeIs
<1>2. /\ text \in Seq(Characters) /\ Len(text) \in Nat /\ q \in Nat /\ x \in 0..f
      /\ q * f + x <= Len(text)
    BY <1>1 DEF FragmentAt
<1>3. q + 1 <= Pieces(text) /\ Pieces(text) \in Nat
  <2>1. PICK y \in Nat : y = Len(text) + f
      BY <1>2
  <2>2. (q + 1) * f <= y /\ q + 1 \in Nat /\ f > 0
    <3>1. (q + 1) * f = q * f + f /\ q * f \in Nat
        BY <1>2
    <3> QED
        BY <1>1, <1>2, <2>1, <3>1
  <2>3. y \div f \in Nat /\ q + 1 <= y \div f
    <3>1. PICK z \in Nat : z = q + 1
        BY <2>2
    <3>2. z * f <= y /\ f > 0
        BY <2>2, <3>1
    <3>3. y \div f \in Nat /\ z <= y \div f
        BY <3>2, QuotientIsAbove
    <3> QED
        BY <3>1, <3>3
  <2>4. Pieces(text) = y \div f
      BY <1>1, <2>1 DEF Pieces
  <2> QED
      BY <2>3, <2>4
<1>4. q + 1 \in 1..Pieces(text)
    BY <1>2, <1>3
<1>5. PICK c \in ToSet(Fragment(text, q + 1)) : IsSolid(c)
    BY <1>2, <1>4, IntactIs
<1>6. Fragment(text, q + 1) \in Seq(Characters) /\ Len(Fragment(text, q + 1)) = x
    BY FragmentIs
<1>7. PICK s : s = Fragment(text, q + 1)
    OBVIOUS
<1>8. \E d \in 1..x : s[d] = c
    BY <1>5, <1>6, <1>7 DEF ToSet
<1> QED
    BY <1>4, <1>5, <1>7, <1>8

-----------------------------------------------------------------------------
(* The fragments the tree has joined.                                      *)

\* q fragments of text have been handed over to the tree, which has joined them.
Handed(text, q, current) ==
    /\ q = 0 => current = NULL
    /\ q # 0 => current \in Seq(Characters)
    /\ q # 0 /\ Intact(text) =>
          q <= Pieces(text) /\ current = FlattenSeq(FragmentsOf(text, q))

\* Of text, t characters have been scanned: whole fragments of it have been handed
\* over, and the others are in the array.
Collecting(text, t, current, array, x) ==
    \E q \in Nat :
        /\ t = q * FragmentSize + x /\ x \in 0..FragmentSize
        /\ \A c \in 1..x : array[c] = text[q * FragmentSize + c]
        /\ Handed(text, q, current)

\* A text as it comes over the wire.
Plain(text) == text \in Seq(Characters) /\ \A c \in 1..Len(text) : text[c] # NUL

\* One of the scanner's arrays.
FullArray(array) == array \in Seq(Characters) /\ Len(array) = PARSER_BUFFER_SIZE

\* NULL is told from every text.
LEMMA NullIsNoText == NULL \notin Seq(Characters)
BY TextsAssumption DEF Characters

\* The trimmed fragments are texts.
LEMMA FragmentsAreTexts ==
    ASSUME NEW text \in Seq(Characters), Intact(text), NEW q \in 0..Pieces(text)
    PROVE  FragmentsOf(text, q) \in Seq(Seq(Characters))
<1>1. Pieces(text) \in Nat
    BY IntactIs
<1>2. ASSUME NEW k \in 1..q PROVE Trimmed(Fragment(text, k)) \in Seq(Characters)
  <2>1. k \in 1..Pieces(text)
      BY <1>1
  <2>2. PICK c \in ToSet(Fragment(text, k)) : IsSolid(c)
      BY <2>1, IntactIs
  <2>3. PICK s : s = Fragment(text, k)
      OBVIOUS
  <2>4. s \in Seq(Characters)
    <3>1. PICK f \in Nat : f = FragmentSize /\ f > 3
        BY FragmentSizeIs
    <3>2. Fragment(text, k) = SubSeq(text, (k - 1) * FragmentSize + 1, Smaller(k * FragmentSize, Len(text)))
        BY DEF Fragment
    <3>3. Fragment(text, k) = SubSeq(text, (k - 1) * f + 1, Smaller(k * f, Len(text)))
        BY <3>1, <3>2
    <3>4. PICK a, b \in Nat : a = (k - 1) * f /\ b = Smaller(k * f, Len(text))
      <4>1. k - 1 \in Nat /\ k \in Nat /\ Len(text) \in Nat
          BY <1>1
      <4>2. (k - 1) * f \in Nat /\ k * f \in Nat
          BY <3>1, <4>1
      <4> QED
          BY <4>1, <4>2 DEF Smaller
    <3>5. b <= Len(text)
      <4>1. k * f \in Nat /\ Len(text) \in Nat
          BY <1>1, <3>1
      <4> QED
          BY <3>4, <4>1 DEF Smaller
    <3>6. s = SubSeq(text, a + 1, b)
        BY <2>3, <3>3, <3>4
    <3> QED
        BY <3>4, <3>5, <3>6
  <2>5. PICK d \in 1..Len(s) : s[d] = c
      BY <2>2, <2>3, <2>4 DEF ToSet
  <2> QED
      BY <2>2, <2>3, <2>4, <2>5, TrimmedIsText
<1>3. q \in Nat
    BY <1>1
<1> DEFINE S == Seq(Characters)
<1> HIDE DEF S
<1>4. \A k \in 1..q : Trimmed(Fragment(text, k)) \in S
    BY <1>2 DEF S
<1>5. [k \in 1..q |-> Trimmed(Fragment(text, k))] \in Seq(S)
    BY <1>3, <1>4
<1> QED
    BY <1>5 DEF FragmentsOf, S

\* A fragment more.
LEMMA HandOver ==
    ASSUME NEW text, Plain(text), NEW q, NEW x, FragmentAt(text, q, x),
           NEW current, Handed(text, q, current), NEW array, FullArray(array),
           \A c \in 1..x : array[c] = text[q * FragmentSize + c]
    PROVE  Handed(text, q + 1, Extended(current, strtrim([array EXCEPT ![x + 1] = NUL])))
<1> DEFINE ended == [array EXCEPT ![x + 1] = NUL]
           fragment == Fragment(text, q + 1)
           trimmed == strtrim(ended)
           longer == Extended(current, trimmed)
<1>1. /\ text \in Seq(Characters) /\ Len(text) \in Nat /\ q \in Nat /\ x \in 0..FragmentSize
      /\ q * FragmentSize + x <= Len(text) /\ q * FragmentSize \in Nat
    BY FragmentSizeIs DEF FragmentAt
<1>2. x + 1 \in 1..Len(array) /\ array \in Seq(Characters) /\ NUL \in Characters /\ x \in Nat
    BY <1>1, FragmentSizeIs DEF FullArray, Characters
<1>3. /\ ended \in Seq(Characters) /\ Len(ended) = Len(array) /\ ended[x + 1] = NUL
      /\ \A c \in 1..x : ended[c] = array[c]
    BY <1>2
<1>4. trimmed \in Seq(Characters)
    BY <1>3, strtrimGivesText
<1>5. longer \in Seq(Characters)
    BY <1>4, NullIsNoText DEF Extended, Handed
<1>6. q + 1 # 0
    BY <1>1
<1>7. ASSUME Intact(text)
      PROVE  q + 1 <= Pieces(text) /\ longer = FlattenSeq(FragmentsOf(text, q + 1))
  <2>1. /\ \E c \in 1..x : IsSolid(fragment[c])
        /\ q + 1 \in 1..Pieces(text) /\ Pieces(text) \in Nat
      BY <1>1, <1>7, FragmentIsSolid, IntactIs
  <2>2. /\ fragment \in Seq(Characters) /\ Len(fragment) = x
        /\ \A c \in 1..x : fragment[c] = text[q * FragmentSize + c]
      BY FragmentIs
  <2> HIDE DEF fragment, ended
  <2>3. \A c \in 1..x : ended[c] = fragment[c] /\ fragment[c] # NUL
    <3> TAKE c \in 1..x
    <3>1. q * FragmentSize + c \in 1..Len(text)
        BY <1>1
    <3>2. text[q * FragmentSize + c] # NUL
        BY <3>1 DEF Plain
    <3> QED
        BY <1>3, <2>2, <3>2
  <2>4. Filled(ended, fragment)
      BY <1>2, <1>3, <2>2, <2>3 DEF Filled
  <2>5. trimmed = Trimmed(fragment)
    <3>1. PICK c \in 1..Len(fragment) : IsSolid(fragment[c])
        BY <2>1, <2>2
    <3> QED
        BY <2>4, <3>1, strtrimIs
  <2>6. FragmentsOf(text, q) \in Seq(Seq(Characters))
    <3>1. q \in 0..Pieces(text)
        BY <1>1, <2>1
    <3> QED
        BY <1>1, <1>7, <3>1, FragmentsAreTexts
  <2>7. FragmentsOf(text, q + 1) = Append(FragmentsOf(text, q), trimmed)
    <3>1. PICK k \in Nat : k = q + 1
        BY <1>1
    <3>2. FragmentsOf(text, k) = [m \in 1..k |-> Trimmed(Fragment(text, m))]
          /\ FragmentsOf(text, q) = [m \in 1..q |-> Trimmed(Fragment(text, m))]
        BY DEF FragmentsOf
    <3>3. Trimmed(Fragment(text, k)) = trimmed
        BY <2>5, <3>1 DEF fragment
    <3>4. PICK u : u = Append(FragmentsOf(text, q), trimmed)
        OBVIOUS
    <3>5. Len(FragmentsOf(text, q)) = q /\ Len(FragmentsOf(text, k)) = k
        BY <1>1, <3>1, <3>2
    <3>6. /\ u \in Seq(Seq(Characters)) /\ Len(u) = Len(FragmentsOf(text, q)) + 1
          /\ \A m \in 1..Len(FragmentsOf(text, q)) : u[m] = FragmentsOf(text, q)[m]
          /\ u[Len(FragmentsOf(text, q)) + 1] = trimmed
      <4> HIDE DEF trimmed
      <4> QED
          BY <1>4, <2>6, <3>4, AppendProperties
    <3>7. FragmentsOf(text, k) \in Seq(Seq(Characters))
      <4>1. k \in 0..Pieces(text)
          BY <2>1, <3>1
      <4> QED
          BY <1>1, <1>7, <4>1, FragmentsAreTexts
    <3>8. \A m \in 1..k : FragmentsOf(text, k)[m] = u[m]
      <4> TAKE m \in 1..k
      <4>1. CASE m = k
          BY <3>1, <3>2, <3>3, <3>5, <3>6, <4>1
      <4>2. CASE m # k
        <5>1. m \in 1..q
            BY <1>1, <3>1, <4>2
        <5>2. u[m] = FragmentsOf(text, q)[m]
            BY <3>5, <3>6, <5>1
        <5> QED
            BY <3>2, <5>1, <5>2
      <4> QED
          BY <4>1, <4>2
    <3>9. FragmentsOf(text, k) = u
      <4>1. Len(u) = k
          BY <3>1, <3>5, <3>6
      <4> QED
          BY <3>5, <3>6, <3>7, <3>8, <4>1, SeqEqual
    <3> QED
        BY <3>1, <3>4, <3>9
  <2>8. FlattenSeq(FragmentsOf(text, q + 1)) = FlattenSeq(FragmentsOf(text, q)) \o trimmed
    <3> DEFINE S == FragmentsOf(text, q)
    <3>1. S \in Seq(Seq(Characters)) /\ trimmed \in Seq(Characters)
        BY <1>4, <2>6
    <3>2. FlattenSeq(Append(S, trimmed)) = FlattenSeq(S) \o trimmed
      <4> HIDE DEF S, trimmed
      <4> QED
          BY <3>1, FlattenMore
    <3> QED
        BY <2>7, <3>2
  <2>9. CASE q = 0
    <3>1. longer = trimmed
        BY <2>9 DEF Handed, Extended
    <3>2. FragmentsOf(text, q) = << >>
        BY <2>9 DEF FragmentsOf
    <3>3. FlattenSeq(<< >>) = << >>
        BY DEF FlattenSeq
    <3>4. << >> \o trimmed = trimmed
      <4> HIDE DEF trimmed
      <4> QED
          BY <1>4
    <3>5. FlattenSeq(FragmentsOf(text, q + 1)) = trimmed
        BY <2>8, <3>2, <3>3, <3>4
    <3>6. q + 1 <= Pieces(text)
        BY <2>1
    <3> HIDE DEF longer, trimmed
    <3> QED
        BY <3>1, <3>5, <3>6
  <2>10. CASE q # 0
    <3>1. current \in Seq(Characters) /\ current = FlattenSeq(FragmentsOf(text, q))
        BY <1>7, <2>10 DEF Handed
    <3>2. longer = current \o trimmed
        BY <3>1, NullIsNoText DEF Extended
    <3>3. q + 1 <= Pieces(text)
        BY <2>1
    <3> HIDE DEF longer, trimmed
    <3> QED
        BY <2>8, <3>1, <3>2, <3>3
  <2> QED
      BY <2>9, <2>10
<1> QED
    BY <1>5, <1>6, <1>7 DEF Handed

-----------------------------------------------------------------------------
(* A text that is collected in an array and handed over fragment by fragment. *)

\* Nothing is collected yet.
LEMMA CollectStart ==
    ASSUME NEW text, NEW array PROVE Collecting(text, 0, NULL, array, 0)
<1>1. 0 = 0 * FragmentSize + 0 /\ 0 \in 0..FragmentSize
    BY FragmentSizeIs
<1>2. Handed(text, 0, NULL)
    BY DEF Handed
<1> QED
    BY <1>1, <1>2 DEF Collecting

\* The next character of the text is written to the array.
LEMMA CollectCharacter ==
    ASSUME NEW text, NEW t \in Nat, NEW current, NEW array, FullArray(array), NEW x,
           Collecting(text, t, current, array, x), x # FragmentSize, NEW c, c = text[t + 1]
    PROVE  Collecting(text, t + 1, current, [[array EXCEPT ![x + 1] = NUL] EXCEPT ![x + 1] = c], x + 1)
<1> DEFINE longer == [[array EXCEPT ![x + 1] = NUL] EXCEPT ![x + 1] = c]
<1>1. PICK q \in Nat :
         /\ t = q * FragmentSize + x /\ x \in 0..FragmentSize
         /\ \A d \in 1..x : array[d] = text[q * FragmentSize + d]
         /\ Handed(text, q, current)
    BY DEF Collecting
<1>2. PICK p \in Nat : p = q * FragmentSize
    BY <1>1, FragmentSizeIs
<1>3. x \in Nat /\ x + 1 \in 0..FragmentSize /\ x + 1 \in 1..Len(array) /\ array \in Seq(Characters)
    BY <1>1, FragmentSizeIs DEF FullArray
<1>4. longer[x + 1] = c /\ \A d \in 1..x : longer[d] = array[d]
    BY <1>3
<1>5. t + 1 = p + (x + 1)
    BY <1>1, <1>2, <1>3
<1>6. \A d \in 1..(x + 1) : longer[d] = text[p + d]
  <2> TAKE d \in 1..(x + 1)
  <2> HIDE DEF longer
  <2>1. CASE d = x + 1
      BY <1>4, <1>5, <2>1
  <2>2. CASE d # x + 1
    <3>1. d \in 1..x
        BY <1>3, <2>2
    <3> QED
        BY <1>1, <1>2, <1>4, <3>1
  <2> QED
      BY <2>1, <2>2
<1> HIDE DEF longer
<1>7. /\ t + 1 = q * FragmentSize + (x + 1)
      /\ \A d \in 1..(x + 1) : longer[d] = text[q * FragmentSize + d]
    BY <1>2, <1>5, <1>6
<1>8. Collecting(text, t + 1, current, longer, x + 1)
    BY <1>1, <1>3, <1>7 DEF Collecting
<1> QED
    BY <1>8 DEF longer

\* The array is full: its text is handed over.
LEMMA CollectFlush ==
    ASSUME NEW text, Plain(text), NEW t \in Nat, t <= Len(text), NEW current,
           NEW array, FullArray(array), NEW x, x = FragmentSize,
           Collecting(text, t, current, array, x), NEW fresh
    PROVE  Collecting(text, t, Extended(current, strtrim([array EXCEPT ![x + 1] = NUL])), fresh, 0)
<1>1. PICK q \in Nat :
         /\ t = q * FragmentSize + x
         /\ \A d \in 1..x : array[d] = text[q * FragmentSize + d]
         /\ Handed(text, q, current)
    BY DEF Collecting
<1>2. FragmentAt(text, q, x)
    BY <1>1, FragmentSizeIs DEF FragmentAt, Plain
<1>3. PICK v : v = Extended(current, strtrim([array EXCEPT ![x + 1] = NUL]))
    OBVIOUS
<1>4. Handed(text, q + 1, v)
    BY <1>1, <1>2, <1>3, HandOver
<1>5. q + 1 \in Nat /\ t = (q + 1) * FragmentSize + 0 /\ 0 \in 0..FragmentSize
    BY <1>1, FragmentSizeIs
<1>6. Collecting(text, t, v, fresh, 0)
  <2>1. PICK k \in Nat : k = q + 1
      BY <1>5
  <2>2. t = k * FragmentSize + 0 /\ Handed(text, k, v)
      BY <1>4, <1>5, <2>1
  <2>3. \A d \in 1..0 : fresh[d] = text[k * FragmentSize + d]
      OBVIOUS
  <2> QED
      BY <1>5, <2>2, <2>3 DEF Collecting
<1> QED
    BY <1>3, <1>6

\* The text ends: what the tree has joined is the text less the blanks at its ends.
LEMMA CollectEnd ==
    ASSUME NEW text, Plain(text), NEW t, t = Len(text), NEW current,
           NEW array, FullArray(array), NEW x, x # FragmentSize,
           Collecting(text, t, current, array, x)
    PROVE  LET v == Extended(current, strtrim([array EXCEPT ![x + 1] = NUL]))
           IN  v \in Seq(Characters) /\ (Intact(text) => v = Trimmed(text))
<1>1. PICK q \in Nat :
         /\ t = q * FragmentSize + x /\ x \in 0..FragmentSize
         /\ \A d \in 1..x : array[d] = text[q * FragmentSize + d]
         /\ Handed(text, q, current)
    BY DEF Collecting
<1>2. PICK f \in Nat : f = FragmentSize /\ f > 3
    BY FragmentSizeIs
<1>3. text \in Seq(Characters) /\ Len(text) \in Nat /\ Len(text) = q * f + x /\ x \in 0..f /\ x # f
    BY <1>1, <1>2 DEF Plain
<1>4. FragmentAt(text, q, x)
    BY <1>1, <1>2, <1>3 DEF FragmentAt
<1>5. PICK v : v = Extended(current, strtrim([array EXCEPT ![x + 1] = NUL]))
    OBVIOUS
<1>6. Handed(text, q + 1, v)
    BY <1>1, <1>4, <1>5, HandOver
<1>7. PICK k \in Nat : k = q + 1
    OBVIOUS
<1>8. v \in Seq(Characters) /\ (Intact(text) => v = FlattenSeq(FragmentsOf(text, k)))
    BY <1>6, <1>7 DEF Handed
<1>9. Pieces(text) = k
  <2>1. k * f = q * f + f /\ q * f \in Nat
      BY <1>2, <1>7
  <2>2. PICK y \in Nat : y = Len(text) + f
      BY <1>2, <1>3
  <2>3. k * f <= y /\ y < k * f + f /\ f > 0
      BY <1>2, <1>3, <2>1, <2>2
  <2>4. y \div f = k
      BY <2>3, QuotientIs
  <2> QED
      BY <1>2, <2>2, <2>4 DEF Pieces
<1>10. Intact(text) => v = Trimmed(text)
  <2>1. ASSUME Intact(text) PROVE FlattenSeq(FragmentsOf(text, Pieces(text))) = Trimmed(text)
      BY <1>3, <2>1, IntactIs
  <2> QED
      BY <1>8, <1>9, <2>1
<1> QED
    BY <1>5, <1>8, <1>10

-----------------------------------------------------------------------------
(* The lines of a header on the wire.                                      *)

\* A value between its colon and its line end.
LEMMA RawValueIs ==
    ASSUME NEW line, NEW S, line.value \in Seq(S), SP \in S, CR \in S
    PROVE  /\ RawValue(line) \in Seq(S) /\ Len(RawValue(line)) = Len(line.value) + 2
           /\ RawValue(line)[1] = SP /\ RawValue(line)[Len(line.value) + 2] = CR
           /\ \A c \in 1..Len(line.value) : RawValue(line)[c + 1] = line.value[c]
<1> DEFINE a == << SP >>
           v == line.value
           d == << CR >>
<1>1. /\ a \in Seq(S) /\ v \in Seq(S) /\ d \in Seq(S)
      /\ Len(a) = 1 /\ a[1] = SP /\ Len(d) = 1 /\ d[1] = CR /\ Len(v) \in Nat
    OBVIOUS
<1>2. PICK w : w = a \o v
    OBVIOUS
<1>3. PICK u : u = w \o d
    OBVIOUS
<1>4. RawValue(line) = u
    BY <1>2, <1>3 DEF RawValue
<1> HIDE DEF a, v, d
<1>5. /\ w \in Seq(S) /\ Len(w) = Len(a) + Len(v)
      /\ \A c \in 1..Len(a) : w[c] = a[c]
      /\ \A c \in 1..Len(v) : w[Len(a) + c] = v[c]
  <2>1. a \in Seq(S) /\ v \in Seq(S)
      BY <1>1
  <2> QED
      BY <1>2, <2>1, JoinedAt
<1>6. /\ u \in Seq(S) /\ Len(u) = Len(w) + Len(d)
      /\ \A c \in 1..Len(w) : u[c] = w[c]
      /\ \A c \in 1..Len(d) : u[Len(w) + c] = d[c]
  <2>1. w \in Seq(S) /\ d \in Seq(S)
      BY <1>1, <1>5
  <2> QED
      BY <1>3, <2>1, JoinedAt
<1>7. Len(w) = Len(v) + 1 /\ Len(u) = Len(v) + 2 /\ 1 \in 1..Len(w) /\ (Len(v) + 1) + 1 = Len(v) + 2
    BY <1>1, <1>5, <1>6
<1>8. u[1] = SP /\ u[Len(v) + 2] = CR
    BY <1>1, <1>5, <1>6, <1>7
<1>9. \A c \in 1..Len(v) : u[c + 1] = v[c]
  <2> TAKE c \in 1..Len(v)
  <2>1. c + 1 \in 1..Len(w) /\ Len(a) + c = c + 1
      BY <1>1, <1>7
  <2> QED
      BY <1>5, <1>6, <2>1
<1> QED
    BY <1>4, <1>6, <1>7, <1>8, <1>9 DEF v

\* A header line: name, colon, value with its blanks, line feed.
LEMMA HeaderLinePieces ==
    ASSUME NEW line, GoodLine(line)
    PROVE  LET l == HeaderLine(line)
               v == Len(line.name) + 1
           IN  /\ l \in Seq(Symbols) /\ v \in Nat /\ Len(l) = v + Len(RawValue(line)) + 1
               /\ \A c \in 1..Len(line.name) : l[c] = line.name[c]
               /\ l[v] = COLON
               /\ \A c \in 1..Len(RawValue(line)) : l[v + c] = RawValue(line)[c]
               /\ l[Len(l)] = LF
<1> DEFINE a == line.name
           b == << COLON, SP >>
           c == line.value
           d == << CR, LF >>
<1>1. a \in Seq(Symbols) /\ b \in Seq(Symbols) /\ c \in Seq(Symbols) /\ d \in Seq(Symbols)
    BY DEF GoodLine, Texts, Symbols
<1>2. Len(a) \in Nat /\ Len(c) \in Nat /\ Len(b) = 2 /\ Len(d) = 2
    BY <1>1
<1>3. b[1] = COLON /\ b[2] = SP /\ d[1] = CR /\ d[2] = LF
    OBVIOUS
<1>4. PICK x : x = a \o b
    OBVIOUS
<1>5. PICK y : y = x \o c
    OBVIOUS
<1>6. PICK l : l = y \o d
    OBVIOUS
<1>7. HeaderLine(line) = l
    BY <1>4, <1>5, <1>6 DEF HeaderLine
<1>8. /\ RawValue(line) \in Seq(Symbols) /\ Len(RawValue(line)) = Len(c) + 2
      /\ RawValue(line)[1] = SP /\ RawValue(line)[Len(c) + 2] = CR
      /\ \A k \in 1..Len(c) : RawValue(line)[k + 1] = c[k]
  <2>1. SP \in Symbols /\ CR \in Symbols
      BY DEF Symbols
  <2>2. line.value \in Seq(Symbols)
      BY <1>1
  <2> QED
      BY <2>1, <2>2, RawValueIs
<1> HIDE DEF a, b, c, d
<1>9. /\ x \in Seq(Symbols) /\ Len(x) = Len(a) + Len(b)
      /\ \A k \in 1..Len(a) : x[k] = a[k]
      /\ \A k \in 1..Len(b) : x[Len(a) + k] = b[k]
    BY <1>1, <1>4, JoinedAt
<1>10. /\ y \in Seq(Symbols) /\ Len(y) = Len(x) + Len(c)
       /\ \A k \in 1..Len(x) : y[k] = x[k]
       /\ \A k \in 1..Len(c) : y[Len(x) + k] = c[k]
  <2>1. x \in Seq(Symbols) /\ c \in Seq(Symbols)
      BY <1>1, <1>9
  <2> QED
      BY <1>5, <2>1, JoinedAt
<1>11. /\ l \in Seq(Symbols) /\ Len(l) = Len(y) + Len(d)
       /\ \A k \in 1..Len(y) : l[k] = y[k]
       /\ \A k \in 1..Len(d) : l[Len(y) + k] = d[k]
  <2>1. y \in Seq(Symbols) /\ d \in Seq(Symbols)
      BY <1>1, <1>10
  <2> QED
      BY <1>6, <2>1, JoinedAt
<1>12. Len(x) = Len(a) + 2 /\ Len(y) = Len(a) + Len(c) + 2 /\ Len(l) = Len(a) + Len(c) + 4
    BY <1>2, <1>9, <1>10, <1>11
<1>13. \A k \in 1..Len(a) : l[k] = a[k]
  <2> TAKE k \in 1..Len(a)
  <2>1. k \in 1..Len(x) /\ k \in 1..Len(y)
      BY <1>2, <1>12
  <2> QED
      BY <1>9, <1>10, <1>11, <2>1
<1>14. l[Len(a) + 1] = COLON /\ l[Len(a) + 2] = SP
  <2>1. /\ Len(a) + 1 \in 1..Len(x) /\ Len(a) + 1 \in 1..Len(y)
        /\ Len(a) + 2 \in 1..Len(x) /\ Len(a) + 2 \in 1..Len(y)
      BY <1>2, <1>12
  <2>2. 1 \in 1..Len(b) /\ 2 \in 1..Len(b)
      BY <1>2
  <2> QED
      BY <1>3, <1>9, <1>10, <1>11, <2>1, <2>2
<1>15. l[Len(y) + 1] = CR /\ l[Len(y) + 2] = LF
  <2>1. 1 \in 1..Len(d) /\ 2 \in 1..Len(d)
      BY <1>2
  <2> QED
      BY <1>3, <1>11, <2>1
<1>16. \A k \in 1..Len(c) : l[Len(a) + 2 + k] = c[k]
  <2> TAKE k \in 1..Len(c)
  <2>1. Len(x) + k \in 1..Len(y) /\ Len(x) + k = Len(a) + 2 + k
      BY <1>2, <1>12
  <2> QED
      BY <1>10, <1>11, <2>1
<1> DEFINE v == Len(a) + 1
<1>17. ASSUME NEW k \in 1..Len(RawValue(line)) PROVE l[v + k] = RawValue(line)[k]
  <2>1. CASE k = 1
    <3>1. v + k = Len(a) + 2
        BY <1>2, <2>1
    <3> QED
        BY <1>8, <1>14, <2>1, <3>1
  <2>2. CASE k - 1 \in 1..Len(c)
    <3>1. v + k = Len(a) + 2 + (k - 1) /\ (k - 1) + 1 = k
        BY <1>2, <2>2
    <3> QED
        BY <1>8, <1>16, <2>2, <3>1
  <2>3. CASE k = Len(c) + 2
    <3>1. v + k = Len(y) + 1
        BY <1>2, <1>12, <2>3
    <3> QED
        BY <1>8, <1>15, <2>3, <3>1
  <2>4. k = 1 \/ k - 1 \in 1..Len(c) \/ k = Len(c) + 2
      BY <1>2, <1>8
  <2> QED
      BY <2>1, <2>2, <2>3, <2>4
<1>18. v \in Nat /\ Len(l) = v + Len(RawValue(line)) + 1 /\ Len(l) = Len(y) + 2
    BY <1>2, <1>8, <1>12
<1> HIDE DEF v
<1>19. l[v] = COLON /\ l[Len(l)] = LF
    BY <1>14, <1>15, <1>18 DEF v
<1> QED
    BY <1>7, <1>11, <1>13, <1>17, <1>18, <1>19 DEF v, a

\* In h, line stands between s and e, its colon at v.
LineAt(h, s, v, e, line) ==
    /\ s \in Nat /\ v = s + Len(line.name) + 1 /\ e = v + Len(RawValue(line)) + 1
    /\ Len(line.name) \in Nat /\ Len(RawValue(line)) \in Nat /\ e <= Len(h) - 2
    /\ \A c \in 1..Len(line.name) : h[s + c] = line.name[c]
    /\ h[v] = COLON
    /\ \A c \in 1..Len(RawValue(line)) : h[v + c] = RawValue(line)[c]
    /\ h[e] = LF

\* How many characters precede the name of line k, its value, and the next line.
NameStart(r, k) == Len(Through(r, k - 1))
ValueStart(r, k) == NameStart(r, k) + Len(r.lines[k].name) + 1
LineEnd(r, k) == Len(Through(r, k))

\* Every line of a response stands in its header, between the ends of two lines.
LEMMA LinesInHeader ==
    ASSUME NEW r, WellFormed(r), NEW k \in 1..Len(r.lines)
    PROVE  LineAt(Header(r), NameStart(r, k), ValueStart(r, k), LineEnd(r, k), r.lines[k])
<1> DEFINE n == Len(r.lines)
           line == r.lines[k]
           l == HeaderLine(line)
           raw == RawValue(line)
           h == Header(r)
           t == Through(r, n)
           before == Through(r, k - 1)
           upto == Through(r, k)
           s == Len(before)
           w == Len(line.name) + 1
<1>1. n \in Nat /\ k - 1 \in 0..n /\ k \in 0..n /\ n \in 0..n /\ k - 1 # n /\ (k - 1) + 1 = k /\ n \in k..n
    BY DEF WellFormed
<1>2. GoodLine(line)
    BY DEF WellFormed
<1>3. before \in Seq(Symbols) /\ upto = before \o l
    BY <1>1, ThroughStep
<1>4. /\ l \in Seq(Symbols) /\ w \in Nat /\ Len(l) = w + Len(raw) + 1
      /\ \A c \in 1..Len(line.name) : l[c] = line.name[c]
      /\ l[w] = COLON
      /\ \A c \in 1..Len(raw) : l[w + c] = raw[c]
      /\ l[Len(l)] = LF
    BY <1>2, HeaderLinePieces
<1>5. Len(upto) <= Len(t) /\ \A p \in 1..Len(upto) : t[p] = upto[p]
    BY <1>1, ThroughGrows
<1>6. /\ t \in Seq(Symbols) /\ h \in Seq(Symbols) /\ Len(h) = Len(t) + 2 /\ \A p \in 1..Len(t) : h[p] = t[p]
    BY HeaderPieces
<1>7. Len(line.name) \in Nat /\ Len(raw) \in Nat
  <2>1. line.name \in Seq(DOMAIN Lower) /\ line.value \in Seq(Symbols)
      BY <1>2 DEF GoodLine, Texts, Symbols
  <2>2. SP \in Symbols /\ CR \in Symbols
      BY DEF Symbols
  <2>3. raw \in Seq(Symbols)
      BY <2>1, <2>2, RawValueIs
  <2> HIDE DEF raw, line
  <2> QED
      BY <2>1, <2>3
<1>8. NameStart(r, k) = s /\ ValueStart(r, k) = s + w /\ LineEnd(r, k) = Len(upto)
  <2>1. ValueStart(r, k) = s + Len(line.name) + 1
      BY DEF ValueStart, NameStart
  <2>2. s \in Nat
      BY <1>3
  <2>3. PICK x, y \in Nat : x = s /\ y = Len(line.name)
      BY <1>7, <2>2
  <2>4. x + y + 1 = x + (y + 1)
      OBVIOUS
  <2> QED
      BY <2>1, <2>3, <2>4 DEF NameStart, LineEnd
<1> HIDE DEF n, l, raw, h, t, before, upto
<1>9. /\ upto \in Seq(Symbols) /\ Len(upto) = s + Len(l)
      /\ \A c \in 1..Len(l) : upto[s + c] = l[c]
  <2>1. before \in Seq(Symbols) /\ l \in Seq(Symbols) /\ upto = before \o l
      BY <1>3, <1>4
  <2> QED
      BY <2>1, JoinedAt
<1> DEFINE y == Len(line.name)
<1> HIDE DEF line
<1>10. s \in Nat /\ Len(l) \in Nat /\ Len(t) \in Nat
    BY <1>3, <1>4, <1>6
<1>11. ASSUME NEW c \in 1..Len(l) PROVE h[s + c] = l[c]
  <2>1. s + c \in 1..Len(upto) /\ s + c \in 1..Len(t)
      BY <1>5, <1>9, <1>10
  <2> QED
      BY <1>5, <1>6, <1>9, <2>1
<1>12. \A c \in 1..y : h[s + c] = line.name[c]
  <2> TAKE c \in 1..y
  <2>1. c \in 1..Len(l)
      BY <1>4, <1>7
  <2> QED
      BY <1>4, <1>11, <2>1
<1>13. h[s + w] = COLON
  <2>1. w \in 1..Len(l)
      BY <1>4, <1>7
  <2> QED
      BY <1>4, <1>11, <2>1
<1>14. \A c \in 1..Len(raw) : h[s + w + c] = raw[c]
  <2> TAKE c \in 1..Len(raw)
  <2>1. w + c \in 1..Len(l) /\ s + (w + c) = s + w + c
      BY <1>4, <1>7, <1>10
  <2> QED
      BY <1>4, <1>11, <2>1
<1>15. h[s + Len(l)] = LF /\ Len(upto) = s + w + Len(raw) + 1 /\ Len(upto) = s + Len(l)
  <2>1. Len(l) \in 1..Len(l)
      BY <1>4, <1>7
  <2>2. h[s + Len(l)] = LF
      BY <1>4, <1>11, <2>1
  <2>3. PICK a, b, c, d \in Nat : a = s /\ b = w /\ c = Len(raw) /\ d = Len(l)
      BY <1>4, <1>7, <1>10
  <2>4. d = b + c + 1 /\ Len(upto) = a + d
      BY <1>4, <1>9, <2>3
  <2>5. Len(upto) = a + b + c + 1
      BY <2>3, <2>4
  <2> QED
      BY <2>2, <2>3, <2>4, <2>5
<1>16. Len(upto) <= Len(h) - 2
    BY <1>5, <1>6, <1>9, <1>10
<1>17. s + w = s + y + 1
    BY <1>7, <1>10
<1>18. LineAt(h, s, s + w, Len(upto), line)
    BY <1>7, <1>10, <1>12, <1>13, <1>14, <1>15, <1>16, <1>17 DEF LineAt, raw
<1> QED
    BY <1>8, <1>18 DEF h, line

-----------------------------------------------------------------------------
(* What the fragments of a name and of a value make of them.               *)

\* An intact text is not all blank.
LEMMA IntactIsSolid ==
    ASSUME NEW text \in Seq(Characters), Intact(text)
    PROVE  \E c \in 1..Len(text) : IsSolid(text[c])
<1>1. PICK f \in Nat : f = FragmentSize /\ f > 3
    BY FragmentSizeIs
<1>2. PICK n \in Nat : n = Len(text)
    OBVIOUS
<1>3. PICK x \in Nat : x = IF f <= n THEN f ELSE n
    OBVIOUS
<1>4. x \in 0..f /\ x <= n /\ (x = f \/ x = n)
    BY <1>1, <1>2, <1>3
<1>4a. 0 * FragmentSize = 0
    BY <1>1
<1>5. FragmentAt(text, 0, x)
    BY <1>1, <1>2, <1>4, <1>4a DEF FragmentAt
<1>6. PICK c \in 1..x : IsSolid(Fragment(text, 0 + 1)[c])
    BY <1>5, FragmentIsSolid
<1>7. Fragment(text, 0 + 1)[c] = text[0 * FragmentSize + c]
    BY <1>5, FragmentIs
<1>8. c \in 1..Len(text) /\ 0 * FragmentSize + c = c
    BY <1>1, <1>2, <1>4, <1>4a
<1> QED
    BY <1>6, <1>7, <1>8

\* Trimming a name without blanks changes nothing.
LEMMA SolidNameIsTrimmed ==
    ASSUME NEW name \in Seq(Characters), name # << >>, \A c \in 1..Len(name) : IsSolid(name[c])
    PROVE  Trimmed(name) = name
<1>1. PICK n \in Nat : n = Len(name) /\ n # 0
    BY EmptySeq
<1>2. SolidEnds(name, 1, n)
    BY <1>1 DEF SolidEnds
<1>3. Trimmed(name) = SubSeq(name, 1, n)
    BY <1>1, <1>2, TrimmedIs
<1>4. SubSeq(name, 1, n) = name
    BY <1>1
<1> QED
    BY <1>3, <1>4

\* The blanks around a value are trimmed.
LEMMA RawValueIsTrimmed ==
    ASSUME NEW line, line.value \in Seq(Characters), SP \in Characters, CR \in Characters,
           Intact(RawValue(line))
    PROVE  Trimmed(RawValue(line)) = Trimmed(line.value)
<1> DEFINE v == line.value
           w == RawValue(line)
<1>1. /\ w \in Seq(Characters) /\ Len(w) = Len(v) + 2
      /\ w[1] = SP /\ w[Len(v) + 2] = CR
      /\ \A c \in 1..Len(v) : w[c + 1] = v[c]
    BY RawValueIs
<1>2. ~IsSolid(SP) /\ ~IsSolid(CR)
    BY AlphabetAssumption DEF IsSolid
<1>3. v \in Seq(Characters) /\ Len(v) \in Nat /\ Intact(w)
    OBVIOUS
<1> HIDE DEF v, w
<1>4. PICK c \in 1..Len(w) : IsSolid(w[c])
    BY <1>1, <1>3, IntactIsSolid
<1>5. c - 1 \in 1..Len(v) /\ IsSolid(v[c - 1])
  <2>1. c # 1 /\ c # Len(v) + 2
      BY <1>1, <1>2, <1>4
  <2>2. c - 1 \in 1..Len(v) /\ (c - 1) + 1 = c
      BY <1>1, <1>3, <2>1
  <2> QED
      BY <1>1, <1>4, <2>2
<1>6. PICK a, b \in 1..Len(v) : SolidEnds(v, a, b)
    BY <1>3, <1>5, SolidHasEnds
<1>7. a \in 1..Len(v) /\ b \in a..Len(v) /\ a \in Nat /\ b \in Nat
    BY <1>3, <1>6 DEF SolidEnds
<1>8. SolidEnds(w, a + 1, b + 1)
  <2>1. a + 1 \in 1..Len(w) /\ b + 1 \in (a + 1)..Len(w)
      BY <1>1, <1>3, <1>7
  <2>2. IsSolid(w[a + 1]) /\ IsSolid(w[b + 1])
      BY <1>1, <1>6, <1>7 DEF SolidEnds
  <2>3. \A d \in 1..((a + 1) - 1) : ~IsSolid(w[d])
    <3> TAKE d \in 1..((a + 1) - 1)
    <3>1. CASE d = 1
        BY <1>1, <1>2, <3>1
    <3>2. CASE d # 1
      <4>1. d - 1 \in 1..Len(v) /\ d - 1 \in 1..(a - 1) /\ (d - 1) + 1 = d
          BY <1>3, <1>7, <3>2
      <4> QED
          BY <1>1, <1>6, <4>1 DEF SolidEnds
    <3> QED
        BY <3>1, <3>2
  <2>4. \A d \in ((b + 1) + 1)..Len(w) : ~IsSolid(w[d])
    <3> TAKE d \in ((b + 1) + 1)..Len(w)
    <3>1. CASE d = Len(v) + 2
        BY <1>1, <1>2, <3>1
    <3>2. CASE d # Len(v) + 2
      <4>1. d - 1 \in 1..Len(v) /\ d - 1 \in (b + 1)..Len(v) /\ (d - 1) + 1 = d
        <5>1. PICK m \in Nat : m = Len(v)
            BY <1>3
        <5>2. d \in ((b + 1) + 1)..(m + 2) /\ d # m + 2
            BY <1>1, <3>2, <5>1
        <5>3. d - 1 \in 1..m /\ d - 1 \in (b + 1)..m /\ (d - 1) + 1 = d
            BY <1>7, <5>2
        <5> QED
            BY <5>1, <5>3
      <4> QED
          BY <1>1, <1>6, <4>1 DEF SolidEnds
    <3> QED
        BY <3>1, <3>2
  <2> QED
      BY <2>1, <2>2, <2>3, <2>4 DEF SolidEnds
<1>9. Trimmed(v) = SubSeq(v, a, b) /\ Trimmed(w) = SubSeq(w, a + 1, b + 1)
  <2>1. Len(w) \in Nat
      BY <1>1, <1>3
  <2> QED
      BY <1>3, <1>6, <1>8, <2>1, TrimmedIs
<1>10. /\ SubSeq(v, a, b) \in Seq(Characters) /\ Len(SubSeq(v, a, b)) = b - a + 1
       /\ \A d \in 1..(b - a + 1) : SubSeq(v, a, b)[d] = v[a + d - 1]
    BY <1>3, <1>7, PieceOf
<1>11. /\ SubSeq(w, a + 1, b + 1) \in Seq(Characters) /\ Len(SubSeq(w, a + 1, b + 1)) = b - a + 1
       /\ \A d \in 1..(b - a + 1) : SubSeq(w, a + 1, b + 1)[d] = w[a + d]
  <2>1. PICK x, y \in Nat : x = a + 1 /\ y = b + 1
      BY <1>7
  <2>2. x \in 1..Len(w) /\ y \in x..Len(w) /\ y - x + 1 = b - a + 1
      BY <1>1, <1>3, <1>7, <2>1
  <2>3. /\ SubSeq(w, x, y) \in Seq(Characters) /\ Len(SubSeq(w, x, y)) = y - x + 1
        /\ \A d \in 1..(y - x + 1) : SubSeq(w, x, y)[d] = w[x + d - 1]
      BY <1>1, <2>2, PieceOf
  <2>4. \A d \in 1..(b - a + 1) : x + d - 1 = a + d
      BY <1>7, <2>1
  <2> QED
      BY <2>1, <2>2, <2>3, <2>4
<1>12. \A d \in 1..(b - a + 1) : SubSeq(w, a + 1, b + 1)[d] = SubSeq(v, a, b)[d]
  <2> TAKE d \in 1..(b - a + 1)
  <2>1. a + d - 1 \in 1..Len(v) /\ (a + d - 1) + 1 = a + d
      BY <1>3, <1>7
  <2> QED
      BY <1>1, <1>10, <1>11, <2>1
<1>13. SubSeq(w, a + 1, b + 1) = SubSeq(v, a, b)
  <2>1. PICK x, y : x = SubSeq(w, a + 1, b + 1) /\ y = SubSeq(v, a, b)
      OBVIOUS
  <2>2. x \in Seq(Characters) /\ y \in Seq(Characters) /\ Len(x) = Len(y) /\ \A d \in 1..Len(x) : x[d] = y[d]
      BY <1>10, <1>11, <1>12, <2>1
  <2>3. x = y
      BY <2>2, SeqEqual
  <2> QED
      BY <2>1, <2>3
<1> QED
    BY <1>9, <1>13 DEF v, w

\* What the assumptions say of a line.
Clean(line) ==
    /\ Plain(line.name) /\ Intact(line.name) /\ Trimmed(line.name) = line.name
    /\ \A c \in 1..Len(line.name) : line.name[c] \notin {COLON, LF}
    /\ Plain(RawValue(line)) /\ \A c \in 1..Len(RawValue(line)) : RawValue(line)[c] # LF
    /\ Intact(RawValue(line)) => Trimmed(RawValue(line)) = Trimmed(line.value)
    /\ SameName(line.name, TransferEncoding) =>
          Intact(RawValue(line)) /\ Trimmed(line.value) = ChunkedText

\* What the assumptions say of a response.
Readable(r) ==
    /\ WellFormed(r) /\ r.status # COLON
    /\ \A k \in 1..Len(r.lines) : Clean(r.lines[k])

\* The lines the assumptions describe are clean.
LEMMA LinesAreClean ==
    ASSUME NEW r, WellFormed(r), Header(r) \in Texts, NEW k \in 1..Len(r.lines),
           ToSet(r.lines[k].name) \intersect (Blanks \union {COLON}) = {}, Intact(r.lines[k].name),
           NUL \notin ToSet(r.lines[k].value),
           SameName(r.lines[k].name, TransferEncoding) =>
              Intact(RawValue(r.lines[k])) /\ Trimmed(r.lines[k].value) = ChunkedText
    PROVE  Clean(r.lines[k])
<1> DEFINE line == r.lines[k]
           raw == RawValue(line)
<1>1. GoodLine(line)
    BY DEF WellFormed
<1>2. line.name \in Seq(DOMAIN Lower) /\ line.value \in Seq(DOMAIN Lower)
    BY <1>1 DEF GoodLine, Texts
<1>3. line.name \in Seq(Characters) /\ line.value \in Seq(Characters) /\ line.value \in Seq(Symbols)
    BY <1>2 DEF Characters, Symbols
<1>4. /\ \A c \in 1..Len(line.name) : line.name[c] \in ToSet(line.name)
      /\ \A c \in 1..Len(line.value) : line.value[c] \in ToSet(line.value)
    BY <1>2 DEF ToSet
<1>5. ToSet(line.name) \intersect (Blanks \union {COLON}) = {} /\ NUL \notin ToSet(line.value)
      /\ LF \notin ToSet(line.value) /\ line.name # << >>
    BY <1>1 DEF GoodLine
<1>6. \A c \in 1..Len(line.name) : /\ IsSolid(line.name[c])
                                   /\ line.name[c] \notin {COLON, LF, NUL}
  <2>1. NUL \in Blanks /\ LF \in Blanks
      BY AlphabetAssumption
  <2> QED
      BY <1>4, <1>5, <2>1 DEF IsSolid
<1>7. \A c \in 1..Len(line.value) : line.value[c] \notin {NUL, LF}
    BY <1>4, <1>5
<1>8. /\ raw \in Seq(Symbols) /\ Len(raw) = Len(line.value) + 2
      /\ raw[1] = SP /\ raw[Len(line.value) + 2] = CR
      /\ \A c \in 1..Len(line.value) : raw[c + 1] = line.value[c]
  <2>1. SP \in Symbols /\ CR \in Symbols
      BY DEF Symbols
  <2> QED
      BY <1>3, <2>1, RawValueIs
<1>9. SP \in Characters /\ CR \in Characters
  <2>1. LineAt(Header(r), NameStart(r, k), ValueStart(r, k), LineEnd(r, k), line)
      BY LinesInHeader
  <2>2. PICK h, v \in Nat : h = Len(Header(r)) /\ v = ValueStart(r, k)
    <3>1. Len(Header(r)) \in Nat
        BY DEF Texts
    <3>2. ValueStart(r, k) \in Nat
        BY <2>1, SMTT(30) DEF LineAt
    <3> QED
        BY <3>1, <3>2
  <2>3. v \in Nat /\ v + Len(raw) + 1 <= h - 2 /\ \A c \in 1..Len(raw) : Header(r)[v + c] = raw[c]
      BY <2>1, <2>2 DEF LineAt
  <2>4. 1 \in 1..Len(raw) /\ Len(line.value) + 2 \in 1..Len(raw) /\ Len(raw) \in Nat
      BY <1>3, <1>8
  <2>5. v + 1 \in 1..h /\ v + (Len(line.value) + 2) \in 1..h
    <3>1. PICK m, x \in Nat : m = Len(line.value) /\ x = Len(raw)
        BY <1>3, <2>4
    <3>2. x = m + 2 /\ v + x + 1 <= h - 2
        BY <1>8, <2>3, <3>1
    <3>3. v + 1 \in 1..h /\ v + (m + 2) \in 1..h
        BY <3>2
    <3> QED
        BY <3>1, <3>3
  <2>6. \A p \in 1..h : Header(r)[p] \in DOMAIN Lower
      BY <2>2 DEF Texts
  <2>7. Header(r)[v + 1] = SP /\ Header(r)[v + (Len(line.value) + 2)] = CR
      BY <1>8, <2>3, <2>4
  <2>8. SP \in DOMAIN Lower /\ CR \in DOMAIN Lower
      BY <2>5, <2>6, <2>7
  <2> QED
      BY <2>8 DEF Characters
<1>10. raw \in Seq(Characters)
    BY <1>3, <1>9, RawValueIs
<1>11. \A c \in 1..Len(raw) : raw[c] \notin {NUL, LF}
  <2> TAKE c \in 1..Len(raw)
  <2>1. SP \notin {NUL, LF} /\ CR \notin {NUL, LF}
      BY DEF SP, CR, LF, NUL
  <2>2. CASE c = 1 \/ c = Len(line.value) + 2
      BY <1>8, <2>1, <2>2
  <2>3. CASE ~(c = 1 \/ c = Len(line.value) + 2)
    <3>1. c - 1 \in 1..Len(line.value) /\ (c - 1) + 1 = c
        BY <1>3, <1>8, <2>3
    <3>2. raw[c] = line.value[c - 1]
        BY <1>8, <3>1
    <3> QED
        BY <1>7, <3>1, <3>2
  <2> QED
      BY <2>2, <2>3
<1>12. Trimmed(line.name) = line.name
    BY <1>3, <1>5, <1>6, SolidNameIsTrimmed
<1>13. Intact(raw) => Trimmed(raw) = Trimmed(line.value)
    BY <1>3, <1>9, RawValueIsTrimmed
<1>14. Plain(line.name) /\ Plain(raw)
    BY <1>3, <1>6, <1>10, <1>11 DEF Plain
<1> QED
    BY <1>6, <1>11, <1>12, <1>13, <1>14 DEF Clean

-----------------------------------------------------------------------------
(* Where the lines end.                                                    *)

\* Every response that can be sent is readable, with its body or, to HEAD, without.
LEMMA ResponsesAreReadable ==
    ASSUME NEW u \in Urls, NEW r \in Answers[u]
    PROVE  Readable(r) /\ Readable([r EXCEPT !.body = << >>])
<1> DEFINE L == Seq([name : Texts, value : Texts])
           s == [r EXCEPT !.body = << >>]
<1>1. r \in [status : DOMAIN Lower, lines : L, body : Texts] /\ Header(r) \in Texts
    BY ResponsesAssumption
<1>2. WellFormed(r) /\ WellFormed(s)
    BY ResponsesAreWellFormed
<1>3. r.status # COLON
    BY TokensAssumption
<1>4. r.lines \in L
    BY <1>1
<1>5. ASSUME NEW k \in 1..Len(r.lines) PROVE Clean(r.lines[k])
  <2>1. r.lines[k] \in ToSet(r.lines)
      BY <1>4 DEF ToSet
  <2>2. PICK line \in ToSet(r.lines) : line = r.lines[k]
      BY <2>1
  <2>3. /\ ToSet(line.name) \intersect (Blanks \union {COLON}) = {} /\ Intact(line.name)
        /\ NUL \notin ToSet(line.value)
      BY TokensAssumption
  <2>4. SameName(line.name, TransferEncoding) =>
              Intact(RawValue(line)) /\ Trimmed(line.value) = ChunkedText
      BY CodingAssumption
  <2>5. /\ ToSet(r.lines[k].name) \intersect (Blanks \union {COLON}) = {} /\ Intact(r.lines[k].name)
        /\ NUL \notin ToSet(r.lines[k].value)
        /\ SameName(r.lines[k].name, TransferEncoding) =>
              Intact(RawValue(r.lines[k])) /\ Trimmed(r.lines[k].value) = ChunkedText
      BY <2>2, <2>3, <2>4
  <2>6. WellFormed(r) /\ Header(r) \in Texts
      BY <1>1, <1>2
  <2> QED
      BY <2>5, <2>6, LinesAreClean
<1>6. s.status = r.status /\ s.lines = r.lines
    BY <1>1
<1>7. Readable(r)
    BY <1>2, <1>3, <1>5 DEF Readable
<1> HIDE DEF s
<1>8. Readable(s)
  <2>1. \A k \in 1..Len(s.lines) : Clean(s.lines[k])
      BY <1>5, <1>6
  <2> QED
      BY <1>2, <1>3, <1>6, <2>1 DEF Readable
<1> QED
    BY <1>7, <1>8 DEF s

-----------------------------------------------------------------------------
(* What has been scanned of a header *)

\* p characters of it have been scanned; key and value are what the tree has of the
\* line at hand, and array has the first x characters of the text at hand.
InStatus(r, p, key, value, inside, array, x) ==
    /\ p \in 0..3 /\ inside = FALSE /\ key = NULL /\ value = NULL
    /\ x = p /\ \A c \in 1..x : array[c] = Header(r)[c]

InName(r, k, p, key, value, inside, array, x) ==
    /\ p \in NameStart(r, k)..(ValueStart(r, k) - 1) /\ inside = FALSE /\ value = NULL
    /\ Collecting(r.lines[k].name, p - NameStart(r, k), key, array, x)

InValue(r, k, p, key, value, inside, array, x) ==
    /\ p \in ValueStart(r, k)..(LineEnd(r, k) - 1) /\ inside = TRUE /\ key = r.lines[k].name
    /\ Collecting(RawValue(r.lines[k]), p - ValueStart(r, k), value, array, x)

AtEnd(r, p, key, value, inside, array, x) ==
    /\ p \in LineEnd(r, Len(r.lines))..(LineEnd(r, Len(r.lines)) + 1)
    /\ inside = FALSE /\ key = NULL /\ value = NULL
    /\ x = p - LineEnd(r, Len(r.lines))

\* Of its lines, m have been pushed.
Scanned(r, m, p, key, value, inside, array, x) ==
    \/ m = 0 /\ InStatus(r, p, key, value, inside, array, x)
    \/ m # Len(r.lines) /\ InName(r, m + 1, p, key, value, inside, array, x)
    \/ m # Len(r.lines) /\ InValue(r, m + 1, p, key, value, inside, array, x)
    \/ m = Len(r.lines) /\ AtEnd(r, p, key, value, inside, array, x)

\* The value is that of the line, if the cut into fragments leaves it intact.
Carries(value, line) ==
    /\ value \in Seq(Characters)
    /\ Intact(RawValue(line)) => value = Trimmed(line.value)

\* The history has the names of the first m lines and the values that their last lines
\* give them.
Reflects(l, r, m) ==
    /\ DOMAIN l = { Folded(r.lines[k].name) : k \in 1..m }
    /\ \A k \in 1..m :
          (\A o \in (k + 1)..m : ~SameName(r.lines[o].name, r.lines[k].name))
              => Carries(l[Folded(r.lines[k].name)], r.lines[k])

\* The first line ends behind the status, the last in front of the blank line.
LEMMA LineEndsAre ==
    ASSUME NEW r, WellFormed(r)
    PROVE  /\ Len(r.lines) \in Nat
           /\ LineEnd(r, 0) = 4 /\ LineEnd(r, Len(r.lines)) + 2 = Len(Header(r))
           /\ \A k \in 0..Len(r.lines) : LineEnd(r, k) \in Nat
           /\ \A a \in 0..Len(r.lines) : \A b \in a..Len(r.lines) : LineEnd(r, a) <= LineEnd(r, b)
<1>1. Len(r.lines) \in Nat
    BY DEF WellFormed
<1>2. LineEnd(r, 0) = 4
    BY ThroughFirst DEF LineEnd
<1>3. \A k \in 0..Len(r.lines) : LineEnd(r, k) \in Nat
    BY ThroughStep DEF LineEnd
<1>4. Len(Header(r)) = Len(Through(r, Len(r.lines))) + 2
    BY HeaderPieces
<1>5. \A a \in 0..Len(r.lines) : \A b \in a..Len(r.lines) : LineEnd(r, a) <= LineEnd(r, b)
    BY ThroughGrows DEF LineEnd
<1> QED
    BY <1>1, <1>2, <1>3, <1>4, <1>5 DEF LineEnd

\* The next line of a response: its parts, their places and its characters.
LEMMA LineIs ==
    ASSUME NEW r, Readable(r), NEW m \in 0..Len(r.lines), m # Len(r.lines)
    PROVE  LET line == r.lines[m + 1]
               s == NameStart(r, m + 1)
               v == ValueStart(r, m + 1)
               e == LineEnd(r, m + 1)
               h == Header(r)
           IN  /\ m + 1 \in 1..Len(r.lines) /\ m + 1 \in 0..Len(r.lines) /\ Clean(line)
               /\ s = LineEnd(r, m) /\ s \in Nat /\ v \in Nat /\ e \in Nat
               /\ Len(line.name) \in Nat /\ Len(RawValue(line)) \in Nat
               /\ v = s + Len(line.name) + 1 /\ e = v + Len(RawValue(line)) + 1
               /\ \A c \in 1..Len(line.name) : h[s + c] = line.name[c]
               /\ h[v] = COLON
               /\ \A c \in 1..Len(RawValue(line)) : h[v + c] = RawValue(line)[c]
               /\ h[e] = LF
<1>1. WellFormed(r) /\ Len(r.lines) \in Nat
    BY LineEndsAre DEF Readable
<1>2. m + 1 \in 1..Len(r.lines) /\ m + 1 \in 0..Len(r.lines) /\ (m + 1) - 1 = m
    BY <1>1
<1>3. PICK k \in 1..Len(r.lines) : k = m + 1
    BY <1>2
<1>4. LineAt(Header(r), NameStart(r, k), ValueStart(r, k), LineEnd(r, k), r.lines[k]) /\ Clean(r.lines[k])
    BY <1>1, LinesInHeader DEF Readable
<1>5. NameStart(r, k) = LineEnd(r, m)
    BY <1>2, <1>3 DEF NameStart, LineEnd
<1>6. /\ NameStart(r, k) \in Nat /\ ValueStart(r, k) \in Nat /\ LineEnd(r, k) \in Nat
  <2>1. k \in 0..Len(r.lines)
      BY <1>1
  <2>2. PICK x, y \in Nat : x = NameStart(r, k) /\ y = Len(r.lines[k].name)
      BY <1>4 DEF LineAt
  <2>3. ValueStart(r, k) = x + y + 1
      BY <1>4, <2>2 DEF LineAt
  <2>4. ValueStart(r, k) \in Nat
      BY <2>2, <2>3
  <2>5. LineEnd(r, k) \in Nat
      BY <1>1, <2>1, LineEndsAre
  <2> QED
      BY <2>2, <2>4, <2>5
<1> QED
    BY <1>2, <1>3, <1>4, <1>5, <1>6 DEF LineAt

-----------------------------------------------------------------------------
(* The scanner inside a line.                                              *)

\* The status line, and what stands behind the last line.
LEMMA EndsOfHeader ==
    ASSUME NEW r, Readable(r)
    PROVE  LET h == Header(r)
               e == LineEnd(r, Len(r.lines))
           IN  /\ h[1] = HTTP /\ h[2] = r.status /\ h[3] = CR /\ h[4] = LF
               /\ \A c \in 1..3 : h[c] # LF
               /\ \A c \in 1..4 : h[c] # COLON
               /\ e \in Nat /\ e + 2 = Len(h) /\ h[e + 1] = CR /\ h[e + 2] = LF
<1> DEFINE h == Header(r)
           n == Len(r.lines)
           t == Through(r, n)
<1>1. WellFormed(r) /\ n \in Nat
    BY LineEndsAre DEF Readable
<1>2. /\ Len(h) = Len(t) + 2 /\ Len(t) \in Nat
      /\ \A p \in 1..Len(t) : h[p] = t[p]
  <2>1. Len(t) \in Nat
      BY <1>1, LineEndsAre DEF LineEnd
  <2> QED
      BY <1>1, <2>1, HeaderPieces
<1>3. h[Len(t) + 1] = CR /\ h[Len(t) + 2] = LF
    BY <1>1, HeaderPieces
<1>4. Through(r, 0) = StatusLine(r.status) /\ Len(Through(r, 0)) = 4
    BY <1>1, ThroughFirst
<1>5. /\ Len(Through(r, 0)) <= Len(t)
      /\ \A p \in 1..Len(Through(r, 0)) : t[p] = Through(r, 0)[p]
  <2>1. 0 \in 0..n /\ n \in 0..n
      BY <1>1
  <2> QED
      BY <1>1, <2>1, ThroughGrows
<1>6. 4 <= Len(t) /\ \A p \in 1..4 : h[p] = StatusLine(r.status)[p]
  <2>1. 4 <= Len(t) /\ \A p \in 1..4 : t[p] = StatusLine(r.status)[p]
      BY <1>4, <1>5
  <2>2. \A p \in 1..4 : p \in 1..Len(t)
      BY <1>2, <2>1
  <2> QED
      BY <1>2, <2>1, <2>2
<1>7. h[1] = HTTP /\ h[2] = r.status /\ h[3] = CR /\ h[4] = LF
    BY <1>6 DEF StatusLine
<1>8. r.status # COLON /\ r.status # LF
    BY DEF Readable, WellFormed
<1>9. /\ HTTP # LF /\ HTTP # COLON /\ CR # LF /\ CR # COLON /\ LF # COLON
    BY DEF HTTP, CR, LF, COLON
<1> HIDE DEF h
<1>10. /\ \A c \in 1..3 : h[c] # LF
       /\ \A c \in 1..4 : h[c] # COLON
    BY <1>7, <1>8, <1>9
<1> QED
    BY <1>2, <1>3, <1>7, <1>10 DEF h, LineEnd

\* Where the scanner is in a name or a value.
LEMMA InTheName ==
    ASSUME NEW r, Readable(r), NEW m \in 0..Len(r.lines), m # Len(r.lines), NEW p, NEW key, NEW value,
           NEW inside, NEW array, NEW x, InName(r, m + 1, p, key, value, inside, array, x)
    PROVE  LET t == p - NameStart(r, m + 1)
               name == r.lines[m + 1].name
           IN  /\ p \in Nat /\ t \in Nat /\ t <= Len(name) /\ Len(name) \in Nat
               /\ t = Len(name) => p + 1 = ValueStart(r, m + 1) /\ Header(r)[p + 1] = COLON
               /\ t # Len(name) => /\ p + 1 \in NameStart(r, m + 1)..(ValueStart(r, m + 1) - 1)
                                   /\ t + 1 = (p + 1) - NameStart(r, m + 1)
                                   /\ Header(r)[p + 1] = name[t + 1]
                                   /\ Header(r)[p + 1] \notin {COLON, LF}
<1> DEFINE line == r.lines[m + 1]
           s == NameStart(r, m + 1)
           v == ValueStart(r, m + 1)
           h == Header(r)
           t == p - s
<1>1. /\ Clean(line) /\ s \in Nat /\ v \in Nat /\ Len(line.name) \in Nat /\ v = s + Len(line.name) + 1
      /\ \A c \in 1..Len(line.name) : h[s + c] = line.name[c]
      /\ h[v] = COLON
  <2>1. Clean(line) /\ s \in Nat /\ v \in Nat
      BY LineIs
  <2>2. Len(line.name) \in Nat
      BY LineIs
  <2>2a. v = s + Len(line.name) + 1
      BY LineIs
  <2>3. \A c \in 1..Len(line.name) : h[s + c] = line.name[c]
      BY LineIs
  <2>4. h[v] = COLON
      BY LineIs
  <2> HIDE DEF s, v, h, line
  <2> QED
      BY <2>1, <2>2, <2>2a, <2>3, <2>4
<1>2. p \in s..(v - 1)
    BY DEF InName
<1>3. \A c \in 1..Len(line.name) : line.name[c] \notin {COLON, LF}
    BY <1>1 DEF Clean
<1> HIDE DEF s, v, h, line
<1>4. p \in Nat /\ t \in Nat /\ t <= Len(line.name) /\ p = s + t
    BY <1>1, <1>2
<1> HIDE DEF t
<1>5. ASSUME t = Len(line.name) PROVE p + 1 = v /\ h[p + 1] = COLON
    BY <1>1, <1>2, <1>4, <1>5
<1>6. ASSUME t # Len(line.name)
      PROVE  /\ p + 1 \in s..(v - 1) /\ t + 1 = (p + 1) - s /\ h[p + 1] = line.name[t + 1]
             /\ h[p + 1] \notin {COLON, LF}
  <2>1. t + 1 \in 1..Len(line.name) /\ s + (t + 1) = p + 1
      BY <1>1, <1>2, <1>4, <1>6
  <2>2. p + 1 \in s..(v - 1) /\ t + 1 = (p + 1) - s
      BY <1>1, <1>2, <1>4, <1>6
  <2>3. h[p + 1] = line.name[t + 1]
      BY <1>1, <2>1
  <2> QED
      BY <1>3, <2>1, <2>2, <2>3
<1> QED
    BY <1>1, <1>4, <1>5, <1>6 DEF s, v, h, line, t

\* In a value: the next character is the next of the value, or the line feed.
LEMMA InTheValue ==
    ASSUME NEW r, Readable(r), NEW m \in 0..Len(r.lines), m # Len(r.lines), NEW p, NEW key, NEW value,
           NEW inside, NEW array, NEW x, InValue(r, m + 1, p, key, value, inside, array, x)
    PROVE  LET t == p - ValueStart(r, m + 1)
               raw == RawValue(r.lines[m + 1])
           IN  /\ p \in Nat /\ t \in Nat /\ t <= Len(raw) /\ Len(raw) \in Nat
               /\ t = Len(raw) => p + 1 = LineEnd(r, m + 1) /\ Header(r)[p + 1] = LF
               /\ t # Len(raw) => /\ p + 1 \in ValueStart(r, m + 1)..(LineEnd(r, m + 1) - 1)
                                  /\ t + 1 = (p + 1) - ValueStart(r, m + 1)
                                  /\ Header(r)[p + 1] = raw[t + 1]
                                  /\ Header(r)[p + 1] # LF
<1> DEFINE line == r.lines[m + 1]
           raw == RawValue(line)
           v == ValueStart(r, m + 1)
           e == LineEnd(r, m + 1)
           h == Header(r)
           t == p - v
<1>1. /\ Clean(line) /\ v \in Nat /\ e \in Nat /\ Len(raw) \in Nat /\ e = v + Len(raw) + 1
      /\ \A c \in 1..Len(raw) : h[v + c] = raw[c]
      /\ h[e] = LF
  <2>1. Clean(line) /\ v \in Nat /\ e \in Nat
      BY LineIs
  <2>2. Len(raw) \in Nat
      BY LineIs
  <2>2a. e = v + Len(raw) + 1
      BY LineIs
  <2>3. \A c \in 1..Len(raw) : h[v + c] = raw[c]
      BY LineIs
  <2>4. h[e] = LF
      BY LineIs
  <2> HIDE DEF raw, v, e, h, line
  <2> QED
      BY <2>1, <2>2, <2>2a, <2>3, <2>4
<1>2. p \in v..(e - 1)
    BY DEF InValue
<1>3. \A c \in 1..Len(raw) : raw[c] # LF
    BY <1>1 DEF Clean
<1> HIDE DEF raw, v, e, h, line
<1>4. p \in Nat /\ t \in Nat /\ t <= Len(raw) /\ p = v + t
    BY <1>1, <1>2
<1> HIDE DEF t
<1>5. ASSUME t = Len(raw) PROVE p + 1 = e /\ h[p + 1] = LF
    BY <1>1, <1>2, <1>4, <1>5
<1>6. ASSUME t # Len(raw)
      PROVE  /\ p + 1 \in v..(e - 1) /\ t + 1 = (p + 1) - v /\ h[p + 1] = raw[t + 1]
             /\ h[p + 1] # LF
  <2>1. t + 1 \in 1..Len(raw) /\ v + (t + 1) = p + 1
      BY <1>1, <1>2, <1>4, <1>6
  <2>2. p + 1 \in v..(e - 1) /\ t + 1 = (p + 1) - v
      BY <1>1, <1>2, <1>4, <1>6
  <2>3. h[p + 1] = raw[t + 1]
      BY <1>1, <2>1
  <2> QED
      BY <1>3, <2>1, <2>2, <2>3
<1> QED
    BY <1>1, <1>4, <1>5, <1>6 DEF raw, v, e, h, line, t

\* The array is full: no line has changed.
LEMMA ScannedFlush ==
    ASSUME NEW r, Readable(r), NEW m \in 0..Len(r.lines), NEW p, NEW key, NEW value, NEW inside,
           NEW array, FullArray(array), NEW x, x = FragmentSize,
           Scanned(r, m, p, key, value, inside, array, x), NEW fresh
    PROVE  LET text == strtrim([array EXCEPT ![x + 1] = NUL])
           IN  /\ inside => Scanned(r, m, p, key, Extended(value, text), inside, fresh, 0)
               /\ ~inside => Scanned(r, m, p, Extended(key, text), value, inside, fresh, 0)
<1> DEFINE text == strtrim([array EXCEPT ![x + 1] = NUL])
<1>1. x \in Nat /\ x > 3
    BY FragmentSizeIs
<1>2. ~InStatus(r, p, key, value, inside, array, x)
    BY <1>1 DEF InStatus
<1>3. ~AtEnd(r, p, key, value, inside, array, x)
  <2>1. LineEnd(r, Len(r.lines)) \in Nat
      BY EndsOfHeader
  <2> QED
      BY <1>1, <2>1 DEF AtEnd
<1>4. CASE m # Len(r.lines) /\ InName(r, m + 1, p, key, value, inside, array, x)
  <2> DEFINE t == p - NameStart(r, m + 1)
             name == r.lines[m + 1].name
  <2>1. Plain(name) /\ t \in Nat /\ t <= Len(name)
      BY <1>4, InTheName, LineIs DEF Clean
  <2>2. Collecting(name, t, key, array, x) /\ inside = FALSE
      BY <1>4 DEF InName
  <2> HIDE DEF t, name
  <2>3. Collecting(name, t, Extended(key, text), fresh, 0)
      BY <2>1, <2>2, CollectFlush
  <2>4. InName(r, m + 1, p, Extended(key, text), value, inside, fresh, 0)
      BY <1>4, <2>3 DEF InName, t, name
  <2> QED
      BY <1>4, <2>2, <2>4 DEF Scanned
<1>5. CASE m # Len(r.lines) /\ InValue(r, m + 1, p, key, value, inside, array, x)
  <2> DEFINE t == p - ValueStart(r, m + 1)
             raw == RawValue(r.lines[m + 1])
  <2>1. Plain(raw) /\ t \in Nat /\ t <= Len(raw)
      BY <1>5, InTheValue, LineIs DEF Clean
  <2>2. Collecting(raw, t, value, array, x) /\ inside = TRUE
      BY <1>5 DEF InValue
  <2> HIDE DEF t, raw
  <2>3. Collecting(raw, t, Extended(value, text), fresh, 0)
      BY <2>1, <2>2, CollectFlush
  <2>4. InValue(r, m + 1, p, key, Extended(value, text), inside, fresh, 0)
      BY <1>5, <2>3 DEF InValue, t, raw
  <2> QED
      BY <1>5, <2>2, <2>4 DEF Scanned
<1> QED
    BY <1>2, <1>3, <1>4, <1>5 DEF Scanned

-----------------------------------------------------------------------------
(* What has been scanned of a header, character by character.              *)

\* The array with the end of its text, and the history with a header more.
Closed(array, x) == [array EXCEPT ![x + 1] = NUL]
Pushed(l, key, value) ==
    [k \in DOMAIN l \union {Folded(key)} |-> IF k = Folded(key) THEN value ELSE l[k]]

\* A colon ends the name.
LEMMA ScannedColon ==
    ASSUME NEW r, Readable(r), NEW m \in 0..Len(r.lines), NEW p, NEW key, NEW value, NEW inside,
           NEW array, FullArray(array), NEW x, x # FragmentSize,
           Scanned(r, m, p, key, value, inside, array, x), inside # TRUE, Header(r)[p + 1] = COLON,
           NEW longer, longer = Extended(key, strtrim(Closed(array, x))), NEW fresh
    PROVE  Scanned(r, m, p + 1, longer, value, TRUE, fresh, 0)
<1> DEFINE h == Header(r)
           e == LineEnd(r, Len(r.lines))
<1>1. /\ \A c \in 1..4 : h[c] # COLON
      /\ e \in Nat /\ h[e + 1] = CR /\ h[e + 2] = LF
    BY EndsOfHeader
<1>2. ~InStatus(r, p, key, value, inside, array, x)
  <2> SUFFICES ASSUME InStatus(r, p, key, value, inside, array, x) PROVE FALSE
      OBVIOUS
  <2>1. p + 1 \in 1..4
      BY DEF InStatus
  <2> QED
      BY <1>1, <2>1
<1>3. ~AtEnd(r, p, key, value, inside, array, x)
  <2> SUFFICES ASSUME AtEnd(r, p, key, value, inside, array, x) PROVE FALSE
      OBVIOUS
  <2>1. p \in e..(e + 1)
      BY DEF AtEnd
  <2>2. p + 1 = e + 1 \/ p + 1 = e + 2
      BY <1>1, <2>1
  <2> QED
      BY <1>1, <2>2, CharactersDiffer
<1>4. ~InValue(r, m + 1, p, key, value, inside, array, x)
    BY DEF InValue
<1>5. m # Len(r.lines) /\ InName(r, m + 1, p, key, value, inside, array, x)
    BY <1>2, <1>3, <1>4 DEF Scanned
<1> DEFINE t == p - NameStart(r, m + 1)
           name == r.lines[m + 1].name
           raw == RawValue(r.lines[m + 1])
<1>6. /\ t = Len(name) => p + 1 = ValueStart(r, m + 1)
      /\ t # Len(name) => h[p + 1] \notin {COLON, LF}
    BY <1>5, InTheName
<1>7. t = Len(name) /\ p + 1 = ValueStart(r, m + 1)
    BY <1>6
<1>8. Plain(name) /\ Intact(name) /\ Trimmed(name) = name
    BY <1>5, LineIs DEF Clean
<1>9. Collecting(name, t, key, array, x) /\ value = NULL
    BY <1>5 DEF InName
<1>10. ValueStart(r, m + 1) \in ValueStart(r, m + 1)..(LineEnd(r, m + 1) - 1)
  <2>1. ValueStart(r, m + 1) \in Nat /\ Len(raw) \in Nat
      BY <1>5, LineIs
  <2>2. LineEnd(r, m + 1) = ValueStart(r, m + 1) + Len(raw) + 1
      BY <1>5, LineIs
  <2> QED
      BY <2>1, <2>2
<1> HIDE DEF t, name, raw
<1>11. longer = name
    BY <1>7, <1>8, <1>9, CollectEnd DEF Closed
<1>12. (p + 1) - ValueStart(r, m + 1) = 0
    BY <1>7, <1>10
<1>13. Collecting(raw, (p + 1) - ValueStart(r, m + 1), value, fresh, 0)
    BY <1>9, <1>12, CollectStart
<1>14. InValue(r, m + 1, p + 1, longer, value, TRUE, fresh, 0)
    BY <1>7, <1>10, <1>11, <1>13 DEF InValue, name, raw
<1> QED
    BY <1>5, <1>14 DEF Scanned

\* A line end ends the value.
LEMMA ScannedValueEnd ==
    ASSUME NEW r, Readable(r), NEW m \in 0..Len(r.lines), NEW p, NEW key, NEW value, NEW inside,
           NEW array, FullArray(array), NEW x, x # FragmentSize,
           Scanned(r, m, p, key, value, inside, array, x), inside, Header(r)[p + 1] = LF
    PROVE  /\ m # Len(r.lines) /\ p + 1 = LineEnd(r, m + 1) /\ key = r.lines[m + 1].name
           /\ Carries(Extended(value, strtrim([array EXCEPT ![x + 1] = NUL])), r.lines[m + 1])
<1> DEFINE longer == Extended(value, strtrim([array EXCEPT ![x + 1] = NUL]))
           h == Header(r)
<1>1. m # Len(r.lines) /\ InValue(r, m + 1, p, key, value, inside, array, x)
    BY DEF Scanned, InStatus, InName, AtEnd
<1> DEFINE t == p - ValueStart(r, m + 1)
           line == r.lines[m + 1]
           raw == RawValue(line)
<1>2. /\ t = Len(raw) => p + 1 = LineEnd(r, m + 1)
      /\ t # Len(raw) => h[p + 1] # LF
    BY <1>1, InTheValue
<1>3. t = Len(raw) /\ p + 1 = LineEnd(r, m + 1)
    BY <1>2
<1>4. Plain(raw) /\ (Intact(raw) => Trimmed(raw) = Trimmed(line.value))
    BY <1>1, LineIs DEF Clean
<1>5. Collecting(raw, t, value, array, x) /\ key = line.name
    BY <1>1 DEF InValue
<1> HIDE DEF t, raw
<1>6. longer \in Seq(Characters) /\ (Intact(raw) => longer = Trimmed(raw))
    BY <1>3, <1>4, <1>5, CollectEnd
<1>7. Carries(longer, line)
    BY <1>4, <1>6 DEF Carries, raw
<1> QED
    BY <1>1, <1>3, <1>5, <1>7

\* A line end without a value is that of the status line.
LEMMA ScannedOtherLine ==
    ASSUME NEW r, Readable(r), NEW m \in 0..Len(r.lines), NEW p, NEW key, NEW value, NEW inside,
           NEW array, FullArray(array), NEW x, x # FragmentSize,
           Scanned(r, m, p, key, value, inside, array, x), ~inside, Header(r)[p + 1] = LF,
           p + 1 # Len(Header(r)), NEW fresh
    PROVE  /\ p = 3 /\ m = 0
           /\ [array EXCEPT ![x + 1] = NUL][1] = HTTP
           /\ [array EXCEPT ![x + 1] = NUL][2] = r.status
           /\ Scanned(r, m, p + 1, NULL, NULL, inside, fresh, 0)
<1> DEFINE h == Header(r)
           e == LineEnd(r, Len(r.lines))
           ended == [array EXCEPT ![x + 1] = NUL]
<1>1. /\ h[1] = HTTP /\ h[2] = r.status
      /\ \A c \in 1..3 : h[c] # LF
      /\ e \in Nat /\ e + 2 = Len(h) /\ h[e + 1] = CR
    BY EndsOfHeader
<1>2. ~AtEnd(r, p, key, value, inside, array, x)
  <2> SUFFICES ASSUME AtEnd(r, p, key, value, inside, array, x) PROVE FALSE
      OBVIOUS
  <2>1. p \in e..(e + 1)
      BY DEF AtEnd
  <2>2. p + 1 = e + 1 \/ p + 1 = e + 2
      BY <1>1, <2>1
  <2>3. p + 1 # e + 2
      BY <1>1
  <2> QED
      BY <1>1, <2>2, <2>3, CharactersDiffer
<1>3. ~InValue(r, m + 1, p, key, value, inside, array, x)
    BY DEF InValue
<1>4. ASSUME m # Len(r.lines), InName(r, m + 1, p, key, value, inside, array, x) PROVE FALSE
  <2> DEFINE t == p - NameStart(r, m + 1)
             name == r.lines[m + 1].name
  <2>1. /\ t = Len(name) => h[p + 1] = COLON
        /\ t # Len(name) => h[p + 1] \notin {COLON, LF}
      BY <1>4, InTheName
  <2> HIDE DEF t, name
  <2> QED
      BY <2>1, CharactersDiffer
<1>5. m = 0 /\ InStatus(r, p, key, value, inside, array, x)
    BY <1>2, <1>3, <1>4 DEF Scanned
<1>6. p = 3
  <2>1. p \in 0..3
      BY <1>5 DEF InStatus
  <2>2. p + 1 \notin 1..3
      BY <1>1
  <2> QED
      BY <2>1, <2>2
<1>7. x = 3 /\ array[1] = h[1] /\ array[2] = h[2] /\ inside = FALSE
  <2>1. x = p /\ inside = FALSE /\ \A c \in 1..x : array[c] = h[c]
      BY <1>5 DEF InStatus
  <2> QED
      BY <1>6, <2>1
<1>8. ended[1] = array[1] /\ ended[2] = array[2]
  <2>1. array \in Seq(Characters)
      BY DEF FullArray
  <2> QED
      BY <1>7, <2>1
<1>9. LineEnd(r, 0) = 4 /\ Len(r.lines) \in Nat
    BY LineEndsAre DEF Readable
<1>10. Scanned(r, 0, 4, NULL, NULL, FALSE, fresh, 0)
  <2>1. CASE Len(r.lines) = 0
    <3>1. AtEnd(r, 4, NULL, NULL, FALSE, fresh, 0)
        BY <1>9, <2>1 DEF AtEnd
    <3> QED
        BY <2>1, <3>1 DEF Scanned
  <2>2. CASE Len(r.lines) # 0
    <3>1. 0 \in 0..Len(r.lines)
        BY <1>9
    <3>2. NameStart(r, 0 + 1) = LineEnd(r, 0) /\ Len(r.lines[0 + 1].name) \in Nat
        BY <2>2, <3>1, LineIs
    <3>3. ValueStart(r, 0 + 1) = NameStart(r, 0 + 1) + Len(r.lines[0 + 1].name) + 1
        BY <2>2, <3>1, LineIs
    <3>4. 4 \in NameStart(r, 0 + 1)..(ValueStart(r, 0 + 1) - 1) /\ 4 - NameStart(r, 0 + 1) = 0
      <4>1. PICK a, b, d : /\ a = NameStart(r, 0 + 1) /\ b = ValueStart(r, 0 + 1)
                           /\ d = Len(r.lines[0 + 1].name)
          OBVIOUS
      <4>2. a = 4 /\ d \in Nat /\ b = a + d + 1
          BY <1>9, <3>2, <3>3, <4>1
      <4>3. 4 \in a..(b - 1) /\ 4 - a = 0
          BY <4>2
      <4> QED
          BY <4>1, <4>3
    <3>5. Collecting(r.lines[0 + 1].name, 4 - NameStart(r, 0 + 1), NULL, fresh, 0)
        BY <3>4, CollectStart
    <3>6. InName(r, 0 + 1, 4, NULL, NULL, FALSE, fresh, 0)
        BY <3>4, <3>5 DEF InName
    <3>7. 0 # Len(r.lines)
        BY <2>2
    <3> QED
        BY <3>6, <3>7 DEF Scanned
  <2> QED
      BY <2>1, <2>2
<1>11. p + 1 = 4
    BY <1>6
<1> QED
    BY <1>1, <1>5, <1>6, <1>7, <1>8, <1>10, <1>11

\* Any other character is written to the array.
LEMMA ScannedCharacter ==
    ASSUME NEW r, Readable(r), NEW m \in 0..Len(r.lines), NEW p, NEW key, NEW value, NEW inside,
           NEW array, FullArray(array), NEW x, x # FragmentSize,
           Scanned(r, m, p, key, value, inside, array, x), NEW c, c = Header(r)[p + 1],
           c # LF, c = COLON => inside
    PROVE  Scanned(r, m, p + 1, key, value, inside,
                   [[array EXCEPT ![x + 1] = NUL] EXCEPT ![x + 1] = c], x + 1)
<1> DEFINE longer == [[array EXCEPT ![x + 1] = NUL] EXCEPT ![x + 1] = c]
           h == Header(r)
           e == LineEnd(r, Len(r.lines))
<1>1. h[4] = LF /\ e \in Nat /\ h[e + 2] = LF
    BY EndsOfHeader
<1>2. CASE m = 0 /\ InStatus(r, p, key, value, inside, array, x)
  <2>1. /\ p \in 0..3 /\ inside = FALSE /\ key = NULL /\ value = NULL
        /\ x = p /\ \A d \in 1..x : array[d] = h[d]
      BY <1>2 DEF InStatus
  <2>2. p # 3
      BY <1>1
  <2>3. x + 1 = p + 1 /\ p + 1 \in 0..3 /\ x + 1 \in 1..Len(array) /\ array \in Seq(Characters)
      BY <2>1, <2>2, FragmentSizeIs DEF FullArray
  <2>4. longer[x + 1] = c /\ \A d \in 1..x : longer[d] = array[d]
      BY <2>1, <2>3
  <2> HIDE DEF longer
  <2>5. \A d \in 1..(x + 1) : longer[d] = h[d]
    <3> TAKE d \in 1..(x + 1)
    <3>1. d \in 1..x \/ d = x + 1
        BY <2>1
    <3> QED
        BY <2>1, <2>3, <2>4, <3>1
  <2>6. InStatus(r, p + 1, key, value, inside, longer, x + 1)
      BY <2>1, <2>3, <2>5 DEF InStatus
  <2> QED
      BY <1>2, <2>6 DEF Scanned, longer
<1>3. CASE m # Len(r.lines) /\ InName(r, m + 1, p, key, value, inside, array, x)
  <2> DEFINE t == p - NameStart(r, m + 1)
             name == r.lines[m + 1].name
  <2>1. Collecting(name, t, key, array, x) /\ inside = FALSE /\ value = NULL
      BY <1>3 DEF InName
  <2>2. /\ t \in Nat
        /\ t = Len(name) => h[p + 1] = COLON
        /\ t # Len(name) => /\ p + 1 \in NameStart(r, m + 1)..(ValueStart(r, m + 1) - 1)
                            /\ t + 1 = (p + 1) - NameStart(r, m + 1)
                            /\ h[p + 1] = name[t + 1]
      BY <1>3, InTheName
  <2> HIDE DEF t, name, longer
  <2>3. t # Len(name)
      BY <2>1, <2>2
  <2>4. t \in Nat /\ c = name[t + 1]
      BY <2>2, <2>3
  <2>5. Collecting(name, t + 1, key, longer, x + 1)
      BY <2>1, <2>4, CollectCharacter DEF longer
  <2>6. Collecting(name, (p + 1) - NameStart(r, m + 1), key, longer, x + 1)
      BY <2>2, <2>3, <2>5
  <2>7. InName(r, m + 1, p + 1, key, value, inside, longer, x + 1)
      BY <2>1, <2>2, <2>3, <2>6 DEF InName, name
  <2> QED
      BY <1>3, <2>7 DEF Scanned, longer
<1>4. CASE m # Len(r.lines) /\ InValue(r, m + 1, p, key, value, inside, array, x)
  <2> DEFINE t == p - ValueStart(r, m + 1)
             raw == RawValue(r.lines[m + 1])
  <2>1. Collecting(raw, t, value, array, x) /\ inside = TRUE /\ key = r.lines[m + 1].name
      BY <1>4 DEF InValue
  <2>2. /\ t \in Nat
        /\ t = Len(raw) => h[p + 1] = LF
        /\ t # Len(raw) => /\ p + 1 \in ValueStart(r, m + 1)..(LineEnd(r, m + 1) - 1)
                           /\ t + 1 = (p + 1) - ValueStart(r, m + 1)
                           /\ h[p + 1] = raw[t + 1]
      BY <1>4, InTheValue
  <2> HIDE DEF t, raw, longer
  <2>3. t # Len(raw)
      BY <2>1, <2>2
  <2>4. t \in Nat /\ c = raw[t + 1]
      BY <2>2, <2>3
  <2>5. Collecting(raw, t + 1, value, longer, x + 1)
      BY <2>1, <2>4, CollectCharacter DEF longer
  <2>6. Collecting(raw, (p + 1) - ValueStart(r, m + 1), value, longer, x + 1)
      BY <2>2, <2>3, <2>5
  <2>7. InValue(r, m + 1, p + 1, key, value, inside, longer, x + 1)
      BY <2>1, <2>2, <2>3, <2>6 DEF InValue, raw
  <2> QED
      BY <1>4, <2>7 DEF Scanned, longer
<1>5. CASE m = Len(r.lines) /\ AtEnd(r, p, key, value, inside, array, x)
  <2>1. /\ p \in e..(e + 1) /\ inside = FALSE /\ key = NULL /\ value = NULL /\ x = p - e
      BY <1>5 DEF AtEnd
  <2>2. p + 1 # e + 2
      BY <1>1
  <2>3. p + 1 \in e..(e + 1) /\ x + 1 = (p + 1) - e
      BY <1>1, <2>1, <2>2
  <2>4. AtEnd(r, p + 1, key, value, inside, longer, x + 1)
      BY <2>1, <2>3 DEF AtEnd
  <2> HIDE DEF longer
  <2> QED
      BY <1>5, <2>4 DEF Scanned, longer
<1> QED
    BY <1>2, <1>3, <1>4, <1>5 DEF Scanned

\* A line is complete.
LEMMA ScannedPush ==
    ASSUME NEW r, Readable(r), NEW m \in 0..Len(r.lines), m # Len(r.lines), NEW p,
           p + 1 = LineEnd(r, m + 1), NEW array
    PROVE  Scanned(r, m + 1, p + 1, NULL, NULL, FALSE, array, 0) /\ m + 1 \in 0..Len(r.lines)
<1>1. m + 1 \in 0..Len(r.lines) /\ LineEnd(r, m + 1) \in Nat
    BY LineIs
<1>2. PICK k \in 0..Len(r.lines) : k = m + 1
    BY <1>1
<1>3. p + 1 = LineEnd(r, k)
    BY <1>2
<1>4. CASE k = Len(r.lines)
  <2>1. AtEnd(r, p + 1, NULL, NULL, FALSE, array, 0)
      BY <1>1, <1>2, <1>3, <1>4 DEF AtEnd
  <2> QED
      BY <1>1, <1>2, <1>4, <2>1 DEF Scanned
<1>5. CASE k # Len(r.lines)
  <2>1. NameStart(r, k + 1) = LineEnd(r, k) /\ Len(r.lines[k + 1].name) \in Nat
      BY <1>5, LineIs
  <2>2. ValueStart(r, k + 1) = NameStart(r, k + 1) + Len(r.lines[k + 1].name) + 1
      BY <1>5, LineIs
  <2>3. p + 1 \in NameStart(r, k + 1)..(ValueStart(r, k + 1) - 1) /\ (p + 1) - NameStart(r, k + 1) = 0
    <3>1. PICK a, b, d, o : /\ a = NameStart(r, k + 1) /\ b = ValueStart(r, k + 1)
                            /\ d = Len(r.lines[k + 1].name) /\ o = p + 1
        OBVIOUS
    <3>2. a \in Nat /\ o = a /\ d \in Nat /\ b = a + d + 1
        BY <1>1, <1>2, <1>3, <2>1, <2>2, <3>1
    <3>3. o \in a..(b - 1) /\ o - a = 0
        BY <3>2
    <3> QED
        BY <3>1, <3>3
  <2>4. Collecting(r.lines[k + 1].name, (p + 1) - NameStart(r, k + 1), NULL, array, 0)
      BY <2>3, CollectStart
  <2>5. InName(r, k + 1, p + 1, NULL, NULL, FALSE, array, 0)
      BY <2>3, <2>4 DEF InName
  <2>6. Scanned(r, k, p + 1, NULL, NULL, FALSE, array, 0)
      BY <1>5, <2>5 DEF Scanned
  <2> QED
      BY <1>1, <1>2, <2>6
<1> QED
    BY <1>4, <1>5

\* m lines end in the first p characters.
Ended(r, m, p) == \A k \in 1..Len(r.lines) : k <= m <=> LineEnd(r, k) <= p

\* Between the ends of two lines, the lines up to the first have ended.
LEMMA EndedBetween ==
    ASSUME NEW r, Readable(r), NEW m \in 0..Len(r.lines), NEW p \in Nat,
           LineEnd(r, m) <= p, m # Len(r.lines) => p < LineEnd(r, m + 1)
    PROVE  Ended(r, m, p)
<1> DEFINE n == Len(r.lines)
<1>1. n \in Nat /\ \A k \in 0..n : LineEnd(r, k) \in Nat
    BY LineEndsAre DEF Readable
<1>2. \A a \in 0..n : \A b \in a..n : LineEnd(r, a) <= LineEnd(r, b)
    BY LineEndsAre DEF Readable
<1>3. ASSUME NEW k \in 1..n PROVE k <= m <=> LineEnd(r, k) <= p
  <2>1. CASE k <= m
    <3>1. k \in 0..n /\ m \in k..n
        BY <1>1, <2>1
    <3>2. LineEnd(r, k) <= LineEnd(r, m)
        BY <1>2, <3>1
    <3>3. PICK a, b \in Nat : a = LineEnd(r, k) /\ b = LineEnd(r, m)
        BY <1>1, <3>1
    <3> QED
        BY <2>1, <3>2, <3>3
  <2>2. CASE ~(k <= m)
    <3>1. m # n /\ m + 1 \in 0..n /\ k \in (m + 1)..n
        BY <1>1, <2>2
    <3>2. LineEnd(r, m + 1) <= LineEnd(r, k)
        BY <1>2, <3>1
    <3>3. PICK a, b \in Nat : a = LineEnd(r, k) /\ b = LineEnd(r, m + 1)
        BY <1>1, <3>1
    <3>4. p < b
        BY <3>1, <3>3
    <3> QED
        BY <2>2, <3>2, <3>3, <3>4
  <2> QED
      BY <2>1, <2>2
<1> QED
    BY <1>3 DEF Ended

\* Where the scanner is tells which lines have ended.
LEMMA ScannedEnded ==
    ASSUME NEW r, Readable(r), NEW m \in 0..Len(r.lines), NEW p \in Nat, NEW key, NEW value, NEW inside,
           NEW array, NEW x, Scanned(r, m, p, key, value, inside, array, x)
    PROVE  /\ Ended(r, m, p)
           /\ p + 1 = Len(Header(r)) => m = Len(r.lines)
<1> DEFINE n == Len(r.lines)
           h == Header(r)
<1>1. n \in Nat /\ LineEnd(r, 0) = 4 /\ \A k \in 0..n : LineEnd(r, k) \in Nat
    BY LineEndsAre DEF Readable
<1>2. \A a \in 0..n : \A b \in a..n : LineEnd(r, a) <= LineEnd(r, b)
    BY LineEndsAre DEF Readable
<1>2a. LineEnd(r, n) + 2 = Len(h)
    BY LineEndsAre DEF Readable
<1>3. CASE m = 0 /\ InStatus(r, p, key, value, inside, array, x)
  <2>1. p \in 0..3
      BY <1>3 DEF InStatus
  <2>2. ASSUME NEW k \in 1..n PROVE k <= m <=> LineEnd(r, k) <= p
    <3>1. k \in 0..n /\ k \in 0..n /\ 0 \in 0..n
        BY <1>1
    <3>2. LineEnd(r, 0) <= LineEnd(r, k)
        BY <1>2, <3>1
    <3>3. PICK a \in Nat : a = LineEnd(r, k)
        BY <1>1, <3>1
    <3> QED
        BY <1>1, <1>3, <2>1, <3>2, <3>3
  <2>3. p + 1 # Len(h)
    <3>1. 0 \in 0..n /\ n \in 0..n
        BY <1>1
    <3>2. LineEnd(r, 0) <= LineEnd(r, n)
        BY <1>2, <3>1
    <3>3. PICK a \in Nat : a = LineEnd(r, n)
        BY <1>1, <3>1
    <3> QED
        BY <1>1, <1>2a, <2>1, <3>2, <3>3
  <2> QED
      BY <2>2, <2>3 DEF Ended
<1>4. ASSUME m # n, p >= LineEnd(r, m), p < LineEnd(r, m + 1)
      PROVE  Ended(r, m, p) /\ p + 1 # Len(h)
  <2>1. LineEnd(r, m) \in Nat
      BY <1>1
  <2>2. LineEnd(r, m) <= p
      BY <1>4, <2>1
  <2>3. Ended(r, m, p)
      BY <1>4, <2>2, EndedBetween
  <2>4. m + 1 \in 0..n /\ n \in (m + 1)..n /\ n \in 0..n
      BY <1>1, <1>4
  <2>5. LineEnd(r, m + 1) <= LineEnd(r, n)
      BY <1>2, <2>4
  <2>6. PICK a, b \in Nat : a = LineEnd(r, m + 1) /\ b = LineEnd(r, n)
      BY <1>1, <2>4
  <2>7. p + 1 # Len(h)
      BY <1>2a, <1>4, <2>5, <2>6
  <2> QED
      BY <2>3, <2>7
<1>5. CASE m # n /\ InName(r, m + 1, p, key, value, inside, array, x)
  <2>1. p \in NameStart(r, m + 1)..(ValueStart(r, m + 1) - 1)
      BY <1>5 DEF InName
  <2>2. NameStart(r, m + 1) = LineEnd(r, m) /\ NameStart(r, m + 1) \in Nat
      BY <1>5, LineIs
  <2>3. /\ ValueStart(r, m + 1) \in Nat /\ LineEnd(r, m + 1) \in Nat
        /\ Len(RawValue(r.lines[m + 1])) \in Nat
      BY <1>5, LineIs
  <2>4. LineEnd(r, m + 1) = ValueStart(r, m + 1) + Len(RawValue(r.lines[m + 1])) + 1
      BY <1>5, LineIs
  <2>5. p >= LineEnd(r, m) /\ p < LineEnd(r, m + 1)
    <3>1. PICK a, b, d, f \in Nat :
             /\ a = NameStart(r, m + 1) /\ b = ValueStart(r, m + 1) /\ d = LineEnd(r, m + 1)
             /\ f = Len(RawValue(r.lines[m + 1]))
        BY <2>2, <2>3
    <3>2. p \in a..(b - 1) /\ d = b + f + 1 /\ a = LineEnd(r, m)
        BY <2>1, <2>2, <2>4, <3>1
    <3>3. p >= a /\ p < d
      <4>1. p \in Nat
          OBVIOUS
      <4> HIDE DEF n, h
      <4> QED
          BY <3>2, <4>1
    <3> QED
        BY <3>1, <3>2, <3>3
  <2> QED
      BY <1>4, <1>5, <2>5
<1>6. CASE m # n /\ InValue(r, m + 1, p, key, value, inside, array, x)
  <2>1. p \in ValueStart(r, m + 1)..(LineEnd(r, m + 1) - 1)
      BY <1>6 DEF InValue
  <2>2. NameStart(r, m + 1) = LineEnd(r, m) /\ NameStart(r, m + 1) \in Nat
      BY <1>6, LineIs
  <2>3. /\ ValueStart(r, m + 1) \in Nat /\ LineEnd(r, m + 1) \in Nat
        /\ Len(r.lines[m + 1].name) \in Nat
      BY <1>6, LineIs
  <2>4. ValueStart(r, m + 1) = NameStart(r, m + 1) + Len(r.lines[m + 1].name) + 1
      BY <1>6, LineIs
  <2>5. p >= LineEnd(r, m) /\ p < LineEnd(r, m + 1)
    <3>1. PICK a, b, d, f \in Nat :
             /\ a = NameStart(r, m + 1) /\ b = ValueStart(r, m + 1) /\ d = LineEnd(r, m + 1)
             /\ f = Len(r.lines[m + 1].name)
        BY <2>2, <2>3
    <3>2. p \in b..(d - 1) /\ b = a + f + 1 /\ a = LineEnd(r, m)
        BY <2>1, <2>2, <2>4, <3>1
    <3>3. p >= a /\ p < d
      <4>1. p \in Nat
          OBVIOUS
      <4> HIDE DEF n, h
      <4> QED
          BY <3>2, <4>1
    <3> QED
        BY <3>1, <3>2, <3>3
  <2> QED
      BY <1>4, <1>6, <2>5
<1>7. CASE m = n /\ AtEnd(r, p, key, value, inside, array, x)
  <2>1. LineEnd(r, m) <= p
      BY <1>1, <1>7 DEF AtEnd
  <2> QED
      BY <1>7, <2>1, EndedBetween
<1> QED
    BY <1>3, <1>5, <1>6, <1>7 DEF Scanned

\* The history after a push.
LEMMA ReflectsPush ==
    ASSUME NEW l, NEW r, Readable(r), NEW m \in 0..Len(r.lines), m # Len(r.lines), Reflects(l, r, m),
           NEW value, Carries(value, r.lines[m + 1]), NEW key, key = r.lines[m + 1].name,
           NEW f, f = Pushed(l, key, value)
    PROVE  Reflects(f, r, m + 1)
<1>0. f = [k \in DOMAIN l \union {Folded(key)} |-> IF k = Folded(key) THEN value ELSE l[k]]
    BY DEF Pushed
<1>1. /\ DOMAIN l = { Folded(r.lines[k].name) : k \in 1..m }
      /\ \A k \in 1..m :
            (\A o \in (k + 1)..m : ~SameName(r.lines[o].name, r.lines[k].name))
                => Carries(l[Folded(r.lines[k].name)], r.lines[k])
    BY DEF Reflects
<1>2. m \in Nat
    OBVIOUS
<1>2a. PICK q \in Nat : q = m + 1
    BY <1>2
<1>3. DOMAIN f = { Folded(r.lines[k].name) : k \in 1..q }
  <2>1. 1..q = (1..m) \union {q}
      BY <1>2, <1>2a
  <2>2. Folded(key) = Folded(r.lines[q].name)
      BY <1>2a
  <2> QED
      BY <1>0, <1>1, <2>1, <2>2
<1>4. ASSUME NEW k \in 1..q, \A o \in (k + 1)..q : ~SameName(r.lines[o].name, r.lines[k].name)
      PROVE  Carries(f[Folded(r.lines[k].name)], r.lines[k])
  <2>1. CASE k = q
    <3>1. f[Folded(r.lines[k].name)] = value
        BY <1>0, <1>2a, <2>1
    <3> QED
        BY <1>2a, <2>1, <3>1
  <2>2. CASE k # q
    <3>1. k \in 1..m /\ q \in (k + 1)..q /\ \A o \in (k + 1)..m : o \in (k + 1)..q
        BY <1>2, <1>2a, <2>2
    <3>2. Folded(r.lines[k].name) # Folded(key)
        BY <1>2a, <1>4, <3>1 DEF SameName
    <3>3. Folded(r.lines[k].name) \in DOMAIN l
        BY <1>1, <3>1
    <3>4. f[Folded(r.lines[k].name)] = l[Folded(r.lines[k].name)]
        BY <1>0, <3>2, <3>3
    <3>5. Carries(l[Folded(r.lines[k].name)], r.lines[k])
        BY <1>1, <1>4, <3>1
    <3> QED
        BY <3>4, <3>5
  <2> QED
      BY <2>1, <2>2
<1>5. Reflects(f, r, q)
    BY <1>3, <1>4 DEF Reflects
<1> QED
    BY <1>2a, <1>5

-----------------------------------------------------------------------------
(* What the tree, the arrays and the status have of the response.          *)

\* Where the header of a response has been scanned.
Headed == {"finish", "refused", "accepted", "framed", "handler"}

(* What the tree, the array and the status have of the response, while it  *)
(* is scanned, when a line is pushed, and afterwards.                      *)
ScanContent ==
    pc \in {"read", "scan"} =>
        /\ Place >= 4 => status_code = response.status
        /\ \E m \in 0..Len(response.lines) :
              /\ Reflects(latest, response, m)
              /\ Scanned(response, m, Place, current_key, current_value, in_value, key_value, j)

PushContent ==
    pc = "push" =>
        /\ status_code = response.status /\ in_value = FALSE
        /\ \E m \in 0..Len(response.lines) :
              /\ m # Len(response.lines) /\ Reflects(latest, response, m)
              /\ Place + 1 = LineEnd(response, m + 1)
              /\ current_key = response.lines[m + 1].name
              /\ Carries(current_value, response.lines[m + 1])

TakenContent ==
    pc \in Headed =>
        /\ ~broken => status_code = response.status
        /\ ~broken /\ pc \in {"accepted", "framed", "handler"} => Len(Header(response)) <= Received
        /\ \E m \in 0..Len(response.lines) :
              Reflects(latest, response, m) /\ Ended(response, m, Received)

ContentInv ==
    /\ pc \notin Unconnected => Readable(response)
    /\ ScanContent /\ PushContent /\ TakenContent

\* The answer arrives: nothing is scanned yet.
LEMMA ConnectGivesContent == ScanInv /\ Connect => ContentInv'
<1> SUFFICES ASSUME ScanInv, Connect PROVE ContentInv'
    OBVIOUS
<1>1. PICK r \in Answers[url] :
         StartScan(IF method = "HEAD" THEN [r EXCEPT !.body = << >>] ELSE r)
    BY DEF Connect
<1> DEFINE s == IF method = "HEAD" THEN [r EXCEPT !.body = << >>] ELSE r
<1>2. Readable(s)
  <2>1. url \in Urls
      BY DEF ScanInv, RequestTypeOK
  <2>2. Readable(r) /\ Readable([r EXCEPT !.body = << >>])
      BY <2>1, ResponsesAreReadable
  <2> QED
      BY <2>2
<1>3. StartScan(s)
    BY <1>1
<1> HIDE DEF s
<1>4. /\ response' = s /\ pc' = "read" /\ size' = 0 /\ i' = 0 /\ stream' = Header(s) \o s.body
      /\ current_key' = NULL /\ current_value' = NULL /\ latest' = << >> /\ in_value' = FALSE /\ j' = 0
    BY <1>3 DEF StartScan
<1>5. /\ Len(Header(s)) \in Nat /\ Len(s.body) \in Nat
      /\ Len(Header(s) \o s.body) = Len(Header(s)) + Len(s.body)
    BY <1>2, WireIs DEF Readable
<1>6. Place' = 0
  <2>1. PICK a, b \in Nat : a = Len(Header(s)) /\ b = Len(s.body)
      BY <1>5
  <2>2. Received' = a + b - (a + b)
      BY <1>4, <1>5, <2>1 DEF Received
  <2>3. Received' = 0
      BY <2>1, <2>2
  <2> QED
      BY <1>4, <2>3 DEF Place
<1>7. Reflects(<< >>, s, 0)
  <2>1. DOMAIN << >> = {}
      BY EmptySeq
  <2> QED
      BY <2>1 DEF Reflects
<1>8. Scanned(s, 0, 0, NULL, NULL, FALSE, key_value', 0)
    BY DEF Scanned, InStatus
<1>9. 0 \in 0..Len(s.lines)
  <2>1. Len(s.lines) \in Nat
      BY <1>2, LineEndsAre DEF Readable
  <2> QED
      BY <2>1
<1>10. ScanContent'
  <2>1. ~(Place' >= 4)
      BY <1>6
  <2>2. Reflects(latest', response', 0) /\ 0 \in 0..Len(response'.lines)
      BY <1>4, <1>7, <1>9
  <2>3. Scanned(response', 0, Place', current_key', current_value', in_value', key_value', j')
      BY <1>4, <1>6, <1>8
  <2> QED
      BY <2>1, <2>2, <2>3 DEF ScanContent
<1> QED
    BY <1>2, <1>4, <1>10 DEF ContentInv, PushContent, TakenContent, Headed

\* A piece begins where the last one has ended, and the end of the connection is there.
LEMMA ReadKeepsPlace ==
    ASSUME ScanInv, HeadInv, Read
    PROVE  /\ pc = "read" /\ Place = Received /\ Place \in Nat
           /\ \/ pc' = "scan" /\ Place' = Place
              \/ pc' = "finish" /\ broken' /\ Received' = Received
<1>1. /\ pc = "read" /\ i' = 0 /\ response' = response
    BY DEF Read
<1>2. stream \in Texts /\ Len(stream) \in Nat
    BY <1>1 DEF ScanInv, ArraysInv, Texts
<1>3. WellFormed(response) /\ Received \in Nat /\ i = size
    BY <1>1 DEF HeadInv, FlowInv, Arrives, Unconnected
<1>4. size \in Nat /\ Place = Received /\ Place \in Nat
  <2>1. size \in Nat /\ Place = Received - size + i
      BY <1>1, PlaceIs DEF HeadInv
  <2> QED
      BY <1>3, <2>1
<1>5. Len(Header(response)) \in Nat /\ Len(response.body) \in Nat
    BY <1>3, ResponseIsWire
<1>6. CASE \E m \in 1..Smaller(PARSER_BUFFER_SIZE, Len(stream)) :
             size' = m /\ pc' = "scan" /\ stream' = SubSeq(stream, m + 1, Len(stream))
  <2>1. PICK m \in 1..Smaller(PARSER_BUFFER_SIZE, Len(stream)) :
             size' = m /\ pc' = "scan" /\ stream' = SubSeq(stream, m + 1, Len(stream))
      BY <1>6
  <2>2. m \in Nat /\ m <= Len(stream)
      BY <1>2, SizeIs DEF Smaller
  <2>3. Len(stream') = Len(stream) - m
    <3>1. stream \in Seq(DOMAIN Lower)
        BY <1>2 DEF Texts
    <3> QED
        BY <1>2, <2>1, <2>2, <3>1
  <2>4. PICK a, b, c \in Nat : a = Len(Header(response)) /\ b = Len(response.body) /\ c = Len(stream)
      BY <1>2, <1>5
  <2>5. Received = a + b - c /\ Received' = a + b - (c - m)
      BY <1>1, <2>3, <2>4 DEF Received
  <2>6. Place' = Received' - (m - 0)
      BY <1>1, <2>1 DEF Place
  <2>7. Place' = Received
      BY <2>2, <2>4, <2>5, <2>6
  <2> QED
      BY <1>1, <1>4, <2>1, <2>7
<1>7. CASE broken' = TRUE /\ pc' = "finish" /\ stream' = stream
    BY <1>1, <1>4, <1>7 DEF Received
<1> QED
    BY <1>6, <1>7 DEF Read

\* A read moves no character the scanner has seen.
LEMMA ReadKeepsContent == ScanInv /\ HeadInv /\ ContentInv /\ Read => ContentInv'
<1> SUFFICES ASSUME ScanInv, HeadInv, ContentInv, Read PROVE ContentInv'
    OBVIOUS
<1>1. /\ pc = "read" /\ Place = Received /\ Place \in Nat
      /\ \/ pc' = "scan" /\ Place' = Place
         \/ pc' = "finish" /\ broken' /\ Received' = Received
    BY ReadKeepsPlace
<1>2. UNCHANGED << response, latest, current_key, current_value, in_value, key_value, j, status_code >>
    BY DEF Read, treeVars, textVars
<1>3. Readable(response) /\ Readable(response')
    BY <1>1, <1>2 DEF ContentInv, Unconnected
<1>4. Place >= 4 => status_code = response.status
    BY <1>1 DEF ContentInv, ScanContent
<1>5. PICK m \in 0..Len(response.lines) :
         /\ Reflects(latest, response, m)
         /\ Scanned(response, m, Place, current_key, current_value, in_value, key_value, j)
    BY <1>1 DEF ContentInv, ScanContent
<1>6. CASE pc' = "scan" /\ Place' = Place
  <2>1. ScanContent'
      BY <1>2, <1>4, <1>5, <1>6 DEF ScanContent
  <2> QED
      BY <1>3, <1>6, <2>1 DEF ContentInv, PushContent, TakenContent, Headed
<1>7. CASE pc' = "finish" /\ broken' /\ Received' = Received
  <2>1. Ended(response, m, Received)
      BY <1>1, <1>3, <1>5, ScannedEnded
  <2>2. TakenContent'
      BY <1>2, <1>5, <1>7, <2>1 DEF TakenContent
  <2> QED
      BY <1>3, <1>7, <2>2 DEF ContentInv, PushContent, ScanContent
<1> QED
    BY <1>1, <1>6, <1>7

\* At the end of a piece of the stream the scanner stays where it is.
LEMMA EndPieceKeepsContent == ScanInv /\ HeadInv /\ ContentInv /\ EndPiece => ContentInv'
<1> SUFFICES ASSUME ScanInv, HeadInv, ContentInv, EndPiece PROVE ContentInv'
    OBVIOUS
<1> DEFINE h == Header(response)
<1>1. /\ pc = "scan" /\ (i = size \/ AtBlankLine)
      /\ UNCHANGED << response, stream, broken, buffer, size, i, latest, current_key, current_value,
                      in_value, key_value, j, status_code >>
    BY DEF EndPiece, serverVars, textVars, treeVars
<1>2. \/ pc' = "finish" /\ c_return
      \/ pc' = "read"
    BY DEF EndPiece
<1>3. /\ Received \in Nat /\ size \in Nat /\ i \in Nat /\ i <= size
      /\ Place = Received - size + i /\ Place \in Nat /\ Place < Len(h)
    BY <1>1, PlaceIs DEF HeadInv
<1>4. AtPlace(h, Place, c_return)
    BY <1>1 DEF HeadInv, PlaceInv
<1>5. Readable(response) /\ WellFormed(response)
    BY <1>1 DEF ContentInv, Unconnected, Readable
<1>6. Received' = Received /\ Place' = Place
    BY <1>1 DEF Received, Place
<1>7. Place >= 4 => status_code = response.status
    BY <1>1 DEF ContentInv, ScanContent
<1>8. PICK m \in 0..Len(response.lines) :
         /\ Reflects(latest, response, m)
         /\ Scanned(response, m, Place, current_key, current_value, in_value, key_value, j)
    BY <1>1 DEF ContentInv, ScanContent
<1>9. CASE pc' = "read"
  <2>1. ScanContent'
      BY <1>1, <1>6, <1>7, <1>8 DEF ScanContent
  <2> QED
      BY <1>1, <1>5, <1>9, <2>1 DEF ContentInv, PushContent, TakenContent, Headed
<1>10. CASE pc' = "finish" /\ c_return
  <2>1. status_code = response.status
    <3>1. Place \in Nat /\ Place > 0 /\ (h[Place] = LF \/ Place = Len(h) - 1)
        BY <1>3, <1>4, <1>10 DEF AtPlace
    <3>2. \A c \in 1..3 : h[c] # LF
        BY <1>5, EndsOfHeader
    <3>3. Len(h) \in Nat /\ Len(h) > 5
      <4>1. LineEnd(response, 0) = 4 /\ Len(response.lines) \in Nat
          BY <1>5, LineEndsAre
      <4>2. LineEnd(response, Len(response.lines)) \in Nat
          BY <1>5, EndsOfHeader
      <4>2a. LineEnd(response, Len(response.lines)) + 2 = Len(h)
          BY <1>5, EndsOfHeader
      <4>3. LineEnd(response, 0) <= LineEnd(response, Len(response.lines))
        <5>1. 0 \in 0..Len(response.lines) /\ Len(response.lines) \in 0..Len(response.lines)
            BY <4>1
        <5> QED
            BY <1>5, <5>1, LineEndsAre
      <4> HIDE DEF h
      <4> QED
          BY <4>1, <4>2, <4>2a, <4>3
    <3> HIDE DEF h
    <3>4. Place >= 4
        BY <3>1, <3>2, <3>3
    <3> QED
        BY <1>7, <3>4
  <2>2. Ended(response, m, Received)
    <3>1. CASE i = size
      <4>1. Place = Received
          BY <1>3, <3>1
      <4> QED
          BY <1>3, <1>5, <1>8, <4>1, ScannedEnded
    <3>2. CASE i # size
      <4>1. c_return /\ Character = LF /\ i < size
          BY <1>1, <1>3, <3>2 DEF AtBlankLine
      <4>2. h[Place + 1] = LF
          BY <1>1, <4>1, CharacterIsNext DEF HeadInv, h
      <4>3. HeaderShaped(h, LineEnds(response))
          BY <1>5, HeadersAreShaped
      <4>4. Place + 1 = Len(h)
        <5> HIDE DEF h
        <5> QED
            BY <1>4, <4>1, <4>2, <4>3, BlankLineIsLast
      <4>5. m = Len(response.lines)
          BY <1>3, <1>5, <1>8, <4>4, ScannedEnded
      <4>6. LineEnd(response, m) \in Nat
          BY <1>5, <4>5, EndsOfHeader
      <4>6a. LineEnd(response, m) + 2 = Len(h)
          BY <1>5, <4>5, EndsOfHeader
      <4>7. Place <= Received
          BY <1>3
      <4>8. LineEnd(response, m) <= Received
          BY <1>3, <4>4, <4>6, <4>6a, <4>7
      <4> QED
          BY <1>3, <1>5, <4>5, <4>8, EndedBetween
    <3> QED
        BY <3>1, <3>2
  <2>3. TakenContent'
      BY <1>1, <1>6, <1>8, <1>10, <2>1, <2>2 DEF TakenContent
  <2> QED
      BY <1>1, <1>5, <1>10, <2>3 DEF ContentInv, PushContent, ScanContent
<1> QED
    BY <1>2, <1>9, <1>10

\* The header is over: every line of it was scanned.
LEMMA FinishKeepsContent == ScanInv /\ HeadInv /\ ContentInv /\ Finish => ContentInv'
<1> SUFFICES ASSUME ScanInv, HeadInv, ContentInv, Finish PROVE ContentInv'
    OBVIOUS
<1>1. /\ pc = "finish"
      /\ UNCHANGED << response, stream, broken, size, latest, status_code >>
      /\ IF offset > size THEN pc' = "refused" ELSE pc' = "accepted"
    BY DEF Finish, serverVars, pieceVars, treeVars
<1>2. Received' = Received /\ Readable(response)
    BY <1>1 DEF Received, ContentInv, Unconnected
<1>3. /\ ~broken => status_code = response.status
      /\ \E m \in 0..Len(response.lines) : Reflects(latest, response, m) /\ Ended(response, m, Received)
    BY <1>1 DEF ContentInv, TakenContent, Headed
<1>4. ASSUME ~broken, pc' = "accepted" PROVE Len(Header(response)) <= Received
  <2>1. Found /\ Received \in Nat /\ size \in 0..Received
      BY <1>1, <1>4 DEF HeadInv, FlowInv, PlaceInv, Arrives
  <2>2. ~(offset > size)
      BY <1>1, <1>4
  <2>3. size \in Nat
      BY <2>1
  <2>4. offset \in 1..size /\ Received - size + offset = Len(Header(response))
      BY <2>1, <2>2, <2>3 DEF Found
  <2> QED
      BY <2>1, <2>3, <2>4
<1>5. TakenContent'
    BY <1>1, <1>2, <1>3, <1>4 DEF TakenContent
<1> QED
    BY <1>1, <1>2, <1>5 DEF ContentInv, ScanContent, PushContent

-----------------------------------------------------------------------------
(* Every step keeps it.                                                    *)

\* A turn of the inner loop: one character more, a fragment handed over, or a header stored.
LEMMA ScanKeepsContent == ScanInv /\ HeadInv /\ ContentInv /\ ScanStep => ContentInv'
<1> SUFFICES ASSUME ScanInv, HeadInv, ContentInv, ScanStep PROVE ContentInv'
    OBVIOUS
<1> DEFINE r == response
           h == Header(response)
           n == Len(response.lines)
<1>1. /\ pc \in {"scan", "push"} /\ pc' \in {"scan", "push"} /\ response' = r /\ Place \in Nat
      /\ i' = i => Place' = Place
      /\ i' = i + 1 => Place' = Place + 1
      /\ pc = "scan" => Character = h[Place + 1]
    BY ScanKeepsFlow
<1>2. Readable(r) /\ Readable(response)'
    BY <1>1 DEF ContentInv, Unconnected
<1>3. n \in Nat /\ h[4] = LF
    BY <1>2, LineEndsAre, EndsOfHeader DEF Readable
<1>4. FullArray(key_value)
    BY <1>1 DEF ScanInv, ArraysInv, FullArray
<1>5. TextIsFull <=> j = FragmentSize
    BY DEF TextIsFull, FragmentSize
<1>6. ASSUME pc = "scan"
      PROVE  /\ Place >= 4 => status_code = r.status
             /\ \E m \in 0..n :
                   /\ Reflects(latest, r, m)
                   /\ Scanned(r, m, Place, current_key, current_value, in_value, key_value, j)
    BY <1>6 DEF ContentInv, ScanContent
<1>7. SUFFICES ASSUME TRUE PROVE ScanContent' /\ PushContent'
    BY <1>1, <1>2 DEF ContentInv, TakenContent, Headed
<1> HIDE DEF r, h, n
<1>8. ASSUME pc' = "scan", Place' >= 4 => status_code' = r.status,
             \E m \in 0..n :
                /\ Reflects(latest', r, m)
                /\ Scanned(r, m, Place', current_key', current_value', in_value', key_value', j')
      PROVE  ScanContent' /\ PushContent'
    BY <1>1, <1>8 DEF ScanContent, PushContent, r, n
<1>9. CASE Flush
  <2>1. /\ pc = "scan" /\ pc' = "scan" /\ i' = i /\ j = FragmentSize /\ j' = 0
        /\ in_value' = in_value /\ status_code' = status_code /\ latest' = latest
        /\ IF in_value THEN /\ current_value' = Extended(current_value, strtrim(Terminated))
                            /\ current_key' = current_key
                       ELSE /\ current_key' = Extended(current_key, strtrim(Terminated))
                            /\ current_value' = current_value
      BY <1>5, <1>9 DEF Flush, Scanning, ptree_update_key, ptree_update_value
  <2>2. PICK m \in 0..n :
           /\ Reflects(latest, r, m)
           /\ Scanned(r, m, Place, current_key, current_value, in_value, key_value, j)
      BY <1>6, <2>1
  <2>3. /\ in_value => Scanned(r, m, Place, current_key, Extended(current_value, strtrim(Terminated)),
                               in_value, key_value', 0)
        /\ ~in_value => Scanned(r, m, Place, Extended(current_key, strtrim(Terminated)), current_value,
                                in_value, key_value', 0)
    <3>1. PICK f, k : f = key_value' /\ k \in 0..Len(r.lines) /\ k = m
        BY DEF n, r
    <3>2. Readable(r)
        BY <1>2
    <3>3. FullArray(key_value)
        BY <1>4
    <3>4. j = FragmentSize
        BY <2>1
    <3>5. Scanned(r, k, Place, current_key, current_value, in_value, key_value, j)
        BY <2>2, <3>1
    <3>6. /\ in_value => Scanned(r, k, Place, current_key,
                          Extended(current_value, strtrim([key_value EXCEPT ![j + 1] = NUL])), in_value, f, 0)
          /\ ~in_value => Scanned(r, k, Place,
                          Extended(current_key, strtrim([key_value EXCEPT ![j + 1] = NUL])),
                          current_value, in_value, f, 0)
        BY <3>1, <3>2, <3>3, <3>4, <3>5, ScannedFlush
    <3> QED
        BY <3>1, <3>6 DEF Terminated
  <2>4. Scanned(r, m, Place', current_key', current_value', in_value', key_value', j')
      BY <1>1, <2>1, <2>3
  <2>5. Place' >= 4 => status_code' = r.status
      BY <1>1, <1>6, <2>1
  <2> QED
      BY <1>8, <2>1, <2>2, <2>4, <2>5
<1>10. CASE ScanColon
  <2>1. /\ pc = "scan" /\ pc' = "scan" /\ i' = i + 1 /\ j # FragmentSize /\ j' = 0
        /\ Character = COLON /\ ~in_value /\ in_value' = TRUE
        /\ status_code' = status_code /\ latest' = latest
        /\ current_key' = Extended(current_key, strtrim(Terminated)) /\ current_value' = current_value
      BY <1>5, <1>10 DEF ScanColon, Scanning, ptree_update_key
  <2>2. PICK m \in 0..n :
           /\ Reflects(latest, r, m)
           /\ Scanned(r, m, Place, current_key, current_value, in_value, key_value, j)
      BY <1>6, <2>1
  <2>3. h[Place + 1] = COLON
      BY <1>1, <2>1 DEF h
  <2>4. Scanned(r, m, Place + 1, Extended(current_key, strtrim(Terminated)), current_value, TRUE,
                key_value', 0)
    <3>1. PICK longer, fresh : longer = current_key' /\ fresh = key_value'
        OBVIOUS
    <3>2. longer = Extended(current_key, strtrim(Closed(key_value, j)))
        BY <2>1, <3>1 DEF Terminated, Closed
    <3>3. Scanned(r, m, Place + 1, longer, current_value, TRUE, fresh, 0)
      <4>1. Readable(r) /\ FullArray(key_value) /\ j # FragmentSize /\ in_value # TRUE
          BY <1>2, <1>4, <2>1
      <4>2. m \in 0..Len(r.lines) /\ Header(r)[Place + 1] = COLON
          BY <2>3 DEF n, h, r
      <4>3. Scanned(r, m, Place, current_key, current_value, in_value, key_value, j)
          BY <2>2
      <4> HIDE DEF r
      <4> QED
          BY <3>2, <4>1, <4>2, <4>3, ScannedColon
    <3> QED
        BY <2>1, <3>1, <3>3
  <2>5. Scanned(r, m, Place', current_key', current_value', in_value', key_value', j')
      BY <1>1, <2>1, <2>4
  <2>6. Place # 3
      BY <1>3, <2>3, CharactersDiffer
  <2>7. Place' >= 4 => status_code' = r.status
      BY <1>1, <1>6, <2>1, <2>6
  <2> QED
      BY <1>8, <2>1, <2>2, <2>5, <2>7
<1>11. CASE ScanCharacter
  <2>1. /\ pc = "scan" /\ pc' = "scan" /\ i' = i + 1 /\ j # FragmentSize /\ j' = j + 1
        /\ Character # LF /\ ~(Character = COLON /\ ~in_value) /\ in_value' = in_value
        /\ status_code' = status_code /\ latest' = latest
        /\ current_key' = current_key /\ current_value' = current_value
        /\ key_value' = [Terminated EXCEPT ![j + 1] = Character]
      BY <1>5, <1>11 DEF ScanCharacter, Scanning, treeVars
  <2>2. PICK m \in 0..n :
           /\ Reflects(latest, r, m)
           /\ Scanned(r, m, Place, current_key, current_value, in_value, key_value, j)
      BY <1>6, <2>1
  <2>3. PICK c : c = Character
      OBVIOUS
  <2>4. c = h[Place + 1] /\ c # LF /\ (c = COLON => in_value)
      BY <1>1, <2>1, <2>3 DEF h
  <2>5. Scanned(r, m, Place + 1, current_key, current_value, in_value,
                [[key_value EXCEPT ![j + 1] = NUL] EXCEPT ![j + 1] = c], j + 1)
      BY <1>2, <1>4, <2>1, <2>2, <2>4, ScannedCharacter DEF n, h, r
  <2>6. Scanned(r, m, Place', current_key', current_value', in_value', key_value', j')
      BY <1>1, <2>1, <2>3, <2>5 DEF Terminated
  <2>7. Place # 3
      BY <1>3, <2>4
  <2>8. Place' >= 4 => status_code' = r.status
      BY <1>1, <1>6, <2>1, <2>7
  <2> QED
      BY <1>8, <2>1, <2>2, <2>6, <2>8
<1>12. CASE ScanOtherLine
  <2>1. /\ pc = "scan" /\ pc' = "scan" /\ i' = i + 1 /\ j # FragmentSize /\ j' = 0
        /\ Character = LF /\ ~AtBlankLine /\ ~in_value /\ in_value' = in_value
        /\ status_code' = IF Terminated[1] = HTTP THEN Terminated[2] ELSE status_code
        /\ latest' = latest /\ current_key' = NULL /\ current_value' = NULL
      BY <1>5, <1>12 DEF ScanOtherLine, Scanning, ptree_abort
  <2>2. PICK m \in 0..n :
           /\ Reflects(latest, r, m)
           /\ Scanned(r, m, Place, current_key, current_value, in_value, key_value, j)
      BY <1>6, <2>1
  <2>3. h[Place + 1] = LF
      BY <1>1, <2>1 DEF h
  <2>4. Place + 1 # Len(h)
    <3>1. AtPlace(h, Place, c_return)
        BY <2>1 DEF HeadInv, PlaceInv, h
    <3>2. ~c_return
        BY <2>1 DEF AtBlankLine
    <3>3. Len(h) \in Nat
        BY <1>2, ResponseIsWire DEF Readable, h, r
    <3> QED
        BY <1>1, <3>1, <3>2, <3>3 DEF AtPlace
  <2>5. /\ Place = 3
        /\ Terminated[1] = HTTP /\ Terminated[2] = r.status
        /\ Scanned(r, m, Place + 1, NULL, NULL, in_value, key_value', 0)
      BY <1>2, <1>4, <2>1, <2>2, <2>3, <2>4, ScannedOtherLine DEF Terminated, n, h, r
  <2>6. Scanned(r, m, Place', current_key', current_value', in_value', key_value', j')
      BY <1>1, <2>1, <2>5
  <2>7. status_code' = r.status
      BY <2>1, <2>5
  <2> QED
      BY <1>8, <2>1, <2>2, <2>6, <2>7
<1>13. CASE ScanValueEnd
  <2>1. /\ pc = "scan" /\ pc' = "push" /\ i' = i /\ j # FragmentSize
        /\ Character = LF /\ in_value /\ in_value' = FALSE
        /\ status_code' = status_code /\ latest' = latest
        /\ current_value' = Extended(current_value, strtrim(Terminated)) /\ current_key' = current_key
      BY <1>5, <1>13 DEF ScanValueEnd, Scanning, ptree_update_value
  <2>2. PICK m \in 0..n :
           /\ Reflects(latest, r, m)
           /\ Scanned(r, m, Place, current_key, current_value, in_value, key_value, j)
      BY <1>6, <2>1
  <2>3. h[Place + 1] = LF
      BY <1>1, <2>1 DEF h
  <2>4. /\ m # n /\ Place + 1 = LineEnd(r, m + 1) /\ current_key = r.lines[m + 1].name
        /\ Carries(current_value', r.lines[m + 1])
      BY <1>2, <1>4, <2>1, <2>2, <2>3, ScannedValueEnd DEF Terminated, n, h, r
  <2>5. status_code' = r.status
    <3>1. Place >= 4
      <4>1. LineEnd(r, 0) = 4
          BY <1>2, LineEndsAre DEF Readable
      <4>2. LineEnd(r, 0) <= LineEnd(r, m)
        <5>1. 0 \in 0..n /\ m \in 0..n
            BY <1>3
        <5> QED
            BY <1>2, <5>1, LineEndsAre DEF Readable, n, r
      <4>3. LineEnd(r, m) = NameStart(r, m + 1) /\ NameStart(r, m + 1) \in Nat
            /\ ValueStart(r, m + 1) \in Nat
            /\ Len(r.lines[m + 1].name) \in Nat /\ Len(RawValue(r.lines[m + 1])) \in Nat
          BY <1>2, <2>4, LineIs DEF n, r
      <4>4. ValueStart(r, m + 1) = NameStart(r, m + 1) + Len(r.lines[m + 1].name) + 1
          BY <1>2, <2>4, LineIs DEF n, r
      <4>5. LineEnd(r, m + 1) = ValueStart(r, m + 1) + Len(RawValue(r.lines[m + 1])) + 1
          BY <1>2, <2>4, LineIs DEF n, r
      <4>6. PICK a, b, c, d, e \in Nat :
               /\ a = NameStart(r, m + 1) /\ b = ValueStart(r, m + 1) /\ c = Len(r.lines[m + 1].name)
               /\ d = Len(RawValue(r.lines[m + 1])) /\ e = Place
          BY <1>1, <4>3
      <4>7. 4 <= a /\ b = a + c + 1 /\ e + 1 = b + d + 1
          BY <2>4, <4>1, <4>2, <4>3, <4>4, <4>5, <4>6
      <4>8. e >= 4
          BY <4>7
      <4> QED
          BY <4>6, <4>8
    <3> QED
        BY <1>6, <2>1, <3>1
  <2>6. PushContent'
    <3>1. Place' = Place
        BY <1>1, <2>1
    <3>2. m \in 0..Len(response'.lines) /\ m # Len(response'.lines) /\ Reflects(latest', response', m)
        BY <1>1, <2>1, <2>2, <2>4 DEF n, r
    <3>3. /\ Place' + 1 = LineEnd(response', m + 1)
          /\ current_key' = response'.lines[m + 1].name
          /\ Carries(current_value', response'.lines[m + 1])
      <4>1. response' = r
          BY <1>1
      <4> QED
          BY <2>1, <2>4, <3>1, <4>1
    <3>4. status_code' = response'.status /\ in_value' = FALSE
        BY <1>1, <2>1, <2>5
    <3> QED
        BY <3>2, <3>3, <3>4 DEF PushContent
  <2> QED
      BY <2>1, <2>6 DEF ScanContent
<1>14. CASE Push
  <2>1. /\ pc = "push" /\ pc' = "scan" /\ i' = i + 1 /\ j' = 0
        /\ in_value' = in_value /\ status_code' = status_code
        /\ current_key' = NULL /\ current_value' = NULL
        /\ latest' = [k \in DOMAIN latest \union {Folded(current_key)} |->
                        IF k = Folded(current_key) THEN current_value ELSE latest[k]]
      BY <1>14 DEF Push, ptree_push
  <2>2. status_code = r.status /\ in_value = FALSE
      BY <2>1 DEF ContentInv, PushContent, r
  <2>3. PICK m \in 0..n :
           /\ m # n /\ Reflects(latest, r, m)
           /\ Place + 1 = LineEnd(r, m + 1)
           /\ current_key = r.lines[m + 1].name
           /\ Carries(current_value, r.lines[m + 1])
      BY <2>1 DEF ContentInv, PushContent, r, n
  <2>4. Reflects(latest', r, m + 1)
    <3>1. PICK f : f = latest'
        OBVIOUS
    <3>2. f = Pushed(latest, current_key, current_value)
        BY <2>1, <3>1 DEF Pushed
    <3>3. Reflects(f, r, m + 1)
        BY <1>2, <2>3, <3>2, ReflectsPush DEF n, r
    <3> QED
        BY <3>1, <3>3
  <2>5. Scanned(r, m + 1, Place + 1, NULL, NULL, FALSE, key_value', 0) /\ m + 1 \in 0..n
      BY <1>2, <2>3, ScannedPush DEF n, r
  <2>6. PICK q \in 0..n : q = m + 1
      BY <2>5
  <2>7. Reflects(latest', r, q)
      BY <2>4, <2>6
  <2>8. Scanned(r, q, Place', current_key', current_value', in_value', key_value', j')
      BY <1>1, <2>1, <2>2, <2>5, <2>6
  <2> QED
      BY <1>8, <2>1, <2>2, <2>7, <2>8
<1> QED
    BY <1>9, <1>10, <1>11, <1>12, <1>13, <1>14 DEF ScanStep

\* The rest of a request does not touch the tree, or starts again with a new one.
LEMMA RequestKeepsContent == ContentInv /\ RequestStep => ContentInv'
<1> SUFFICES ASSUME ContentInv, RequestStep PROVE ContentInv'
    OBVIOUS
<1>1. /\ UNCHANGED << response, stream, broken, size, i, latest, current_key, current_value,
                      in_value, key_value, j, status_code >>
    BY DEF RequestStep, scanVars, serverVars, pieceVars, textVars, treeVars
<1>2. Received' = Received /\ Place' = Place
    BY <1>1 DEF Received, Place
<1>3. CASE pc' = pc
  <2>1. ScanContent'
      BY <1>1, <1>2, <1>3 DEF ContentInv, ScanContent
  <2>2. PushContent'
      BY <1>1, <1>2, <1>3 DEF ContentInv, PushContent
  <2>3. TakenContent'
      BY <1>1, <1>2, <1>3 DEF ContentInv, TakenContent
  <2> QED
      BY <1>1, <1>3, <2>1, <2>2, <2>3 DEF ContentInv
<1>4. CASE pc' \in Unconnected
    BY <1>4 DEF ContentInv, Unconnected, ScanContent, PushContent, TakenContent, Headed
<1>5. CASE pc \in {"accepted", "framed"} /\ pc' \in {"framed", "handler"}
  <2>1. TakenContent'
      BY <1>1, <1>2, <1>5 DEF ContentInv, TakenContent, Headed
  <2>2. Readable(response)
      BY <1>5 DEF ContentInv, Unconnected
  <2> QED
      BY <1>1, <1>5, <2>1, <2>2 DEF ContentInv, ScanContent, PushContent
<1>6. CASE pc \in {"refused", "handler"} /\ pc' = "crashed"
  <2>1. Readable(response)
      BY <1>6 DEF ContentInv, Unconnected
  <2> QED
      BY <1>1, <1>6, <2>1 DEF ContentInv, ScanContent, PushContent, TakenContent, Headed
<1> QED
    BY <1>3, <1>4, <1>5, <1>6 DEF RequestStep

\* ContentInv, by action.
LEMMA ContentInvStep == ScanInv /\ HeadInv /\ ContentInv /\ [Next]_vars => ContentInv'
<1> SUFFICES ASSUME ScanInv, HeadInv, ContentInv, [Next]_vars PROVE ContentInv'
    OBVIOUS
<1>1. CASE Connect
    BY <1>1, ConnectGivesContent
<1>2. CASE Parse
  <2>1. Read \/ ScanStep \/ EndPiece \/ Finish
      BY <1>2 DEF Parse, ParseStep, ScanStep
  <2> QED
      BY <2>1, ReadKeepsContent, ScanKeepsContent, EndPieceKeepsContent, FinishKeepsContent
<1>3. RequestStep \/ Connect \/ Parse
    BY DEF Next, NoConnection, ConnectFails, GiveUp, UseFraming, Follow, FollowNowhere,
       ReturnHandler, TryGet, GotNothing, DropHandler, UseHandler, RequestStep, Unconnected, vars
<1> QED
    BY <1>1, <1>2, <1>3, RequestKeepsContent

\* Before the first request there is no response.
LEMMA ContentInvInit == Init => ContentInv
<1> SUFFICES ASSUME Init PROVE ContentInv
    OBVIOUS
<1>1. pc = "connect"
    BY DEF Init
<1> QED
    BY <1>1 DEF ContentInv, ScanContent, PushContent, TakenContent, Headed, Unconnected

-----------------------------------------------------------------------------
(* The headers of the tree, and the framing of the body, are the server's. *)

\* Of the first m lines, those with a name.
Named(r, m, name) == { k \in 1..m : SameName(r.lines[k].name, name) }

\* The history answers for the last of them.
LEMMA LastOneCounts ==
    ASSUME NEW l, NEW r, NEW m \in Nat, Reflects(l, r, m), NEW name
    PROVE  /\ Folded(name) \in DOMAIN l <=> Named(r, m, name) # {}
           /\ \A k \in Named(r, m, name) :
                 (\A o \in Named(r, m, name) : o <= k) => Carries(l[Folded(name)], r.lines[k])
           /\ Named(r, m, name) # {} =>
                 \E k \in Named(r, m, name) : \A o \in Named(r, m, name) : o <= k
<1>1. /\ DOMAIN l = { Folded(r.lines[k].name) : k \in 1..m }
      /\ \A k \in 1..m :
            (\A o \in (k + 1)..m : ~SameName(r.lines[o].name, r.lines[k].name))
                => Carries(l[Folded(r.lines[k].name)], r.lines[k])
    BY DEF Reflects
<1>2. Folded(name) \in DOMAIN l <=> Named(r, m, name) # {}
    BY <1>1 DEF Named, SameName
<1>3. ASSUME NEW k \in Named(r, m, name), \A o \in Named(r, m, name) : o <= k
      PROVE  Carries(l[Folded(name)], r.lines[k])
  <2>1. k \in 1..m /\ Folded(r.lines[k].name) = Folded(name)
      BY DEF Named, SameName
  <2>2. ASSUME NEW o \in (k + 1)..m PROVE ~SameName(r.lines[o].name, r.lines[k].name)
    <3>1. o \in 1..m /\ ~(o <= k)
        BY <2>1
    <3>2. o \notin Named(r, m, name)
        BY <1>3, <3>1
    <3> QED
        BY <2>1, <3>1, <3>2 DEF Named, SameName
  <2>3. Carries(l[Folded(r.lines[k].name)], r.lines[k])
      BY <1>1, <2>1, <2>2
  <2> QED
      BY <2>1, <2>3
<1>4. Named(r, m, name) # {} =>
         \E k \in Named(r, m, name) : \A o \in Named(r, m, name) : o <= k
  <2>1. Named(r, m, name) \subseteq 1..m
      BY DEF Named
  <2>2. PICK T : T = Named(r, m, name)
      OBVIOUS
  <2>3. T \in SUBSET (1..m)
      BY <2>1, <2>2
  <2>4. ASSUME T # {} PROVE \E k \in T : \A o \in T : o <= k
      BY <2>3, <2>4, GreatestNumber
  <2> QED
      BY <2>2, <2>4
<1> QED
    BY <1>2, <1>3, <1>4

\* What a lookup of it gives.
LEMMA LookupOfLast ==
    ASSUME LookupFindsLatest, NEW m \in Nat, Reflects(latest, response, m), NEW name \in Names
    PROVE  /\ Named(response, m, name) = {} => ptree_get_value(tree, name) = NULL
           /\ \A k \in Named(response, m, name) :
                 (\A o \in Named(response, m, name) : o <= k)
                    => Carries(ptree_get_value(tree, name), response.lines[k])
<1>1. ptree_get_value(tree, name) = IF Folded(name) \in DOMAIN latest THEN latest[Folded(name)] ELSE NULL
    BY DEF LookupFindsLatest
<1>2. Folded(name) \in DOMAIN latest <=> Named(response, m, name) # {}
    BY LastOneCounts
<1>3. \A k \in Named(response, m, name) :
         (\A o \in Named(response, m, name) : o <= k) => Carries(latest[Folded(name)], response.lines[k])
    BY LastOneCounts
<1> QED
    BY <1>1, <1>2, <1>3

\* The lines that have arrived.
LEMMA ArrivedIs ==
    ASSUME Readable(response), Received \in Nat,
           NEW m \in 0..Len(response.lines), Ended(response, m, Received)
    PROVE  Arrived = 1..m
<1>1. WellFormed(response) /\ Len(response.lines) \in Nat /\ DOMAIN response.lines = 1..Len(response.lines)
  <2>1. WellFormed(response)
      BY DEF Readable
  <2> QED
      BY <2>1 DEF WellFormed
<1>2. ASSUME NEW k \in 1..Len(response.lines) PROVE Len(UpTo(k)) - 2 <= Received <=> k <= m
  <2>1. k \in 0..Len(response.lines)
      BY <1>1
  <2>2. Len(UpTo(k)) - 2 = LineEnd(response, k)
      BY <1>1, <2>1, UpToIs DEF LineEnd
  <2> QED
      BY <2>2 DEF Ended
<1>3. Arrived = { k \in 1..Len(response.lines) : k <= m }
    BY <1>1, <1>2 DEF Arrived
<1> QED
    BY <1>1, <1>3

\* From the invariant to the property: the last line with a name is what the tree has.
LEMMA HeadersAreTaken ==
    ScanInv /\ HeadInv /\ ContentInv /\ LookupFindsLatest => AcceptedHeadersAreSent
<1> SUFFICES ASSUME ScanInv, HeadInv, ContentInv, LookupFindsLatest, pc = "accepted"
             PROVE  /\ ~broken => status_code = response.status
                    /\ \A name \in Names :
                          LET k == LastLine(name)
                          IN  IF k = 0 THEN ptree_get_value(tree, name) = NULL
                              ELSE Intact(name) /\ Intact(RawValue(response.lines[k])) =>
                                      ptree_get_value(tree, name) = Trimmed(response.lines[k].value)
    BY DEF AcceptedHeadersAreSent
<1>1. ~broken => status_code = response.status
    BY DEF ContentInv, TakenContent, Headed
<1>2. PICK m \in 0..Len(response.lines) : Reflects(latest, response, m) /\ Ended(response, m, Received)
    BY DEF ContentInv, TakenContent, Headed
<1>3. Readable(response) /\ Received \in Nat
    BY DEF ContentInv, HeadInv, FlowInv, Arrives, Unconnected
<1>4. m \in Nat
    OBVIOUS
<1>5. Arrived = 1..m
    BY <1>2, <1>3, ArrivedIs
<1>6. ASSUME NEW name \in Names
      PROVE  LET k == LastLine(name)
             IN  IF k = 0 THEN ptree_get_value(tree, name) = NULL
                 ELSE Intact(name) /\ Intact(RawValue(response.lines[k])) =>
                         ptree_get_value(tree, name) = Trimmed(response.lines[k].value)
  <2> DEFINE with == Named(response, m, name)
  <2>1. with = { k \in Arrived : SameName(response.lines[k].name, name) }
      BY <1>5 DEF Named
  <2>2. LastLine(name) = IF with = {} THEN 0 ELSE CHOOSE k \in with : \A o \in with : o <= k
      BY <2>1 DEF LastLine
  <2>3. /\ with = {} => ptree_get_value(tree, name) = NULL
        /\ \A k \in with : (\A o \in with : o <= k) => Carries(ptree_get_value(tree, name), response.lines[k])
      BY <1>2, <1>4, LookupOfLast
  <2>4. with # {} => \E k \in with : \A o \in with : o <= k
      BY <1>2, <1>4, LastOneCounts
  <2>5. \A k \in with : k # 0
      BY DEF Named
  <2> HIDE DEF with
  <2>6. CASE with = {}
      BY <2>2, <2>3, <2>6
  <2>7. CASE with # {}
    <3>1. PICK k : k = LastLine(name)
        OBVIOUS
    <3>2. k \in with /\ \A o \in with : o <= k
        BY <2>2, <2>4, <2>7, <3>1
    <3>3. k # 0
        BY <2>5, <3>2
    <3>4. Carries(ptree_get_value(tree, name), response.lines[k])
        BY <2>3, <3>2
    <3> QED
        BY <3>1, <3>3, <3>4 DEF Carries
  <2> QED
      BY <2>6, <2>7
<1> QED
    BY <1>1, <1>6

(* Whatever a server sends in its header lines, in pieces of any size,     *)
(* into arrays of any size: the status and every header that has arrived   *)
(* can be looked up once the header is accepted, with the value of its     *)
(* last line, unless a fragment's edge or a blank value has spoilt it, and *)
(* then it alone (requests.c:324-406, 301-321, str_utils.c:107-121).       *)
THEOREM HeadersAreSent == Spec => []AcceptedHeadersAreSent
<1>1. Init => TreeInv
    BY EmptyTreeIsSound DEF Init, ptree_init, TreeInv
<1>2. TreeInv => LookupFindsLatest
    BY SoundTreesAnswer DEF TreeInv
<1> QED
    BY <1>1, <1>2, TreeInvStep, ScanInvInit, ScanInvStep, HeadInvInit, HeadInvStep,
       ContentInvInit, ContentInvStep, HeadersAreTaken, PTL DEF Spec

\* The handler's choice rests on what the tree had when it was made.
FramingInv ==
    pc \in {"framed", "handler"} /\ method = "GET" =>
        chunked = (\/ HeaderValue(ContentLength) = NULL
                   \/ HeaderValue(TransferEncoding) = ChunkedText)

\* FramingInv, by action.
LEMMA FramingInvStep == FramingInv /\ [Next]_vars => FramingInv'
<1> SUFFICES ASSUME FramingInv, [Next]_vars PROVE FramingInv'
    OBVIOUS
<1>1. CASE UseFraming
  <2>1. tree' = tree /\ method' = method
      BY <1>1 DEF UseFraming, scanVars, treeVars, requestVars
  <2>2. HeaderValue(ContentLength)' = HeaderValue(ContentLength)
        /\ HeaderValue(TransferEncoding)' = HeaderValue(TransferEncoding)
      BY <2>1 DEF HeaderValue
  <2>3. method = "GET" => chunked' = (\/ HeaderValue(ContentLength) = NULL
                                      \/ HeaderValue(TransferEncoding) = ChunkedText)
      BY <1>1 DEF UseFraming
  <2> QED
      BY <2>1, <2>2, <2>3 DEF FramingInv
<1>2. CASE ReturnHandler \/ UNCHANGED vars
  <2>1. tree' = tree /\ method' = method /\ chunked' = chunked
        /\ (pc' \in {"framed", "handler"} => pc \in {"framed", "handler"})
      BY <1>2 DEF ReturnHandler, scanVars, treeVars, requestVars, handlerVars, vars
  <2>2. HeaderValue(ContentLength)' = HeaderValue(ContentLength)
        /\ HeaderValue(TransferEncoding)' = HeaderValue(TransferEncoding)
      BY <2>1 DEF HeaderValue
  <2> QED
      BY <2>1, <2>2 DEF FramingInv
<1>3. CASE pc' \notin {"framed", "handler"}
    BY <1>3 DEF FramingInv
<1>4. \/ UseFraming \/ ReturnHandler \/ UNCHANGED vars
      \/ pc' \notin {"framed", "handler"}
    BY DEF Next, NoConnection, ConnectFails, Connect, StartScan, GiveUp, Parse, ParseStep, Read, Flush,
       ScanColon, ScanValueEnd, Push, ScanOtherLine, ScanCharacter, EndPiece, Finish, Scanning,
       Follow, FollowNowhere, TryGet, GotNothing, DropHandler, UseHandler
<1> QED
    BY <1>1, <1>2, <1>3, <1>4

\* From the invariants to the property.
LEMMA FramingFollowsHeaders ==
    ScanInv /\ ContentInv /\ FramingInv /\ LookupFindsLatest => FramingIsTheServers
<1> SUFFICES ASSUME ScanInv, ContentInv, FramingInv, LookupFindsLatest,
                    pc \in {"framed", "handler"}, ~broken, method = "GET"
             PROVE  chunked = (Sends(TransferEncoding) \/ ~Sends(ContentLength))
    BY DEF FramingIsTheServers
<1> DEFINE n == Len(response.lines)
<1>1. Readable(response) /\ Len(Header(response)) <= Received
    BY DEF ContentInv, TakenContent, Headed, Unconnected
<1>1a. Received \in Int
  <2>1. Len(stream) \in Nat
      BY DEF ScanInv, ArraysInv, Texts
  <2>2. Len(Header(response)) \in Nat /\ Len(response.body) \in Nat
      BY <1>1, ResponseIsWire DEF Readable
  <2> QED
      BY <2>1, <2>2 DEF Received
<1>2. PICK m \in 0..n : Reflects(latest, response, m) /\ Ended(response, m, Received)
    BY DEF ContentInv, TakenContent, Headed
<1>3. n \in Nat /\ LineEnd(response, n) \in Nat /\ LineEnd(response, n) + 2 = Len(Header(response))
  <2>1. n \in Nat
      BY <1>1, LineEndsAre DEF Readable
  <2> QED
      BY <1>1, <2>1, EndsOfHeader
<1>4. m = n
  <2>1. LineEnd(response, n) <= Received
      BY <1>1, <1>1a, <1>3
  <2>2. n # 0 => n <= m
      BY <1>2, <1>3, <2>1 DEF Ended
  <2> QED
      BY <1>3, <2>2
<1>5. \A name : Sends(name) <=> Named(response, n, name) # {}
  <2>1. \E S : response.lines \in Seq(S)
      BY <1>1 DEF Readable, WellFormed
  <2>2. ToSet(response.lines) = { response.lines[k] : k \in 1..n }
      BY <2>1 DEF ToSet
  <2> QED
      BY <2>2 DEF Sends, Named
<1> HIDE DEF n
<1>6. {ContentLength, TransferEncoding} \subseteq Names /\ ChunkedText \in Texts
    BY CodingAssumption
<1>6a. ContentLength \in Names /\ TransferEncoding \in Names
    BY <1>6
<1>7. ASSUME NEW name \in Names
      PROVE  /\ ~Sends(name) => HeaderValue(name) = NULL
             /\ Sends(name) =>
                    \E k \in Named(response, n, name) : Carries(HeaderValue(name), response.lines[k])
  <2>1. n \in Nat /\ Reflects(latest, response, n)
      BY <1>2, <1>3, <1>4
  <2>2. /\ Named(response, n, name) = {} => HeaderValue(name) = NULL
        /\ \A k \in Named(response, n, name) :
              (\A o \in Named(response, n, name) : o <= k) => Carries(HeaderValue(name), response.lines[k])
      BY <2>1, LookupOfLast DEF HeaderValue
  <2>3. Named(response, n, name) # {} =>
           \E k \in Named(response, n, name) : \A o \in Named(response, n, name) : o <= k
      BY <2>1, LastOneCounts
  <2> QED
      BY <1>5, <2>2, <2>3
<1>8. NULL \notin Seq(Characters) /\ ChunkedText \in Seq(Characters)
  <2>1. ChunkedText \in Seq(DOMAIN Lower)
      BY <1>6 DEF Texts
  <2>2. \A t \in Seq(DOMAIN Lower) : t \in Seq(Characters)
      BY DEF Characters
  <2> QED
      BY <2>1, <2>2, NullIsNoText
<1>9. HeaderValue(ContentLength) = NULL <=> ~Sends(ContentLength)
    BY <1>6a, <1>7, <1>8 DEF Carries
<1>10. HeaderValue(TransferEncoding) = ChunkedText <=> Sends(TransferEncoding)
  <2>1. CASE ~Sends(TransferEncoding)
    <3>1. HeaderValue(TransferEncoding) = NULL
        BY <1>6a, <1>7, <2>1
    <3> QED
        BY <1>8, <2>1, <3>1
  <2>2. CASE Sends(TransferEncoding)
    <3>1. PICK k \in Named(response, n, TransferEncoding) :
             Carries(HeaderValue(TransferEncoding), response.lines[k])
        BY <1>6a, <1>7, <2>2
    <3>2. k \in 1..n /\ SameName(response.lines[k].name, TransferEncoding)
        BY DEF Named
    <3>3. Clean(response.lines[k])
        BY <1>1, <3>2 DEF Readable, n
    <3>4. Intact(RawValue(response.lines[k])) /\ Trimmed(response.lines[k].value) = ChunkedText
        BY <3>2, <3>3 DEF Clean
    <3> QED
        BY <2>2, <3>1, <3>4 DEF Carries
  <2> QED
      BY <2>1, <2>2
<1>11. chunked = (\/ HeaderValue(ContentLength) = NULL
                  \/ HeaderValue(TransferEncoding) = ChunkedText)
    BY DEF FramingInv
<1> QED
    BY <1>9, <1>10, <1>11

(* A GET whose header has arrived is read in chunks exactly if its server  *)
(* sends chunks or no length, in whatever order, spelling and pieces the   *)
(* headers come (requests.c:268-286).                                      *)
THEOREM FramingsAreTheServers == Spec => []FramingIsTheServers
<1>1. Init => TreeInv
    BY EmptyTreeIsSound DEF Init, ptree_init, TreeInv
<1>2. TreeInv => LookupFindsLatest
    BY SoundTreesAnswer DEF TreeInv
<1>3. Init => FramingInv
    BY DEF Init, FramingInv
<1> QED
    BY <1>1, <1>2, <1>3, TreeInvStep, ScanInvInit, ScanInvStep, HeadInvInit, HeadInvStep,
       ContentInvInit, ContentInvStep, FramingInvStep, FramingFollowsHeaders, PTL DEF Spec
=============================================================================
