----------------------------- MODULE LockedQueue -----------------------------
(***************************************************************************)
(* queue.c at the grain of its pointer writes: a heap of list cells, the   *)
(* root pointer of one queue and the mutex every caller takes.  Both the   *)
(* links queue and a server queue are this code; only the names of the     *)
(* payload and of the sort field differ.  The module implements            *)
(* AtomicQueue.                                                            *)
(***************************************************************************)
EXTENDS PrioQueue, FiniteSets

CONSTANTS Threads, Keys, None,
          Nodes,      \* cells malloc can return
          NULL,       \* the null pointer, not in Nodes
          MaxAdds,    \* bound: adds called in a behaviour
          MaxNexts    \* bound: nexts called in a behaviour

\* The memory is finite, and NULL no address in it.
ASSUME NodesAssumption == NULL \notin Nodes /\ IsFiniteSet(Nodes)

ASSUME ThreadsAssumption == None \notin Threads

ASSUME KeysAssumption == Keys \subseteq Nat

VARIABLES
    cell,    \* cell[n]: the element and the next pointer stored in node n
    alloc,   \* nodes malloc returned and free did not take back
    root,    \* *pproot
    mutex,   \* the thread that holds *pmutex, or None
    pc, arg, res, calls, nexts,
    pel,     \* pel[t]: the node queue_add_* is inserting
    walk,    \* walk[t]: the local "root" of the insertion loop
    last,    \* last[t]: last_root_next
    ptemp    \* ptemp[t]: the node queue_next_* is removing

ptrs == << pel, walk, last, ptemp >>
vars == << cell, alloc, root, mutex, pc, arg, res, calls, nexts, ptrs >>

Init == /\ cell = [n \in Nodes |-> [el |-> None, next |-> NULL]]
        /\ alloc = {}
        /\ root = NULL
        /\ mutex = None
        /\ pc = [t \in Threads |-> "idle"]
        /\ arg = [t \in Threads |-> None]
        /\ res = [t \in Threads |-> None]
        /\ calls = 0 /\ nexts = 0
        /\ pel = [t \in Threads |-> NULL]
        /\ walk = [t \in Threads |-> NULL]
        /\ last = [t \in Threads |-> NULL]
        /\ ptemp = [t \in Threads |-> NULL]

Goto(t, from, to) == pc[t] = from /\ pc' = [pc EXCEPT ![t] = to]

KeyAt(n) == cell[n].el.key

-----------------------------------------------------------------------------
(* queue_add_links, queue_add_server *)

CallAdd(t, k) ==
    /\ calls < MaxAdds
    /\ Goto(t, "idle", "malloc")
    /\ calls' = calls + 1
    /\ arg' = [arg EXCEPT ![t] = [sn |-> calls + 1, key |-> k]]
    /\ UNCHANGED << cell, alloc, root, mutex, res, nexts, ptrs >>

\* The new cell is allocated and filled before the mutex is taken.
Malloc(t) ==
    /\ Goto(t, "malloc", "lock_add")
    /\ \E n \in Nodes \ alloc :
          /\ alloc' = alloc \union {n}
          /\ cell' = [cell EXCEPT ![n] = [el |-> arg[t], next |-> NULL]]
          /\ pel' = [pel EXCEPT ![t] = n]
    /\ UNCHANGED << root, mutex, arg, res, calls, nexts, walk, last, ptemp >>

\* Mutant: the mutex is taken without waiting for it.
MutexGrab(t) == mutex' = t

MutexLock(t) == mutex = None /\ mutex' = t

LockAdd(t) ==
    /\ Goto(t, "lock_add", "insert")
    /\ MutexLock(t)
    /\ UNCHANGED << cell, alloc, root, arg, res, calls, nexts, ptrs >>

InsertEmpty(t) ==
    /\ Goto(t, "insert", "unlock_add")
    /\ root = NULL
    /\ root' = pel[t]
    /\ UNCHANGED << cell, alloc, mutex, arg, res, calls, nexts, ptrs >>

PrependNext(t) ==
    /\ Goto(t, "insert", "prepend")
    /\ root # NULL
    /\ arg[t].key < KeyAt(root)
    /\ cell' = [cell EXCEPT ![pel[t]].next = root]
    /\ UNCHANGED << alloc, root, mutex, arg, res, calls, nexts, ptrs >>

PrependRoot(t) ==
    /\ Goto(t, "prepend", "unlock_add")
    /\ root' = pel[t]
    /\ UNCHANGED << cell, alloc, mutex, arg, res, calls, nexts, ptrs >>

WalkStart(t) ==
    /\ Goto(t, "insert", "walk")
    /\ root # NULL
    /\ arg[t].key >= KeyAt(root)
    /\ walk' = [walk EXCEPT ![t] = root]
    /\ UNCHANGED << cell, alloc, root, mutex, arg, res, calls, nexts, pel, last, ptemp >>

\* Mutant: a new element goes before those with the same key.
WalkOnSmaller(n, k) == cell[n].next # NULL /\ k > KeyAt(cell[n].next)

WalkOn(n, k) == cell[n].next # NULL /\ k >= KeyAt(cell[n].next)

Walk(t) ==
    /\ Goto(t, "walk", "walk")
    /\ WalkOn(walk[t], arg[t].key)
    /\ walk' = [walk EXCEPT ![t] = cell[@].next]
    /\ UNCHANGED << cell, alloc, root, mutex, arg, res, calls, nexts, pel, last, ptemp >>

\* last_root_next = root->next; root->next = pel;
LinkPrevious(t) ==
    /\ Goto(t, "walk", "link")
    /\ ~WalkOn(walk[t], arg[t].key)
    /\ last' = [last EXCEPT ![t] = cell[walk[t]].next]
    /\ cell' = [cell EXCEPT ![walk[t]].next = pel[t]]
    /\ UNCHANGED << alloc, root, mutex, arg, res, calls, nexts, pel, walk, ptemp >>

\* pel->next = last_root_next;
LinkNext(t) ==
    /\ Goto(t, "link", "unlock_add")
    /\ cell' = [cell EXCEPT ![pel[t]].next = last[t]]
    /\ UNCHANGED << alloc, root, mutex, arg, res, calls, nexts, ptrs >>

UnlockAdd(t) ==
    /\ Goto(t, "unlock_add", "idle")
    /\ mutex' = None
    /\ arg' = [arg EXCEPT ![t] = None]
    /\ pel' = [pel EXCEPT ![t] = NULL]
    /\ walk' = [walk EXCEPT ![t] = NULL]
    /\ last' = [last EXCEPT ![t] = NULL]
    /\ UNCHANGED << cell, alloc, root, res, calls, nexts, ptemp >>

-----------------------------------------------------------------------------
(* queue_next_links, queue_next_server *)

CallNext(t) ==
    /\ nexts < MaxNexts
    /\ Goto(t, "idle", "lock_next")
    /\ nexts' = nexts + 1
    /\ UNCHANGED << cell, alloc, root, mutex, arg, res, calls, ptrs >>

LockNext(t) ==
    /\ Goto(t, "lock_next", "test")
    /\ MutexLock(t)
    /\ UNCHANGED << cell, alloc, root, arg, res, calls, nexts, ptrs >>

NextOnEmpty(t) ==
    /\ Goto(t, "test", "unlock_next")
    /\ root = NULL
    /\ UNCHANGED << cell, alloc, root, mutex, arg, res, calls, nexts, ptrs >>

TakeRoot(t) ==
    /\ Goto(t, "test", "advance")
    /\ root # NULL
    /\ ptemp' = [ptemp EXCEPT ![t] = root]
    /\ UNCHANGED << cell, alloc, root, mutex, arg, res, calls, nexts, pel, walk, last >>

AdvanceRoot(t) ==
    /\ Goto(t, "advance", "copy")
    /\ root' = cell[root].next
    /\ UNCHANGED << cell, alloc, mutex, arg, res, calls, nexts, ptrs >>

CopyOut(t) ==
    /\ Goto(t, "copy", "free")
    /\ res' = [res EXCEPT ![t] = cell[ptemp[t]].el]
    /\ UNCHANGED << cell, alloc, root, mutex, arg, calls, nexts, ptrs >>

Free(t) ==
    /\ Goto(t, "free", "unlock_next")
    /\ alloc' = alloc \ {ptemp[t]}
    /\ ptemp' = [ptemp EXCEPT ![t] = NULL]
    /\ UNCHANGED << cell, root, mutex, arg, res, calls, nexts, pel, walk, last >>

UnlockNext(t) ==
    /\ Goto(t, "unlock_next", "idle")
    /\ mutex' = None
    /\ UNCHANGED << cell, alloc, root, arg, res, calls, nexts, ptrs >>

-----------------------------------------------------------------------------
Step(t) ==
    \/ Malloc(t) \/ LockAdd(t) \/ InsertEmpty(t) \/ PrependNext(t) \/ PrependRoot(t)
    \/ WalkStart(t) \/ Walk(t) \/ LinkPrevious(t) \/ LinkNext(t) \/ UnlockAdd(t)
    \/ LockNext(t) \/ NextOnEmpty(t) \/ TakeRoot(t) \/ AdvanceRoot(t) \/ CopyOut(t)
    \/ Free(t) \/ UnlockNext(t)

Next == \E t \in Threads :
            \/ \E k \in Keys : CallAdd(t, k)
            \/ CallNext(t)
            \/ Step(t)

\* The scheduler runs every thread inside a call; a contended mutex is
\* eventually won because the number of calls is bounded.
Spec == Init /\ [][Next]_vars /\ \A t \in Threads : WF_vars(Step(t))

-----------------------------------------------------------------------------
(* Properties *)

\* The threads that have linked n from its predecessor and not yet to its successor.
Linking(n) == { t \in Threads : pc[t] = "link" /\ pel[t] = n }

\* The next pointer of n once the insertion under way has finished.
NextOf(n) ==
    IF Linking(n) = {} THEN cell[n].next ELSE last[CHOOSE t \in Linking(n) : TRUE]

NextOfs == [n \in Nodes |-> NextOf(n)]

\* The i-th cell of s, and NULL behind its end.
CellAt(s, i) == IF i \in DOMAIN s THEN s[i] ELSE NULL

\* The pointers in nxt link the cells of s, and r points to the first one.
IsList(s, nxt, r) ==
    /\ r = CellAt(s, 1)
    /\ \A i \in DOMAIN s : nxt[s[i]] = CellAt(s, i + 1)

\* A list that ends contains no cell twice.
Lists == SeqOf(Nodes, Cardinality(Nodes))

ListFrom(nxt, r) == CHOOSE s \in Lists : IsList(s, nxt, r)

Chain == ListFrom(NextOfs, root)

InChain == { Chain[i] : i \in DOMAIN Chain }

\* Nodes a thread has in hand and the list does not have (yet or any more).
InHand(t) ==
    (IF pc[t] \in {"lock_add", "insert", "walk", "prepend"} THEN {pel[t]} ELSE {})
        \union (IF pc[t] \in {"copy", "free"} THEN {ptemp[t]} ELSE {})

(* Every allocated cell has exactly one owner: the list reachable from the *)
(* root, or the thread that is inserting or removing it.  So the list      *)
(* never reaches a freed cell, never loses a cell (a leak) and never       *)
(* contains one twice, and the root a thread is about to advance is the    *)
(* cell it will copy and free, whatever the interleaving of queue_add_*    *)
(* and queue_next_* (queue.c:17-43, 50-66).                                *)
CellsHaveOneOwner ==
    /\ \E s \in Lists : IsList(s, NextOfs, root)
    /\ \A t \in Threads : pc[t] = "advance" => root = ptemp[t]
    /\ \A t \in Threads : InHand(t) \intersect InChain = {}
    /\ \A t, u \in Threads : t # u => InHand(t) \intersect InHand(u) = {}
    /\ alloc = InChain \union UNION { InHand(t) : t \in Threads }

\* The abstract state of a thread inside a call.
OpOf(p) ==
    CASE p \in {"malloc", "lock_add", "insert", "prepend", "walk"} -> "adding"
      [] p \in {"link", "unlock_add"} -> "added"
      [] p \in {"lock_next", "test", "advance"} -> "nexting"
      [] p \in {"copy", "free", "unlock_next"} -> "got"
      [] OTHER -> "idle"

\* The elements in the list.
Content == [i \in DOMAIN Chain |-> cell[Chain[i]].el]

Abs == INSTANCE AtomicQueue WITH
    queue <- Content,
    op    <- [t \in Threads |-> OpOf(pc[t])],
    arg   <- [t \in Threads |-> IF OpOf(pc[t]) = "adding" THEN arg[t] ELSE None],
    res   <- [t \in Threads |-> IF pc[t] = "copy" THEN cell[ptemp[t]].el ELSE res[t]]

(* The pointer code under the mutex is a queue whose operations happen at  *)
(* one instant: an add is seen at the write that links the cell, a next at *)
(* the write that advances the root, and what queue_next_* copies out      *)
(* afterwards is the element that was first at that instant.  Under weak   *)
(* fairness every call takes effect and returns (queue.c:7-132).           *)
ImplementsAtomicQueue == Abs!Spec

=============================================================================
