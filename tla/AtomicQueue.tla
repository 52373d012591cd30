----------------------------- MODULE AtomicQueue -----------------------------
(***************************************************************************)
(* What a queue of queue.c promises its callers: queue_add_* and           *)
(* queue_next_* take effect at one instant between their call and their    *)
(* return, on a list kept sorted by key, first in first out among equals.  *)
(***************************************************************************)
EXTENDS PrioQueue, FiniteSets

CONSTANTS Threads,    \* the callers
          Keys,       \* values of the sort field
          None        \* "no element", distinct from every element

\* An element: its sort key and, as its payload, the number of the call that adds it.
Elems == [sn : Nat \ {0}, key : Keys]

elKey == [e \in Elems |-> e.key]

VARIABLES
    queue,   \* the list
    op,      \* op[t] \in {"idle", "adding", "added", "nexting", "got"}
    arg,     \* arg[t]: the element being added, None outside an add
    res,     \* res[t]: what the last queue_next_* of t left in its variable
    calls    \* number of adds called so far

vars == << queue, op, arg, res, calls >>

Init == /\ queue = << >>
        /\ op = [t \in Threads |-> "idle"]
        /\ arg = [t \in Threads |-> None]
        /\ res = [t \in Threads |-> None]
        /\ calls = 0

CallAdd(t, k) ==
    /\ op[t] = "idle"
    /\ calls' = calls + 1
    /\ op' = [op EXCEPT ![t] = "adding"]
    /\ arg' = [arg EXCEPT ![t] = [sn |-> calls + 1, key |-> k]]
    /\ UNCHANGED << queue, res >>

DoAdd(t) ==
    /\ op[t] = "adding"
    /\ queue' = QueueAdd(queue, arg[t], elKey)
    /\ op' = [op EXCEPT ![t] = "added"]
    /\ arg' = [arg EXCEPT ![t] = None]
    /\ UNCHANGED << res, calls >>

CallNext(t) ==
    /\ op[t] = "idle"
    /\ op' = [op EXCEPT ![t] = "nexting"]
    /\ UNCHANGED << queue, arg, res, calls >>

DoNext(t) ==
    /\ op[t] = "nexting"
    /\ queue' = QueueNext(queue)
    /\ res' = [res EXCEPT ![t] = NextEl(queue, @)]
    /\ op' = [op EXCEPT ![t] = "got"]
    /\ UNCHANGED << arg, calls >>

Return(t) ==
    /\ op[t] \in {"added", "got"}
    /\ op' = [op EXCEPT ![t] = "idle"]
    /\ UNCHANGED << queue, arg, res, calls >>

Next == \E t \in Threads :
            \/ \E k \in Keys : CallAdd(t, k)
            \/ CallNext(t)
            \/ DoAdd(t) \/ DoNext(t) \/ Return(t)

\* A call that was made takes effect and returns.
Fairness == \A t \in Threads : WF_vars(DoAdd(t) \/ DoNext(t) \/ Return(t))

Spec == Init /\ [][Next]_vars /\ Fairness

=============================================================================
