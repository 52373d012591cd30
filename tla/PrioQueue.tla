------------------------------ MODULE PrioQueue ------------------------------
(***************************************************************************)
(* The two priority queues of queue.c as operators on sequences.           *)
(*                                                                         *)
(* queue.c implements the same sorted singly-linked list twice, once for   *)
(* links (sorted by data.priority) and once for servers (sorted by         *)
(* avg_time).  A queue is the sequence of its elements from *pproot on;    *)
(* "key" is the function that gives each element the field the list is     *)
(* sorted by.  The pointer-level code is module LockedQueue.               *)
(***************************************************************************)
EXTENDS Integers, SequencesExt

\* Mutant: the new element is never compared with the head.
InsertPosBehindHead(q, el, key) ==
    IF q = << >>
    THEN 0
    ELSE CHOOSE i \in 1..Len(q) :
            /\ \A j \in 2..i : key[el] >= key[q[j]]
            /\ i = Len(q) \/ key[el] < key[q[i + 1]]

(***************************************************************************)
(* How many elements stay in front of "el": none when the list is empty or *)
(* el is smaller than its head; otherwise the walk starts on the first     *)
(* element and goes on while there is a next one that is not larger.       *)
(***************************************************************************)
InsertPos(q, el, key) ==
    IF q = << >> \/ key[el] < key[q[1]]
    THEN 0
    ELSE CHOOSE i \in 1..Len(q) :
            /\ \A j \in 2..i : key[el] >= key[q[j]]
            /\ i = Len(q) \/ key[el] < key[q[i + 1]]

\* queue_add_links and queue_add_server, without their mutex.
QueueAdd(q, el, key) == InsertAt(q, InsertPos(q, el, key) + 1, el)

(***************************************************************************)
(* queue_next_links and queue_next_server: on an empty list they return 0  *)
(* and leave the caller's variable (here "old") as it was.                 *)
(***************************************************************************)
QueueNext(q) == IF q = << >> THEN q ELSE Tail(q)

NextEl(q, old) == IF q = << >> THEN old ELSE Head(q)

\* The order queue.c is meant to keep: keys never decrease along the list.
KeySorted(q, key) == \A i, j \in 1..Len(q) : i < j => key[q[i]] <= key[q[j]]

=============================================================================
