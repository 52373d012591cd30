------------------------------ MODULE Dispatcher ------------------------------
(***************************************************************************)
(* What central promises the bot and the workers, without threads, locks,  *)
(* semaphores or sockets: every link it accepts is kept until it is given  *)
(* to a ready server of its kind; links are picked by priority and servers *)
(* by speed; an announcement is used for one attempt only, and a link      *)
(* whose attempt failed goes back among the waiting ones.                  *)
(***************************************************************************)
EXTENDS Integers, BagsExt, Bags

CONSTANTS Links,          \* links, as they wait
          Servers,        \* announcements, as they wait
          Kinds,
          Kind(_),        \* the kind of server a link is for
          Priority(_),    \* smaller is more urgent
          AvgTime(_),     \* smaller is faster
          None            \* not a link, not a server

VARIABLES waiting,   \* bag of the links accepted and not yet picked
          idle,      \* idle[k]: bag of the servers of kind k announced and not used
          picked,    \* the link being attributed, or None
          grabbed    \* the server chosen for it, or None

vars == << waiting, idle, picked, grabbed >>

Init == /\ waiting = EmptyBag
        /\ idle = [k \in Kinds |-> EmptyBag]
        /\ picked = None
        /\ grabbed = None

Accept(l) == /\ waiting' = BagAdd(waiting, l)
             /\ UNCHANGED << idle, picked, grabbed >>

Announce(k, s) == /\ idle' = [idle EXCEPT ![k] = BagAdd(@, s)]
                  /\ UNCHANGED << waiting, picked, grabbed >>

\* The most urgent waiting link is next.
Pick == /\ picked = None
        /\ \E l \in BagToSet(waiting) :
              /\ \A m \in BagToSet(waiting) : Priority(l) <= Priority(m)
              /\ waiting' = BagRemove(waiting, l)
              /\ picked' = l
        /\ UNCHANGED << idle, grabbed >>

\* It gets the fastest server of its kind.
Grab == /\ picked # None /\ grabbed = None
        /\ \E s \in BagToSet(idle[Kind(picked)]) :
              /\ \A t \in BagToSet(idle[Kind(picked)]) : AvgTime(s) <= AvgTime(t)
              /\ idle' = [idle EXCEPT ![Kind(picked)] = BagRemove(@, s)]
              /\ grabbed' = s
        /\ UNCHANGED << waiting, picked >>

\* The link is sent to the server.
Assign == /\ grabbed # None
          /\ picked' = None /\ grabbed' = None
          /\ UNCHANGED << waiting, idle >>

\* The server cannot be reached: the link waits again, the server is forgotten.
GiveBack == /\ grabbed # None
            /\ waiting' = BagAdd(waiting, picked)
            /\ picked' = None /\ grabbed' = None
            /\ UNCHANGED idle

Next == \/ \E l \in Links : Accept(l)
        \/ \E k \in Kinds, s \in Servers : Announce(k, s)
        \/ Pick \/ Grab \/ Assign \/ GiveBack

Spec == Init /\ [][Next]_vars
             /\ WF_vars(Pick) /\ WF_vars(Grab) /\ WF_vars(Assign \/ GiveBack)

=============================================================================
