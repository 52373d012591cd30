-------------------------- MODULE CentralDispatches --------------------------
(***************************************************************************)
(* Central implements Dispatcher: the mapping, and the property TLC checks.*)
(***************************************************************************)
EXTENDS Central

CONSTANT Nobody   \* not a link, not a server

ASSUME NobodyAssumption == Nobody \notin LinksEl /\ Nobody \notin ServerEl

\* The links and the servers Central puts into its queues.
QueuedLinks == { [data |-> SwapLink(d), destination |-> Destination(d)] :
                    d \in { d \in WireLinks : Destination(d) \in Destinations } }
QueuedServers == { [ip |-> i.ip, port |-> "host", avg_time |-> i.avg_time] : i \in WireInfos }

Promise == INSTANCE Dispatcher WITH
    Links    <- QueuedLinks,
    Servers  <- QueuedServers,
    Kinds    <- Destinations,
    Kind     <- LAMBDA l : l.destination,
    Priority <- LAMBDA l : l.data.priority,
    AvgTime  <- LAMBDA s : s.avg_time,
    None     <- Nobody,
    waiting  <- ToBag(links_queue),
    idle     <- [k \in Destinations |-> ToBag(servers[k])],
    picked   <- IF InAttribution THEN links_el ELSE Nobody,
    grabbed  <- IF a_pc \in {"send", "requeue"} THEN server_el ELSE Nobody

(* Central keeps its promise: links and servers are neither lost nor       *)
(* multiplied one by one, the most urgent link meets the fastest ready     *)
(* server of its kind, a failed link waits again, and as long as a server  *)
(* of the picked link's kind is ready the link is attributed: no wake-up   *)
(* is lost between the queues and the semaphores (central.c:59-205).       *)
ImplementsDispatcher == Promise!Spec

=============================================================================
