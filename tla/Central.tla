------------------------------- MODULE Central -------------------------------
(***************************************************************************)
(* central.c: the server between the bot, the scrapping units and the      *)
(* virus checkers.  Three threads share one queue of links and two queues  *)
(* of ready servers, each with a mutex and a semaphore:                    *)
(*                                                                         *)
(*   unknown_links_gestion  receives links, classifies and queues them;    *)
(*   conn_infos_gestion     receives "ready" and queues the server;        *)
(*   links_attribution      takes the best link, then the fastest server   *)
(*                          of its kind, and sends one to the other.       *)
(*                                                                         *)
(* A step is what a thread does between two points where another thread    *)
(* can see the difference: a queue operation (atomic under its mutex, see  *)
(* LockedQueue), a semaphore operation, or one exchange on a socket.       *)
(* Received structures are abstracted to the fields the code looks at; a   *)
(* 64-bit field is abstracted to the byte order it is in.                  *)
(***************************************************************************)
EXTENDS PrioQueue

CONSTANTS
    Msgs,           \* Discord messages (channel_id, message_id)
    Urls,
    DiscordUrls,    \* urls that start with DISCORD_ATTACHMENTS_START
    TrustedUrls,    \* urls whose host is a trusted_host
    ImageUrls,      \* urls that end with an image extension
    Workers,        \* addresses (ip, port) of servers
    WireLinks,      \* what clients write on UNKNOWN_LINKS_PORT
    WireInfos,      \* what clients write on INFOS_PORT
    MaxLinks,       \* bound: links accepted
    MaxReady,       \* bound: "ready" messages accepted
    MaxDrops        \* bound: connections that die before their data arrives

MAX_DEPTH == 2

DEST_VIRUS_CHECKER == "DEST_VIRUS_CHECKER"
DEST_SCRAPPING_UNIT == "DEST_SCRAPPING_UNIT"
Destinations == {DEST_VIRUS_CHECKER, DEST_SCRAPPING_UNIT}

-----------------------------------------------------------------------------
(* Data *)

(* The byte order a 64-bit field is in.  For a password: "host" and "net"  *)
(* are CENTRAL_PASSWORD in that order, "other" is any other value.         *)
Orders == {"host", "net"}
Passwords == Orders \union {"other"}

\* socket_ntoh64 on a little-endian machine: it reverses the bytes, both ways.
ntoh64 == [o \in Passwords |->
             CASE o = "net" -> "host" [] o = "host" -> "net" [] OTHER -> "other"]

Links_data == [priority: Nat, file_certified: BOOLEAN, password: Passwords,
               ids: Orders, msg: Msgs, url: Urls]

Whats == {"VCHECKER_READY", "SCR_UNIT_READY", "UNKNOWN_WHAT"}

Conn_infos == [what: Whats, password: Passwords, port: Orders,
               avg_time: Nat, ip: Workers]

LinksEl  == [data: Links_data, destination: Destinations]
ServerEl == [ip: Workers, port: Orders, avg_time: Nat]

linkKey   == [e \in LinksEl |-> e.data.priority]
serverKey == [e \in ServerEl |-> e.avg_time]

\* A stack variable nothing has been received into yet.
UninitLink == [priority |-> 0, file_certified |-> FALSE, password |-> "other",
               ids |-> "host", msg |-> CHOOSE m \in Msgs : TRUE,
               url |-> CHOOSE u \in Urls : TRUE]
UninitInfos == [what |-> "UNKNOWN_WHAT", password |-> "other", port |-> "host",
                avg_time |-> 0, ip |-> CHOOSE w \in Workers : TRUE]
UninitLinksEl == [data |-> UninitLink, destination |-> DEST_VIRUS_CHECKER]
UninitServerEl == [ip |-> CHOOSE w \in Workers : TRUE, port |-> "host", avg_time |-> 0]

(***************************************************************************)
(* What the clients send: the password in network order, or not the        *)
(* password at all; with the password come ids (or a port) in network      *)
(* order.  Module Lifeguard checks that the bot and the workers do so.     *)
(***************************************************************************)
ASSUME SetsAssumption == Msgs # {} /\ Urls # {} /\ Workers # {}

ASSUME WireAssumption ==
    /\ WireLinks \subseteq { d \in Links_data : d.password # "host" /\ d.ids = "net" }
    /\ WireInfos \subseteq { i \in Conn_infos : i.password # "host" /\ i.port = "net" }

ASSUME BoundsAssumption == MaxLinks \in Nat /\ MaxReady \in Nat /\ MaxDrops \in Nat

-----------------------------------------------------------------------------
VARIABLES
    links_queue, links_sem,
    servers,      \* servers[k]: v_checkers_servers_root, scrp_unit_servers_root
    server_sem,   \* server_sem[k]: v_server_sem, s_server_sem
    u_pc, data,           \* unknown_links_gestion: control point, its Links_data
    i_pc, infos_data,     \* conn_infos_gestion: control point, its Conn_infos
    a_pc, links_el, server_el,  \* links_attribution: control point, its locals
    accepted, announced,  \* links and servers queued so far
    dispatched, burnt,    \* links sent, servers used up by a failed connection
    drops

unknownLinksVars == << u_pc, data >>
connInfosVars    == << i_pc, infos_data >>
attributionVars  == << a_pc, links_el, server_el >>
counters == << accepted, announced, dispatched, burnt, drops >>

vars == << links_queue, links_sem, servers, server_sem, unknownLinksVars,
           connInfosVars, attributionVars, counters >>

Init ==
    /\ links_queue = << >> /\ links_sem = 0
    /\ servers = [k \in Destinations |-> << >>]
    /\ server_sem = [k \in Destinations |-> 0]
    /\ u_pc = "accept" /\ data = UninitLink
    /\ i_pc = "accept" /\ infos_data = UninitInfos
    /\ a_pc = "links_wait" /\ links_el = UninitLinksEl /\ server_el = UninitServerEl
    /\ accepted = 0 /\ announced = 0 /\ dispatched = 0 /\ burnt = 0 /\ drops = 0

-----------------------------------------------------------------------------
(* unknown_links_gestion *)

\* Mutant: the ids are forgotten.
SwapPasswordOnly(d) == [d EXCEPT !.password = ntoh64[@]]

\* The three ntoh64 that follow every recv, successful or not.
SwapLink(d) == [d EXCEPT !.password = ntoh64[@], !.ids = ntoh64[@]]

\* A website goes to a scrapping unit, a file to a virus checker, and what is
\* too deep, trusted or an image goes nowhere.
Destination(d) ==
    LET website == ~d.file_certified /\ d.url \notin DiscordUrls
    IN  CASE website /\ d.priority <= MAX_DEPTH /\ d.url \notin TrustedUrls
               -> DEST_SCRAPPING_UNIT
          [] ~website /\ d.url \notin ImageUrls /\ d.priority <= MAX_DEPTH + 2
               -> DEST_VIRUS_CHECKER
          [] OTHER -> "nowhere"

\* Mutant: whatever comes with the password is queued.
IsForQueueAnyUrl(d) == d.password = "host"

IsForQueue(d) == d.password = "host" /\ Destination(d) \in Destinations

Examine(d) ==
    /\ u_pc = "accept"
    /\ accepted < MaxLinks
    /\ data' = SwapLink(d)
    /\ u_pc' = IF IsForQueue(data') THEN "add" ELSE "close"
    /\ UNCHANGED << links_queue, links_sem, servers, server_sem, connInfosVars,
                    attributionVars, accepted, announced, dispatched, burnt >>

RecvLink(d) == Examine(d) /\ UNCHANGED drops

\* recv fails and its result is ignored: the fields of the previous iteration
\* (or of nothing) that are still on the stack are swapped and examined again.
RecvLinkFails ==
    /\ drops < MaxDrops
    /\ drops' = drops + 1
    /\ \E stale \in {data, UninitLink} : Examine(stale)

AddLink ==
    /\ u_pc = "add"
    /\ u_pc' = "post"
    /\ links_queue' = QueueAdd(links_queue,
                               [data |-> data, destination |-> Destination(data)], linkKey)
    /\ accepted' = accepted + 1
    /\ UNCHANGED << links_sem, servers, server_sem, data, connInfosVars,
                    attributionVars, announced, dispatched, burnt, drops >>

PostLink ==
    /\ u_pc = "post"
    /\ u_pc' = "close"
    /\ links_sem' = links_sem + 1
    /\ UNCHANGED << links_queue, servers, server_sem, data, connInfosVars,
                    attributionVars, counters >>

\* TRANSFERT_OK is answered to whoever knows the password, then the socket is closed.
CloseLink ==
    /\ u_pc = "close"
    /\ u_pc' = "accept"
    /\ UNCHANGED << links_queue, links_sem, servers, server_sem, data, connInfosVars,
                    attributionVars, counters >>

-----------------------------------------------------------------------------
(* conn_infos_gestion *)

SwapInfos(i) == [i EXCEPT !.password = ntoh64[@], !.port = ntoh64[@]]

\* Mutant: every announcement that is not a checker's is a scrapping unit's.
ReadyKindByDefault(i) ==
    IF i.what = "VCHECKER_READY" THEN DEST_VIRUS_CHECKER ELSE DEST_SCRAPPING_UNIT

ReadyKind(i) ==
    CASE i.what = "VCHECKER_READY" -> DEST_VIRUS_CHECKER
      [] i.what = "SCR_UNIT_READY" -> DEST_SCRAPPING_UNIT
      [] OTHER -> "nowhere"

ExamineInfos(i) ==
    /\ i_pc = "accept"
    /\ announced < MaxReady
    /\ infos_data' = SwapInfos(i)
    /\ i_pc' = IF infos_data'.password = "host" /\ ReadyKind(infos_data') \in Destinations
               THEN "add" ELSE "close"
    /\ UNCHANGED << links_queue, links_sem, servers, server_sem, unknownLinksVars,
                    attributionVars, accepted, announced, dispatched, burnt >>

RecvInfos(i) == ExamineInfos(i) /\ UNCHANGED drops

RecvInfosFails ==
    /\ drops < MaxDrops
    /\ drops' = drops + 1
    /\ \E stale \in {infos_data, UninitInfos} : ExamineInfos(stale)

AddServer ==
    /\ i_pc = "add"
    /\ i_pc' = "post"
    /\ servers' = [servers EXCEPT ![ReadyKind(infos_data)] =
                     QueueAdd(@, [ip |-> infos_data.ip, port |-> infos_data.port,
                                  avg_time |-> infos_data.avg_time], serverKey)]
    /\ announced' = announced + 1
    /\ UNCHANGED << links_queue, links_sem, server_sem, unknownLinksVars, infos_data,
                    attributionVars, accepted, dispatched, burnt, drops >>

PostServer ==
    /\ i_pc = "post"
    /\ i_pc' = "close"
    /\ server_sem' = [server_sem EXCEPT ![ReadyKind(infos_data)] = @ + 1]
    /\ UNCHANGED << links_queue, links_sem, servers, unknownLinksVars, infos_data,
                    attributionVars, counters >>

CloseInfos ==
    /\ i_pc = "close"
    /\ i_pc' = "accept"
    /\ UNCHANGED << links_queue, links_sem, servers, server_sem, unknownLinksVars,
                    infos_data, attributionVars, counters >>

-----------------------------------------------------------------------------
(* links_attribution *)

WaitLink ==
    /\ a_pc = "links_wait"
    /\ links_sem > 0
    /\ links_sem' = links_sem - 1
    /\ a_pc' = "links_pop"
    /\ UNCHANGED << links_queue, servers, server_sem, unknownLinksVars, connInfosVars,
                    links_el, server_el, counters >>

TakeLink ==
    /\ a_pc = "links_pop"
    /\ links_el' = NextEl(links_queue, links_el)
    /\ links_queue' = QueueNext(links_queue)
    /\ a_pc' = "server_wait"
    /\ UNCHANGED << links_sem, servers, server_sem, unknownLinksVars, connInfosVars,
                    server_el, counters >>

WaitServer ==
    /\ a_pc = "server_wait"
    /\ server_sem[links_el.destination] > 0
    /\ server_sem' = [server_sem EXCEPT ![links_el.destination] = @ - 1]
    /\ a_pc' = "server_pop"
    /\ UNCHANGED << links_queue, links_sem, servers, unknownLinksVars, connInfosVars,
                    links_el, server_el, counters >>

\* Mutant: the chosen server stays in its queue.
TakeServerAndKeepIt ==
    /\ a_pc = "server_pop"
    /\ server_el' = NextEl(servers[links_el.destination], server_el)
    /\ a_pc' = "send"
    /\ UNCHANGED << links_queue, links_sem, servers, server_sem, unknownLinksVars,
                    connInfosVars, links_el, counters >>

TakeServer ==
    /\ a_pc = "server_pop"
    /\ server_el' = NextEl(servers[links_el.destination], server_el)
    /\ servers' = [servers EXCEPT ![links_el.destination] = QueueNext(@)]
    /\ a_pc' = "send"
    /\ UNCHANGED << links_queue, links_sem, server_sem, unknownLinksVars, connInfosVars,
                    links_el, counters >>

\* The structure send_to_analysis writes once it is connected.
Sent(el) == SwapLink(el.data)

SendLink ==
    /\ a_pc = "send"
    /\ a_pc' = "links_wait"
    /\ dispatched' = dispatched + 1
    /\ links_el' = [links_el EXCEPT !.data = Sent(links_el)]
    /\ UNCHANGED << links_queue, links_sem, servers, server_sem, unknownLinksVars,
                    connInfosVars, server_el, accepted, announced, burnt, drops >>

FailedTo(next) ==
    /\ a_pc = "send"
    /\ a_pc' = next
    /\ burnt' = burnt + 1
    /\ UNCHANGED << links_queue, links_sem, servers, server_sem, unknownLinksVars,
                    connInfosVars, server_el, accepted, announced, dispatched, drops >>

\* Mutants: the link is dropped, is announced without being queued again, or
\* has been put in network order before the connection was tried.
SendFailsGivesUp == FailedTo("links_wait") /\ UNCHANGED links_el
SendFailsPostsOnly == FailedTo("requeue_post") /\ UNCHANGED links_el
SendFailsSwapped == /\ FailedTo("requeue")
                    /\ links_el' = [links_el EXCEPT !.data = Sent(links_el)]

\* The connection fails: send_to_analysis returns before it changes the link.
SendFails == FailedTo("requeue") /\ UNCHANGED links_el

\* Mutant: the link is queued again and nobody told.
RequeueSilently ==
    /\ a_pc = "requeue"
    /\ links_queue' = QueueAdd(links_queue, links_el, linkKey)
    /\ a_pc' = "links_wait"
    /\ UNCHANGED << links_sem, servers, server_sem, unknownLinksVars, connInfosVars,
                    links_el, server_el, counters >>

Requeue ==
    /\ a_pc = "requeue"
    /\ links_queue' = QueueAdd(links_queue, links_el, linkKey)
    /\ a_pc' = "requeue_post"
    /\ UNCHANGED << links_sem, servers, server_sem, unknownLinksVars, connInfosVars,
                    links_el, server_el, counters >>

PostRequeued ==
    /\ a_pc = "requeue_post"
    /\ links_sem' = links_sem + 1
    /\ a_pc' = "links_wait"
    /\ UNCHANGED << links_queue, servers, server_sem, unknownLinksVars, connInfosVars,
                    links_el, server_el, counters >>

-----------------------------------------------------------------------------
UnknownLinksStep == AddLink \/ PostLink \/ CloseLink

ConnInfosStep == AddServer \/ PostServer \/ CloseInfos

AttributionStep == \/ WaitLink \/ TakeLink \/ WaitServer \/ TakeServer
                   \/ SendLink \/ SendFails \/ Requeue \/ PostRequeued

\* What the network brings.
Receive == \/ \E d \in WireLinks : RecvLink(d)
           \/ \E i \in WireInfos : RecvInfos(i)
           \/ RecvLinkFails \/ RecvInfosFails

Next == Receive \/ UnknownLinksStep \/ ConnInfosStep \/ AttributionStep

\* The scheduler runs each thread that is not blocked; nothing forces the
\* network to bring anything, and a failed send uses up one of the finitely
\* many announced servers.
Fairness == /\ WF_vars(UnknownLinksStep)
            /\ WF_vars(ConnInfosStep)
            /\ WF_vars(AttributionStep)

Spec == Init /\ [][Next]_vars /\ Fairness

-----------------------------------------------------------------------------
(* Properties *)

TypeOK ==
    /\ links_queue \in Seq(LinksEl) /\ links_sem \in Nat
    /\ servers \in [Destinations -> Seq(ServerEl)]
    /\ server_sem \in [Destinations -> Nat]
    /\ u_pc \in {"accept", "add", "post", "close"} /\ data \in Links_data
    /\ i_pc \in {"accept", "add", "post", "close"} /\ infos_data \in Conn_infos
    /\ a_pc \in {"links_wait", "links_pop", "server_wait", "server_pop", "send",
                 "requeue", "requeue_post"}
    /\ links_el \in LinksEl /\ server_el \in ServerEl
    /\ accepted \in 0..MaxLinks /\ announced \in 0..MaxReady
    /\ dispatched \in Nat /\ burnt \in Nat /\ drops \in 0..MaxDrops

(* What the two receiving threads hold, stale or fresh, has its 64-bit     *)
(* fields all in one byte order, and what they are about to queue has its  *)
(* password checked and a queue to go to (central.c:111-142, 174-194): the *)
(* reason why re-examined stale buffers do no harm to HostOrderInside.     *)
BuffersConsistent ==
    /\ data.password \in Orders => data.ids = data.password
    /\ infos_data.password \in Orders => infos_data.port = infos_data.password
    /\ u_pc = "add" => /\ data.password = "host" /\ accepted < MaxLinks
                       /\ Destination(data) \in Destinations
    /\ i_pc \in {"add", "post"} => /\ infos_data.password = "host"
                                  /\ ReadyKind(infos_data) \in Destinations
    /\ i_pc = "add" => announced < MaxReady

One(b) == IF b THEN 1 ELSE 0

\* The server of kind k has been added and its semaphore not yet posted.
PostOwed(k) == i_pc = "post" /\ ReadyKind(infos_data) = k

(* Each semaphore counts the elements of its queue that are not already    *)
(* promised to a thread between its sem_wait and its queue_next, less the  *)
(* elements added whose sem_post is still to come (central.c:66-78, 83-84, *)
(* 131-132, 140-141, 186-191): no element is announced twice or forgotten. *)
SemaphoresCountElements ==
    /\ links_sem + One(a_pc = "links_pop") + One(u_pc = "post")
                 + One(a_pc = "requeue_post") = Len(links_queue)
    /\ \A k \in Destinations :
          server_sem[k] + One(a_pc = "server_pop" /\ links_el.destination = k)
                        + One(PostOwed(k)) = Len(servers[k])

(* links_attribution ignores what queue_next_links and queue_next_server   *)
(* return (central.c:68, 73, 78): it must never call them on an empty      *)
(* queue, or it would send an uninitialised link or connect to an          *)
(* uninitialised address.                                                  *)
NeverPopsEmptyQueue ==
    /\ a_pc = "links_pop" => links_queue # << >>
    /\ a_pc = "server_pop" => servers[links_el.destination] # << >>

InAttribution == a_pc \in {"server_wait", "server_pop", "send", "requeue"}

(* Every accepted link is queued, held by links_attribution or dispatched, *)
(* and every accepted "ready" is queued, held, used for a dispatch or used *)
(* up by a failed connection: retries neither lose nor multiply any of     *)
(* them (central.c:59-87).                                                 *)
NothingLostOrDuplicated ==
    /\ accepted = Len(links_queue) + One(InAttribution) + dispatched
    /\ announced = Len(servers[DEST_VIRUS_CHECKER]) + Len(servers[DEST_SCRAPPING_UNIT])
                     + One(a_pc = "send") + dispatched + burnt

(* The queues stay sorted whatever order links, retries and announcements  *)
(* come in, so the head is the most urgent link and the fastest server     *)
(* (queue.c:19-40, 82-103).                                                *)
QueuesSorted ==
    /\ KeySorted(links_queue, linkKey)
    /\ \A k \in Destinations : KeySorted(servers[k], serverKey)

(* What waits is in host order, and what is about to be sent will be       *)
(* swapped exactly once: neither a failed send (central.c:42-50, 80-84)    *)
(* nor the re-examination of a stale buffer (central.c:111-114, 174-177)   *)
(* leaves a link or a port in the wrong byte order.                        *)
HostOrderInside ==
    LET Good(e) == e.data.password = "host" /\ e.data.ids = "host"
    IN  /\ \A i \in 1..Len(links_queue) : Good(links_queue[i])
        /\ InAttribution => Good(links_el)
        /\ \A k \in Destinations : \A i \in 1..Len(servers[k]) : servers[k][i].port = "host"
        /\ a_pc = "send" => server_el.port = "host"

\* e is the announcement some client made for servers of kind k.
AnnouncedFor(e, k) ==
    \E i \in WireInfos : /\ i.password = "net"
                         /\ i.what = (IF k = DEST_VIRUS_CHECKER
                                      THEN "VCHECKER_READY" ELSE "SCR_UNIT_READY")
                         /\ i.ip = e.ip /\ i.avg_time = e.avg_time

(* A link is sent only to a server that announced itself, with the         *)
(* password, as one of the kind the link is for (central.c:70-80, 183-194).*)
ServersAnnouncedTheirKind ==
    /\ \A k \in Destinations : \A i \in 1..Len(servers[k]) : AnnouncedFor(servers[k][i], k)
    /\ a_pc = "send" => AnnouncedFor(server_el, links_el.destination)

=============================================================================
