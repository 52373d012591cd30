--------------------------- MODULE Lifeguard_proofs ---------------------------
(***************************************************************************)
(* The composed system, for any web, any workers and any number of faults. *)
(*                                                                         *)
(* Every step of the system is, for central, a step of module Central, a   *)
(* stutter or a new beginning (CentralAsAssumed), provided that what the   *)
(* clients write is sound; and what they write is sound because central    *)
(* hands on only what it was given.  The two facts are proved together:    *)
(* the inductive invariant is the conjunction of Central's own (Inv1, Sems *)
(* and LinksInHostOrder, from Central_proofs) with ClientsSound.           *)
(***************************************************************************)
EXTENDS Lifeguard, Central_proofs

\* The urls a link of priority p can hold: p - 1 clicks, but never more than
\* MAX_DEPTH, away from the message.
Trail(m, p) ==
    CASE p = 1 -> PostedIn(m) [] p = 2 -> Linked(PostedIn(m)) [] OTHER -> Within(m)

\* A structure that carries the password, in whatever order, holds a link that
\* stems from its message.
SoundLink(d) == d.password \in Orders => d.priority >= 1 /\ d.url \in Trail(d.msg, d.priority)

RoutedLink(e) == SoundLink(e.data) /\ Destination(e.data) = e.destination

LinksSound ==
    /\ SoundLink(data) /\ SoundLink(links_el.data)
    /\ \A i \in 1..Len(links_queue) : RoutedLink(links_queue[i])
    /\ InAttribution => RoutedLink(links_el)

\* The queue for the program at an address.
KindOf(w) == IF w \in Checkers THEN DEST_VIRUS_CHECKER ELSE DEST_SCRAPPING_UNIT

ServersSound ==
    /\ infos_data.password \in Orders => ReadyKind(infos_data) = KindOf(infos_data.ip)
    /\ \A k \in Destinations : \A i \in 1..Len(servers[k]) : KindOf(servers[k][i].ip) = k
    /\ a_pc = "send" => KindOf(server_el.ip) = links_el.destination

ControlPoints == {"announce", "accept", "job", "certify", "follow", "down"}

WorkersTyped == /\ w_pc \in [Workers -> ControlPoints]
                /\ w_data \in [Workers -> Links_data]
                /\ w_todo \in [Workers -> Seq(Urls)]

\* How deep a link a worker can be given.
Deepest(w) == IF w \in Checkers THEN MAX_DEPTH + 2 ELSE MAX_DEPTH

\* A worker's buffer, fresh or stale: its ids follow the password through the
\* swaps of a checker and stay in network order in a scrapping unit.
BufferSound(w, d) ==
    /\ SoundLink(d)
    /\ d.password \in Orders => /\ d.priority <= Deepest(w)
                                /\ d.ids = (IF w \in Checkers THEN d.password ELSE "net")

WorkerSound(w) ==
    /\ BufferSound(w, w_data[w])
    /\ w_pc[w] \in {"job", "certify", "follow"} => w_data[w].password = "host"
    /\ w_pc[w] \in {"certify", "follow"} => w \in Scrappers
    /\ w_pc[w] = "follow" =>
          \A i \in 1..Len(w_todo[w]) : w_todo[w][i] \in ToSet(Hrefs[w_data[w].url])

WorkersSound == WorkersTyped /\ \A w \in Workers : WorkerSound(w)

BotSound ==
    /\ bot_todo \in [Msgs -> Seq(PostedLink)]
    /\ \A m \in Msgs : \A i \in 1..Len(bot_todo[m]) : bot_todo[m][i].url \in PostedIn(m)

ReplySound(a) ==
    a \in Audit /\ a.ids = "net" /\ a.password = "net" /\ a.url \in Within(a.msg)

RepliesSound == \A a \in replies : ReplySound(a)

FaultsTyped == /\ crashes \in 0..MaxCrashes /\ lost \in 0..MaxLost
               /\ central_up \in BOOLEAN /\ stranded \subseteq Workers /\ fallen \subseteq Workers

ClientsSound ==
    LinksSound /\ ServersSound /\ WorkersSound /\ BotSound /\ RepliesSound /\ FaultsTyped

-----------------------------------------------------------------------------
(* Trails *)

LEMMA LinkedGrows ==
    ASSUME NEW U
    PROVE  /\ U \subseteq Linked(U)
           /\ \A u \in U : ToSet(Hrefs[u]) \subseteq Linked(U)
BY DEF Linked

LEMMA TrailProperties ==
    ASSUME NEW m, NEW p \in Nat, p >= 1
    PROVE  /\ Trail(m, p) \subseteq Trail(m, p + 1)
           /\ p <= MAX_DEPTH =>
                 \A u \in Trail(m, p) : ToSet(Hrefs[u]) \subseteq Trail(m, p + 1)
           /\ Trail(m, p) \subseteq Within(m)
           /\ PostedIn(m) = Trail(m, 1)
<1> DEFINE A == PostedIn(m)
           B == Linked(A)
           C == Linked(B)
<1>1. A \subseteq B /\ B \subseteq C
    BY LinkedGrows
<1>2. /\ \A u \in A : ToSet(Hrefs[u]) \subseteq B
      /\ \A u \in B : ToSet(Hrefs[u]) \subseteq C
    BY LinkedGrows
<1>3. Within(m) = C
    BY DEF Within
<1>4. \A n \in Nat : Trail(m, n) = IF n = 1 THEN A ELSE IF n = 2 THEN B ELSE C
    BY <1>3 DEF Trail
<1> HIDE DEF A, B, C
<1>5. PostedIn(m) = A
    BY DEF A
<1>6. CASE p = 1
    BY <1>1, <1>2, <1>3, <1>4, <1>5, <1>6
<1>7. CASE p = 2
    BY <1>1, <1>2, <1>3, <1>4, <1>5, <1>7
<1>8. CASE p > 2
    BY <1>3, <1>4, <1>5, <1>8 DEF MAX_DEPTH
<1> QED
    BY <1>6, <1>7, <1>8

\* Swapping the 64-bit fields changes neither what a link is nor where it goes.
LEMMA SwapKeepsLink ==
    ASSUME NEW d \in Links_data
    PROVE  /\ SwapLink(d) \in Links_data
           /\ SwapLink(d).priority = d.priority /\ SwapLink(d).url = d.url
           /\ SwapLink(d).msg = d.msg
           /\ SoundLink(d) => SoundLink(SwapLink(d))
<1>1. /\ SwapLink(d) \in Links_data /\ SwapLink(d).password = ntoh64[d.password]
    BY SwapLinkProperties
<1>2. /\ SwapLink(d).priority = d.priority /\ SwapLink(d).url = d.url
      /\ SwapLink(d).msg = d.msg
    BY DEF SwapLink, Links_data
<1>3. d.password \in Passwords /\ (ntoh64[d.password] \in Orders => d.password \in Orders)
  <2>1. d.password \in Passwords
      BY DEF Links_data
  <2> QED
      BY <2>1, NtohProperties DEF Passwords, Orders
<1> QED
    BY <1>1, <1>2, <1>3 DEF SoundLink

LEMMA UninitSound == SoundLink(UninitLink) /\ UninitInfos.password \notin Orders
BY DEF SoundLink, UninitLink, UninitInfos, Orders

-----------------------------------------------------------------------------
(* What central sees of a step *)

\* What a worker announces is among what central's clients may write.
SoundReady(i) == i \in WireInfos /\ i.password = "net" /\ ReadyKind(i) = KindOf(i.ip)

(* The steps the system takes in central's variables.                      *)
CentralStep ==
    \/ \E d \in WireLinks : SoundLink(d) /\ RecvLink(d)
    \/ \E i \in WireInfos : SoundReady(i) /\ RecvInfos(i)
    \/ RecvLinkFails \/ RecvInfosFails
    \/ UnknownLinksStep \/ ConnInfosStep \/ AttributionStep
    \/ UNCHANGED vars
    \/ Init'

LEMMA CentralStepIsNext == CentralStep => [Next \/ Init']_vars
BY DEF CentralStep, Next, Receive

LEMMA RecvKeepsLinksSound ==
    ASSUME LinksSound, NEW d \in Links_data, SoundLink(d), Examine(d)
    PROVE  LinksSound'
<1>1. /\ data' = SwapLink(d)
      /\ UNCHANGED << links_queue, a_pc, links_el >>
    BY DEF Examine, IsForQueue, attributionVars
<1>2. SoundLink(data')
    BY <1>1, SwapKeepsLink
<1> QED
    BY <1>1, <1>2 DEF LinksSound, InAttribution, SoundLink, RoutedLink

LEMMA AddedLinkIsSound ==
    ASSUME NEW q \in Seq(LinksEl), NEW el \in LinksEl, RoutedLink(el),
           \A i \in 1..Len(q) : RoutedLink(q[i])
    PROVE  \A i \in 1..Len(QueueAdd(q, el, linkKey)) : RoutedLink(QueueAdd(q, el, linkKey)[i])
<1> TAKE i \in 1..Len(QueueAdd(q, el, linkKey))
<1>1. \/ QueueAdd(q, el, linkKey)[i] = el
      \/ \E j \in 1..Len(q) : QueueAdd(q, el, linkKey)[i] = q[j]
    BY AddedLinks
<1> QED
    BY <1>1

(* What central holds stems from the messages it was given the links of,   *)
(* and lies in the queue, or in the hands, for its kind.                   *)
LEMMA LinksSoundStep ==
    Inv1 /\ NeverPopsEmptyQueue /\ LinksSound /\ CentralStep => LinksSound'
<1> SUFFICES ASSUME Inv1, NeverPopsEmptyQueue, LinksSound, CentralStep PROVE LinksSound'
    OBVIOUS
<1>1. /\ data \in Links_data /\ links_queue \in Seq(LinksEl) /\ links_el \in LinksEl
      /\ links_el.data \in Links_data
    BY DEF Inv1, TypeOK, LinksEl
<1>2. ASSUME NEW d \in WireLinks, SoundLink(d), RecvLink(d) PROVE LinksSound'
  <2>1. d \in Links_data
      BY WireAssumption
  <2> QED
      BY <1>2, <2>1, RecvKeepsLinksSound DEF RecvLink
<1>3. CASE RecvLinkFails
  <2>1. PICK stale \in {data, UninitLink} : Examine(stale)
      BY <1>3 DEF RecvLinkFails
  <2>2. stale \in Links_data /\ SoundLink(stale)
      BY <1>1, <2>1, UninitTypes, UninitSound DEF LinksSound
  <2> QED
      BY <2>1, <2>2, RecvKeepsLinksSound
<1>4. CASE AddLink
  <2> DEFINE el == [data |-> data, destination |-> Destination(data)]
  <2>1. el \in LinksEl /\ RoutedLink(el)
      BY <1>1, <1>4, ElementTypes DEF AddLink, Inv1, BuffersConsistent, LinksSound, RoutedLink
  <2>2. /\ links_queue' = QueueAdd(links_queue, el, linkKey)
        /\ UNCHANGED << data, a_pc, links_el >>
      BY <1>4 DEF AddLink, attributionVars
  <2> HIDE DEF el
  <2>3. \A i \in 1..Len(links_queue') : RoutedLink(links_queue'[i])
      BY <1>1, <2>1, <2>2, AddedLinkIsSound DEF LinksSound
  <2>4. \A i \in 1..Len(links_queue') : RoutedLink(links_queue[i])'
      BY <2>3 DEF RoutedLink, SoundLink
  <2> QED
      BY <2>2, <2>4 DEF LinksSound, InAttribution, SoundLink, RoutedLink
<1>5. CASE Requeue
  <2>1. /\ a_pc = "requeue" /\ a_pc' = "requeue_post"
        /\ links_queue' = QueueAdd(links_queue, links_el, linkKey)
        /\ UNCHANGED << data, links_el >>
      BY <1>5 DEF Requeue, unknownLinksVars
  <2>2. RoutedLink(links_el)
      BY <2>1 DEF LinksSound, InAttribution
  <2>3. \A i \in 1..Len(links_queue') : RoutedLink(links_queue'[i])
      BY <1>1, <2>1, <2>2, AddedLinkIsSound DEF LinksSound
  <2>4. \A i \in 1..Len(links_queue') : RoutedLink(links_queue[i])'
      BY <2>3 DEF RoutedLink, SoundLink
  <2> QED
      BY <2>1, <2>4 DEF LinksSound, InAttribution, SoundLink
<1>6. CASE TakeLink
  <2>1. links_queue # << >> /\ UNCHANGED data
      BY <1>6 DEF TakeLink, NeverPopsEmptyQueue, unknownLinksVars
  <2>2. /\ links_el' = links_queue[1]
        /\ Len(links_queue') = Len(links_queue) - 1
        /\ \A i \in 1..Len(links_queue') : links_queue'[i] = links_queue[i + 1]
      BY <1>1, <1>6, <2>1, QueueNextShape DEF TakeLink
  <2>3. Len(links_queue) \in Nat \ {0}
      BY <1>1, <2>1, EmptySeq
  <2>4. RoutedLink(links_el')
      BY <2>2, <2>3 DEF LinksSound
  <2>5. \A i \in 1..Len(links_queue') : RoutedLink(links_queue'[i])
    <3> TAKE i \in 1..Len(links_queue')
    <3>1. i + 1 \in 1..Len(links_queue)
        BY <2>2, <2>3
    <3> QED
        BY <2>2, <3>1 DEF LinksSound
  <2>6. \A i \in 1..Len(links_queue') : RoutedLink(links_queue[i])'
      BY <2>5 DEF RoutedLink, SoundLink
  <2> QED
      BY <2>1, <2>4, <2>6 DEF LinksSound, RoutedLink, SoundLink
<1>7. CASE SendLink
  <2>1. /\ links_el' = [links_el EXCEPT !.data = SwapLink(links_el.data)]
        /\ a_pc' = "links_wait" /\ UNCHANGED << data, links_queue >>
      BY <1>7 DEF SendLink, Sent, unknownLinksVars
  <2>2. links_el'.data = SwapLink(links_el.data)
      BY <1>1, <2>1 DEF LinksEl
  <2>3. SoundLink(links_el'.data)
      BY <1>1, <2>2, SwapKeepsLink DEF LinksSound
  <2> QED
      BY <2>1, <2>3 DEF LinksSound, InAttribution, SoundLink, RoutedLink
<1>8. CASE Init'
  <2>1. data' = UninitLink /\ links_el'.data = UninitLink
      BY <1>8 DEF Init, UninitLinksEl
  <2>2. Len(links_queue') = 0 /\ a_pc' = "links_wait"
      BY <1>8, EmptySeq DEF Init
  <2> QED
      BY <2>1, <2>2, UninitSound DEF LinksSound, InAttribution, SoundLink
<1>9. ASSUME UNCHANGED << data, links_queue, links_el >>, InAttribution' => InAttribution
      PROVE  LinksSound'
    BY <1>9 DEF LinksSound, SoundLink, RoutedLink
<1>10. \/ \E d \in WireLinks : SoundLink(d) /\ RecvLink(d)
       \/ RecvLinkFails \/ AddLink \/ Requeue \/ TakeLink \/ SendLink \/ Init'
       \/ UNCHANGED << data, links_queue, links_el >> /\ (InAttribution' => InAttribution)
    BY DEF CentralStep, RecvInfos, RecvInfosFails, ExamineInfos, UnknownLinksStep, PostLink,
       CloseLink, ConnInfosStep, AddServer, PostServer, CloseInfos, AttributionStep, WaitLink,
       WaitServer, TakeServer, SendFails, FailedTo, PostRequeued, vars, attributionVars,
       unknownLinksVars, InAttribution
<1> QED
    BY <1>2, <1>3, <1>4, <1>5, <1>6, <1>7, <1>8, <1>9, <1>10

LEMMA RecvKeepsServersSound ==
    ASSUME ServersSound, NEW i \in Conn_infos, ExamineInfos(i),
           i.password \in Orders => ReadyKind(i) = KindOf(i.ip)
    PROVE  ServersSound'
<1>1. /\ infos_data' = SwapInfos(i) /\ UNCHANGED << servers, a_pc, server_el, links_el >>
    BY DEF ExamineInfos, attributionVars
<1>2. SwapInfos(i).password = ntoh64[i.password]
    BY SwapInfosProperties
<1>3. SwapInfos(i).what = i.what /\ SwapInfos(i).ip = i.ip
    BY DEF SwapInfos, Conn_infos
<1>4. ntoh64[i.password] \in Orders => i.password \in Orders
  <2>1. i.password \in Passwords
      BY DEF Conn_infos
  <2> QED
      BY <2>1, NtohProperties DEF Passwords, Orders
<1>5. ReadyKind(infos_data') = ReadyKind(i)
    BY <1>1, <1>3 DEF ReadyKind
<1>6. infos_data'.password \in Orders => ReadyKind(infos_data') = KindOf(infos_data'.ip)
    BY <1>1, <1>2, <1>3, <1>4, <1>5
<1> QED
    BY <1>1, <1>6 DEF ServersSound, KindOf, ReadyKind

(* Each queue of servers holds programs of its kind only, and the chosen   *)
(* one is of the kind of the link.                                         *)
LEMMA ServersSoundStep ==
    Inv1 /\ NeverPopsEmptyQueue /\ ServersSound /\ CentralStep => ServersSound'
<1> SUFFICES ASSUME Inv1, NeverPopsEmptyQueue, ServersSound, CentralStep PROVE ServersSound'
    OBVIOUS
<1>1. /\ servers \in [Destinations -> Seq(ServerEl)] /\ links_el.destination \in Destinations
      /\ infos_data \in Conn_infos
    BY DEF Inv1, TypeOK, LinksEl
<1>2. ASSUME NEW i \in WireInfos, SoundReady(i), RecvInfos(i) PROVE ServersSound'
  <2>1. i \in Conn_infos
      BY WireAssumption
  <2> QED
      BY <1>2, <2>1, RecvKeepsServersSound DEF RecvInfos, SoundReady
<1>3. CASE RecvInfosFails
  <2>1. PICK stale \in {infos_data, UninitInfos} : ExamineInfos(stale)
      BY <1>3 DEF RecvInfosFails
  <2>2. stale \in Conn_infos
      BY <1>1, <2>1, UninitTypes
  <2>3. stale.password \in Orders => ReadyKind(stale) = KindOf(stale.ip)
      BY <2>1, UninitSound DEF ServersSound
  <2> QED
      BY <2>1, <2>2, <2>3, RecvKeepsServersSound
<1>4. CASE AddServer
  <2> DEFINE j == ReadyKind(infos_data)
             s == [ip |-> infos_data.ip, port |-> infos_data.port,
                   avg_time |-> infos_data.avg_time]
             r == QueueAdd(servers[j], s, serverKey)
  <2>1. j \in Destinations /\ s \in ServerEl
      BY <1>4, ElementTypes DEF AddServer, Inv1, TypeOK, BuffersConsistent
  <2>2. KindOf(s.ip) = j
      BY <1>4 DEF AddServer, Inv1, BuffersConsistent, ServersSound, Orders
  <2>3. /\ servers' = [servers EXCEPT ![j] = r]
        /\ UNCHANGED << infos_data, a_pc, server_el, links_el >>
      BY <1>4 DEF AddServer, attributionVars
  <2> HIDE DEF j, s
  <2>4. servers[j] \in Seq(ServerEl)
      BY <1>1, <2>1
  <2>5. ASSUME NEW i \in 1..Len(r)
        PROVE  r[i] = s \/ \E m \in 1..Len(servers[j]) : r[i] = servers[j][m]
      BY <2>1, <2>4, AddedServers
  <2> HIDE DEF r
  <2>6. \A i \in 1..Len(r) : KindOf(r[i].ip) = j
      BY <2>1, <2>2, <2>5 DEF ServersSound
  <2>7. ASSUME NEW k \in Destinations
        PROVE  \A i \in 1..Len(servers'[k]) : KindOf(servers'[k][i].ip) = k
    <3>1. servers'[k] = IF k = j THEN r ELSE servers[k]
        BY <1>1, <2>3
    <3> QED
        BY <2>6, <3>1 DEF ServersSound
  <2>8. \A k \in Destinations : \A i \in 1..Len(servers'[k]) : KindOf(servers[k][i].ip)' = k
      BY <2>7 DEF KindOf
  <2> QED
      BY <2>3, <2>8 DEF ServersSound, KindOf, ReadyKind
<1>5. CASE TakeServer
  <2> DEFINE j == links_el.destination
             r == QueueNext(servers[j])
  <2>1. /\ servers' = [servers EXCEPT ![j] = r] /\ server_el' = NextEl(servers[j], server_el)
        /\ a_pc = "server_pop" /\ j \in Destinations /\ UNCHANGED << infos_data, links_el >>
      BY <1>1, <1>5 DEF TakeServer, connInfosVars
  <2>2. servers[j] \in Seq(ServerEl) /\ servers[j] # << >>
      BY <1>1, <2>1 DEF NeverPopsEmptyQueue
  <2>3. /\ Len(r) = Len(servers[j]) - 1
        /\ \A i \in 1..Len(r) : r[i] = servers[j][i + 1]
        /\ server_el' = servers[j][1]
      BY <2>1, <2>2, QueueNextShape
  <2>4. Len(servers[j]) \in Nat \ {0}
      BY <2>2, EmptySeq
  <2>5. links_el'.destination = j
      BY <2>1
  <2> HIDE DEF j, r
  <2>6. KindOf(server_el'.ip) = j
      BY <2>1, <2>3, <2>4 DEF ServersSound
  <2>7. \A i \in 1..Len(r) : KindOf(r[i].ip) = j
    <3> TAKE i \in 1..Len(r)
    <3>1. i + 1 \in 1..Len(servers[j])
        BY <2>3, <2>4
    <3> QED
        BY <2>1, <2>3, <3>1 DEF ServersSound
  <2>8. ASSUME NEW k \in Destinations
        PROVE  \A i \in 1..Len(servers'[k]) : KindOf(servers'[k][i].ip) = k
    <3>1. servers'[k] = IF k = j THEN r ELSE servers[k]
        BY <1>1, <2>1
    <3> QED
        BY <2>7, <3>1 DEF ServersSound
  <2>9. \A k \in Destinations : \A i \in 1..Len(servers'[k]) : KindOf(servers[k][i].ip)' = k
      BY <2>8 DEF KindOf
  <2> QED
      BY <2>1, <2>5, <2>6, <2>9 DEF ServersSound, KindOf, ReadyKind
<1>6. CASE SendLink
  <2>1. /\ a_pc' = "links_wait" /\ UNCHANGED << servers, infos_data >>
      BY <1>6 DEF SendLink, connInfosVars
  <2> QED
      BY <2>1 DEF ServersSound, KindOf, ReadyKind
<1>7. CASE Init'
  <2>1. /\ infos_data' = UninitInfos /\ a_pc' = "links_wait"
        /\ \A k \in Destinations : Len(servers'[k]) = 0
      BY <1>7, EmptySeq DEF Init
  <2> QED
      BY <2>1, UninitSound DEF ServersSound
<1>8. ASSUME UNCHANGED << servers, infos_data >>,
             a_pc' = "send" => a_pc = "send" /\ UNCHANGED << server_el, links_el >>
      PROVE  ServersSound'
    BY <1>8 DEF ServersSound, KindOf, ReadyKind
<1>9. \/ \E i \in WireInfos : SoundReady(i) /\ RecvInfos(i)
      \/ RecvInfosFails \/ AddServer \/ TakeServer \/ SendLink \/ Init'
      \/ /\ UNCHANGED << servers, infos_data >>
         /\ a_pc' = "send" => a_pc = "send" /\ UNCHANGED << server_el, links_el >>
    BY DEF CentralStep, RecvLink, RecvLinkFails, Examine, UnknownLinksStep, AddLink, PostLink,
       CloseLink, ConnInfosStep, PostServer, CloseInfos, AttributionStep, WaitLink, TakeLink,
       WaitServer, SendFails, FailedTo, Requeue, PostRequeued, vars, attributionVars,
       connInfosVars
<1> QED
    BY <1>2, <1>3, <1>4, <1>5, <1>6, <1>7, <1>8, <1>9

\* Central's inductive invariant, under the steps the system makes it take.
CentralSound == Inv1 /\ Sems /\ LinksInHostOrder

LEMMA CentralSoundInit == Init => CentralSound
BY Inv1Init, SemsInit, HostOrderInit DEF CentralSound

LEMMA CentralSoundStep == CentralSound /\ [Next \/ Init']_vars => CentralSound'
<1>1. Init' => CentralSound'
    BY CentralSoundInit, PTL
<1>2. CentralSound /\ [Next]_vars => CentralSound'
    BY Inv1Step, SemsStep, SemsImplyNonEmpty, LinksHostOrderStep DEF CentralSound
<1> QED
    BY <1>1, <1>2

-----------------------------------------------------------------------------
(* What the clients write *)

\* A link in the hands of somebody who knows the password.
LEMMA WireLink ==
    ASSUME NEW d \in Links_data, d.priority \in 1..(MAX_DEPTH + 3), d.password = "net",
           d.ids = "net"
    PROVE  d \in WireLinks
<1>1. d \in [priority: 1..(MAX_DEPTH + 3), file_certified: BOOLEAN, password: {"net"},
             ids: {"net"}, msg: Msgs, url: Urls]
    BY DEF Links_data
<1> QED
    BY <1>1, ClientsAssumption

LEMMA WriteIsCentralStep ==
    ASSUME FaultsTyped, NEW d \in WireLinks, SoundLink(d), WriteLink(d)
    PROVE  CentralStep /\ lost' \in 0..MaxLost
<1>1. lost' \in 0..MaxLost
    BY FaultsAssumption DEF WriteLink, ConnectionFails, FaultsTyped
<1>2. CentralStep
    BY DEF WriteLink, CentralStep
<1> QED
    BY <1>1, <1>2

\* on_message sends what was posted (lifeguard-bot.py:27-34).
LEMMA FromBotIsSound ==
    ASSUME NEW m \in Msgs, NEW l \in PostedLink, l.url \in PostedIn(m)
    PROVE  FromBot(m, l) \in WireLinks /\ SoundLink(FromBot(m, l))
<1> DEFINE d == FromBot(m, l)
<1>1. /\ d \in Links_data /\ d.priority = 1 /\ d.password = "net" /\ d.ids = "net"
      /\ d.msg = m /\ d.url = l.url
    BY DEF FromBot, Links_data, PostedLink, Passwords, Orders
<1> HIDE DEF d
<1>2. d \in WireLinks
    BY <1>1, WireLink DEF MAX_DEPTH
<1>3. SoundLink(d)
    BY <1>1, TrailProperties DEF SoundLink
<1> QED
    BY <1>2, <1>3 DEF d

\* send_url: the page's own url or one of its links, one level deeper.
LEMMA FoundUrlIsSound ==
    ASSUME NEW w \in Scrappers, NEW d \in Links_data, BufferSound(w, d), d.password = "host",
           NEW u \in Urls, u = d.url \/ u \in ToSet(Hrefs[d.url])
    PROVE  FoundUrl(d, u) \in WireLinks /\ SoundLink(FoundUrl(d, u))
<1> DEFINE e == FoundUrl(d, u)
<1>1. d.priority \in Nat /\ d.ids = "net" /\ d.priority >= 1 /\ d.priority <= MAX_DEPTH
      /\ d.url \in Trail(d.msg, d.priority)
    BY WorkersAssumption DEF BufferSound, SoundLink, Deepest, Orders, Links_data
<1>2. /\ e \in Links_data /\ e.priority = d.priority + 1 /\ e.password = "net"
      /\ e.ids = "net" /\ e.msg = d.msg /\ e.url = u
  <2> DEFINE f == [d EXCEPT !.priority = d.priority + 1]
             g == [f EXCEPT !.password = "net"]
  <2>1. /\ f \in Links_data /\ f.priority = d.priority + 1
        /\ f.ids = d.ids /\ f.msg = d.msg
      BY <1>1 DEF Links_data
  <2> HIDE DEF f
  <2>2. /\ g \in Links_data /\ g.priority = f.priority /\ g.password = "net"
        /\ g.ids = f.ids /\ g.msg = f.msg
      BY <2>1 DEF Links_data, Passwords, Orders
  <2>3. e = [g EXCEPT !.url = u]
      BY DEF FoundUrl, f
  <2> HIDE DEF g, e
  <2> QED
      BY <1>1, <2>1, <2>2, <2>3 DEF Links_data
<1> HIDE DEF e
<1>3. e \in WireLinks
    BY <1>1, <1>2, WireLink DEF MAX_DEPTH
<1>4. u \in Trail(d.msg, d.priority + 1)
    BY <1>1, TrailProperties
<1>5. SoundLink(e)
    BY <1>1, <1>2, <1>4 DEF SoundLink
<1> QED
    BY <1>3, <1>5 DEF e

\* resend_url: the ids back in network order, one level deeper.
LEMMA ResentIsSound ==
    ASSUME NEW w \in Checkers, NEW d \in Links_data, BufferSound(w, d), d.password = "host"
    PROVE  Resent(d) \in WireLinks /\ SoundLink(Resent(d))
<1> DEFINE e == Resent(d)
<1>1. d.priority \in Nat /\ d.ids = "host" /\ d.priority >= 1 /\ d.priority <= MAX_DEPTH + 2
      /\ d.url \in Trail(d.msg, d.priority)
    BY DEF BufferSound, SoundLink, Deepest, Orders, Links_data
<1>2. ntoh64["host"] = "net"
    BY NtohProperties
<1>3. /\ e \in Links_data /\ e.priority = d.priority + 1 /\ e.password = "net"
      /\ e.ids = "net" /\ e.msg = d.msg /\ e.url = d.url
  <2> DEFINE f == [d EXCEPT !.priority = d.priority + 1]
             g == [f EXCEPT !.password = "net"]
  <2>1. /\ f \in Links_data /\ f.priority = d.priority + 1
        /\ f.ids = d.ids /\ f.msg = d.msg /\ f.url = d.url
      BY <1>1 DEF Links_data
  <2> HIDE DEF f
  <2>2. /\ g \in Links_data /\ g.priority = f.priority /\ g.password = "net"
        /\ g.ids = f.ids /\ g.msg = f.msg /\ g.url = f.url
      BY <2>1 DEF Links_data, Passwords, Orders
  <2>3. e = [g EXCEPT !.ids = ntoh64[d.ids]]
      BY DEF Resent, f
  <2> HIDE DEF g, e
  <2> QED
      BY <1>1, <1>2, <2>1, <2>2, <2>3 DEF Links_data, Orders
<1> HIDE DEF e
<1>4. e \in WireLinks
    BY <1>1, <1>3, WireLink DEF MAX_DEPTH
<1>5. d.url \in Trail(d.msg, d.priority + 1)
    BY <1>1, TrailProperties
<1>6. SoundLink(e)
    BY <1>1, <1>3, <1>5 DEF SoundLink
<1> QED
    BY <1>4, <1>6 DEF e

\* send_audit_to_bot: ids and password in network order, for the link's message.
LEMMA AuditIsSound ==
    ASSUME NEW w \in Checkers, NEW d \in Links_data, BufferSound(w, d), d.password = "host"
    PROVE  ReplySound(AuditOf(d))
<1>1. d.priority \in Nat /\ d.ids = "host" /\ d.priority >= 1
      /\ d.url \in Trail(d.msg, d.priority)
    BY DEF BufferSound, SoundLink, Orders, Links_data
<1>2. ntoh64["host"] = "net"
    BY NtohProperties
<1>3. d.url \in Within(d.msg)
    BY <1>1, TrailProperties
<1> QED
    BY <1>1, <1>2, <1>3 DEF ReplySound, AuditOf, Audit, Links_data, Passwords, Orders

LEMMA ReadyIsSound ==
    ASSUME NEW w \in Workers, NEW t \in Times
    PROVE  ReadyInfos(w, t) \in WireInfos /\ SoundReady(ReadyInfos(w, t))
<1>1. ReadyInfos(w, t) \in [what: {"VCHECKER_READY", "SCR_UNIT_READY"}, password: {"net"},
                            port: {"net"}, avg_time: Times, ip: Workers]
    BY DEF ReadyInfos
<1>2. ReadyInfos(w, t) \in WireInfos
    BY <1>1, ClientsAssumption
<1>3. ReadyKind(ReadyInfos(w, t)) = KindOf(w)
    BY DEF ReadyKind, ReadyInfos, KindOf
<1> QED
    BY <1>2, <1>3 DEF SoundReady, ReadyInfos

-----------------------------------------------------------------------------
(* What a worker receives *)

LEMMA DepthOfDestination ==
    ASSUME NEW d \in Links_data, NEW w, Destination(d) = KindOf(w)
    PROVE  d.priority <= Deepest(w)
BY DEF Destination, KindOf, Deepest, DEST_VIRUS_CHECKER, DEST_SCRAPPING_UNIT, Links_data,
   MAX_DEPTH

\* The link of send_to_analysis (central.c:48-57).
LEMMA FreshBufferIsSound ==
    ASSUME CentralSound, LinksSound, ServersSound, a_pc = "send"
    PROVE  /\ SwapReceived(server_el.ip, Sent(links_el)) \in Links_data
           /\ BufferSound(server_el.ip, SwapReceived(server_el.ip, Sent(links_el)))
<1> DEFINE w == server_el.ip
           d == links_el.data
           s == Sent(links_el)
           r == SwapReceived(w, s)
<1>1. d \in Links_data /\ RoutedLink(links_el) /\ GoodLink(links_el)
    BY DEF CentralSound, Inv1, TypeOK, LinksEl, LinksSound, LinksInHostOrder, InAttribution
<1>2. d.password = "host" /\ d.ids = "host" /\ Destination(d) = KindOf(w)
    BY <1>1 DEF GoodLink, RoutedLink, ServersSound
<1>3. d.priority <= Deepest(w) /\ d.priority >= 1 /\ d.url \in Trail(d.msg, d.priority)
    BY <1>1, <1>2, DepthOfDestination DEF RoutedLink, SoundLink, Orders
<1>4. /\ s \in Links_data /\ s.password = "net" /\ s.ids = "net"
      /\ s.priority = d.priority /\ s.url = d.url /\ s.msg = d.msg
    BY <1>1, <1>2, SwapLinkProperties, SwapKeepsLink, NtohProperties DEF Sent
<1> HIDE DEF s, d, w
<1>5. CASE w \in Checkers
  <2>1. /\ r \in Links_data /\ r.password = "host" /\ r.ids = "host"
        /\ r.priority = s.priority /\ r.url = s.url /\ r.msg = s.msg
      BY <1>4, <1>5, SwapLinkProperties, SwapKeepsLink, NtohProperties DEF SwapReceived
  <2> QED
      BY <1>3, <1>4, <1>5, <2>1 DEF BufferSound, SoundLink, w, s
<1>6. CASE w \notin Checkers
  <2>1. r = [s EXCEPT !.password = "host"]
      BY <1>4, <1>6, NtohProperties DEF SwapReceived
  <2>2. /\ r \in Links_data /\ r.password = "host" /\ r.ids = "net"
        /\ r.priority = s.priority /\ r.url = s.url /\ r.msg = s.msg
      BY <1>4, <2>1 DEF Links_data, Passwords, Orders
  <2> QED
      BY <1>3, <1>4, <1>6, <2>2 DEF BufferSound, SoundLink, w, s
<1> QED
    BY <1>5, <1>6

\* recv has read nothing: what the buffer held is swapped once more.
LEMMA StaleBufferIsSound ==
    ASSUME NEW w, NEW d \in Links_data, BufferSound(w, d)
    PROVE  SwapReceived(w, d) \in Links_data /\ BufferSound(w, SwapReceived(w, d))
<1> DEFINE r == SwapReceived(w, d)
<1>1. /\ d.password \in Passwords
      /\ ntoh64[d.password] \in Passwords
      /\ ntoh64[d.password] \in Orders => d.password \in Orders
  <2>1. d.password \in Passwords
      BY DEF Links_data
  <2> QED
      BY <2>1, NtohProperties DEF Passwords, Orders
<1>2. CASE w \in Checkers
  <2>1. /\ r \in Links_data /\ r.password = ntoh64[d.password] /\ r.ids = ntoh64[d.ids]
        /\ r.priority = d.priority /\ r.url = d.url /\ r.msg = d.msg
      BY <1>2, SwapLinkProperties, SwapKeepsLink DEF SwapReceived
  <2> QED
      BY <1>1, <1>2, <2>1 DEF BufferSound, SoundLink
<1>3. CASE w \notin Checkers
  <2>1. r = [d EXCEPT !.password = ntoh64[d.password]]
      BY <1>3 DEF SwapReceived
  <2>2. /\ r \in Links_data /\ r.password = ntoh64[d.password] /\ r.ids = d.ids
        /\ r.priority = d.priority /\ r.url = d.url /\ r.msg = d.msg
      BY <1>1, <2>1 DEF Links_data
  <2> QED
      BY <1>1, <1>3, <2>2 DEF BufferSound, SoundLink
<1> QED
    BY <1>2, <1>3

-----------------------------------------------------------------------------
(* Every step keeps the clients sound *)

\* What a step has to show besides what follows from CentralStep.
OthersSound == WorkersSound /\ BotSound /\ RepliesSound /\ FaultsTyped

StepSound == CentralStep /\ OthersSound'

\* A worker that works does not touch the other ones.
LEMMA OneWorkerMoves ==
    ASSUME WorkersSound, NEW w \in Workers, NEW c \in ControlPoints,
           NEW d \in Links_data, NEW t \in Seq(Urls),
           w_pc' = [w_pc EXCEPT ![w] = c], w_data' = [w_data EXCEPT ![w] = d],
           w_todo' = [w_todo EXCEPT ![w] = t],
           BufferSound(w, d),
           c \in {"job", "certify", "follow"} => d.password = "host",
           c \in {"certify", "follow"} => w \in Scrappers,
           c = "follow" => \A i \in 1..Len(t) : t[i] \in ToSet(Hrefs[d.url])
    PROVE  WorkersSound'
<1>1. WorkersTyped'
    BY DEF WorkersSound, WorkersTyped
<1>2. ASSUME NEW v \in Workers PROVE WorkerSound(v)'
  <2>1. CASE v = w
    <3>1. w_pc'[v] = c /\ w_data'[v] = d /\ w_todo'[v] = t
        BY <2>1 DEF WorkersSound, WorkersTyped
    <3> QED
        BY <2>1, <3>1 DEF WorkerSound, BufferSound, SoundLink
  <2>2. CASE v # w
    <3>1. w_pc'[v] = w_pc[v] /\ w_data'[v] = w_data[v] /\ w_todo'[v] = w_todo[v]
        BY <2>2 DEF WorkersSound, WorkersTyped
    <3> QED
        BY <3>1 DEF WorkersSound, WorkerSound, BufferSound, SoundLink
  <2> QED
      BY <2>1, <2>2
<1> QED
    BY <1>1, <1>2 DEF WorkersSound

LEMMA WorkerFacts ==
    ASSUME WorkersSound, NEW w \in Workers
    PROVE  /\ w_data[w] \in Links_data /\ w_data[w].url \in Urls /\ w_todo[w] \in Seq(Urls)
           /\ w_pc[w] \in ControlPoints /\ BufferSound(w, w_data[w])
           /\ w_data = [w_data EXCEPT ![w] = w_data[w]]
           /\ w_todo = [w_todo EXCEPT ![w] = w_todo[w]]
           /\ w_pc = [w_pc EXCEPT ![w] = w_pc[w]]
BY DEF WorkersSound, WorkersTyped, WorkerSound, Links_data

\* A worker that only goes on to another control point.
LEMMA OneWorkerGoesOn ==
    ASSUME WorkersSound, NEW w \in Workers, NEW c \in ControlPoints,
           w_pc' = [w_pc EXCEPT ![w] = c], UNCHANGED << w_data, w_todo >>,
           c \in {"job", "certify", "follow"} => w_data[w].password = "host",
           c = "certify" => w \in Scrappers, c # "follow"
    PROVE  WorkersSound'
BY WorkerFacts, OneWorkerMoves

LEMMA NothingElseMoves ==
    /\ WorkersSound /\ UNCHANGED workerVars => WorkersSound'
    /\ BotSound /\ UNCHANGED bot_todo => BotSound'
    /\ RepliesSound /\ UNCHANGED replies => RepliesSound'
    /\ FaultsTyped /\ UNCHANGED << crashVars, lost >> => FaultsTyped'
<1>1. WorkersSound /\ UNCHANGED workerVars => WorkersSound'
    BY DEF WorkersSound, workerVars, WorkersTyped, WorkerSound, BufferSound, SoundLink
<1>2. BotSound /\ UNCHANGED bot_todo => BotSound'
    BY DEF BotSound
<1>3. RepliesSound /\ UNCHANGED replies => RepliesSound'
    BY DEF RepliesSound, ReplySound
<1>4. FaultsTyped /\ UNCHANGED << crashVars, lost >> => FaultsTyped'
    BY DEF FaultsTyped, crashVars
<1> QED
    BY <1>1, <1>2, <1>3, <1>4

LEMMA FaultsStep ==
    /\ FaultsTyped /\ UNCHANGED crashVars /\ (lost' = lost \/ ConnectionFails) => FaultsTyped'
    /\ FaultsTyped /\ UNCHANGED crashVars /\ lost' \in 0..MaxLost => FaultsTyped'
BY FaultsAssumption DEF FaultsTyped, crashVars, ConnectionFails

LEMMA BotSteps ==
    ASSUME ClientsSound, NEW m \in Msgs, SendFromBot(m)
    PROVE  StepSound
<1> DEFINE q == bot_todo[m]
           l == Head(q)
<1>1. q \in Seq(PostedLink) /\ q # << >> /\ (\A i \in 1..Len(q) : q[i].url \in PostedIn(m))
    BY DEF SendFromBot, ClientsSound, BotSound
<1>2. Len(q) \in Nat \ {0} /\ l = q[1] /\ l \in PostedLink
    BY <1>1, EmptySeq, HeadTailProperties
<1>3. FromBot(m, l) \in WireLinks /\ SoundLink(FromBot(m, l))
    BY <1>1, <1>2, FromBotIsSound
<1>4. CentralStep /\ lost' \in 0..MaxLost
    BY <1>3, WriteIsCentralStep DEF SendFromBot, ClientsSound
<1>5. BotSound'
  <2>1. /\ Tail(q) \in Seq(PostedLink) /\ Len(Tail(q)) = Len(q) - 1
        /\ \A i \in 1..Len(Tail(q)) : Tail(q)[i] = q[i + 1]
      BY <1>1, HeadTailProperties
  <2>2. bot_todo' = [bot_todo EXCEPT ![m] = Tail(q)]
      BY DEF SendFromBot
  <2>3. \A i \in 1..Len(Tail(q)) : Tail(q)[i].url \in PostedIn(m)
    <3> TAKE i \in 1..Len(Tail(q))
    <3>1. i + 1 \in 1..Len(q)
        BY <1>2, <2>1
    <3> QED
        BY <1>1, <2>1, <3>1
  <2>4. bot_todo \in [Msgs -> Seq(PostedLink)]
      BY DEF ClientsSound, BotSound
  <2> HIDE DEF q
  <2>5. bot_todo' \in [Msgs -> Seq(PostedLink)]
      BY <2>1, <2>2, <2>4
  <2>6. ASSUME NEW n \in Msgs, NEW i \in 1..Len(bot_todo'[n])
        PROVE  bot_todo'[n][i].url \in PostedIn(n)
      BY <2>2, <2>3, <2>4 DEF ClientsSound, BotSound
  <2> QED
      BY <2>5, <2>6 DEF BotSound
<1>6. WorkersSound' /\ RepliesSound' /\ FaultsTyped'
    BY <1>4, NothingElseMoves, FaultsStep DEF SendFromBot, ClientsSound
<1> QED
    BY <1>4, <1>5, <1>6 DEF StepSound, OthersSound

LEMMA DispatchSteps ==
    ASSUME CentralSound, ClientsSound, Dispatch
    PROVE  StepSound
<1> DEFINE w == server_el.ip
<1>1. w \in Workers
    BY DEF CentralSound, Inv1, TypeOK, ServerEl
<1>2. CentralStep /\ a_pc = "send"
    BY DEF Dispatch, CentralStep, AttributionStep, SendLink
<1>3. ASSUME NEW d, Receives(w, d), SwapReceived(w, d) \in Links_data,
             BufferSound(w, SwapReceived(w, d))
      PROVE  WorkersSound' /\ BotSound' /\ RepliesSound'
  <2> DEFINE r == SwapReceived(w, d)
             c == IF r.password = "host" THEN "job" ELSE "announce"
  <2>1. w_data' = [w_data EXCEPT ![w] = r] /\ w_data'[w] = r
      BY <1>1, <1>3 DEF Receives, ClientsSound, WorkersSound, WorkersTyped
  <2>2. w_pc' = [w_pc EXCEPT ![w] = c] /\ c \in ControlPoints
      BY <1>3, <2>1 DEF Receives, Goto, ControlPoints
  <2>3. w_todo' = [w_todo EXCEPT ![w] = w_todo[w]] /\ w_todo[w] \in Seq(Urls)
      BY <1>1, <1>3, WorkerFacts DEF Receives, ClientsSound
  <2>4. (c = "job" => r.password = "host") /\ c \notin {"certify", "follow"}
      OBVIOUS
  <2>5. WorkersSound /\ r \in Links_data /\ BufferSound(w, r)
      BY <1>3 DEF ClientsSound
  <2> HIDE DEF r, c, w
  <2>6. WorkersSound'
      BY <1>1, <2>1, <2>2, <2>3, <2>4, <2>5, OneWorkerMoves
  <2> QED
      BY <1>3, <2>6, NothingElseMoves DEF Receives, ClientsSound
<1>4. CASE Receives(w, Sent(links_el)) /\ UNCHANGED lost
  <2>1. WorkersSound' /\ BotSound' /\ RepliesSound'
      BY <1>2, <1>3, <1>4, FreshBufferIsSound DEF ClientsSound
  <2>2. FaultsTyped'
      BY <1>4, FaultsStep DEF Receives, ClientsSound
  <2> QED
      BY <1>2, <2>1, <2>2 DEF StepSound, OthersSound
<1>5. CASE ConnectionFails /\ Receives(w, w_data[w])
  <2>1. WorkersSound' /\ BotSound' /\ RepliesSound'
      BY <1>1, <1>3, <1>5, WorkerFacts, StaleBufferIsSound DEF ClientsSound
  <2>2. FaultsTyped'
      BY <1>5, FaultsStep DEF Receives, ClientsSound
  <2> QED
      BY <1>2, <2>1, <2>2 DEF StepSound, OthersSound
<1> QED
    BY <1>4, <1>5 DEF Dispatch

LEMMA ReadySteps ==
    ASSUME ClientsSound, NEW w \in Workers, SendReady(w)
    PROVE  StepSound
<1>1. CentralStep
    BY ReadyIsSound DEF SendReady, CentralStep
<1>2. w_pc' = [w_pc EXCEPT ![w] = "accept"] /\ UNCHANGED << w_data, w_todo >>
    BY DEF SendReady, Goto
<1>3. WorkersSound'
    BY <1>2, OneWorkerGoesOn DEF ClientsSound, ControlPoints
<1>4. BotSound' /\ RepliesSound' /\ FaultsTyped'
    BY NothingElseMoves DEF SendReady, ClientsSound
<1> QED
    BY <1>1, <1>3, <1>4 DEF StepSound, OthersSound

\* find_urls (scrapping_unit.c:204-248).
LEMMA ScrapperSteps ==
    ASSUME ClientsSound, NEW w \in Workers,
           FetchFails(w) \/ FetchFile(w) \/ FetchPage(w) \/ SkipFound(w) \/ PageFinished(w)
    PROVE  StepSound
<1> DEFINE d == w_data[w]
           q == w_todo[w]
<1>1. WorkersSound /\ WorkerSound(w) /\ d \in Links_data /\ d.url \in Urls /\ q \in Seq(Urls)
      /\ w_data = [w_data EXCEPT ![w] = d] /\ w_pc = [w_pc EXCEPT ![w] = w_pc[w]]
    BY WorkerFacts DEF ClientsSound, WorkersSound
<1>2. UNCHANGED << vars, w_data, bot_todo, replies, crashVars, lost >>
    BY DEF FetchFails, FetchFile, FetchPage, SkipFound, PageFinished
<1>3. CentralStep /\ BotSound' /\ RepliesSound' /\ FaultsTyped'
    BY <1>2, NothingElseMoves DEF CentralStep, ClientsSound
<1> SUFFICES WorkersSound'
    BY <1>3 DEF StepSound, OthersSound
<1>4. CASE FetchFails(w) \/ PageFinished(w)
  <2>1. w_pc' = [w_pc EXCEPT ![w] = "announce"] /\ UNCHANGED << w_data, w_todo >>
      BY <1>4 DEF FetchFails, PageFinished, Goto
  <2> QED
      BY <1>1, <2>1, OneWorkerGoesOn DEF ControlPoints
<1>5. CASE FetchFile(w)
  <2>1. /\ w_pc' = [w_pc EXCEPT ![w] = "certify"] /\ UNCHANGED << w_data, w_todo >>
        /\ w_pc[w] = "job" /\ w \in Scrappers
      BY <1>5 DEF FetchFile, Goto, Scrapping
  <2>2. d.password = "host"
      BY <1>1, <2>1 DEF WorkerSound
  <2> QED
      BY <1>1, <2>1, <2>2, OneWorkerGoesOn DEF ControlPoints
<1>6. CASE FetchPage(w)
  <2> DEFINE t == Hrefs[d.url]
  <2>1. /\ w_pc' = [w_pc EXCEPT ![w] = "follow"] /\ w_todo' = [w_todo EXCEPT ![w] = t]
        /\ w_pc[w] = "job" /\ w \in Scrappers
      BY <1>6 DEF FetchPage, Goto, Scrapping
  <2>2. w_data' = [w_data EXCEPT ![w] = d]
      BY <1>1, <1>2
  <2>3. d.password = "host" /\ BufferSound(w, d)
      BY <1>1, <2>1 DEF WorkerSound
  <2>4. t \in Seq(Urls)
      BY <1>1, WebAssumption
  <2>5. \A i \in 1..Len(t) : t[i] \in ToSet(t)
      BY <2>4 DEF ToSet
  <2> HIDE DEF t, d
  <2> QED
      BY <1>1, <2>1, <2>2, <2>3, <2>4, <2>5, OneWorkerMoves DEF ControlPoints, t
<1>7. CASE SkipFound(w)
  <2> DEFINE t == Tail(q)
  <2>1. /\ w_pc' = [w_pc EXCEPT ![w] = "follow"] /\ w_todo' = [w_todo EXCEPT ![w] = t]
        /\ q # << >> /\ w_pc[w] = "follow"
      BY <1>1, <1>7 DEF SkipFound
  <2>2. w_data' = [w_data EXCEPT ![w] = d]
      BY <1>1, <1>2
  <2>3. /\ d.password = "host" /\ BufferSound(w, d) /\ w \in Scrappers
        /\ \A i \in 1..Len(q) : q[i] \in ToSet(Hrefs[d.url])
      BY <1>1, <2>1 DEF WorkerSound
  <2>4. /\ t \in Seq(Urls) /\ Len(t) = Len(q) - 1 /\ \A i \in 1..Len(t) : t[i] = q[i + 1]
      BY <1>1, <2>1, HeadTailProperties
  <2>5. \A i \in 1..Len(t) : t[i] \in ToSet(Hrefs[d.url])
    <3> TAKE i \in 1..Len(t)
    <3>1. Len(q) \in Nat
        BY <1>1
    <3>2. i + 1 \in 1..Len(q)
        BY <2>4, <3>1
    <3> QED
        BY <2>3, <2>4, <3>2
  <2> HIDE DEF t, d
  <2> QED
      BY <1>1, <2>1, <2>2, <2>3, <2>4, <2>5, OneWorkerMoves DEF ControlPoints
<1> QED
    BY <1>4, <1>5, <1>6, <1>7

\* data->file_certified and send_url (scrapping_unit.c:219-227, 235-240).
LEMMA SendUrlSteps ==
    ASSUME ClientsSound, NEW w \in Workers, SendCertified(w) \/ SendFound(w)
    PROVE  StepSound
<1> DEFINE d == w_data[w]
           q == w_todo[w]
<1>1. WorkersSound /\ WorkerSound(w) /\ d \in Links_data /\ d.url \in Urls /\ q \in Seq(Urls)
      /\ w_todo = [w_todo EXCEPT ![w] = q] /\ w_pc = [w_pc EXCEPT ![w] = w_pc[w]]
    BY WorkerFacts DEF ClientsSound, WorkersSound
<1>2. w_pc[w] \in {"certify", "follow"}
    BY DEF SendCertified, SendFound, Goto
<1>3. d.password = "host" /\ w \in Scrappers /\ BufferSound(w, d)
    BY <1>1, <1>2 DEF WorkerSound
<1>4. ASSUME NEW u \in Urls, NEW c \in BOOLEAN, SendUrl(w, u, c),
             u = d.url \/ u \in ToSet(Hrefs[d.url])
      PROVE  /\ CentralStep /\ BotSound' /\ RepliesSound' /\ FaultsTyped'
             /\ \E e \in Links_data : /\ w_data' = [w_data EXCEPT ![w] = e]
                                      /\ BufferSound(w, e) /\ e.password = "host"
                                      /\ e.url = d.url
  <2> DEFINE e == [d EXCEPT !.file_certified = c]
  <2>1. w_data' = [w_data EXCEPT ![w] = e] /\ w_data'[w] = e
      BY <1>1, <1>4 DEF SendUrl, WorkersSound, WorkersTyped
  <2>2. /\ e \in Links_data /\ e.url = d.url /\ e.password = "host"
        /\ e.priority = d.priority /\ e.ids = d.ids /\ e.msg = d.msg
      BY <1>1, <1>3 DEF Links_data
  <2>3. WriteLink(FoundUrl(e, u)) /\ UNCHANGED << bot_todo, replies, crashVars >>
      BY <1>4, <2>1 DEF SendUrl
  <2> HIDE DEF e, d
  <2>4. BufferSound(w, e)
      BY <1>3, <2>2 DEF BufferSound, SoundLink
  <2>5. FoundUrl(e, u) \in WireLinks /\ SoundLink(FoundUrl(e, u))
      BY <1>3, <1>4, <2>2, <2>4, FoundUrlIsSound
  <2>6. CentralStep /\ lost' \in 0..MaxLost
      BY <2>3, <2>5, WriteIsCentralStep DEF ClientsSound
  <2>7. BotSound' /\ RepliesSound' /\ FaultsTyped'
      BY <2>3, <2>6, NothingElseMoves, FaultsStep DEF ClientsSound
  <2> QED
      BY <2>1, <2>2, <2>4, <2>6, <2>7
<1>5. CASE SendCertified(w)
  <2>1. /\ SendUrl(w, d.url, TRUE) /\ w_pc' = [w_pc EXCEPT ![w] = "announce"]
        /\ w_todo' = [w_todo EXCEPT ![w] = q]
      BY <1>1, <1>5 DEF SendCertified, Goto
  <2>2. /\ CentralStep /\ BotSound' /\ RepliesSound' /\ FaultsTyped'
        /\ \E e \in Links_data : /\ w_data' = [w_data EXCEPT ![w] = e]
                                 /\ BufferSound(w, e)
      BY <1>1, <1>4, <2>1
  <2>3. PICK e \in Links_data : w_data' = [w_data EXCEPT ![w] = e] /\ BufferSound(w, e)
      BY <2>2
  <2>4. WorkersSound'
      BY <1>1, <2>1, <2>3, OneWorkerMoves DEF ControlPoints
  <2> QED
      BY <2>2, <2>4 DEF StepSound, OthersSound
<1>6. CASE SendFound(w)
  <2> DEFINE u == Head(q)
             t == Tail(q)
  <2>1. /\ w_pc[w] = "follow" /\ q # << >> /\ w_todo' = [w_todo EXCEPT ![w] = t]
        /\ w_pc' = [w_pc EXCEPT ![w] = "follow"]
      BY <1>1, <1>6 DEF SendFound
  <2>2. PICK c \in BOOLEAN : SendUrl(w, u, c)
      BY <1>6 DEF SendFound, is_file
  <2>3. \A i \in 1..Len(q) : q[i] \in ToSet(Hrefs[d.url])
      BY <1>1, <2>1 DEF WorkerSound
  <2>4. /\ t \in Seq(Urls) /\ Len(t) = Len(q) - 1 /\ \A i \in 1..Len(t) : t[i] = q[i + 1]
        /\ Len(q) \in Nat \ {0} /\ u = q[1] /\ u \in Urls
      BY <1>1, <2>1, EmptySeq, HeadTailProperties
  <2>5. u \in ToSet(Hrefs[d.url]) /\ \A i \in 1..Len(t) : t[i] \in ToSet(Hrefs[d.url])
    <3>1. \A i \in 1..Len(t) : i + 1 \in 1..Len(q)
        BY <2>4
    <3> QED
        BY <2>3, <2>4, <3>1
  <2> HIDE DEF u, t
  <2>6. /\ CentralStep /\ BotSound' /\ RepliesSound' /\ FaultsTyped'
        /\ \E e \in Links_data : /\ w_data' = [w_data EXCEPT ![w] = e]
                                 /\ BufferSound(w, e) /\ e.password = "host"
                                 /\ e.url = d.url
      BY <1>4, <2>2, <2>4, <2>5
  <2>7. PICK e \in Links_data : /\ w_data' = [w_data EXCEPT ![w] = e] /\ BufferSound(w, e)
                                /\ e.password = "host" /\ e.url = d.url
      BY <2>6
  <2> HIDE DEF d
  <2>8. WorkersSound'
      BY <1>1, <1>3, <2>1, <2>4, <2>5, <2>7, OneWorkerMoves DEF ControlPoints
  <2> QED
      BY <2>6, <2>8 DEF StepSound, OthersSound
<1> QED
    BY <1>5, <1>6

\* listen_links of virus_checker.c, from the hash on (lines 149-182).
LEMMA CheckerSteps ==
    ASSUME ClientsSound, NEW w \in Workers, HashHttpError(w) \/ Resend(w) \/ SendAudit(w)
    PROVE  StepSound
<1> DEFINE d == w_data[w]
<1>1. /\ w_pc' = [w_pc EXCEPT ![w] = "announce"] /\ UNCHANGED << w_data, w_todo >>
      /\ w \in Checkers /\ w_pc[w] = "job" /\ UNCHANGED << bot_todo, crashVars >>
    BY DEF HashHttpError, Resend, SendAudit, Checking, Goto
<1>2. WorkersSound' /\ BotSound'
    BY <1>1, OneWorkerGoesOn, NothingElseMoves DEF ControlPoints, ClientsSound
<1>3. d \in Links_data /\ BufferSound(w, d) /\ d.password = "host"
    BY <1>1, WorkerFacts DEF ClientsSound, WorkersSound, WorkerSound
<1>4. CASE HashHttpError(w)
  <2>1. UNCHANGED << vars, replies, lost >>
      BY <1>4 DEF HashHttpError
  <2> QED
      BY <1>1, <1>2, <2>1, NothingElseMoves
      DEF StepSound, OthersSound, CentralStep, ClientsSound
<1>5. CASE Resend(w)
  <2>1. WriteLink(Resent(d)) /\ UNCHANGED replies
      BY <1>5 DEF Resend
  <2>2. CentralStep /\ lost' \in 0..MaxLost
      BY <1>1, <1>3, <2>1, ResentIsSound, WriteIsCentralStep DEF ClientsSound
  <2> QED
      BY <1>1, <1>2, <2>1, <2>2, NothingElseMoves, FaultsStep
      DEF StepSound, OthersSound, ClientsSound
<1>6. CASE SendAudit(w)
  <2>1. /\ UNCHANGED vars
        /\ \/ replies' = replies \union {AuditOf(d)} /\ UNCHANGED lost
           \/ ConnectionFails /\ UNCHANGED replies
      BY <1>6 DEF SendAudit
  <2>2. ReplySound(AuditOf(d))
      BY <1>1, <1>3, AuditIsSound
  <2>3. RepliesSound'
    <3>1. \A a \in replies' : ReplySound(a)
        BY <2>1, <2>2 DEF ClientsSound, RepliesSound
    <3> QED
        BY <3>1 DEF RepliesSound, ReplySound
  <2>4. FaultsTyped'
      BY <1>1, <2>1, FaultsStep DEF ClientsSound
  <2> QED
      BY <1>2, <2>1, <2>3, <2>4 DEF StepSound, OthersSound, CentralStep
<1> QED
    BY <1>4, <1>5, <1>6

\* Processes that stop and come back.
LEMMA CrashSteps ==
    ASSUME ClientsSound,
           \/ CentralCrash \/ CentralRestart
           \/ \E w \in Workers : Crash(w) \/ Restart(w)
    PROVE  StepSound
<1>1. CASE CentralCrash
  <2>1. Init'
      BY <1>1 DEF CentralCrash, Init
  <2>2. FaultsTyped'
    <3>1. crashes < MaxCrashes /\ crashes' = crashes + 1 /\ crashes \in 0..MaxCrashes
        BY <1>1 DEF CentralCrash, FaultsTyped, ClientsSound
    <3>2. crashes' \in 0..MaxCrashes
        BY <3>1, FaultsAssumption
    <3>3. stranded' \subseteq Workers
        BY <1>1 DEF CentralCrash
    <3> QED
        BY <1>1, <3>2, <3>3 DEF CentralCrash, FaultsTyped, ClientsSound
  <2>3. WorkersSound' /\ BotSound' /\ RepliesSound'
      BY <1>1, NothingElseMoves DEF CentralCrash, ClientsSound
  <2> QED
      BY <2>1, <2>2, <2>3 DEF StepSound, OthersSound, CentralStep
<1>2. CASE CentralRestart
  <2>1. FaultsTyped'
      BY <1>2 DEF CentralRestart, FaultsTyped, ClientsSound
  <2>2. UNCHANGED vars /\ WorkersSound' /\ BotSound' /\ RepliesSound'
      BY <1>2, NothingElseMoves DEF CentralRestart, ClientsSound
  <2> QED
      BY <2>1, <2>2 DEF StepSound, OthersSound, CentralStep
<1>3. ASSUME NEW w \in Workers, Crash(w) PROVE StepSound
  <2>1. UninitLink \in Links_data /\ BufferSound(w, UninitLink)
      BY UninitTypes DEF BufferSound, SoundLink, UninitLink, Orders
  <2>2. /\ w_pc' = [w_pc EXCEPT ![w] = "down"] /\ w_data' = [w_data EXCEPT ![w] = UninitLink]
        /\ w_todo' = [w_todo EXCEPT ![w] = << >>]
      BY <1>3 DEF Crash
  <2>3. << >> \in Seq(Urls)
      OBVIOUS
  <2>4. WorkersSound'
      BY <2>1, <2>2, <2>3, OneWorkerMoves DEF ClientsSound, ControlPoints
  <2>5. FaultsTyped'
      BY <1>3, FaultsAssumption DEF Crash, FaultsTyped, ClientsSound
  <2>6. UNCHANGED vars /\ BotSound' /\ RepliesSound'
      BY <1>3, NothingElseMoves DEF Crash, ClientsSound
  <2> QED
      BY <2>4, <2>5, <2>6 DEF StepSound, OthersSound, CentralStep
<1>4. ASSUME NEW w \in Workers, Restart(w) PROVE StepSound
  <2>1. w_pc' = [w_pc EXCEPT ![w] = "announce"] /\ UNCHANGED << w_data, w_todo >>
      BY <1>4 DEF Restart, Goto
  <2>2. WorkersSound'
      BY <2>1, OneWorkerGoesOn DEF ClientsSound, ControlPoints
  <2>3. UNCHANGED vars /\ BotSound' /\ RepliesSound' /\ FaultsTyped'
      BY <1>4, NothingElseMoves DEF Restart, ClientsSound
  <2> QED
      BY <2>2, <2>3 DEF StepSound, OthersSound, CentralStep
<1> QED
    BY <1>1, <1>2, <1>3, <1>4

\* Steps in which no client but the one that is not there takes part.
LEMMA CentralSteps ==
    ASSUME ClientsSound, CentralAlone \/ DispatchFails \/ UNCHANGED allVars
    PROVE  StepSound
<1>1. CASE CentralAlone
  <2>1. CentralStep
      BY <1>1 DEF CentralAlone, CentralStep, AttributionStep
  <2> QED
      BY <1>1, <2>1, NothingElseMoves
      DEF CentralAlone, systemVars, StepSound, OthersSound, ClientsSound
<1>2. CASE DispatchFails
  <2>1. CentralStep
      BY <1>2 DEF DispatchFails, CentralStep, AttributionStep
  <2>2. UNCHANGED << workerVars, bot_todo, replies, crashVars >>
        /\ (lost' = lost \/ ConnectionFails)
      BY <1>2 DEF DispatchFails
  <2> QED
      BY <2>1, <2>2, NothingElseMoves, FaultsStep DEF StepSound, OthersSound, ClientsSound
<1>3. CASE UNCHANGED allVars
  <2>1. UNCHANGED << vars, workerVars, bot_todo, replies, crashVars, lost >>
      BY <1>3 DEF allVars, systemVars
  <2>2. CentralStep
      BY <2>1 DEF CentralStep
  <2> QED
      BY <2>1, <2>2, NothingElseMoves DEF StepSound, OthersSound, ClientsSound
<1> QED
    BY <1>1, <1>2, <1>3

LInv == CentralSound /\ ClientsSound

LEMMA EveryStepIsSound ==
    ASSUME CentralSound, ClientsSound, [LNext]_allVars
    PROVE  StepSound
BY BotSteps, DispatchSteps, ReadySteps, ScrapperSteps, SendUrlSteps, CheckerSteps, CrashSteps,
   CentralSteps
DEF LNext, WorkerStep

LEMMA LInvInit == LInit => LInv
<1> SUFFICES ASSUME LInit PROVE LInv
    OBVIOUS
<1>1. CentralSound
    BY CentralSoundInit DEF LInit
<1>2. LinksSound /\ ServersSound
  <2>1. Len(links_queue) = 0 /\ \A k \in Destinations : Len(servers[k]) = 0
      BY EmptySeq DEF LInit, Init
  <2> QED
      BY <2>1, UninitSound
      DEF LInit, Init, LinksSound, ServersSound, InAttribution, UninitLinksEl
<1>3. WorkersSound
  <2>1. WorkersTyped
      BY UninitTypes DEF LInit, WorkersTyped, ControlPoints
  <2>2. ASSUME NEW w \in Workers PROVE WorkerSound(w)
    <3>1. w_pc[w] = "announce" /\ w_data[w] = UninitLink
        BY DEF LInit
    <3>2. BufferSound(w, UninitLink)
        BY DEF BufferSound, SoundLink, UninitLink, Orders
    <3> QED
        BY <3>1, <3>2 DEF WorkerSound
  <2> QED
      BY <2>1, <2>2 DEF WorkersSound
<1>4. BotSound
  <2>1. bot_todo = Posts /\ Posts \in [Msgs -> Seq(PostedLink)]
      BY WebAssumption DEF LInit
  <2>2. ASSUME NEW m \in Msgs, NEW i \in 1..Len(Posts[m])
        PROVE  Posts[m][i].url \in PostedIn(m)
    <3>1. Posts[m][i] \in ToSet(Posts[m])
        BY <2>1 DEF ToSet
    <3> QED
        BY <3>1 DEF PostedIn
  <2> QED
      BY <2>1, <2>2 DEF BotSound
<1>5. RepliesSound /\ FaultsTyped
    BY FaultsAssumption DEF LInit, RepliesSound, FaultsTyped
<1> QED
    BY <1>1, <1>2, <1>3, <1>4, <1>5 DEF LInv, ClientsSound

LEMMA LInvStep == LInv /\ [LNext]_allVars => LInv'
<1> SUFFICES ASSUME LInv, [LNext]_allVars PROVE LInv'
    OBVIOUS
<1>1. StepSound
    BY EveryStepIsSound DEF LInv
<1>2. CentralSound'
    BY <1>1, CentralStepIsNext, CentralSoundStep DEF StepSound, LInv
<1>3. Inv1 /\ NeverPopsEmptyQueue
    BY SemsImplyNonEmpty DEF LInv, CentralSound
<1>4. LinksSound' /\ ServersSound'
    BY <1>1, <1>3, LinksSoundStep, ServersSoundStep DEF StepSound, LInv, ClientsSound
<1> QED
    BY <1>1, <1>2, <1>4 DEF StepSound, OthersSound, LInv, ClientsSound

THEOREM LInvHolds == LSpec => []LInv
BY LInvInit, LInvStep, PTL DEF LSpec

(* The system's state is well typed, and a worker only ever works on a     *)
(* link that came with the password and that central let through, even     *)
(* when connections die and its buffer is stale (virus_checker.c:132-141,  *)
(* scrapping_unit.c:303-310).                                              *)
THEOREM SystemTypeCorrect == LSpec => []LTypeOK
<1>1. LInv => LTypeOK
  <2> SUFFICES ASSUME LInv PROVE LTypeOK
      OBVIOUS
  <2>1. WorkersTyped /\ FaultsTyped /\ bot_todo \in [Msgs -> Seq(PostedLink)]
        /\ replies \subseteq Audit
      BY DEF LInv, ClientsSound, WorkersSound, BotSound, RepliesSound, ReplySound
  <2>2. ASSUME NEW w \in Workers, w_pc[w] \in {"job", "certify", "follow"}
        PROVE  w_data[w].password = "host" /\ w_data[w].priority \in 1..(MAX_DEPTH + 2)
    <3>1. w_data[w] \in Links_data /\ WorkerSound(w)
        BY DEF LInv, ClientsSound, WorkersSound, WorkersTyped
    <3>2. w_data[w].password = "host" /\ BufferSound(w, w_data[w])
        BY <2>2, <3>1 DEF WorkerSound
    <3>3. w_data[w].priority \in Nat
        BY <3>1 DEF Links_data
    <3> QED
        BY <3>2, <3>3 DEF BufferSound, SoundLink, Deepest, Orders, MAX_DEPTH
  <2> QED
      BY <2>1, <2>2 DEF LTypeOK, WorkersTyped, FaultsTyped, ControlPoints
<1> QED
    BY <1>1, LInvHolds, PTL

(* Whatever fails and whoever retries, an audit reaches the bot in the     *)
(* byte order it expects and answers a message that posted the file or a   *)
(* page at most MAX_DEPTH clicks in front of it (central.c:48-50, 111-114, *)
(* 128, 138; virus_checker.c:95-98, 135-137, 155-157;                      *)
(* scrapping_unit.c:191-192, 304).                                         *)
THEOREM AuditsAnswer == LSpec => []AuditsAnswerTheirMessage
<1>1. LInv => AuditsAnswerTheirMessage
    BY DEF LInv, ClientsSound, RepliesSound, ReplySound, AuditsAnswerTheirMessage
<1> QED
    BY <1>1, LInvHolds, PTL

(* The clients keep to what central assumes of them, so that the whole     *)
(* system implements module Central, restarts included                     *)
(* (virus_checker.c:56-60, 95-98; scrapping_unit.c:191-194, 265-269;       *)
(* lifeguard-bot.py:27-34).                                                *)
THEOREM SystemImplementsCentral == LSpec => CentralAsAssumed
<1>1. LInit => Init
    BY DEF LInit
<1>2. LInv /\ [LNext]_allVars => [Next \/ Init']_vars
    BY EveryStepIsSound, CentralStepIsNext DEF LInv, StepSound
<1> QED
    BY <1>1, <1>2, LInvHolds, PTL DEF LSpec, CentralAsAssumed

\* What Central_proofs shows of central alone.
CentralSafe == /\ CentralSound /\ QueuesSorted /\ NothingLostOrDuplicated
               /\ PortsInHostOrder /\ InfosFromWire /\ ServersAnnouncedTheirKind

(* Among its real clients, and after any number of crashes, central keeps  *)
(* what it keeps alone: semaphores that count, no pop of an empty queue,   *)
(* sorted queues, no link lost or doubled since it was started, one byte   *)
(* order inside, and links only for servers that announced themselves as   *)
(* of their kind (central.c:59-87, 111-142, 174-194; queue.c:19-40).       *)
THEOREM CentralSafeInSystem ==
    LSpec => [](/\ SemaphoresCountElements /\ NeverPopsEmptyQueue /\ QueuesSorted
                /\ NothingLostOrDuplicated /\ HostOrderInside /\ ServersAnnouncedTheirKind)
<1>1. Init => CentralSafe
    BY CentralSoundInit, SortedInit, ConservationInit, HostOrderInit, AnnouncedInit
    DEF CentralSafe
<1>2. CentralSafe /\ [Next \/ Init']_vars => CentralSafe'
  <2>1. CentralSafe /\ [Next]_vars => CentralSafe'
      BY CentralSoundStep, SemsImplyNonEmpty, SortedStep, ConservationStep,
         PortsHostOrderStep, InfosFromWireStep, AnnouncedStep
      DEF CentralSafe, CentralSound
  <2>2. Init' => CentralSafe'
      BY <1>1, PTL
  <2> QED
      BY <2>1, <2>2
<1>3. CentralAsAssumed => []CentralSafe
    BY <1>1, <1>2, PTL DEF CentralAsAssumed
<1>4. CentralSafe => /\ SemaphoresCountElements /\ NeverPopsEmptyQueue /\ QueuesSorted
                     /\ NothingLostOrDuplicated /\ HostOrderInside
                     /\ ServersAnnouncedTheirKind
    BY SemsIsSemaphoresCountElements, SemsImplyNonEmpty, HostOrderParts
    DEF CentralSafe, CentralSound
<1> QED
    BY <1>3, <1>4, SystemImplementsCentral, PTL

-----------------------------------------------------------------------------
(***************************************************************************)
(* What central knows of its workers.  Central will connect to a worker    *)
(* once for each announcement it has accepted: Tokens counts them.  A step *)
(* of central creates a token only when it accepts a "ready" and uses one  *)
(* up only when it connects; everything else moves it about.               *)
(***************************************************************************)

(* Counting the entries of a queue *)

\* The entries for the address w.
LEMMA EntriesHeld ==
    ASSUME NEW q \in Seq(ServerEl), NEW w
    PROVE  /\ Entries(q, w) = Cardinality(Held(q, { e \in ServerEl : e.ip = w }))
           /\ Entries(q, w) \in Nat
<1> DEFINE G == { e \in ServerEl : e.ip = w }
<1>1. \A i \in DOMAIN q : q[i] \in ServerEl
    OBVIOUS
<1>2. { i \in DOMAIN q : q[i].ip = w } = Held(q, G)
    BY <1>1 DEF Held
<1>3. Entries(q, w) = Cardinality(Held(q, G))
    BY <1>2 DEF Entries
<1> HIDE DEF G
<1>4. Cardinality(Held(q, G)) \in Nat
    BY HeldFinite
<1> QED
    BY <1>3, <1>4 DEF G

LEMMA NoEntries == \A w : Entries(<< >>, w) = 0
<1> TAKE w
<1>1. { i \in DOMAIN << >> : << >>[i].ip = w } = {}
    BY EmptySeq
<1> QED
    BY <1>1, FS_EmptySet DEF Entries

\* queue_add_server adds an entry for the server's address and keeps the others.
LEMMA EntriesAdd ==
    ASSUME NEW q \in Seq(ServerEl), NEW el \in ServerEl, NEW w
    PROVE  Entries(QueueAdd(q, el, serverKey), w) = Entries(q, w) + One(el.ip = w)
<1> DEFINE G == { e \in ServerEl : e.ip = w }
           r == QueueAdd(q, el, serverKey)
<1>1. r \in Seq(ServerEl) /\ serverKey \in [ServerEl -> Nat]
    BY KeysAreFunctions, QueueAddShape
<1>2. Entries(q, w) = Cardinality(Held(q, G))
    BY EntriesHeld
<1>3. Entries(r, w) = Cardinality(Held(r, G))
    BY <1>1, EntriesHeld
<1>4. el \in G <=> el.ip = w
    OBVIOUS
<1> HIDE DEF G
<1>5. Cardinality(Held(r, G)) = Cardinality(Held(q, G)) + (IF el \in G THEN 1 ELSE 0)
    BY <1>1, HeldAdd
<1> QED
    BY <1>2, <1>3, <1>4, <1>5 DEF One

\* queue_next_server takes the entry at the head.
LEMMA EntriesNext ==
    ASSUME NEW q \in Seq(ServerEl), q # << >>, NEW w
    PROVE  Entries(q, w) = Entries(QueueNext(q), w) + One(q[1].ip = w)
<1> DEFINE G == { e \in ServerEl : e.ip = w }
           r == QueueNext(q)
<1>1. r \in Seq(ServerEl)
    BY QueueNextShape
<1>2. Entries(q, w) = Cardinality(Held(q, G))
    BY EntriesHeld
<1>3. Entries(r, w) = Cardinality(Held(r, G))
    BY <1>1, EntriesHeld
<1>4. q[1] \in G <=> q[1].ip = w
    BY EmptySeq
<1> HIDE DEF G
<1>5. Cardinality(Held(q, G)) = Cardinality(Held(r, G)) + (IF q[1] \in G THEN 1 ELSE 0)
    BY HeldNext
<1> QED
    BY <1>2, <1>3, <1>4, <1>5 DEF One

-----------------------------------------------------------------------------
(* Tokens and the steps of central *)

QueuedFor(w) == Entries(servers[DEST_VIRUS_CHECKER], w)
                  + Entries(servers[DEST_SCRAPPING_UNIT], w)

LEMMA OneType == \A b \in BOOLEAN : One(b) \in 0..1
BY DEF One

LEMMA TokensParts ==
    ASSUME TypeOK, NEW w
    PROVE  /\ QueuedFor(w) \in Nat /\ Tokens(w) \in Nat
           /\ Tokens(w) = QueuedFor(w) + One(i_pc = "add" /\ infos_data.ip = w)
                            + One(a_pc = "send" /\ server_el.ip = w)
<1>1. /\ servers[DEST_VIRUS_CHECKER] \in Seq(ServerEl)
      /\ servers[DEST_SCRAPPING_UNIT] \in Seq(ServerEl)
    BY DEF TypeOK, Destinations
<1>2. /\ Entries(servers[DEST_VIRUS_CHECKER], w) \in Nat
      /\ Entries(servers[DEST_SCRAPPING_UNIT], w) \in Nat
    BY <1>1, EntriesHeld
<1>3. /\ One(i_pc = "add" /\ infos_data.ip = w) \in 0..1
      /\ One(a_pc = "send" /\ server_el.ip = w) \in 0..1
    BY OneType
<1> QED
    BY <1>2, <1>3 DEF Tokens, QueuedFor

\* One queue changes: so does its share.
LEMMA QueuedForStep ==
    ASSUME TypeOK, NEW k \in Destinations, NEW q \in Seq(ServerEl),
           servers' = [servers EXCEPT ![k] = q], NEW w, NEW n \in Int,
           Entries(q, w) = Entries(servers[k], w) + n
    PROVE  QueuedFor(w)' = QueuedFor(w) + n
<1> DEFINE v == DEST_VIRUS_CHECKER
           s == DEST_SCRAPPING_UNIT
<1>1. servers \in [Destinations -> Seq(ServerEl)] /\ Destinations = {v, s} /\ v # s
    BY DEF TypeOK, Destinations, DEST_VIRUS_CHECKER, DEST_SCRAPPING_UNIT
<1>2. /\ servers'[v] = IF k = v THEN q ELSE servers[v]
      /\ servers'[s] = IF k = s THEN q ELSE servers[s]
    BY <1>1
<1>3. Entries(servers[v], w) \in Nat /\ Entries(servers[s], w) \in Nat
    BY <1>1, EntriesHeld
<1>4. QueuedFor(w)' = Entries(servers'[v], w) + Entries(servers'[s], w)
    BY DEF QueuedFor, Entries
<1>5. QueuedFor(w) = Entries(servers[v], w) + Entries(servers[s], w)
    BY DEF QueuedFor
<1> HIDE DEF v, s
<1>6. CASE k = v
  <2>1. Entries(servers'[v], w) = Entries(servers[v], w) + n
      BY <1>2, <1>6
  <2>2. Entries(servers'[s], w) = Entries(servers[s], w)
      BY <1>1, <1>2, <1>6
  <2> QED
      BY <1>3, <1>4, <1>5, <2>1, <2>2
<1>7. CASE k = s
  <2>1. Entries(servers'[s], w) = Entries(servers[s], w) + n
      BY <1>2, <1>7
  <2>2. Entries(servers'[v], w) = Entries(servers[v], w)
      BY <1>1, <1>2, <1>7
  <2> QED
      BY <1>3, <1>4, <1>5, <2>1, <2>2
<1> QED
    BY <1>1, <1>6, <1>7

\* The announcement conn_infos_gestion holds goes into the queue.
LEMMA AddServerKeepsTokens ==
    ASSUME Inv1, Inv1', AddServer, NEW w
    PROVE  Tokens(w)' = Tokens(w)
<1> DEFINE j == ReadyKind(infos_data)
           el == [ip |-> infos_data.ip, port |-> infos_data.port,
                  avg_time |-> infos_data.avg_time]
           q == QueueAdd(servers[j], el, serverKey)
           n == One(infos_data.ip = w)
<1>1. /\ i_pc = "add" /\ i_pc' = "post" /\ UNCHANGED << infos_data, a_pc, server_el >>
      /\ servers' = [servers EXCEPT ![j] = q]
    BY DEF AddServer, attributionVars
<1>2. j \in Destinations /\ el \in ServerEl /\ el.ip = infos_data.ip
    BY <1>1, ElementTypes DEF Inv1, TypeOK, BuffersConsistent
<1>3. TypeOK /\ TypeOK' /\ servers[j] \in Seq(ServerEl)
    BY <1>2 DEF Inv1, TypeOK
<1>4. n \in 0..1
    BY OneType
<1> HIDE DEF j, el
<1>5. q \in Seq(ServerEl)
    BY <1>2, <1>3, KeysAreFunctions, QueueAddLen
<1>6. Entries(q, w) = Entries(servers[j], w) + n
    BY <1>2, <1>3, EntriesAdd
<1> HIDE DEF q, n
<1>7. QueuedFor(w)' = QueuedFor(w) + n
  <2>1. servers' = [servers EXCEPT ![j] = q]
      BY <1>1
  <2>2. j \in Destinations
      BY <1>2
  <2>3. TypeOK /\ n \in Int
      BY <1>3, <1>4
  <2> QED
      BY <1>5, <1>6, <2>1, <2>2, <2>3, QueuedForStep
<1>8. /\ One(i_pc = "add" /\ infos_data.ip = w) = n
      /\ One(i_pc' = "add" /\ infos_data'.ip = w) = 0
      /\ One(a_pc' = "send" /\ server_el'.ip = w) = One(a_pc = "send" /\ server_el.ip = w)
    BY <1>1 DEF n, One
<1>9. Tokens(w) = QueuedFor(w) + One(i_pc = "add" /\ infos_data.ip = w)
                            + One(a_pc = "send" /\ server_el.ip = w)
    BY <1>3, TokensParts
<1>10. Tokens(w)' = QueuedFor(w)' + One(i_pc' = "add" /\ infos_data'.ip = w)
                            + One(a_pc' = "send" /\ server_el'.ip = w)
    BY DEF Tokens, QueuedFor
<1>11. QueuedFor(w) \in Nat /\ One(a_pc = "send" /\ server_el.ip = w) \in 0..1
    BY <1>3, TokensParts, OneType
<1> QED
    BY <1>4, <1>7, <1>8, <1>9, <1>10, <1>11

\* links_attribution takes one from the queue.
LEMMA TakeServerKeepsTokens ==
    ASSUME Inv1, NeverPopsEmptyQueue, TakeServer, NEW w
    PROVE  Tokens(w)' = Tokens(w)
<1> DEFINE j == links_el.destination
           q == QueueNext(servers[j])
           n == One(servers[j][1].ip = w)
<1>1. /\ a_pc = "server_pop" /\ a_pc' = "send" /\ UNCHANGED << infos_data, i_pc >>
      /\ servers' = [servers EXCEPT ![j] = q] /\ server_el' = NextEl(servers[j], server_el)
    BY DEF TakeServer, connInfosVars
<1>2. TypeOK /\ j \in Destinations
    BY DEF Inv1, TypeOK, LinksEl
<1>3. servers[j] \in Seq(ServerEl) /\ servers[j] # << >>
    BY <1>1, <1>2 DEF TypeOK, NeverPopsEmptyQueue
<1>4. n \in 0..1
    BY OneType
<1> HIDE DEF j
<1>5. q \in Seq(ServerEl) /\ server_el' = servers[j][1]
    BY <1>1, <1>3, QueueNextShape
<1>6. Entries(servers[j], w) = Entries(q, w) + n
    BY <1>3, EntriesNext
<1>7. Entries(q, w) \in Nat /\ Entries(servers[j], w) \in Nat
    BY <1>3, <1>5, EntriesHeld
<1>8. One(server_el'.ip = w) = n
    BY <1>5
<1> HIDE DEF q, n
<1>9. Entries(q, w) = Entries(servers[j], w) + (0 - n)
    BY <1>4, <1>6, <1>7
<1>10. QueuedFor(w)' = QueuedFor(w) + (0 - n)
  <2>1. servers' = [servers EXCEPT ![j] = q]
      BY <1>1
  <2>2. j \in Destinations
      BY <1>2
  <2>3. (0 - n) \in Int
      BY <1>4
  <2>4. q \in Seq(ServerEl)
      BY <1>5
  <2>5. TypeOK
      BY <1>2
  <2> QED
      BY <1>9, <2>1, <2>2, <2>3, <2>4, <2>5, QueuedForStep
<1>11. /\ One(a_pc = "send" /\ server_el.ip = w) = 0
       /\ One(a_pc' = "send" /\ server_el'.ip = w) = n
       /\ One(i_pc' = "add" /\ infos_data'.ip = w) = One(i_pc = "add" /\ infos_data.ip = w)
    BY <1>1, <1>8 DEF One
<1>12. Tokens(w) = QueuedFor(w) + One(i_pc = "add" /\ infos_data.ip = w)
                            + One(a_pc = "send" /\ server_el.ip = w)
    BY <1>2, TokensParts
<1>13. Tokens(w)' = QueuedFor(w)' + One(i_pc' = "add" /\ infos_data'.ip = w)
                            + One(a_pc' = "send" /\ server_el'.ip = w)
    BY DEF Tokens, QueuedFor
<1>14. QueuedFor(w) \in Nat /\ One(i_pc = "add" /\ infos_data.ip = w) \in 0..1
    BY <1>2, TokensParts, OneType
<1> QED
    BY <1>4, <1>10, <1>11, <1>12, <1>13, <1>14

\* A connection of central uses up the token of the worker it is for.
LEMMA ConnectingUsesToken ==
    ASSUME TypeOK, SendLink \/ SendFails, NEW w
    PROVE  /\ Tokens(w)' = Tokens(w) - One(server_el.ip = w) /\ Tokens(w)' \in Nat
           /\ UNCHANGED << infos_data, drops >>
<1>1. /\ a_pc = "send" /\ a_pc' # "send"
      /\ UNCHANGED << servers, i_pc, infos_data, drops >>
    BY DEF SendLink, SendFails, FailedTo, connInfosVars
<1>2. /\ One(a_pc = "send" /\ server_el.ip = w) = One(server_el.ip = w)
      /\ One(a_pc' = "send" /\ server_el'.ip = w) = 0
      /\ One(i_pc' = "add" /\ infos_data'.ip = w) = One(i_pc = "add" /\ infos_data.ip = w)
    BY <1>1 DEF One
<1>3. QueuedFor(w)' = QueuedFor(w)
    BY <1>1 DEF QueuedFor, Entries
<1>4. Tokens(w) = QueuedFor(w) + One(i_pc = "add" /\ infos_data.ip = w)
                            + One(a_pc = "send" /\ server_el.ip = w)
    BY TokensParts
<1>5. Tokens(w)' = QueuedFor(w)' + One(i_pc' = "add" /\ infos_data'.ip = w)
                            + One(a_pc' = "send" /\ server_el'.ip = w)
    BY DEF Tokens, QueuedFor
<1>6. /\ QueuedFor(w) \in Nat /\ One(server_el.ip = w) \in 0..1
      /\ One(i_pc = "add" /\ infos_data.ip = w) \in 0..1
    BY TokensParts, OneType
<1> QED
    BY <1>1, <1>2, <1>3, <1>4, <1>5, <1>6

\* What conn_infos_gestion examines counts when it is about to be queued.
LEMMA ExaminingMakesTokens ==
    ASSUME TypeOK, NEW i \in Conn_infos, ExamineInfos(i), NEW w
    PROVE  /\ i_pc' = "add" => i.password = "net" /\ ReadyKind(i) \in Destinations
           /\ i.password = "net" /\ ReadyKind(i) \in Destinations => i_pc' = "add"
           /\ infos_data'.ip = i.ip /\ infos_data'.password = ntoh64[i.password]
           /\ Tokens(w)' = Tokens(w) + One(i_pc' = "add" /\ i.ip = w)
<1>1. /\ i_pc = "accept" /\ infos_data' = SwapInfos(i)
      /\ i_pc' = IF /\ infos_data'.password = "host"
                    /\ ReadyKind(infos_data') \in Destinations
                 THEN "add" ELSE "close"
      /\ UNCHANGED << servers, a_pc, server_el >>
    BY DEF ExamineInfos, attributionVars
<1>2. infos_data'.password = ntoh64[i.password]
    BY <1>1, SwapInfosProperties
<1>3. infos_data'.what = i.what /\ infos_data'.ip = i.ip
    BY <1>1 DEF SwapInfos, Conn_infos
<1>4. ReadyKind(infos_data') = ReadyKind(i)
    BY <1>3 DEF ReadyKind
<1>5. ntoh64[i.password] = "host" <=> i.password = "net"
  <2>1. i.password \in Passwords
      BY DEF Conn_infos
  <2> QED
      BY <2>1, NtohProperties DEF Passwords, Orders
<1>6. /\ One(a_pc' = "send" /\ server_el'.ip = w) = One(a_pc = "send" /\ server_el.ip = w)
      /\ One(i_pc' = "add" /\ infos_data'.ip = w) = One(i_pc' = "add" /\ i.ip = w)
      /\ One(i_pc = "add" /\ infos_data.ip = w) = 0
    BY <1>1, <1>3 DEF One
<1>7. QueuedFor(w)' = QueuedFor(w)
    BY <1>1 DEF QueuedFor, Entries
<1>8. Tokens(w) = QueuedFor(w) + One(i_pc = "add" /\ infos_data.ip = w)
                            + One(a_pc = "send" /\ server_el.ip = w)
    BY TokensParts
<1>9. Tokens(w)' = QueuedFor(w)' + One(i_pc' = "add" /\ infos_data'.ip = w)
                            + One(a_pc' = "send" /\ server_el'.ip = w)
    BY DEF Tokens, QueuedFor
<1>10. /\ QueuedFor(w) \in Nat /\ One(a_pc = "send" /\ server_el.ip = w) \in 0..1
       /\ One(i_pc' = "add" /\ i.ip = w) \in 0..1
    BY TokensParts, OneType
<1>11. Tokens(w)' = Tokens(w) + One(i_pc' = "add" /\ i.ip = w)
    BY <1>6, <1>7, <1>8, <1>9, <1>10
<1> QED
    BY <1>1, <1>2, <1>3, <1>4, <1>5, <1>11

\* The other steps of central leave every worker its tokens.
KeepsTokens ==
    /\ \A w \in Workers : Tokens(w)' = Tokens(w)
    /\ UNCHANGED infos_data /\ drops' >= drops

LEMMA OtherStepsKeepTokens ==
    ASSUME Inv1, Inv1', NeverPopsEmptyQueue,
           \/ \E d : RecvLink(d)
           \/ RecvLinkFails \/ UnknownLinksStep \/ ConnInfosStep
           \/ WaitLink \/ TakeLink \/ WaitServer \/ TakeServer \/ Requeue \/ PostRequeued
           \/ UNCHANGED vars
    PROVE  KeepsTokens
<1>1. drops \in Nat
    BY BoundsAssumption DEF Inv1, TypeOK
<1>2. CASE AddServer
  <2>1. UNCHANGED << infos_data, drops >>
      BY <1>2 DEF AddServer
  <2> QED
      BY <1>1, <1>2, <2>1, AddServerKeepsTokens DEF KeepsTokens
<1>3. CASE TakeServer
  <2>1. UNCHANGED << infos_data, drops >>
      BY <1>3 DEF TakeServer, connInfosVars, counters
  <2> QED
      BY <1>1, <1>3, <2>1, TakeServerKeepsTokens DEF KeepsTokens
<1>4. ASSUME UNCHANGED << servers, infos_data, server_el >>, drops' >= drops,
             i_pc' = "add" <=> i_pc = "add", a_pc' = "send" <=> a_pc = "send"
      PROVE  KeepsTokens
  <2> SUFFICES ASSUME NEW w \in Workers PROVE Tokens(w)' = Tokens(w)
      BY <1>4 DEF KeepsTokens
  <2>1. /\ One(i_pc' = "add" /\ infos_data'.ip = w) = One(i_pc = "add" /\ infos_data.ip = w)
        /\ One(a_pc' = "send" /\ server_el'.ip = w) = One(a_pc = "send" /\ server_el.ip = w)
      BY <1>4 DEF One
  <2>2. QueuedFor(w)' = QueuedFor(w)
      BY <1>4 DEF QueuedFor, Entries
  <2>3. Tokens(w)' = QueuedFor(w)' + One(i_pc' = "add" /\ infos_data'.ip = w)
                            + One(a_pc' = "send" /\ server_el'.ip = w)
      BY DEF Tokens, QueuedFor
  <2>4. Tokens(w) = QueuedFor(w) + One(i_pc = "add" /\ infos_data.ip = w)
                            + One(a_pc = "send" /\ server_el.ip = w)
      BY DEF Tokens, QueuedFor
  <2> QED
      BY <2>1, <2>2, <2>3, <2>4
<1>5. \/ AddServer \/ TakeServer
      \/ /\ UNCHANGED << servers, infos_data, server_el >>
         /\ drops' = drops \/ drops' = drops + 1
         /\ (i_pc' = "add" <=> i_pc = "add") /\ (a_pc' = "send" <=> a_pc = "send")
    BY DEF RecvLink, RecvLinkFails, Examine, UnknownLinksStep, AddLink, PostLink, CloseLink,
       ConnInfosStep, PostServer, CloseInfos, WaitLink, TakeLink, WaitServer, Requeue,
       PostRequeued, vars, attributionVars, connInfosVars, counters
<1> QED
    BY <1>1, <1>2, <1>3, <1>4, <1>5

LEMMA NoTokensInTheBeginning ==
    Init => /\ \A w \in Workers : Tokens(w) = 0
            /\ infos_data.password \notin Orders /\ drops = 0
<1> SUFFICES ASSUME Init
             PROVE  /\ \A w \in Workers : Tokens(w) = 0
                    /\ infos_data.password \notin Orders /\ drops = 0
    OBVIOUS
<1>1. infos_data.password \notin Orders /\ drops = 0
    BY UninitSound DEF Init
<1>2. ASSUME NEW w \in Workers PROVE Tokens(w) = 0
  <2>1. /\ Entries(servers[DEST_VIRUS_CHECKER], w) = 0
        /\ Entries(servers[DEST_SCRAPPING_UNIT], w) = 0
      BY NoEntries DEF Init, Destinations
  <2>2. /\ One(i_pc = "add" /\ infos_data.ip = w) = 0
        /\ One(a_pc = "send" /\ server_el.ip = w) = 0
      BY DEF Init, One
  <2> QED
      BY <2>1, <2>2 DEF Tokens
<1> QED
    BY <1>1, <1>2

-----------------------------------------------------------------------------
(* Tokens and the steps of the system *)

\* Until a connection dies conn_infos_gestion has nothing on its stack that would pass
\* the password test if it were swapped and examined again.
StaleIsRefused == drops = 0 => infos_data.password # "net"

\* A worker that waits since before central crashed is unknown to the new one,
\* and nothing that is left in a buffer can make it known.
StrandedUnknown ==
    \A w \in stranded : /\ w_pc[w] = "accept" /\ Tokens(w) = 0
                        /\ ~(infos_data.password \in Orders /\ infos_data.ip = w)

AnnInv == LInv /\ StaleIsRefused /\ OnlyIdleWorkersChosen /\ NoIdleWorkerForgotten
               /\ StrandedUnknown

\* A step that changes neither tokens nor who waits.
QuietStep ==
    /\ KeepsTokens
    /\ UNCHANGED << stranded, fallen >> /\ lost' >= lost
    /\ \A w \in Workers : w_pc'[w] = "accept" <=> w_pc[w] = "accept"

\* What is known of a state in which a step is taken.
LEMMA Facts ==
    ASSUME LInv
    PROVE  /\ Inv1 /\ TypeOK /\ NeverPopsEmptyQueue
           /\ lost \in Nat /\ drops \in Nat
           /\ stranded \subseteq Workers
           /\ w_pc \in [Workers -> ControlPoints]
           /\ infos_data \in Conn_infos /\ server_el.ip \in Workers
           /\ \A w \in Workers : Tokens(w) \in Nat
<1>1. Inv1 /\ TypeOK /\ NeverPopsEmptyQueue
    BY SemsImplyNonEmpty DEF LInv, CentralSound, Inv1
<1>2. lost \in Nat /\ stranded \subseteq Workers
    BY FaultsAssumption DEF LInv, ClientsSound, FaultsTyped
<1>3. drops \in Nat /\ infos_data \in Conn_infos /\ server_el.ip \in Workers
    BY <1>1, BoundsAssumption DEF TypeOK, ServerEl
<1>4. \A w \in Workers : Tokens(w) \in Nat
    BY <1>1, TokensParts
<1>5. w_pc \in [Workers -> ControlPoints]
    BY DEF LInv, ClientsSound, WorkersSound, WorkersTyped
<1> QED
    BY <1>1, <1>2, <1>3, <1>4, <1>5

LEMMA WriteIsQuiet ==
    ASSUME LInv, LInv', NEW d, WriteLink(d)
    PROVE  KeepsTokens /\ lost' >= lost
<1>1. Inv1 /\ NeverPopsEmptyQueue /\ Inv1' /\ lost \in Nat
    BY Facts DEF LInv, CentralSound
<1>2. \/ RecvLink(d) \/ RecvLinkFails \/ UNCHANGED vars
    BY DEF WriteLink
<1>3. KeepsTokens
    BY <1>1, <1>2, OtherStepsKeepTokens
<1>4. lost' >= lost
    BY <1>1 DEF WriteLink, ConnectionFails
<1> QED
    BY <1>3, <1>4

\* A worker that works leaves the others where they are.
LEMMA GotoKeepsWaiting ==
    ASSUME LInv, NEW w \in Workers, NEW c, NEW e, Goto(w, c, e), c # "accept", e # "accept"
    PROVE  \A v \in Workers : w_pc'[v] = "accept" <=> w_pc[v] = "accept"
<1>1. w_pc \in [Workers -> ControlPoints]
    BY Facts
<1> QED
    BY <1>1 DEF Goto

LEMMA QuietSteps ==
    ASSUME LInv, LInv',
           \/ CentralAlone \/ CentralRestart \/ UNCHANGED allVars
           \/ \E m \in Msgs : SendFromBot(m)
           \/ \E w \in Workers :
                \/ Restart(w) \/ FetchFails(w) \/ FetchFile(w) \/ FetchPage(w)
                \/ SendCertified(w) \/ SendFound(w) \/ SkipFound(w) \/ PageFinished(w)
                \/ HashHttpError(w) \/ Resend(w) \/ SendAudit(w)
    PROVE  QuietStep
<1>1. Inv1 /\ NeverPopsEmptyQueue /\ Inv1' /\ lost \in Nat
      /\ w_pc \in [Workers -> ControlPoints]
    BY Facts DEF LInv, CentralSound
<1>2. ASSUME UNCHANGED vars PROVE KeepsTokens
    BY <1>1, <1>2, OtherStepsKeepTokens
<1>3. CASE CentralAlone
  <2>1. KeepsTokens
      BY <1>1, <1>3, OtherStepsKeepTokens DEF CentralAlone
  <2> QED
      BY <1>1, <1>3, <2>1 DEF QuietStep, CentralAlone, systemVars, workerVars, crashVars
<1>4. CASE CentralRestart
    BY <1>1, <1>2, <1>4 DEF QuietStep, CentralRestart, workerVars
<1>5. CASE UNCHANGED allVars
    BY <1>1, <1>2, <1>5 DEF QuietStep, allVars, systemVars, workerVars, crashVars
<1>6. ASSUME NEW m \in Msgs, SendFromBot(m) PROVE QuietStep
  <2>1. KeepsTokens /\ lost' >= lost
      BY <1>6, WriteIsQuiet DEF SendFromBot
  <2> QED
      BY <1>6, <2>1 DEF QuietStep, SendFromBot, workerVars, crashVars
<1>7. ASSUME NEW w \in Workers, SendFound(w) \/ SkipFound(w) PROVE QuietStep
  <2>1. UNCHANGED w_pc /\ UNCHANGED crashVars
      BY <1>7 DEF SendFound, SkipFound, SendUrl
  <2>2. KeepsTokens /\ lost' >= lost
    <3>1. CASE SendFound(w)
        BY <3>1, WriteIsQuiet DEF SendFound, SendUrl
    <3>2. CASE SkipFound(w)
        BY <1>1, <1>2, <3>2 DEF SkipFound
    <3> QED
        BY <1>7, <3>1, <3>2
  <2> QED
      BY <2>1, <2>2 DEF QuietStep, crashVars
<1>8. ASSUME NEW w \in Workers,
             \/ Restart(w) \/ FetchFails(w) \/ FetchFile(w) \/ FetchPage(w)
             \/ SendCertified(w) \/ PageFinished(w)
             \/ HashHttpError(w) \/ Resend(w) \/ SendAudit(w)
      PROVE  QuietStep
  <2>1. UNCHANGED crashVars
      BY <1>8 DEF Restart, FetchFails, FetchFile, FetchPage, SendCertified, SendUrl,
         PageFinished, HashHttpError, Resend, SendAudit
  <2>2. PICK c \in ControlPoints, e \in ControlPoints :
           Goto(w, c, e) /\ c # "accept" /\ e # "accept"
      BY <1>8 DEF Restart, FetchFails, FetchFile, FetchPage, SendCertified,
         PageFinished, HashHttpError, Resend, SendAudit, ControlPoints
  <2>3. \A v \in Workers : w_pc'[v] = "accept" <=> w_pc[v] = "accept"
      BY <2>2, GotoKeepsWaiting
  <2>4. KeepsTokens /\ lost' >= lost
    <3>1. CASE SendCertified(w) \/ Resend(w)
        BY <3>1, WriteIsQuiet DEF SendCertified, SendUrl, Resend
    <3>2. CASE SendAudit(w)
        BY <1>1, <1>2, <3>2 DEF SendAudit, ConnectionFails
    <3>3. CASE \/ Restart(w) \/ FetchFails(w) \/ FetchFile(w) \/ FetchPage(w)
               \/ PageFinished(w) \/ HashHttpError(w)
        BY <1>1, <1>2, <3>3 DEF Restart, FetchFails, FetchFile, FetchPage, PageFinished,
           HashHttpError
    <3> QED
        BY <1>8, <3>1, <3>2, <3>3
  <2> QED
      BY <2>1, <2>3, <2>4 DEF QuietStep, crashVars
<1> QED
    BY <1>3, <1>4, <1>5, <1>6, <1>7, <1>8

LEMMA QuietKeepsAnn ==
    ASSUME LInv, LInv', AnnInv, QuietStep
    PROVE  StaleIsRefused' /\ OnlyIdleWorkersChosen' /\ NoIdleWorkerForgotten' /\ StrandedUnknown'
<1>1. /\ lost \in Nat /\ drops \in Nat /\ stranded \subseteq Workers
      /\ \A w \in Workers : Tokens(w) \in Nat
    BY Facts
<1>2. /\ \A w \in Workers : Tokens(w)' = Tokens(w)
      /\ UNCHANGED << infos_data, stranded, fallen >>
      /\ drops' >= drops /\ lost' >= lost
      /\ \A w \in Workers : w_pc'[w] = "accept" <=> w_pc[w] = "accept"
    BY DEF QuietStep, KeepsTokens
<1>3. (lost' = 0 => lost = 0) /\ (drops' = 0 => drops = 0) /\ (drops' <= 1 => drops <= 1)
  <2>1. drops' \in Nat
      BY BoundsAssumption DEF LInv, CentralSound, Inv1, TypeOK
  <2>2. lost' = 0 => lost = 0
      BY <1>1, <1>2
  <2> QED
      BY <1>1, <1>2, <2>1, <2>2
<1>4. StaleIsRefused'
    BY <1>2, <1>3 DEF AnnInv, StaleIsRefused
<1>5. OnlyIdleWorkersChosen'
  <2> SUFFICES ASSUME drops' <= 1, NEW w \in Workers \ fallen'
               PROVE  Tokens(w)' <= One(w_pc'[w] = "accept")
      BY DEF OnlyIdleWorkersChosen
  <2>1. Tokens(w) <= One(w_pc[w] = "accept")
      BY <1>2, <1>3 DEF AnnInv, OnlyIdleWorkersChosen
  <2> QED
      BY <1>2, <2>1 DEF One
<1>6. NoIdleWorkerForgotten'
  <2> SUFFICES ASSUME lost' = 0, drops' = 0, NEW w \in Workers, w_pc'[w] = "accept"
               PROVE  Tokens(w)' >= 1 \/ w \in stranded'
      BY DEF NoIdleWorkerForgotten
  <2> QED
      BY <1>2, <1>3 DEF AnnInv, NoIdleWorkerForgotten
<1>7. StrandedUnknown'
  <2> SUFFICES ASSUME NEW w \in stranded'
               PROVE  /\ w_pc'[w] = "accept" /\ Tokens(w)' = 0
                      /\ ~(infos_data'.password \in Orders /\ infos_data'.ip = w)
      BY DEF StrandedUnknown
  <2> QED
      BY <1>1, <1>2 DEF AnnInv, StrandedUnknown
<1> QED
    BY <1>4, <1>5, <1>6, <1>7

\* What conn_infos_gestion makes of a "ready", and of a connection that dies.
LEMMA ReadyTokens ==
    ASSUME LInv, NEW v \in Workers, NEW t \in Times, RecvInfos(ReadyInfos(v, t))
    PROVE  /\ \A w \in Workers : Tokens(w)' = Tokens(w) + One(v = w)
           /\ infos_data'.ip = v /\ infos_data'.password = "host" /\ drops' = drops
<1> DEFINE i == ReadyInfos(v, t)
<1>1. TypeOK /\ i \in Conn_infos /\ i.password = "net" /\ ReadyKind(i) \in Destinations
  <2>1. i \in WireInfos /\ SoundReady(i)
      BY ReadyIsSound
  <2>2. KindOf(v) \in Destinations
      BY DEF KindOf, Destinations
  <2>3. i.ip = v
      BY DEF ReadyInfos
  <2> QED
      BY <2>1, <2>2, <2>3, Facts, WireAssumption DEF SoundReady
<1>2. i.ip = v /\ ExamineInfos(i) /\ drops' = drops
    BY DEF ReadyInfos, RecvInfos
<1> HIDE DEF i
<1>3. infos_data'.ip = v /\ i_pc' = "add" /\ infos_data'.password = ntoh64["net"]
    BY <1>1, <1>2, ExaminingMakesTokens
<1>4. ASSUME NEW w \in Workers PROVE Tokens(w)' = Tokens(w) + One(v = w)
  <2>1. Tokens(w)' = Tokens(w) + One(i_pc' = "add" /\ i.ip = w)
      BY <1>1, <1>2, ExaminingMakesTokens
  <2> QED
      BY <1>2, <1>3, <2>1 DEF One
<1>5. ntoh64["net"] = "host"
    BY NtohProperties DEF Passwords, Orders
<1> QED
    BY <1>2, <1>3, <1>4, <1>5

LEMMA LostReadyTokens ==
    ASSUME LInv, RecvInfosFails, NEW w \in Workers
    PROVE  /\ drops' = drops + 1 /\ drops' # 0
           /\ infos_data'.password \in Orders => /\ infos_data.password \in Orders
                                                 /\ infos_data'.ip = infos_data.ip
           /\ \/ Tokens(w)' = Tokens(w)
              \/ infos_data.password = "net" /\ infos_data.ip = w
<1>1. TypeOK /\ infos_data \in Conn_infos /\ drops \in Nat /\ Tokens(w) \in Nat
    BY Facts
<1>2. drops' = drops + 1
    BY DEF RecvInfosFails
<1>3. PICK j \in {infos_data, UninitInfos} : ExamineInfos(j)
    BY DEF RecvInfosFails
<1>4. j \in Conn_infos /\ j.password \in Passwords
    BY <1>1, <1>3, UninitTypes DEF Conn_infos
<1>5. /\ i_pc' = "add" => j.password = "net"
      /\ infos_data'.ip = j.ip /\ infos_data'.password = ntoh64[j.password]
      /\ Tokens(w)' = Tokens(w) + One(i_pc' = "add" /\ j.ip = w)
    BY <1>1, <1>3, <1>4, ExaminingMakesTokens
<1>6. ntoh64[j.password] \in Orders => j.password \in Orders
    BY <1>4, NtohProperties DEF Passwords, Orders
<1>7. j.password \in Orders => j = infos_data
    BY <1>3, UninitSound
<1>8. CASE i_pc' = "add" /\ j.ip = w
  <2>1. j.password = "net" /\ j.password \in Orders
      BY <1>5, <1>8 DEF Orders
  <2> QED
      BY <1>1, <1>2, <1>5, <1>6, <1>7, <1>8, <2>1
<1>9. CASE ~(i_pc' = "add" /\ j.ip = w)
  <2>1. One(i_pc' = "add" /\ j.ip = w) = 0
      BY <1>9 DEF One
  <2>2. Tokens(w)' = Tokens(w)
      BY <1>1, <1>5, <2>1
  <2> QED
      BY <1>1, <1>2, <1>5, <1>6, <1>7, <2>2
<1> QED
    BY <1>8, <1>9

LEMMA ReadyKeepsAnn ==
    ASSUME LInv, AnnInv, NEW v \in Workers, SendReady(v)
    PROVE  StaleIsRefused' /\ OnlyIdleWorkersChosen' /\ NoIdleWorkerForgotten' /\ StrandedUnknown'
<1>1. /\ lost \in Nat /\ drops \in Nat /\ stranded \subseteq Workers
      /\ w_pc \in [Workers -> ControlPoints] /\ \A w \in Workers : Tokens(w) \in Nat
    BY Facts
<1>2. /\ w_pc[v] = "announce" /\ w_pc' = [w_pc EXCEPT ![v] = "accept"]
      /\ UNCHANGED << stranded, fallen, lost >>
    BY DEF SendReady, Goto, crashVars
<1>3. v \notin fallen /\ drops <= 1 => Tokens(v) = 0
  <2>1. v \notin fallen /\ drops <= 1 => Tokens(v) <= One(w_pc[v] = "accept")
      BY DEF AnnInv, OnlyIdleWorkersChosen
  <2> QED
      BY <1>1, <1>2, <2>1 DEF One
<1>4. \A w \in stranded : w # v /\ w_pc'[w] = "accept" /\ w_pc[w] = "accept"
    BY <1>1, <1>2 DEF AnnInv, StrandedUnknown
<1>5. CASE \E t \in Times : RecvInfos(ReadyInfos(v, t))
  <2>1. /\ \A w \in Workers : Tokens(w)' = Tokens(w) + One(v = w)
        /\ infos_data'.ip = v /\ infos_data'.password = "host" /\ drops' = drops
      BY <1>5, ReadyTokens
  <2>2. /\ \A w \in Workers : w # v => Tokens(w)' = Tokens(w) /\ w_pc'[w] = w_pc[w]
        /\ Tokens(v)' = Tokens(v) + 1 /\ w_pc'[v] = "accept"
      BY <1>1, <1>2, <2>1 DEF One
  <2>3. OnlyIdleWorkersChosen'
    <3> SUFFICES ASSUME drops' <= 1, NEW w \in Workers \ fallen'
                 PROVE  Tokens(w)' <= One(w_pc'[w] = "accept")
        BY DEF OnlyIdleWorkersChosen
    <3>1. CASE w = v
        BY <1>2, <1>3, <2>1, <2>2, <3>1 DEF One
    <3>2. CASE w # v
        BY <1>2, <2>1, <2>2, <3>2 DEF AnnInv, OnlyIdleWorkersChosen
    <3> QED
        BY <3>1, <3>2
  <2>4. NoIdleWorkerForgotten'
    <3> SUFFICES ASSUME lost' = 0, drops' = 0, NEW w \in Workers, w_pc'[w] = "accept"
                 PROVE  Tokens(w)' >= 1 \/ w \in stranded'
        BY DEF NoIdleWorkerForgotten
    <3>1. CASE w = v
        BY <1>1, <2>2, <3>1
    <3>2. CASE w # v
        BY <1>2, <2>1, <2>2, <3>2 DEF AnnInv, NoIdleWorkerForgotten
    <3> QED
        BY <3>1, <3>2
  <2>5. StrandedUnknown'
      BY <1>1, <1>2, <1>4, <2>1, <2>2 DEF AnnInv, StrandedUnknown
  <2>6. StaleIsRefused'
      BY <2>1 DEF StaleIsRefused
  <2> QED
      BY <2>3, <2>4, <2>5, <2>6
<1>6. CASE RecvInfosFails
  <2>1. drops' = drops + 1 /\ drops' # 0
      BY <1>6, LostReadyTokens
  <2>2. StrandedUnknown'
    <3> SUFFICES ASSUME NEW w \in stranded
                 PROVE  /\ w_pc'[w] = "accept" /\ Tokens(w)' = 0
                        /\ ~(infos_data'.password \in Orders /\ infos_data'.ip = w)
        BY <1>2 DEF StrandedUnknown
    <3>1. Tokens(w) = 0 /\ ~(infos_data.password \in Orders /\ infos_data.ip = w)
        BY DEF AnnInv, StrandedUnknown
    <3> QED
        BY <1>1, <1>4, <1>6, <3>1, LostReadyTokens DEF Orders
  <2>3. OnlyIdleWorkersChosen'
    <3> SUFFICES ASSUME drops' <= 1, NEW w \in Workers \ fallen'
                 PROVE  Tokens(w)' <= One(w_pc'[w] = "accept")
        BY DEF OnlyIdleWorkersChosen
    <3>1. drops = 0 /\ drops <= 1 /\ w \notin fallen
        BY <1>1, <1>2, <2>1
    <3>2. infos_data.password # "net"
        BY <3>1 DEF AnnInv, StaleIsRefused
    <3>3. Tokens(w)' = Tokens(w)
        BY <1>6, <3>2, LostReadyTokens
    <3>4. Tokens(w) <= One(w_pc[w] = "accept")
        BY <3>1 DEF AnnInv, OnlyIdleWorkersChosen
    <3> QED
        BY <1>1, <1>2, <3>3, <3>4 DEF One
  <2>4. StaleIsRefused' /\ NoIdleWorkerForgotten'
      BY <2>1 DEF StaleIsRefused, NoIdleWorkerForgotten
  <2> QED
      BY <2>2, <2>3, <2>4
<1> QED
    BY <1>5, <1>6 DEF SendReady

\* Central connects: to a worker that accepts, or to nobody.
LEMMA DispatchKeepsAnn ==
    ASSUME LInv, AnnInv, Dispatch
    PROVE  StaleIsRefused' /\ OnlyIdleWorkersChosen' /\ NoIdleWorkerForgotten' /\ StrandedUnknown'
<1> DEFINE v == server_el.ip
<1>1. /\ lost \in Nat /\ drops \in Nat /\ stranded \subseteq Workers
      /\ w_pc \in [Workers -> ControlPoints] /\ \A w \in Workers : Tokens(w) \in Nat
      /\ v \in Workers /\ TypeOK
    BY Facts
<1>2. SendLink /\ UNCHANGED crashVars /\ (lost' = lost \/ lost' = lost + 1)
    BY DEF Dispatch, Receives, ConnectionFails
<1>3. PICK c \in {"job", "announce"} :
         w_pc[v] = "accept" /\ w_pc' = [w_pc EXCEPT ![v] = c]
    BY DEF Dispatch, Receives, Goto
<1>4. UNCHANGED << stranded, fallen >>
    BY <1>2 DEF crashVars
<1>5. UNCHANGED << infos_data, drops >>
    BY <1>1, <1>2, ConnectingUsesToken
<1>6. \A w \in Workers : Tokens(w)' = Tokens(w) - One(v = w) /\ Tokens(w)' \in Nat
    BY <1>1, <1>2, ConnectingUsesToken
<1> HIDE DEF v
<1>7. StaleIsRefused'
    BY <1>5 DEF AnnInv, StaleIsRefused
<1>8. v \notin stranded
  <2> SUFFICES ASSUME NEW w \in stranded, w = v PROVE FALSE
      OBVIOUS
  <2>1. Tokens(w) = 0 /\ w \in Workers
      BY <1>1 DEF AnnInv, StrandedUnknown
  <2>2. Tokens(w)' = Tokens(w) - One(v = w) /\ Tokens(w)' \in Nat
      BY <1>6, <2>1
  <2>3. One(v = w) = 1
      BY DEF One
  <2> QED
      BY <2>1, <2>2, <2>3
<1>9. /\ w_pc'[v] # "accept"
      /\ \A w \in Workers : w # v => Tokens(w)' = Tokens(w) /\ w_pc'[w] = w_pc[w]
    BY <1>1, <1>3, <1>6 DEF One
<1>10. lost' = 0 => lost = 0
    BY <1>1, <1>2
<1>11. OnlyIdleWorkersChosen'
  <2> SUFFICES ASSUME drops' <= 1, NEW w \in Workers \ fallen'
               PROVE  Tokens(w)' <= One(w_pc'[w] = "accept")
      BY DEF OnlyIdleWorkersChosen
  <2>1. Tokens(w) <= One(w_pc[w] = "accept") /\ Tokens(w) \in Nat
      BY <1>1, <1>4, <1>5 DEF AnnInv, OnlyIdleWorkersChosen
  <2>2. CASE w = v
    <3>1. One(w_pc[w] = "accept") = 1 /\ One(w_pc'[w] = "accept") = 0 /\ One(v = w) = 1
        BY <1>3, <1>9, <2>2 DEF One
    <3> QED
        BY <1>6, <2>1, <2>2, <3>1
  <2>3. CASE w # v
      BY <1>9, <2>1, <2>3 DEF One
  <2> QED
      BY <2>2, <2>3
<1>12. NoIdleWorkerForgotten'
  <2> SUFFICES ASSUME lost' = 0, drops' = 0, NEW w \in Workers, w_pc'[w] = "accept"
               PROVE  Tokens(w)' >= 1 \/ w \in stranded'
      BY DEF NoIdleWorkerForgotten
  <2> QED
      BY <1>4, <1>5, <1>9, <1>10 DEF AnnInv, NoIdleWorkerForgotten
<1>13. StrandedUnknown'
    BY <1>1, <1>4, <1>5, <1>8, <1>9 DEF AnnInv, StrandedUnknown
<1> QED
    BY <1>7, <1>11, <1>12, <1>13

LEMMA DispatchFailsKeepsAnn ==
    ASSUME LInv, AnnInv, DispatchFails
    PROVE  StaleIsRefused' /\ OnlyIdleWorkersChosen' /\ NoIdleWorkerForgotten' /\ StrandedUnknown'
<1> DEFINE v == server_el.ip
<1>1. /\ lost \in Nat /\ drops \in Nat /\ stranded \subseteq Workers
      /\ w_pc \in [Workers -> ControlPoints] /\ \A w \in Workers : Tokens(w) \in Nat
      /\ v \in Workers /\ TypeOK
    BY Facts
<1>2. /\ SendFails /\ UNCHANGED << stranded, fallen, w_pc >>
      /\ \/ w_pc[v] = "down" /\ lost' = lost
         \/ lost' = lost + 1
    BY DEF DispatchFails, ConnectionFails, crashVars, workerVars
<1>3. UNCHANGED << infos_data, drops >>
    BY <1>1, <1>2, ConnectingUsesToken
<1>4. \A w \in Workers : Tokens(w)' = Tokens(w) - One(v = w) /\ Tokens(w)' \in Nat
    BY <1>1, <1>2, ConnectingUsesToken
<1> HIDE DEF v
<1>5. \A w \in Workers : w # v => Tokens(w)' = Tokens(w)
    BY <1>1, <1>4 DEF One
<1>6. lost' = 0 => lost = 0 /\ w_pc[v] = "down"
    BY <1>1, <1>2
<1>7. StaleIsRefused'
    BY <1>3 DEF AnnInv, StaleIsRefused
<1>8. OnlyIdleWorkersChosen'
  <2> SUFFICES ASSUME drops' <= 1, NEW w \in Workers \ fallen'
               PROVE  Tokens(w)' <= One(w_pc'[w] = "accept")
      BY DEF OnlyIdleWorkersChosen
  <2>1. Tokens(w) <= One(w_pc[w] = "accept")
      BY <1>2, <1>3 DEF AnnInv, OnlyIdleWorkersChosen
  <2>2. One(v = w) \in 0..1
      BY OneType
  <2>3. Tokens(w)' <= Tokens(w)
      BY <1>1, <1>4, <2>2
  <2> QED
      BY <1>1, <1>2, <1>4, <2>1, <2>3 DEF One
<1>9. NoIdleWorkerForgotten'
  <2> SUFFICES ASSUME lost' = 0, drops' = 0, NEW w \in Workers, w_pc'[w] = "accept"
               PROVE  Tokens(w)' >= 1 \/ w \in stranded'
      BY DEF NoIdleWorkerForgotten
  <2>1. w # v
      BY <1>2, <1>6
  <2> QED
      BY <1>2, <1>3, <1>5, <1>6, <2>1 DEF AnnInv, NoIdleWorkerForgotten
<1>10. StrandedUnknown'
  <2> SUFFICES ASSUME NEW w \in stranded
               PROVE  /\ w_pc'[w] = "accept" /\ Tokens(w)' = 0
                      /\ ~(infos_data'.password \in Orders /\ infos_data'.ip = w)
      BY <1>2 DEF StrandedUnknown
  <2>1. /\ w_pc[w] = "accept" /\ Tokens(w) = 0
        /\ ~(infos_data.password \in Orders /\ infos_data.ip = w)
      BY DEF AnnInv, StrandedUnknown
  <2>2. One(v = w) \in 0..1
      BY OneType
  <2>3. Tokens(w)' = 0
      BY <1>1, <1>4, <2>1, <2>2
  <2> QED
      BY <1>2, <1>3, <2>1, <2>3
<1> QED
    BY <1>7, <1>8, <1>9, <1>10

LEMMA CrashesKeepAnn ==
    ASSUME LInv, AnnInv, CentralCrash \/ \E w \in Workers : Crash(w)
    PROVE  StaleIsRefused' /\ OnlyIdleWorkersChosen' /\ NoIdleWorkerForgotten' /\ StrandedUnknown'
<1>1. /\ lost \in Nat /\ drops \in Nat /\ stranded \subseteq Workers
      /\ w_pc \in [Workers -> ControlPoints] /\ \A w \in Workers : Tokens(w) \in Nat
    BY Facts
<1>2. CASE CentralCrash
  <2>1. /\ Init' /\ w_pc' = w_pc /\ stranded' = { w \in Workers : w_pc[w] = "accept" }
      BY <1>2 DEF CentralCrash, Init, workerVars
  <2>2. (\A w \in Workers : Tokens(w) = 0)' /\ (infos_data.password \notin Orders)'
      BY <2>1, NoTokensInTheBeginning, PTL
  <2>3. NoIdleWorkerForgotten'
      BY <2>1 DEF NoIdleWorkerForgotten
  <2>4. StrandedUnknown'
      BY <2>1, <2>2 DEF StrandedUnknown
  <2>5. StaleIsRefused'
      BY <2>2 DEF StaleIsRefused, Orders
  <2>6. OnlyIdleWorkersChosen'
      BY <2>2 DEF OnlyIdleWorkersChosen, One
  <2> QED
      BY <2>3, <2>4, <2>5, <2>6
<1>3. ASSUME NEW v \in Workers, Crash(v)
      PROVE  StaleIsRefused' /\ OnlyIdleWorkersChosen' /\ NoIdleWorkerForgotten' /\ StrandedUnknown'
  <2>1. /\ UNCHANGED vars /\ UNCHANGED lost
        /\ stranded' = stranded \ {v} /\ fallen' = fallen \union {v}
        /\ w_pc' = [w_pc EXCEPT ![v] = "down"]
      BY <1>3 DEF Crash
  <2>2. /\ \A w \in Workers : Tokens(w)' = Tokens(w)
        /\ UNCHANGED << infos_data, drops >>
      BY <2>1 DEF Tokens, Entries, vars, connInfosVars, attributionVars, counters
  <2>3. /\ w_pc'[v] = "down"
        /\ \A w \in Workers : w # v => w_pc'[w] = w_pc[w]
      BY <1>1, <2>1
  <2>4. NoIdleWorkerForgotten'
    <3> SUFFICES ASSUME lost' = 0, drops' = 0, NEW w \in Workers, w_pc'[w] = "accept"
                 PROVE  Tokens(w)' >= 1 \/ w \in stranded'
        BY DEF NoIdleWorkerForgotten
    <3>1. w # v
        BY <2>3
    <3> QED
        BY <2>1, <2>2, <2>3, <3>1 DEF AnnInv, NoIdleWorkerForgotten
  <2>5. StrandedUnknown'
      BY <1>1, <2>1, <2>2, <2>3 DEF AnnInv, StrandedUnknown
  <2>6. StaleIsRefused'
      BY <2>2 DEF AnnInv, StaleIsRefused
  <2>7. OnlyIdleWorkersChosen'
      BY <2>1, <2>2, <2>3 DEF AnnInv, OnlyIdleWorkersChosen
  <2> QED
      BY <2>4, <2>5, <2>6, <2>7
<1> QED
    BY <1>2, <1>3

LEMMA AnnInvInit == LInit => AnnInv
<1> SUFFICES ASSUME LInit PROVE AnnInv
    OBVIOUS
<1>1. LInv /\ infos_data.password \notin Orders /\ \A w \in Workers : Tokens(w) = 0
    BY LInvInit, NoTokensInTheBeginning DEF LInit
<1>2. stranded = {} /\ \A w \in Workers : w_pc[w] = "announce"
    BY DEF LInit
<1> QED
    BY <1>1, <1>2
    DEF AnnInv, StaleIsRefused, OnlyIdleWorkersChosen, NoIdleWorkerForgotten, StrandedUnknown,
        One, Orders

LEMMA AnnInvStep == AnnInv /\ [LNext]_allVars => AnnInv'
<1> SUFFICES ASSUME AnnInv, [LNext]_allVars PROVE AnnInv'
    OBVIOUS
<1>1. LInv /\ LInv'
    BY LInvStep DEF AnnInv
<1>2. \/ CentralAlone \/ CentralRestart \/ UNCHANGED allVars
      \/ \E m \in Msgs : SendFromBot(m)
      \/ \E w \in Workers :
           \/ Restart(w) \/ FetchFails(w) \/ FetchFile(w) \/ FetchPage(w)
           \/ SendCertified(w) \/ SendFound(w) \/ SkipFound(w) \/ PageFinished(w)
           \/ HashHttpError(w) \/ Resend(w) \/ SendAudit(w)
      \/ \E w \in Workers : SendReady(w)
      \/ Dispatch \/ DispatchFails \/ CentralCrash \/ \E w \in Workers : Crash(w)
    BY DEF LNext, WorkerStep
<1>3. StaleIsRefused' /\ OnlyIdleWorkersChosen' /\ NoIdleWorkerForgotten' /\ StrandedUnknown'
    BY <1>1, <1>2, QuietSteps, QuietKeepsAnn, ReadyKeepsAnn, DispatchKeepsAnn,
       DispatchFailsKeepsAnn, CrashesKeepAnn
<1> QED
    BY <1>1, <1>3 DEF AnnInv

THEOREM AnnInvHolds == LSpec => []AnnInv
BY AnnInvInit, AnnInvStep, PTL DEF LSpec

(* Through all interleavings of central's threads with any number of       *)
(* workers, central holds at most one announcement of an idle worker and   *)
(* none of a busy one, unless two connections to central have died before  *)
(* their data came or the worker has crashed since central was started;    *)
(* crashes of central and of other workers and connections that fail       *)
(* otherwise change nothing (central.c:77-80, 183-194;                     *)
(* virus_checker.c:186-191).                                               *)
THEOREM OnlyIdleWorkersAreChosen == LSpec => []OnlyIdleWorkersChosen
BY AnnInvHolds, PTL DEF AnnInv

(* While no connection fails, a worker that waits for a link is known to   *)
(* central or has waited since before central crashed, whatever other      *)
(* workers crash and come back (virus_checker.c:117-131,                   *)
(* scrapping_unit.c:287-303, central.c:77-80).                             *)
THEOREM IdleWorkersAreKnown == LSpec => []NoIdleWorkerForgotten
BY AnnInvHolds, PTL DEF AnnInv

(* A crash of central costs every worker that was idle until that one is   *)
(* started again itself: it goes on waiting and no announcement of it      *)
(* reaches the new central, not even out of a stale buffer, however many   *)
(* connections fail (virus_checker.c:127, scrapping_unit.c:299;            *)
(* central.c:168-194).                                                     *)
THEOREM StrandedWorkersStayUnknown ==
    LSpec => [](\A w \in stranded : w_pc[w] = "accept" /\ Tokens(w) = 0)
<1>1. AnnInv => \A w \in stranded : w_pc[w] = "accept" /\ Tokens(w) = 0
    BY DEF AnnInv, StrandedUnknown
<1> QED
    BY <1>1, AnnInvHolds, PTL
=============================================================================
