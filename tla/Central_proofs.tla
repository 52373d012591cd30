---------------------------- MODULE Central_proofs ----------------------------
(***************************************************************************)
(* The safety invariants of Central, for any messages, urls, workers,      *)
(* clients and bounds.  The inductive invariant is the conjunction of the  *)
(* type invariant with BuffersConsistent (what the receiving threads are   *)
(* about to queue) and SemaphoresCountElements (which makes every          *)
(* queue_next_* find an element); the others follow from it step by step.  *)
(* With them, Central implements Dispatcher: the initial states map to its *)
(* initial states and every step of the three threads maps to a step of    *)
(* Dispatcher or to a stutter.                                             *)
(***************************************************************************)
EXTENDS CentralDispatches, PrioQueue_proofs

LEMMA KeysAreFunctions ==
    linkKey \in [LinksEl -> Nat] /\ serverKey \in [ServerEl -> Nat]
BY DEF linkKey, serverKey, LinksEl, ServerEl, Links_data

\* socket_ntoh64 swaps, and swaps back.
LEMMA NtohProperties ==
    /\ ntoh64 \in [Passwords -> Passwords]
    /\ \A o \in Orders : ntoh64[o] \in Orders /\ o \in Passwords
    /\ ntoh64["net"] = "host" /\ ntoh64["host"] = "net" /\ ntoh64["other"] = "other"
BY DEF ntoh64, Passwords, Orders

LEMMA SwapLinkProperties ==
    ASSUME NEW d \in Links_data
    PROVE  /\ SwapLink(d) \in Links_data
           /\ SwapLink(d).password = ntoh64[d.password]
           /\ SwapLink(d).ids = ntoh64[d.ids]
<1>1. d.password \in Passwords /\ d.ids \in Orders
    BY DEF Links_data
<1>2. ntoh64[d.password] \in Passwords /\ ntoh64[d.ids] \in Orders
    BY <1>1, NtohProperties
<1> QED
    BY <1>1, <1>2 DEF SwapLink, Links_data

LEMMA SwapInfosProperties ==
    ASSUME NEW i \in Conn_infos
    PROVE  /\ SwapInfos(i) \in Conn_infos
           /\ SwapInfos(i).password = ntoh64[i.password]
           /\ SwapInfos(i).port = ntoh64[i.port]
<1>1. i.password \in Passwords /\ i.port \in Orders
    BY DEF Conn_infos
<1>2. ntoh64[i.password] \in Passwords /\ ntoh64[i.port] \in Orders
    BY <1>1, NtohProperties
<1> QED
    BY <1>1, <1>2 DEF SwapInfos, Conn_infos

LEMMA UninitTypes ==
    /\ UninitLink \in Links_data /\ UninitInfos \in Conn_infos
    /\ UninitLinksEl \in LinksEl /\ UninitServerEl \in ServerEl
<1>1. /\ (CHOOSE m \in Msgs : TRUE) \in Msgs /\ (CHOOSE u \in Urls : TRUE) \in Urls
      /\ (CHOOSE w \in Workers : TRUE) \in Workers
    BY SetsAssumption
<1>2. UninitLink \in Links_data
    BY <1>1 DEF UninitLink, Links_data, Passwords, Orders
<1>3. UninitInfos \in Conn_infos
    BY <1>1 DEF UninitInfos, Conn_infos, Passwords, Orders, Whats
<1>4. UninitServerEl \in ServerEl
    BY <1>1 DEF UninitServerEl, ServerEl, Orders
<1> QED
    BY <1>2, <1>3, <1>4 DEF UninitLinksEl, LinksEl, Destinations

\* What AddLink and AddServer put in a queue.
LEMMA ElementTypes ==
    /\ \A d \in Links_data : Destination(d) \in Destinations =>
          [data |-> d, destination |-> Destination(d)] \in LinksEl
    /\ \A i \in Conn_infos :
          [ip |-> i.ip, port |-> i.port, avg_time |-> i.avg_time] \in ServerEl
BY DEF LinksEl, ServerEl, Conn_infos

\* Every element of a queue after an add was there before, or is the new one.
LEMMA AddedElements ==
    ASSUME NEW S, NEW key \in [S -> Nat], NEW q \in Seq(S), NEW el \in S,
           NEW i \in 1..Len(QueueAdd(q, el, key))
    PROVE  \/ QueueAdd(q, el, key)[i] = el
           \/ \E j \in 1..Len(q) : QueueAdd(q, el, key)[i] = q[j]
BY QueueAddElements, SMTT(30)

LEMMA AddedLinks ==
    ASSUME NEW q \in Seq(LinksEl), NEW el \in LinksEl,
           NEW i \in 1..Len(QueueAdd(q, el, linkKey))
    PROVE  \/ QueueAdd(q, el, linkKey)[i] = el
           \/ \E j \in 1..Len(q) : QueueAdd(q, el, linkKey)[i] = q[j]
<1>1. linkKey \in [LinksEl -> Nat]
    BY KeysAreFunctions
<1> QED
    BY <1>1, QueueAddElements, SMTT(30)

LEMMA AddedServers ==
    ASSUME NEW q \in Seq(ServerEl), NEW el \in ServerEl,
           NEW i \in 1..Len(QueueAdd(q, el, serverKey))
    PROVE  \/ QueueAdd(q, el, serverKey)[i] = el
           \/ \E j \in 1..Len(q) : QueueAdd(q, el, serverKey)[i] = q[j]
<1>1. serverKey \in [ServerEl -> Nat]
    BY KeysAreFunctions
<1> QED
    BY <1>1, QueueAddElements, SMTT(30)

LEMMA PopTypes ==
    ASSUME NEW S, NEW q \in Seq(S), NEW old \in S
    PROVE  QueueNext(q) \in Seq(S) /\ NextEl(q, old) \in S
<1>1. CASE q = << >>
    BY <1>1 DEF QueueNext, NextEl
<1>2. CASE q # << >>
    BY <1>2, QueueNextShape
<1> QED
    BY <1>1, <1>2

-----------------------------------------------------------------------------
(* Type invariant *)

Inv1 == TypeOK /\ BuffersConsistent

LEMMA Inv1Init == Init => Inv1
<1> SUFFICES ASSUME Init PROVE Inv1
    OBVIOUS
<1>1. TypeOK
    BY UninitTypes, BoundsAssumption DEF Init, TypeOK
<1>2. BuffersConsistent
    BY DEF Init, BuffersConsistent, UninitLink, UninitInfos, Orders
<1> QED
    BY <1>1, <1>2 DEF Inv1

\* The step shared by RecvLink and RecvLinkFails.
LEMMA ExamineKeepsInv1 ==
    ASSUME Inv1, NEW d \in Links_data, d.password \in Orders => d.ids = d.password,
           Examine(d), drops' \in 0..MaxDrops
    PROVE  Inv1'
<1>1. /\ SwapLink(d) \in Links_data
      /\ SwapLink(d).password = ntoh64[d.password]
      /\ SwapLink(d).ids = ntoh64[d.ids]
    BY SwapLinkProperties
<1>2. data' = SwapLink(d)
    BY DEF Examine, IsForQueue
<1>3. TypeOK'
    BY <1>1, <1>2 DEF Inv1, TypeOK, Examine, IsForQueue, connInfosVars, attributionVars
<1>4. data'.password \in Orders => data'.ids = data'.password
  <2>1. d.password \in Passwords
      BY DEF Links_data
  <2>2. d.password = "other" => ntoh64[d.password] = "other"
      BY NtohProperties
  <2> QED
      BY <1>1, <1>2, <2>1, <2>2 DEF Passwords, Orders
<1>5. u_pc' = "add" => /\ data'.password = "host" /\ accepted' < MaxLinks
                       /\ Destination(data') \in Destinations
    BY DEF Examine, IsForQueue
<1>6. UNCHANGED << i_pc, infos_data, announced >>
    BY DEF Examine, IsForQueue, connInfosVars
<1>7. BuffersConsistent'
    BY <1>4, <1>5, <1>6 DEF Inv1, BuffersConsistent, ReadyKind
<1> QED
    BY <1>3, <1>7 DEF Inv1

LEMMA ExamineInfosKeepsInv1 ==
    ASSUME Inv1, NEW i \in Conn_infos, i.password \in Orders => i.port = i.password,
           ExamineInfos(i), drops' \in 0..MaxDrops
    PROVE  Inv1'
<1>1. /\ SwapInfos(i) \in Conn_infos
      /\ SwapInfos(i).password = ntoh64[i.password]
      /\ SwapInfos(i).port = ntoh64[i.port]
    BY SwapInfosProperties
<1>2. infos_data' = SwapInfos(i)
    BY DEF ExamineInfos
<1>3. TypeOK'
    BY <1>1, <1>2 DEF Inv1, TypeOK, ExamineInfos, unknownLinksVars, attributionVars
<1>4. infos_data'.password \in Orders => infos_data'.port = infos_data'.password
  <2>1. i.password \in Passwords
      BY DEF Conn_infos
  <2>2. i.password = "other" => ntoh64[i.password] = "other"
      BY NtohProperties
  <2> QED
      BY <1>1, <1>2, <2>1, <2>2 DEF Passwords, Orders
<1>5. /\ i_pc' \in {"add", "post"} => /\ infos_data'.password = "host"
                                     /\ ReadyKind(infos_data') \in Destinations
      /\ i_pc' = "add" => announced' < MaxReady
    BY DEF ExamineInfos
<1>6. UNCHANGED << u_pc, data, accepted >>
    BY DEF ExamineInfos, unknownLinksVars
<1>7. BuffersConsistent'
    BY <1>4, <1>5, <1>6 DEF Inv1, BuffersConsistent, Destination
<1> QED
    BY <1>3, <1>7 DEF Inv1

LEMMA Inv1Step == Inv1 /\ [Next]_vars => Inv1'
<1> SUFFICES ASSUME Inv1, [Next]_vars PROVE Inv1'
    OBVIOUS
<1> USE DEF Inv1
<1>1. ASSUME NEW d \in WireLinks, RecvLink(d) PROVE Inv1'
  <2>1. d \in Links_data /\ (d.password \in Orders => d.ids = d.password)
      BY WireAssumption DEF Links_data, Passwords, Orders
  <2>2. drops' \in 0..MaxDrops
      BY <1>1 DEF RecvLink, TypeOK
  <2> QED
      BY <1>1, <2>1, <2>2, ExamineKeepsInv1 DEF RecvLink
<1>2. CASE RecvLinkFails
  <2>1. PICK stale \in {data, UninitLink} : Examine(stale)
      BY <1>2 DEF RecvLinkFails
  <2>2. stale \in Links_data /\ (stale.password \in Orders => stale.ids = stale.password)
    <3>1. CASE stale = data
        BY <3>1 DEF TypeOK, BuffersConsistent
    <3>2. CASE stale = UninitLink
        BY <3>2, UninitTypes DEF UninitLink, Orders
    <3> QED
        BY <2>1, <3>1, <3>2
  <2>3. drops' \in 0..MaxDrops
      BY <1>2, BoundsAssumption DEF RecvLinkFails, TypeOK
  <2> QED
      BY <2>1, <2>2, <2>3, ExamineKeepsInv1
<1>3. CASE AddLink
  <2>1. [data |-> data, destination |-> Destination(data)] \in LinksEl
      BY <1>3, ElementTypes DEF AddLink, TypeOK, BuffersConsistent
  <2>2. links_queue' \in Seq(LinksEl)
      BY <1>3, <2>1, KeysAreFunctions, QueueAddLen DEF AddLink, TypeOK
  <2>3. accepted' \in 0..MaxLinks
      BY <1>3, BoundsAssumption DEF AddLink, TypeOK, BuffersConsistent
  <2>4. TypeOK'
      BY <1>3, <2>2, <2>3 DEF TypeOK, AddLink, connInfosVars, attributionVars
  <2>5. BuffersConsistent'
      BY <1>3 DEF AddLink, BuffersConsistent, connInfosVars, ReadyKind
  <2> QED
      BY <2>4, <2>5
<1>4. CASE PostLink
  <2>1. TypeOK'
      BY <1>4 DEF TypeOK, PostLink, connInfosVars, attributionVars, counters
  <2>2. BuffersConsistent'
      BY <1>4 DEF PostLink, BuffersConsistent, connInfosVars, counters, ReadyKind
  <2> QED
      BY <2>1, <2>2
<1>5. CASE CloseLink
  <2>1. TypeOK'
      BY <1>5 DEF TypeOK, CloseLink, connInfosVars, attributionVars, counters
  <2>2. BuffersConsistent'
      BY <1>5 DEF CloseLink, BuffersConsistent, connInfosVars, counters, ReadyKind
  <2> QED
      BY <2>1, <2>2
<1>6. ASSUME NEW i \in WireInfos, RecvInfos(i) PROVE Inv1'
  <2>1. i \in Conn_infos /\ (i.password \in Orders => i.port = i.password)
      BY WireAssumption DEF Conn_infos, Passwords, Orders
  <2>2. drops' \in 0..MaxDrops
      BY <1>6 DEF RecvInfos, TypeOK
  <2> QED
      BY <1>6, <2>1, <2>2, ExamineInfosKeepsInv1 DEF RecvInfos
<1>7. CASE RecvInfosFails
  <2>1. PICK stale \in {infos_data, UninitInfos} : ExamineInfos(stale)
      BY <1>7 DEF RecvInfosFails
  <2>2. stale \in Conn_infos /\ (stale.password \in Orders => stale.port = stale.password)
    <3>1. CASE stale = infos_data
        BY <3>1 DEF TypeOK, BuffersConsistent
    <3>2. CASE stale = UninitInfos
        BY <3>2, UninitTypes DEF UninitInfos, Orders
    <3> QED
        BY <2>1, <3>1, <3>2
  <2>3. drops' \in 0..MaxDrops
      BY <1>7, BoundsAssumption DEF RecvInfosFails, TypeOK
  <2> QED
      BY <2>1, <2>2, <2>3, ExamineInfosKeepsInv1
<1>8. CASE AddServer
  <2> DEFINE k == ReadyKind(infos_data)
             s == [ip |-> infos_data.ip, port |-> infos_data.port,
                   avg_time |-> infos_data.avg_time]
  <2>1. s \in ServerEl
      BY ElementTypes DEF TypeOK
  <2>2. k \in Destinations
      BY <1>8 DEF AddServer, BuffersConsistent
  <2>3. QueueAdd(servers[k], s, serverKey) \in Seq(ServerEl)
    <3>1. servers[k] \in Seq(ServerEl)
        BY <2>2 DEF TypeOK
    <3> HIDE DEF k, s
    <3> QED
        BY <2>1, <3>1, KeysAreFunctions, QueueAddLen
  <2>4. servers' = [servers EXCEPT ![k] = QueueAdd(servers[k], s, serverKey)]
      BY <1>8 DEF AddServer
  <2>5. announced' \in 0..MaxReady
      BY <1>8, BoundsAssumption DEF AddServer, TypeOK, BuffersConsistent
  <2> HIDE DEF k, s
  <2>6. servers' \in [Destinations -> Seq(ServerEl)]
      BY <2>3, <2>4 DEF TypeOK
  <2>7. TypeOK'
      BY <1>8, <2>5, <2>6 DEF TypeOK, AddServer, unknownLinksVars, attributionVars
  <2>8. BuffersConsistent'
      BY <1>8 DEF AddServer, BuffersConsistent, unknownLinksVars, Destination, ReadyKind
  <2> QED
      BY <2>7, <2>8
<1>9. CASE PostServer
  <2>1. TypeOK'
    <3>1. ReadyKind(infos_data) \in Destinations
        BY <1>9 DEF PostServer, BuffersConsistent
    <3>2. server_sem' \in [Destinations -> Nat]
        BY <1>9, <3>1 DEF PostServer, TypeOK
    <3> QED
        BY <1>9, <3>2 DEF TypeOK, PostServer, unknownLinksVars, attributionVars, counters
  <2>2. BuffersConsistent'
      BY <1>9 DEF PostServer, BuffersConsistent, unknownLinksVars, counters, Destination
  <2> QED
      BY <2>1, <2>2
<1>10. CASE CloseInfos
  <2>1. TypeOK'
      BY <1>10 DEF TypeOK, CloseInfos, unknownLinksVars, attributionVars, counters
  <2>2. BuffersConsistent'
      BY <1>10 DEF CloseInfos, BuffersConsistent, unknownLinksVars, counters, Destination
  <2> QED
      BY <2>1, <2>2
<1>11. ASSUME AttributionStep PROVE BuffersConsistent'
  <2>1. UNCHANGED << u_pc, data, i_pc, infos_data, accepted, announced >>
      BY <1>11 DEF AttributionStep, WaitLink, TakeLink, WaitServer, TakeServer, SendLink,
         SendFails, FailedTo, Requeue, PostRequeued, unknownLinksVars, connInfosVars, counters
  <2> QED
      BY <2>1 DEF BuffersConsistent, Destination, ReadyKind
<1>12. ASSUME WaitLink PROVE TypeOK'
    BY <1>12 DEF TypeOK, WaitLink, unknownLinksVars, connInfosVars, counters
<1>13. ASSUME TakeLink PROVE TypeOK'
  <2>1. links_queue' \in Seq(LinksEl) /\ links_el' \in LinksEl
      BY <1>13, PopTypes DEF TakeLink, TypeOK
  <2> QED
      BY <1>13, <2>1 DEF TypeOK, TakeLink, unknownLinksVars, connInfosVars, counters
<1>14. ASSUME WaitServer PROVE TypeOK'
  <2>1. links_el.destination \in Destinations
      BY DEF TypeOK, LinksEl
  <2> QED
      BY <1>14, <2>1 DEF TypeOK, WaitServer, unknownLinksVars, connInfosVars, counters
<1>15. ASSUME TakeServer PROVE TypeOK'
  <2> DEFINE k == links_el.destination
  <2>1. k \in Destinations
      BY DEF TypeOK, LinksEl
  <2>2. QueueNext(servers[k]) \in Seq(ServerEl) /\ NextEl(servers[k], server_el) \in ServerEl
    <3>1. servers[k] \in Seq(ServerEl) /\ server_el \in ServerEl
        BY <2>1 DEF TypeOK
    <3> QED
        BY <3>1, PopTypes
  <2>3. servers' \in [Destinations -> Seq(ServerEl)] /\ server_el' \in ServerEl
    <3>1. /\ servers' = [servers EXCEPT ![k] = QueueNext(servers[k])]
          /\ server_el' = NextEl(servers[k], server_el)
        BY <1>15 DEF TakeServer
    <3> HIDE DEF k
    <3> QED
        BY <2>2, <3>1 DEF TypeOK
  <2> QED
      BY <1>15, <2>3 DEF TypeOK, TakeServer, unknownLinksVars, connInfosVars, counters
<1>16. ASSUME SendLink PROVE TypeOK'
  <2>1. Sent(links_el) \in Links_data
      BY SwapLinkProperties DEF TypeOK, LinksEl, Sent
  <2>2. links_el' \in LinksEl
      BY <1>16, <2>1 DEF SendLink, TypeOK, LinksEl
  <2> QED
      BY <1>16, <2>2 DEF TypeOK, SendLink, unknownLinksVars, connInfosVars
<1>17. ASSUME SendFails PROVE TypeOK'
    BY <1>17 DEF TypeOK, SendFails, FailedTo, unknownLinksVars, connInfosVars
<1>18. ASSUME Requeue PROVE TypeOK'
  <2>1. links_queue' \in Seq(LinksEl)
      BY <1>18, KeysAreFunctions, QueueAddLen DEF Requeue, TypeOK
  <2> QED
      BY <1>18, <2>1 DEF TypeOK, Requeue, unknownLinksVars, connInfosVars, counters
<1>19. ASSUME PostRequeued PROVE TypeOK'
    BY <1>19 DEF TypeOK, PostRequeued, unknownLinksVars, connInfosVars, counters
<1>20. CASE UNCHANGED vars
  <2>1. TypeOK'
      BY <1>20 DEF TypeOK, vars, unknownLinksVars, connInfosVars, attributionVars, counters
  <2>2. BuffersConsistent'
      BY <1>20 DEF BuffersConsistent, vars, unknownLinksVars, connInfosVars, counters,
         Destination, ReadyKind
  <2> QED
      BY <2>1, <2>2
<1> QED
    BY <1>1, <1>2, <1>3, <1>4, <1>5, <1>6, <1>7, <1>8, <1>9, <1>10, <1>11, <1>12, <1>13, <1>14,
       <1>15, <1>16, <1>17, <1>18, <1>19, <1>20
    DEF Next, Receive, UnknownLinksStep, ConnInfosStep, AttributionStep

THEOREM Inv1Holds == Spec => []Inv1
BY Inv1Init, Inv1Step, PTL DEF Spec

(* Type correctness of central's state (central.c:25-35 and the locals of  *)
(* its three threads).                                                     *)
THEOREM TypeCorrect == Spec => []TypeOK
BY Inv1Holds, PTL DEF Inv1

(* What is about to be queued has the right password and a queue to go to, *)
(* and a buffer is never half swapped, even when a recv that failed is     *)
(* ignored (central.c:111-142, 174-194).                                   *)
THEOREM BuffersStayConsistent == Spec => []BuffersConsistent
BY Inv1Holds, PTL DEF Inv1
-----------------------------------------------------------------------------
(* Semaphores *)

\* The two parts of SemaphoresCountElements.
LinksSemCounts ==
    links_sem + One(a_pc = "links_pop") + One(u_pc = "post") + One(a_pc = "requeue_post")
        = Len(links_queue)

ServerSemCounts(k) ==
    server_sem[k] + One(a_pc = "server_pop" /\ links_el.destination = k) + One(PostOwed(k))
        = Len(servers[k])

Sems == LinksSemCounts /\ \A k \in Destinations : ServerSemCounts(k)

LEMMA SemsIsSemaphoresCountElements == Sems <=> SemaphoresCountElements
BY DEF Sems, LinksSemCounts, ServerSemCounts, SemaphoresCountElements

LEMMA SemsInit == Init => Sems
BY EmptySeq DEF Init, Sems, LinksSemCounts, ServerSemCounts, One, PostOwed, Destinations

LEMMA LinksSemStep == Inv1 /\ LinksSemCounts /\ [Next]_vars => LinksSemCounts'
<1> SUFFICES ASSUME Inv1, LinksSemCounts, [Next]_vars PROVE LinksSemCounts'
    OBVIOUS
<1> USE DEF LinksSemCounts, One
<1>1. /\ links_queue \in Seq(LinksEl) /\ Len(links_queue) \in Nat /\ links_sem \in Nat
      /\ links_el \in LinksEl
    BY DEF Inv1, TypeOK
<1>2. ASSUME NEW d, Examine(d) PROVE LinksSemCounts'
    BY <1>2 DEF Examine, IsForQueue, attributionVars
<1>3. CASE AddLink
  <2>1. [data |-> data, destination |-> Destination(data)] \in LinksEl
      BY <1>3, ElementTypes DEF AddLink, Inv1, TypeOK, BuffersConsistent
  <2>2. Len(links_queue') = Len(links_queue) + 1
      BY <1>1, <1>3, <2>1, KeysAreFunctions, QueueAddLen DEF AddLink
  <2> QED
      BY <1>1, <1>3, <2>2 DEF AddLink, attributionVars
<1>4. CASE PostLink
    BY <1>1, <1>4 DEF PostLink, attributionVars
<1>5. CASE CloseLink
    BY <1>5 DEF CloseLink, attributionVars
<1>6. ASSUME NEW i, ExamineInfos(i) PROVE LinksSemCounts'
    BY <1>6 DEF ExamineInfos, attributionVars, unknownLinksVars
<1>7. CASE ConnInfosStep
    BY <1>7 DEF ConnInfosStep, AddServer, PostServer, CloseInfos, attributionVars,
       unknownLinksVars
<1>8. CASE WaitLink
    BY <1>1, <1>8 DEF WaitLink, unknownLinksVars
<1>9. CASE TakeLink
  <2>1. links_queue # << >>
      BY <1>1, <1>9, EmptySeq DEF TakeLink, Inv1, TypeOK
  <2>2. Len(links_queue') = Len(links_queue) - 1
      BY <1>1, <1>9, <2>1, QueueNextShape DEF TakeLink
  <2> QED
      BY <1>1, <1>9, <2>2 DEF TakeLink, unknownLinksVars
<1>10. CASE Requeue
  <2>1. Len(links_queue') = Len(links_queue) + 1
      BY <1>1, <1>10, KeysAreFunctions, QueueAddLen, SMTT(30) DEF Requeue
  <2> QED
      BY <1>1, <1>10, <2>1 DEF Requeue, unknownLinksVars
<1>11. CASE PostRequeued
    BY <1>1, <1>11 DEF PostRequeued, unknownLinksVars
<1>12. CASE WaitServer \/ TakeServer \/ SendLink \/ SendFails
    BY <1>12 DEF WaitServer, TakeServer, SendLink, SendFails, FailedTo, unknownLinksVars
<1>13. CASE UNCHANGED vars
    BY <1>13 DEF vars, unknownLinksVars, attributionVars
<1> QED
    BY <1>2, <1>3, <1>4, <1>5, <1>6, <1>7, <1>8, <1>9, <1>10, <1>11, <1>12, <1>13
    DEF Next, Receive, RecvLink, RecvLinkFails, RecvInfos, RecvInfosFails,
        UnknownLinksStep, AttributionStep

LEMMA ServerSemStep ==
    ASSUME NEW k \in Destinations, Inv1, ServerSemCounts(k), [Next]_vars
    PROVE  ServerSemCounts(k)'
<1> USE DEF ServerSemCounts, One
<1>1. /\ servers[k] \in Seq(ServerEl) /\ Len(servers[k]) \in Nat /\ server_sem[k] \in Nat
      /\ servers \in [Destinations -> Seq(ServerEl)] /\ server_sem \in [Destinations -> Nat]
      /\ links_el.destination \in Destinations
    BY DEF Inv1, TypeOK, LinksEl
<1>2. ASSUME NEW d, Examine(d) PROVE ServerSemCounts(k)'
    BY <1>2 DEF Examine, IsForQueue, attributionVars, connInfosVars, PostOwed
<1>3. CASE UnknownLinksStep
    BY <1>3 DEF UnknownLinksStep, AddLink, PostLink, CloseLink, attributionVars,
       connInfosVars, PostOwed
<1>4. ASSUME NEW i, ExamineInfos(i) PROVE ServerSemCounts(k)'
    BY <1>4 DEF ExamineInfos, attributionVars, PostOwed
<1>5. CASE AddServer
  <2> DEFINE j == ReadyKind(infos_data)
             s == [ip |-> infos_data.ip, port |-> infos_data.port,
                   avg_time |-> infos_data.avg_time]
  <2>1. j \in Destinations /\ s \in ServerEl
      BY <1>5, ElementTypes DEF AddServer, Inv1, TypeOK, BuffersConsistent
  <2>2. servers' = [servers EXCEPT ![j] = QueueAdd(servers[j], s, serverKey)]
      BY <1>5 DEF AddServer
  <2>3. /\ i_pc = "add" /\ i_pc' = "post" /\ infos_data' = infos_data
        /\ UNCHANGED << server_sem, a_pc, links_el >>
      BY <1>5 DEF AddServer, attributionVars
  <2>4. PostOwed(k)' <=> j = k
      BY <2>3 DEF PostOwed, ReadyKind
  <2>5. ~PostOwed(k)
      BY <2>3 DEF PostOwed
  <2> HIDE DEF j, s
  <2>6. CASE j = k
    <3>1. servers'[k] = QueueAdd(servers[k], s, serverKey)
        BY <1>1, <2>2, <2>6
    <3>2. Len(QueueAdd(servers[k], s, serverKey)) = Len(servers[k]) + 1
      <4>1. servers[k] \in Seq(ServerEl)
          BY <1>1
      <4> QED
          BY <2>1, <4>1, KeysAreFunctions, QueueAddLen
    <3> QED
        BY <1>1, <2>3, <2>4, <2>5, <2>6, <3>1, <3>2
  <2>7. CASE j # k
    <3>1. servers'[k] = servers[k]
        BY <1>1, <2>2, <2>7
    <3> QED
        BY <1>1, <2>3, <2>4, <2>5, <2>7, <3>1
  <2> QED
      BY <2>6, <2>7
<1>6. CASE PostServer
  <2> DEFINE j == ReadyKind(infos_data)
  <2>1. /\ i_pc = "post" /\ i_pc' = "close" /\ UNCHANGED << servers, a_pc, links_el >>
        /\ server_sem' = [server_sem EXCEPT ![j] = @ + 1]
      BY <1>6 DEF PostServer, attributionVars
  <2>2. (PostOwed(k) <=> j = k) /\ ~PostOwed(k)'
      BY <2>1 DEF PostOwed
  <2> HIDE DEF j
  <2>3. server_sem'[k] = IF j = k THEN server_sem[k] + 1 ELSE server_sem[k]
      BY <1>1, <2>1
  <2> QED
      BY <1>1, <2>1, <2>2, <2>3
<1>7. CASE CloseInfos
    BY <1>7 DEF CloseInfos, attributionVars, PostOwed
<1>8. CASE WaitLink \/ Requeue \/ PostRequeued \/ SendFails
    BY <1>8 DEF WaitLink, Requeue, PostRequeued, SendFails, FailedTo, connInfosVars, PostOwed
<1>9. CASE TakeLink
    BY <1>9 DEF TakeLink, connInfosVars, PostOwed
<1>10. CASE WaitServer
  <2> DEFINE j == links_el.destination
  <2>1. /\ a_pc = "server_wait" /\ a_pc' = "server_pop" /\ server_sem[j] > 0
        /\ server_sem' = [server_sem EXCEPT ![j] = @ - 1]
        /\ UNCHANGED << servers, links_el, i_pc, infos_data >>
      BY <1>10 DEF WaitServer, connInfosVars
  <2>2. PostOwed(k)' <=> PostOwed(k)
      BY <2>1 DEF PostOwed
  <2>3. server_sem'[k] = IF j = k THEN server_sem[k] - 1 ELSE server_sem[k]
      BY <1>1, <2>1
  <2> QED
      BY <1>1, <2>1, <2>2, <2>3
<1>11. CASE TakeServer
  <2> DEFINE j == links_el.destination
  <2>1. /\ a_pc = "server_pop" /\ a_pc' = "send"
        /\ servers' = [servers EXCEPT ![j] = QueueNext(servers[j])]
        /\ UNCHANGED << server_sem, links_el, i_pc, infos_data >>
      BY <1>11 DEF TakeServer, connInfosVars
  <2>2. PostOwed(k)' <=> PostOwed(k)
      BY <2>1 DEF PostOwed
  <2>3. CASE j = k
    <3>1. servers[k] # << >>
        BY <1>1, <2>1, <2>3, EmptySeq
    <3>2. Len(servers'[k]) = Len(servers[k]) - 1
        BY <1>1, <2>1, <2>3, <3>1, QueueNextShape
    <3> QED
        BY <1>1, <2>1, <2>2, <2>3, <3>2
  <2>4. CASE j # k
    <3>1. servers'[k] = servers[k]
        BY <1>1, <2>1, <2>4
    <3> QED
        BY <1>1, <2>1, <2>2, <2>4, <3>1
  <2> QED
      BY <2>3, <2>4
<1>12. CASE SendLink
    BY <1>12 DEF SendLink, connInfosVars, PostOwed
<1>13. CASE UNCHANGED vars
    BY <1>13 DEF vars, connInfosVars, attributionVars, PostOwed
<1> QED
    BY <1>2, <1>3, <1>4, <1>5, <1>6, <1>7, <1>8, <1>9, <1>10, <1>11, <1>12, <1>13
    DEF Next, Receive, RecvLink, RecvLinkFails, RecvInfos, RecvInfosFails,
        ConnInfosStep, AttributionStep

LEMMA SemsStep == Inv1 /\ Sems /\ [Next]_vars => Sems'
<1> SUFFICES ASSUME Inv1, Sems, [Next]_vars PROVE Sems'
    OBVIOUS
<1>1. LinksSemCounts'
    BY LinksSemStep DEF Sems
<1>2. ASSUME NEW k \in Destinations PROVE ServerSemCounts(k)'
    BY <1>2, ServerSemStep DEF Sems
<1> QED
    BY <1>1, <1>2 DEF Sems, Destinations

(* Whatever the interleaving of the three threads, each semaphore counts   *)
(* the elements of its queue that no thread has claimed or still has to    *)
(* announce (central.c:66-78, 83-84, 131-141, 186-191).                    *)
THEOREM SemaphoresAreExact == Spec => []SemaphoresCountElements
<1>1. Inv1 /\ Sems /\ [Next]_vars => (Inv1 /\ Sems)'
    BY Inv1Step, SemsStep
<1>2. Init => Inv1 /\ Sems
    BY Inv1Init, SemsInit
<1> QED
    BY <1>1, <1>2, SemsIsSemaphoresCountElements, PTL DEF Spec
-----------------------------------------------------------------------------
(* The queues are popped only when they hold something *)

LEMMA SemsImplyNonEmpty == Inv1 /\ Sems => NeverPopsEmptyQueue
<1> SUFFICES ASSUME Inv1, Sems PROVE NeverPopsEmptyQueue
    OBVIOUS
<1>1. a_pc = "links_pop" => links_queue # << >>
  <2>1. links_sem \in Nat
      BY DEF Inv1, TypeOK
  <2> QED
      BY <2>1, EmptySeq DEF Sems, LinksSemCounts, One
<1>2. a_pc = "server_pop" => servers[links_el.destination] # << >>
  <2>1. links_el.destination \in Destinations
      BY DEF Inv1, TypeOK, LinksEl
  <2>2. server_sem[links_el.destination] \in Nat
      BY <2>1 DEF Inv1, TypeOK
  <2>3. ServerSemCounts(links_el.destination)
      BY <2>1 DEF Sems
  <2> QED
      BY <2>2, <2>3, EmptySeq DEF ServerSemCounts, One
<1> QED
    BY <1>1, <1>2 DEF NeverPopsEmptyQueue

(* The results of queue_next_links and queue_next_server can be ignored:   *)
(* neither ever finds its queue empty (central.c:68, 73, 78).              *)
THEOREM PopsFindAnElement == Spec => []NeverPopsEmptyQueue
<1>1. Inv1 /\ Sems /\ [Next]_vars => (Inv1 /\ Sems)'
    BY Inv1Step, SemsStep
<1>2. Init => Inv1 /\ Sems
    BY Inv1Init, SemsInit
<1> QED
    BY <1>1, <1>2, SemsImplyNonEmpty, PTL DEF Spec

-----------------------------------------------------------------------------
(* The queues stay sorted *)

LEMMA SortedInit == Init => QueuesSorted
BY EmptySeq DEF Init, QueuesSorted, KeySorted, Destinations

LEMMA SortedStep == Inv1 /\ QueuesSorted /\ NeverPopsEmptyQueue /\ [Next]_vars => QueuesSorted'
<1> SUFFICES ASSUME Inv1, QueuesSorted, NeverPopsEmptyQueue, [Next]_vars PROVE QueuesSorted'
    OBVIOUS
<1>1. /\ links_queue \in Seq(LinksEl) /\ links_el \in LinksEl
      /\ servers \in [Destinations -> Seq(ServerEl)]
      /\ links_el.destination \in Destinations
    BY DEF Inv1, TypeOK, LinksEl
<1>2. CASE AddLink
  <2>1. [data |-> data, destination |-> Destination(data)] \in LinksEl
      BY <1>2, ElementTypes DEF AddLink, Inv1, TypeOK, BuffersConsistent
  <2>2. KeySorted(links_queue', linkKey)
      BY <1>1, <1>2, <2>1, KeysAreFunctions, QueueAddKeepsSorted DEF AddLink, QueuesSorted
  <2> QED
      BY <1>2, <2>2 DEF AddLink, QueuesSorted
<1>3. CASE Requeue
  <2>1. KeySorted(links_queue', linkKey)
      BY <1>1, <1>3, KeysAreFunctions, QueueAddKeepsSorted DEF Requeue, QueuesSorted
  <2> QED
      BY <1>3, <2>1 DEF Requeue, QueuesSorted
<1>4. CASE TakeLink
  <2>1. KeySorted(links_queue', linkKey)
      BY <1>1, <1>4, KeysAreFunctions, QueueNextKeepsSorted
      DEF TakeLink, QueuesSorted, NeverPopsEmptyQueue
  <2> QED
      BY <1>4, <2>1 DEF TakeLink, QueuesSorted
<1>5. CASE AddServer
  <2> DEFINE j == ReadyKind(infos_data)
             s == [ip |-> infos_data.ip, port |-> infos_data.port,
                   avg_time |-> infos_data.avg_time]
  <2>1. j \in Destinations /\ s \in ServerEl
      BY <1>5, ElementTypes DEF AddServer, Inv1, TypeOK, BuffersConsistent
  <2>2. servers' = [servers EXCEPT ![j] = QueueAdd(servers[j], s, serverKey)]
        /\ links_queue' = links_queue
      BY <1>5 DEF AddServer
  <2> HIDE DEF j, s
  <2>3. KeySorted(QueueAdd(servers[j], s, serverKey), serverKey)
    <3>1. servers[j] \in Seq(ServerEl) /\ KeySorted(servers[j], serverKey)
        BY <1>1, <2>1 DEF QueuesSorted
    <3> QED
        BY <2>1, <3>1, KeysAreFunctions, QueueAddKeepsSorted
  <2>4. ASSUME NEW k \in Destinations PROVE KeySorted(servers'[k], serverKey)
    <3>1. servers'[k] = IF k = j THEN QueueAdd(servers[j], s, serverKey) ELSE servers[k]
        BY <1>1, <2>2
    <3> QED
        BY <2>3, <3>1 DEF QueuesSorted
  <2> QED
      BY <2>2, <2>4 DEF QueuesSorted
<1>6. CASE TakeServer
  <2> DEFINE j == links_el.destination
  <2>1. /\ servers' = [servers EXCEPT ![j] = QueueNext(servers[j])]
        /\ links_queue' = links_queue /\ a_pc = "server_pop"
      BY <1>6 DEF TakeServer
  <2>2. KeySorted(QueueNext(servers[j]), serverKey)
    <3>1. /\ servers[j] \in Seq(ServerEl) /\ KeySorted(servers[j], serverKey)
          /\ servers[j] # << >>
        BY <1>1, <2>1 DEF QueuesSorted, NeverPopsEmptyQueue
    <3> QED
        BY <3>1, KeysAreFunctions, QueueNextKeepsSorted
  <2> HIDE DEF j
  <2>3. ASSUME NEW k \in Destinations PROVE KeySorted(servers'[k], serverKey)
    <3>1. servers'[k] = IF k = j THEN QueueNext(servers[j]) ELSE servers[k]
        BY <1>1, <2>1
    <3> QED
        BY <2>2, <3>1 DEF QueuesSorted
  <2> QED
      BY <2>1, <2>3 DEF QueuesSorted
<1>7. ASSUME UNCHANGED << links_queue, servers >> PROVE QueuesSorted'
    BY <1>7 DEF QueuesSorted
<1>8. \/ AddLink \/ Requeue \/ TakeLink \/ AddServer \/ TakeServer
      \/ UNCHANGED << links_queue, servers >>
    BY DEF Next, Receive, RecvLink, RecvLinkFails, Examine, IsForQueue, RecvInfos, RecvInfosFails,
       ExamineInfos, UnknownLinksStep, PostLink, CloseLink, ConnInfosStep, PostServer,
       CloseInfos, AttributionStep, WaitLink, WaitServer, SendLink, SendFails, FailedTo,
       PostRequeued, vars
<1> QED
    BY <1>2, <1>3, <1>4, <1>5, <1>6, <1>7, <1>8

(* Links wait by priority and servers by average time, whatever order they *)
(* arrive in and however often links are retried, so links_attribution     *)
(* always takes the most urgent link and the fastest server (queue.c:7-44, *)
(* 71-107; central.c:59-87).                                               *)
THEOREM QueuesAreSorted == Spec => []QueuesSorted
<1>1. Inv1 /\ Sems /\ QueuesSorted /\ [Next]_vars => (Inv1 /\ Sems /\ QueuesSorted)'
    BY Inv1Step, SemsStep, SemsImplyNonEmpty, SortedStep
<1>2. Init => Inv1 /\ Sems /\ QueuesSorted
    BY Inv1Init, SemsInit, SortedInit
<1> QED
    BY <1>1, <1>2, PTL DEF Spec
-----------------------------------------------------------------------------
(* Conservation *)

LEMMA ConservationInit == Init => NothingLostOrDuplicated
BY EmptySeq
DEF Init, NothingLostOrDuplicated, One, InAttribution, Destinations

\* Lengths of the queues after each operation on them.
LEMMA LengthsStep ==
    ASSUME Inv1, NeverPopsEmptyQueue
    PROVE  /\ Len(links_queue) \in Nat /\ \A k \in Destinations : Len(servers[k]) \in Nat
           /\ AddLink \/ Requeue => Len(links_queue') = Len(links_queue) + 1
           /\ TakeLink => Len(links_queue') = Len(links_queue) - 1
           /\ AddServer =>
                 \E j \in Destinations : \A k \in Destinations :
                    Len(servers'[k]) = IF k = j THEN Len(servers[k]) + 1 ELSE Len(servers[k])
           /\ TakeServer =>
                 \E j \in Destinations : \A k \in Destinations :
                    Len(servers'[k]) = IF k = j THEN Len(servers[k]) - 1 ELSE Len(servers[k])
<1>1. /\ links_queue \in Seq(LinksEl) /\ links_el \in LinksEl
      /\ servers \in [Destinations -> Seq(ServerEl)]
      /\ links_el.destination \in Destinations
    BY DEF Inv1, TypeOK, LinksEl
<1>2. Len(links_queue) \in Nat /\ \A k \in Destinations : Len(servers[k]) \in Nat
    BY <1>1
<1>3. ASSUME AddLink PROVE Len(links_queue') = Len(links_queue) + 1
  <2>1. [data |-> data, destination |-> Destination(data)] \in LinksEl
      BY <1>3, ElementTypes DEF AddLink, Inv1, TypeOK, BuffersConsistent
  <2> QED
      BY <1>1, <1>3, <2>1, KeysAreFunctions, QueueAddLen, SMTT(30) DEF AddLink
<1>4. ASSUME Requeue PROVE Len(links_queue') = Len(links_queue) + 1
  <2>1. links_queue' = QueueAdd(links_queue, links_el, linkKey)
      BY <1>4 DEF Requeue
  <2>2. links_queue \in Seq(LinksEl) /\ links_el \in LinksEl
      BY <1>1
  <2>3. Len(QueueAdd(links_queue, links_el, linkKey)) = Len(links_queue) + 1
      BY <2>2, KeysAreFunctions, QueueAddLen
  <2> QED
      BY <2>1, <2>3
<1>5. ASSUME TakeLink PROVE Len(links_queue') = Len(links_queue) - 1
    BY <1>1, <1>5, QueueNextShape DEF TakeLink, NeverPopsEmptyQueue
<1>6. ASSUME AddServer
      PROVE  \E j \in Destinations : \A k \in Destinations :
                Len(servers'[k]) = IF k = j THEN Len(servers[k]) + 1 ELSE Len(servers[k])
  <2> DEFINE j == ReadyKind(infos_data)
             s == [ip |-> infos_data.ip, port |-> infos_data.port,
                   avg_time |-> infos_data.avg_time]
  <2>1. j \in Destinations /\ s \in ServerEl
      BY <1>6, ElementTypes DEF AddServer, Inv1, TypeOK, BuffersConsistent
  <2>2. servers' = [servers EXCEPT ![j] = QueueAdd(servers[j], s, serverKey)]
      BY <1>6 DEF AddServer
  <2> HIDE DEF j, s
  <2>3. Len(QueueAdd(servers[j], s, serverKey)) = Len(servers[j]) + 1
    <3>1. servers[j] \in Seq(ServerEl)
        BY <1>1, <2>1
    <3> QED
        BY <2>1, <3>1, KeysAreFunctions, QueueAddLen
  <2>4. ASSUME NEW k \in Destinations
        PROVE  Len(servers'[k]) = IF k = j THEN Len(servers[k]) + 1 ELSE Len(servers[k])
    <3>1. servers'[k] = IF k = j THEN QueueAdd(servers[j], s, serverKey) ELSE servers[k]
        BY <1>1, <2>2
    <3> QED
        BY <2>3, <3>1
  <2> QED
      BY <2>1, <2>4
<1>7. ASSUME TakeServer
      PROVE  \E j \in Destinations : \A k \in Destinations :
                Len(servers'[k]) = IF k = j THEN Len(servers[k]) - 1 ELSE Len(servers[k])
  <2> DEFINE j == links_el.destination
  <2>1. /\ servers' = [servers EXCEPT ![j] = QueueNext(servers[j])]
        /\ a_pc = "server_pop"
      BY <1>7 DEF TakeServer
  <2>2. Len(QueueNext(servers[j])) = Len(servers[j]) - 1
    <3>1. servers[j] \in Seq(ServerEl) /\ servers[j] # << >>
        BY <1>1, <2>1 DEF NeverPopsEmptyQueue
    <3> QED
        BY <3>1, QueueNextShape
  <2>3. j \in Destinations
      BY <1>1
  <2> HIDE DEF j
  <2>4. ASSUME NEW k \in Destinations
        PROVE  Len(servers'[k]) = IF k = j THEN Len(servers[k]) - 1 ELSE Len(servers[k])
    <3>1. servers'[k] = IF k = j THEN QueueNext(servers[j]) ELSE servers[k]
        BY <1>1, <2>1
    <3> QED
        BY <2>2, <3>1
  <2> QED
      BY <2>3, <2>4
<1> QED
    BY <1>2, <1>3, <1>4, <1>5, <1>6, <1>7

LEMMA ConservationStep ==
    Inv1 /\ NeverPopsEmptyQueue /\ NothingLostOrDuplicated /\ [Next]_vars
        => NothingLostOrDuplicated'
<1> SUFFICES ASSUME Inv1, NeverPopsEmptyQueue, NothingLostOrDuplicated, [Next]_vars
             PROVE  NothingLostOrDuplicated'
    OBVIOUS
<1> DEFINE links == Len(links_queue)
           vs == Len(servers[DEST_VIRUS_CHECKER])
           ss == Len(servers[DEST_SCRAPPING_UNIT])
           Conserved == /\ accepted = links + One(InAttribution) + dispatched
                        /\ announced = vs + ss + One(a_pc = "send") + dispatched + burnt
<1>0. NothingLostOrDuplicated = Conserved
    BY DEF NothingLostOrDuplicated
<1>1. /\ links \in Nat /\ vs \in Nat /\ ss \in Nat
      /\ accepted \in Nat /\ announced \in Nat /\ dispatched \in Nat /\ burnt \in Nat
    BY LengthsStep, BoundsAssumption DEF Inv1, TypeOK, Destinations
<1>2. DEST_VIRUS_CHECKER # DEST_SCRAPPING_UNIT
    BY DEF DEST_VIRUS_CHECKER, DEST_SCRAPPING_UNIT
<1>20. /\ AddLink \/ Requeue => links' = links + 1
       /\ TakeLink => links' = links - 1
    BY LengthsStep
<1>21. AddServer => vs' + ss' = vs + ss + 1
  <2> SUFFICES ASSUME AddServer PROVE vs' + ss' = vs + ss + 1
      OBVIOUS
  <2>1. PICK j \in Destinations : \A k \in Destinations :
           Len(servers'[k]) = IF k = j THEN Len(servers[k]) + 1 ELSE Len(servers[k])
      BY LengthsStep
  <2>2. /\ DEST_VIRUS_CHECKER \in Destinations /\ DEST_SCRAPPING_UNIT \in Destinations
        /\ j = DEST_VIRUS_CHECKER \/ j = DEST_SCRAPPING_UNIT
      BY <2>1 DEF Destinations
  <2>3. /\ vs' = IF DEST_VIRUS_CHECKER = j THEN vs + 1 ELSE vs
        /\ ss' = IF DEST_SCRAPPING_UNIT = j THEN ss + 1 ELSE ss
      BY <2>1, <2>2
  <2> HIDE DEF vs, ss
  <2> QED
      BY <1>1, <1>2, <2>2, <2>3
<1>22. TakeServer => vs' + ss' = vs + ss - 1
  <2> SUFFICES ASSUME TakeServer PROVE vs' + ss' = vs + ss - 1
      OBVIOUS
  <2>1. PICK j \in Destinations : \A k \in Destinations :
           Len(servers'[k]) = IF k = j THEN Len(servers[k]) - 1 ELSE Len(servers[k])
      BY LengthsStep
  <2>2. /\ DEST_VIRUS_CHECKER \in Destinations /\ DEST_SCRAPPING_UNIT \in Destinations
        /\ j = DEST_VIRUS_CHECKER \/ j = DEST_SCRAPPING_UNIT
      BY <2>1 DEF Destinations
  <2>3. /\ vs' = IF DEST_VIRUS_CHECKER = j THEN vs - 1 ELSE vs
        /\ ss' = IF DEST_SCRAPPING_UNIT = j THEN ss - 1 ELSE ss
      BY <2>1, <2>2
  <2> HIDE DEF vs, ss
  <2> QED
      BY <1>1, <1>2, <2>2, <2>3
<1>23. /\ UNCHANGED links_queue => links' = links
       /\ UNCHANGED servers => vs' = vs /\ ss' = ss
    OBVIOUS
<1>24. Conserved
    BY <1>0
<1> HIDE DEF links, vs, ss
<1>3. ASSUME UNCHANGED << links_queue, servers, attributionVars, accepted, announced,
                          dispatched, burnt >>
      PROVE  Conserved'
    BY <1>3, <1>23, <1>24 DEF attributionVars, One, InAttribution
<1>4. ASSUME AddLink PROVE Conserved'
  <2>1. /\ accepted' = accepted + 1
        /\ UNCHANGED << servers, a_pc, announced, dispatched, burnt >>
      BY <1>4 DEF AddLink, attributionVars
  <2> QED
      BY <1>1, <1>4, <1>20, <1>23, <1>24, <2>1 DEF One, InAttribution
<1>5. ASSUME AddServer PROVE Conserved'
  <2>1. /\ announced' = announced + 1
        /\ UNCHANGED << links_queue, a_pc, accepted, dispatched, burnt >>
      BY <1>5 DEF AddServer, attributionVars
  <2> QED
      BY <1>1, <1>5, <1>21, <1>23, <1>24, <2>1 DEF One, InAttribution
<1>6. ASSUME TakeLink PROVE Conserved'
  <2>1. /\ a_pc = "links_pop" /\ a_pc' = "server_wait"
        /\ UNCHANGED << servers, accepted, announced, dispatched, burnt >>
      BY <1>6 DEF TakeLink, counters
  <2> QED
      BY <1>1, <1>6, <1>20, <1>23, <1>24, <2>1 DEF One, InAttribution
<1>7. ASSUME TakeServer PROVE Conserved'
  <2>1. /\ a_pc = "server_pop" /\ a_pc' = "send"
        /\ UNCHANGED << links_queue, accepted, announced, dispatched, burnt >>
      BY <1>7 DEF TakeServer, counters
  <2> QED
      BY <1>1, <1>7, <1>22, <1>23, <1>24, <2>1 DEF One, InAttribution
<1>8. ASSUME Requeue PROVE Conserved'
  <2>1. /\ a_pc = "requeue" /\ a_pc' = "requeue_post"
        /\ UNCHANGED << servers, accepted, announced, dispatched, burnt >>
      BY <1>8 DEF Requeue, counters
  <2> QED
      BY <1>1, <1>8, <1>20, <1>23, <1>24, <2>1 DEF One, InAttribution
<1>9. ASSUME SendLink PROVE Conserved'
  <2>1. /\ a_pc = "send" /\ a_pc' = "links_wait" /\ dispatched' = dispatched + 1
        /\ UNCHANGED << links_queue, servers, accepted, announced, burnt >>
      BY <1>9 DEF SendLink
  <2> QED
      BY <1>1, <1>23, <1>24, <2>1 DEF One, InAttribution
<1>10. ASSUME SendFails PROVE Conserved'
  <2>1. /\ a_pc = "send" /\ a_pc' = "requeue" /\ burnt' = burnt + 1
        /\ UNCHANGED << links_queue, servers, accepted, announced, dispatched >>
      BY <1>10 DEF SendFails, FailedTo
  <2> QED
      BY <1>1, <1>23, <1>24, <2>1 DEF One, InAttribution
<1>11. ASSUME WaitLink \/ WaitServer \/ PostRequeued PROVE Conserved'
  <2>1. /\ InAttribution' <=> InAttribution
        /\ (a_pc' = "send") <=> (a_pc = "send")
        /\ UNCHANGED << links_queue, servers, accepted, announced, dispatched, burnt >>
      BY <1>11 DEF WaitLink, WaitServer, PostRequeued, counters, InAttribution
  <2> QED
      BY <1>23, <1>24, <2>1 DEF One
<1>12. \/ AddLink \/ AddServer \/ AttributionStep
       \/ UNCHANGED << links_queue, servers, attributionVars, accepted, announced,
                       dispatched, burnt >>
    BY DEF Next, Receive, RecvLink, RecvLinkFails, Examine, IsForQueue, RecvInfos, RecvInfosFails,
       ExamineInfos, UnknownLinksStep, PostLink, CloseLink, ConnInfosStep, PostServer,
       CloseInfos, vars, counters
<1>13. Conserved'
    BY <1>3, <1>4, <1>5, <1>6, <1>7, <1>8, <1>9, <1>10, <1>11, <1>12 DEF AttributionStep
<1> QED
    BY <1>0, <1>13 DEF NothingLostOrDuplicated, links, vs, ss

(* Links and announcements are conserved through queues, hand-overs, sends *)
(* and retries (central.c:59-87, 131-142, 183-194).                        *)
THEOREM NothingIsLostOrDuplicated == Spec => []NothingLostOrDuplicated
<1>1. Inv1 /\ Sems /\ NothingLostOrDuplicated /\ [Next]_vars
        => (Inv1 /\ Sems /\ NothingLostOrDuplicated)'
    BY Inv1Step, SemsStep, SemsImplyNonEmpty, ConservationStep
<1>2. Init => Inv1 /\ Sems /\ NothingLostOrDuplicated
    BY Inv1Init, SemsInit, ConservationInit
<1> QED
    BY <1>1, <1>2, PTL DEF Spec
-----------------------------------------------------------------------------
(* Byte order *)

GoodLink(e) == e.data.password = "host" /\ e.data.ids = "host"
LinksInHostOrder == /\ \A i \in 1..Len(links_queue) : GoodLink(links_queue[i])
                    /\ InAttribution => GoodLink(links_el)
PortsInHostOrder ==
    /\ \A k \in Destinations : \A i \in 1..Len(servers[k]) : servers[k][i].port = "host"
    /\ a_pc = "send" => server_el.port = "host"

LEMMA HostOrderParts == HostOrderInside <=> LinksInHostOrder /\ PortsInHostOrder
BY DEF HostOrderInside, LinksInHostOrder, PortsInHostOrder, GoodLink

LEMMA HostOrderInit == Init => LinksInHostOrder /\ PortsInHostOrder
BY EmptySeq DEF Init, LinksInHostOrder, PortsInHostOrder, InAttribution, Destinations

LEMMA LinksHostOrderStep ==
    Inv1 /\ NeverPopsEmptyQueue /\ LinksInHostOrder /\ [Next]_vars => LinksInHostOrder'
<1> SUFFICES ASSUME Inv1, NeverPopsEmptyQueue, LinksInHostOrder, [Next]_vars
             PROVE  LinksInHostOrder'
    OBVIOUS
<1>1. links_queue \in Seq(LinksEl) /\ links_el \in LinksEl
    BY DEF Inv1, TypeOK
<1>2. ASSUME NEW el \in LinksEl, GoodLink(el)
      PROVE  \A i \in 1..Len(QueueAdd(links_queue, el, linkKey)) :
                GoodLink(QueueAdd(links_queue, el, linkKey)[i])
  <2> TAKE i \in 1..Len(QueueAdd(links_queue, el, linkKey))
  <2>1. \/ QueueAdd(links_queue, el, linkKey)[i] = el
        \/ \E j \in 1..Len(links_queue) :
              QueueAdd(links_queue, el, linkKey)[i] = links_queue[j]
      BY <1>1, AddedLinks
  <2> QED
      BY <1>2, <2>1 DEF LinksInHostOrder
<1>3. CASE AddLink
  <2> DEFINE el == [data |-> data, destination |-> Destination(data)]
  <2>1. el \in LinksEl /\ GoodLink(el)
      BY <1>3, ElementTypes DEF AddLink, Inv1, TypeOK, BuffersConsistent, GoodLink, Orders
  <2>2. links_queue' = QueueAdd(links_queue, el, linkKey) /\ UNCHANGED << a_pc, links_el >>
      BY <1>3 DEF AddLink, attributionVars
  <2> HIDE DEF el
  <2>3. \A i \in 1..Len(links_queue') : GoodLink(links_queue'[i])
      BY <1>2, <2>1, <2>2
  <2> QED
      BY <2>2, <2>3 DEF LinksInHostOrder, InAttribution
<1>4. CASE Requeue
  <2>1. /\ a_pc = "requeue" /\ a_pc' = "requeue_post"
        /\ links_queue' = QueueAdd(links_queue, links_el, linkKey)
      BY <1>4 DEF Requeue
  <2>2. GoodLink(links_el)
      BY <2>1 DEF LinksInHostOrder, InAttribution
  <2>3. \A i \in 1..Len(links_queue') : GoodLink(links_queue'[i])
      BY <1>1, <1>2, <2>1, <2>2
  <2> QED
      BY <2>1, <2>3 DEF LinksInHostOrder, InAttribution
<1>5. CASE TakeLink
  <2>1. links_queue # << >>
      BY <1>5 DEF TakeLink, NeverPopsEmptyQueue
  <2>2. /\ links_el' = links_queue[1]
        /\ Len(links_queue') = Len(links_queue) - 1
        /\ \A i \in 1..Len(links_queue') : links_queue'[i] = links_queue[i + 1]
      BY <1>1, <1>5, <2>1, QueueNextShape DEF TakeLink
  <2>3. Len(links_queue) \in Nat \ {0}
      BY <1>1, <2>1, EmptySeq
  <2>4. GoodLink(links_el')
      BY <2>2, <2>3 DEF LinksInHostOrder
  <2>5. \A i \in 1..Len(links_queue') : GoodLink(links_queue'[i])
    <3> TAKE i \in 1..Len(links_queue')
    <3>1. i + 1 \in 1..Len(links_queue)
        BY <2>2, <2>3
    <3> QED
        BY <2>2, <3>1 DEF LinksInHostOrder
  <2> QED
      BY <2>4, <2>5 DEF LinksInHostOrder, GoodLink
<1>6. ASSUME UNCHANGED links_queue, InAttribution' => InAttribution /\ UNCHANGED links_el
      PROVE  LinksInHostOrder'
    BY <1>6 DEF LinksInHostOrder, GoodLink
<1>7. \/ AddLink \/ Requeue \/ TakeLink
      \/ UNCHANGED links_queue /\ (InAttribution' => InAttribution /\ UNCHANGED links_el)
    BY DEF Next, Receive, RecvLink, RecvLinkFails, Examine, IsForQueue, RecvInfos, RecvInfosFails,
       ExamineInfos, UnknownLinksStep, PostLink, CloseLink, ConnInfosStep, AddServer,
       PostServer, CloseInfos, AttributionStep, WaitLink, WaitServer, TakeServer, SendLink,
       SendFails, FailedTo, PostRequeued, vars, attributionVars, InAttribution
<1> QED
    BY <1>3, <1>4, <1>5, <1>6, <1>7

LEMMA PortsHostOrderStep ==
    Inv1 /\ NeverPopsEmptyQueue /\ PortsInHostOrder /\ [Next]_vars => PortsInHostOrder'
<1> SUFFICES ASSUME Inv1, NeverPopsEmptyQueue, PortsInHostOrder, [Next]_vars
             PROVE  PortsInHostOrder'
    OBVIOUS
<1>1. /\ servers \in [Destinations -> Seq(ServerEl)] /\ links_el.destination \in Destinations
    BY DEF Inv1, TypeOK, LinksEl
<1>2. CASE AddServer
  <2> DEFINE j == ReadyKind(infos_data)
             s == [ip |-> infos_data.ip, port |-> infos_data.port,
                   avg_time |-> infos_data.avg_time]
             r == QueueAdd(servers[j], s, serverKey)
  <2>1. j \in Destinations /\ s \in ServerEl /\ s.port = "host"
      BY <1>2, ElementTypes DEF AddServer, Inv1, TypeOK, BuffersConsistent, Orders
  <2>2. servers' = [servers EXCEPT ![j] = r] /\ UNCHANGED << a_pc, server_el >>
      BY <1>2 DEF AddServer, attributionVars
  <2> HIDE DEF j, s
  <2>3. ASSUME NEW i \in 1..Len(r)
        PROVE  r[i] = s \/ \E m \in 1..Len(servers[j]) : r[i] = servers[j][m]
    <3>1. servers[j] \in Seq(ServerEl)
        BY <1>1, <2>1
    <3> QED
        BY <2>1, <3>1, AddedServers
  <2> HIDE DEF r
  <2>4. \A i \in 1..Len(r) : r[i].port = "host"
      BY <2>1, <2>3 DEF PortsInHostOrder
  <2>5. ASSUME NEW k \in Destinations
        PROVE  \A i \in 1..Len(servers'[k]) : servers'[k][i].port = "host"
    <3>1. servers'[k] = IF k = j THEN r ELSE servers[k]
        BY <1>1, <2>2
    <3> QED
        BY <2>4, <3>1 DEF PortsInHostOrder
  <2> QED
      BY <2>2, <2>5 DEF PortsInHostOrder
<1>3. CASE TakeServer
  <2> DEFINE j == links_el.destination
             r == QueueNext(servers[j])
  <2>1. /\ servers' = [servers EXCEPT ![j] = r] /\ server_el' = NextEl(servers[j], server_el)
        /\ a_pc = "server_pop" /\ j \in Destinations
      BY <1>1, <1>3 DEF TakeServer
  <2>2. servers[j] \in Seq(ServerEl) /\ servers[j] # << >>
      BY <1>1, <2>1 DEF NeverPopsEmptyQueue
  <2>3. /\ Len(r) = Len(servers[j]) - 1
        /\ \A i \in 1..Len(r) : r[i] = servers[j][i + 1]
        /\ server_el' = servers[j][1]
      BY <2>1, <2>2, QueueNextShape
  <2>4. Len(servers[j]) \in Nat \ {0}
      BY <2>2, EmptySeq
  <2> HIDE DEF j, r
  <2>5. server_el'.port = "host"
      BY <2>1, <2>3, <2>4 DEF PortsInHostOrder
  <2>6. \A i \in 1..Len(r) : r[i].port = "host"
    <3> TAKE i \in 1..Len(r)
    <3>1. i + 1 \in 1..Len(servers[j])
        BY <2>3, <2>4
    <3> QED
        BY <2>1, <2>3, <3>1 DEF PortsInHostOrder
  <2>7. ASSUME NEW k \in Destinations
        PROVE  \A i \in 1..Len(servers'[k]) : servers'[k][i].port = "host"
    <3>1. servers'[k] = IF k = j THEN r ELSE servers[k]
        BY <1>1, <2>1
    <3> QED
        BY <2>6, <3>1 DEF PortsInHostOrder
  <2> QED
      BY <2>5, <2>7 DEF PortsInHostOrder
<1>4. ASSUME UNCHANGED servers, a_pc' = "send" => a_pc = "send" /\ UNCHANGED server_el
      PROVE  PortsInHostOrder'
    BY <1>4 DEF PortsInHostOrder
<1>5. \/ AddServer \/ TakeServer
      \/ UNCHANGED servers /\ (a_pc' = "send" => a_pc = "send" /\ UNCHANGED server_el)
    BY DEF Next, Receive, RecvLink, RecvLinkFails, Examine, IsForQueue, RecvInfos, RecvInfosFails,
       ExamineInfos, UnknownLinksStep, AddLink, PostLink, CloseLink, ConnInfosStep,
       PostServer, CloseInfos, AttributionStep, WaitLink, TakeLink, WaitServer, SendLink,
       SendFails, FailedTo, Requeue, PostRequeued, vars, attributionVars
<1> QED
    BY <1>2, <1>3, <1>4, <1>5

(* Neither a failed send nor a stale receive buffer ever puts a link or a  *)
(* port in the wrong byte order (central.c:42-50, 80-84, 111-114, 174-177).*)
THEOREM ByteOrderIsKept == Spec => []HostOrderInside
<1>1. Inv1 /\ Sems /\ LinksInHostOrder /\ PortsInHostOrder /\ [Next]_vars
        => (Inv1 /\ Sems /\ LinksInHostOrder /\ PortsInHostOrder)'
    BY Inv1Step, SemsStep, SemsImplyNonEmpty, LinksHostOrderStep, PortsHostOrderStep
<1>2. Init => Inv1 /\ Sems /\ LinksInHostOrder /\ PortsInHostOrder
    BY Inv1Init, SemsInit, HostOrderInit
<1> QED
    BY <1>1, <1>2, HostOrderParts, PTL DEF Spec
-----------------------------------------------------------------------------
(* Servers and their kind *)

WhatOf(k) == IF k = DEST_VIRUS_CHECKER THEN "VCHECKER_READY" ELSE "SCR_UNIT_READY"

\* A buffer that still (or again) holds the password holds an announcement.
InfosFromWire == infos_data.password \in Orders =>
    \E i \in WireInfos : /\ i.password = "net" /\ i.what = infos_data.what
                         /\ i.ip = infos_data.ip /\ i.avg_time = infos_data.avg_time

LEMMA AnnouncedForWhat ==
    ASSUME NEW e, NEW k
    PROVE  AnnouncedFor(e, k) <=>
              \E i \in WireInfos : /\ i.password = "net" /\ i.what = WhatOf(k)
                                   /\ i.ip = e.ip /\ i.avg_time = e.avg_time
BY DEF AnnouncedFor, WhatOf

LEMMA KindIsWhat ==
    ASSUME NEW i, ReadyKind(i) \in Destinations
    PROVE  i.what = WhatOf(ReadyKind(i))
BY DEF ReadyKind, WhatOf, Destinations, DEST_VIRUS_CHECKER, DEST_SCRAPPING_UNIT

LEMMA AnnouncedInit == Init => InfosFromWire /\ ServersAnnouncedTheirKind
BY EmptySeq DEF Init, InfosFromWire, ServersAnnouncedTheirKind, UninitInfos, Orders

\* What ExamineInfos leaves in the buffer is what it found there, or what it received.
LEMMA InfosFromWireStep ==
    Inv1 /\ InfosFromWire /\ [Next]_vars => InfosFromWire'
<1> SUFFICES ASSUME Inv1, InfosFromWire, [Next]_vars PROVE InfosFromWire'
    OBVIOUS
<1>1. ASSUME NEW j \in Conn_infos, ExamineInfos(j),
             j.password \in Orders =>
                \E i \in WireInfos : /\ i.password = "net" /\ i.what = j.what
                                     /\ i.ip = j.ip /\ i.avg_time = j.avg_time
      PROVE  InfosFromWire'
  <2>1. infos_data' = SwapInfos(j)
      BY <1>1 DEF ExamineInfos
  <2>2. /\ infos_data'.what = j.what /\ infos_data'.ip = j.ip
        /\ infos_data'.avg_time = j.avg_time /\ infos_data'.password = ntoh64[j.password]
      BY <2>1 DEF SwapInfos, Conn_infos
  <2>3. ntoh64[j.password] \in Orders => j.password \in Orders
      BY NtohProperties DEF Conn_infos, Passwords, Orders
  <2> QED
      BY <1>1, <2>2, <2>3 DEF InfosFromWire
<1>2. ASSUME NEW j \in WireInfos, RecvInfos(j) PROVE InfosFromWire'
  <2>1. j \in Conn_infos /\ j.password # "host"
      BY WireAssumption
  <2>2. j.password \in Orders => j.password = "net"
      BY <2>1 DEF Orders
  <2> QED
      BY <1>1, <1>2, <2>1, <2>2 DEF RecvInfos
<1>3. CASE RecvInfosFails
  <2>1. PICK j \in {infos_data, UninitInfos} : ExamineInfos(j)
      BY <1>3 DEF RecvInfosFails
  <2>2. infos_data \in Conn_infos
      BY DEF Inv1, TypeOK
  <2>3. CASE j = infos_data
      BY <1>1, <2>1, <2>2, <2>3 DEF InfosFromWire
  <2>4. CASE j = UninitInfos
    <3>1. UninitInfos \in Conn_infos /\ UninitInfos.password = "other"
        BY UninitTypes DEF UninitInfos
    <3> QED
        BY <1>1, <2>1, <2>4, <3>1 DEF Orders
  <2> QED
      BY <2>3, <2>4
<1>4. CASE UNCHANGED infos_data
    BY <1>4 DEF InfosFromWire
<1>5. \/ \E j \in WireInfos : RecvInfos(j)
      \/ RecvInfosFails
      \/ UNCHANGED infos_data
    BY DEF Next, Receive, RecvLink, RecvLinkFails, Examine, UnknownLinksStep, AddLink,
       PostLink, CloseLink, ConnInfosStep, AddServer, PostServer, CloseInfos,
       AttributionStep, WaitLink, TakeLink, WaitServer, TakeServer, SendLink, SendFails,
       FailedTo, Requeue, PostRequeued, vars, connInfosVars
<1> QED
    BY <1>2, <1>3, <1>4, <1>5

LEMMA AnnouncedStep ==
    Inv1 /\ NeverPopsEmptyQueue /\ InfosFromWire /\ ServersAnnouncedTheirKind /\ [Next]_vars
        => ServersAnnouncedTheirKind'
<1> SUFFICES ASSUME Inv1, NeverPopsEmptyQueue, InfosFromWire, ServersAnnouncedTheirKind,
                    [Next]_vars
             PROVE  ServersAnnouncedTheirKind'
    OBVIOUS
<1>1. /\ servers \in [Destinations -> Seq(ServerEl)] /\ links_el.destination \in Destinations
    BY DEF Inv1, TypeOK, LinksEl
<1>2. CASE AddServer
  <2> DEFINE j == ReadyKind(infos_data)
             s == [ip |-> infos_data.ip, port |-> infos_data.port,
                   avg_time |-> infos_data.avg_time]
             r == QueueAdd(servers[j], s, serverKey)
  <2>1. j \in Destinations /\ s \in ServerEl
      BY <1>2, ElementTypes DEF AddServer, Inv1, TypeOK, BuffersConsistent
  <2>2. AnnouncedFor(s, j)
    <3>1. infos_data.password \in Orders
        BY <1>2 DEF AddServer, Inv1, BuffersConsistent, Orders
    <3>2. infos_data.what = WhatOf(j)
        BY <2>1, KindIsWhat
    <3>3. s.ip = infos_data.ip /\ s.avg_time = infos_data.avg_time
        OBVIOUS
    <3> HIDE DEF j, s
    <3> QED
        BY <3>1, <3>2, <3>3, AnnouncedForWhat DEF InfosFromWire
  <2>3. servers' = [servers EXCEPT ![j] = r] /\ UNCHANGED << a_pc, server_el, links_el >>
      BY <1>2 DEF AddServer, attributionVars
  <2> HIDE DEF j, s
  <2>4. servers[j] \in Seq(ServerEl)
      BY <1>1, <2>1
  <2>5. ASSUME NEW i \in 1..Len(r)
        PROVE  r[i] = s \/ \E m \in 1..Len(servers[j]) : r[i] = servers[j][m]
      BY <2>1, <2>4, AddedServers
  <2> HIDE DEF r
  <2>6. \A i \in 1..Len(r) : AnnouncedFor(r[i], j)
      BY <2>1, <2>2, <2>5 DEF ServersAnnouncedTheirKind
  <2>7. ASSUME NEW k \in Destinations
        PROVE  \A i \in 1..Len(servers'[k]) : AnnouncedFor(servers'[k][i], k)
    <3>1. servers'[k] = IF k = j THEN r ELSE servers[k]
        BY <1>1, <2>3
    <3> QED
        BY <2>6, <3>1 DEF ServersAnnouncedTheirKind
  <2>8. (a_pc = "send" => AnnouncedFor(server_el, links_el.destination))'
      BY <2>3 DEF ServersAnnouncedTheirKind, AnnouncedFor
  <2>9. \A k \in Destinations : \A i \in 1..Len(servers'[k]) :
            AnnouncedFor(servers[k][i], k)'
      BY <2>7 DEF AnnouncedFor
  <2> QED
      BY <2>8, <2>9 DEF ServersAnnouncedTheirKind
<1>3. CASE TakeServer
  <2> DEFINE j == links_el.destination
             r == QueueNext(servers[j])
  <2>1. /\ servers' = [servers EXCEPT ![j] = r] /\ server_el' = NextEl(servers[j], server_el)
        /\ a_pc = "server_pop" /\ j \in Destinations /\ UNCHANGED links_el
      BY <1>1, <1>3 DEF TakeServer
  <2>2. servers[j] \in Seq(ServerEl) /\ servers[j] # << >>
      BY <1>1, <2>1 DEF NeverPopsEmptyQueue
  <2>3. /\ Len(r) = Len(servers[j]) - 1
        /\ \A i \in 1..Len(r) : r[i] = servers[j][i + 1]
        /\ server_el' = servers[j][1]
      BY <2>1, <2>2, QueueNextShape
  <2>4. Len(servers[j]) \in Nat \ {0}
      BY <2>2, EmptySeq
  <2>5. links_el'.destination = j
      BY <2>1
  <2> HIDE DEF j, r
  <2>6. AnnouncedFor(server_el', j)
      BY <2>1, <2>3, <2>4 DEF ServersAnnouncedTheirKind
  <2>7. \A i \in 1..Len(r) : AnnouncedFor(r[i], j)
    <3> TAKE i \in 1..Len(r)
    <3>1. i + 1 \in 1..Len(servers[j])
        BY <2>3, <2>4
    <3> QED
        BY <2>1, <2>3, <3>1 DEF ServersAnnouncedTheirKind
  <2>8. ASSUME NEW k \in Destinations
        PROVE  \A i \in 1..Len(servers'[k]) : AnnouncedFor(servers'[k][i], k)
    <3>1. servers'[k] = IF k = j THEN r ELSE servers[k]
        BY <1>1, <2>1
    <3> QED
        BY <2>7, <3>1 DEF ServersAnnouncedTheirKind
  <2> QED
      BY <2>5, <2>6, <2>8 DEF ServersAnnouncedTheirKind, AnnouncedFor
<1>4. ASSUME UNCHANGED servers,
             a_pc' = "send" => a_pc = "send" /\ UNCHANGED << server_el, links_el >>
      PROVE  ServersAnnouncedTheirKind'
    BY <1>4 DEF ServersAnnouncedTheirKind, AnnouncedFor
<1>5. \/ AddServer \/ TakeServer
      \/ /\ UNCHANGED servers
         /\ a_pc' = "send" => a_pc = "send" /\ UNCHANGED << server_el, links_el >>
    BY DEF Next, Receive, RecvLink, RecvLinkFails, Examine, RecvInfos, RecvInfosFails,
       ExamineInfos, UnknownLinksStep, AddLink, PostLink, CloseLink, ConnInfosStep,
       PostServer, CloseInfos, AttributionStep, WaitLink, TakeLink, WaitServer, SendLink,
       SendFails, FailedTo, Requeue, PostRequeued, vars, attributionVars
<1> QED
    BY <1>2, <1>3, <1>4, <1>5

(* A link is only ever sent to a server that announced itself, with the    *)
(* password, as one of the right kind (central.c:70-80, 111-114, 183-194). *)
THEOREM LinksGoToTheRightKind == Spec => []ServersAnnouncedTheirKind
<1>1. Inv1 /\ Sems /\ InfosFromWire /\ ServersAnnouncedTheirKind /\ [Next]_vars
        => (Inv1 /\ Sems /\ InfosFromWire /\ ServersAnnouncedTheirKind)'
    BY Inv1Step, SemsStep, SemsImplyNonEmpty, InfosFromWireStep, AnnouncedStep
<1>2. Init => Inv1 /\ Sems /\ InfosFromWire /\ ServersAnnouncedTheirKind
    BY Inv1Init, SemsInit, AnnouncedInit
<1> QED
    BY <1>1, <1>2, PTL DEF Spec

-----------------------------------------------------------------------------
(* Queues as bags *)

\* How often x is in the queue.
Count(q, x) == Cardinality(Held(q, {x}))

LEMMA QueueAsBag ==
    ASSUME NEW S, NEW q \in Seq(S)
    PROVE  /\ ToBag(q) = [x \in Range(q) |-> Count(q, x)]
           /\ \A x : Count(q, x) \in Nat /\ (x \in Range(q) <=> Count(q, x) > 0)
<1>1. ToBag(q) = [x \in Range(q) |-> Count(q, x)]
  <2>1. \A x : { i \in DOMAIN q : q[i] = x } = Held(q, {x})
      BY DEF Held
  <2> QED
      BY <2>1 DEF ToBag, Count
<1>2. ASSUME NEW x PROVE Count(q, x) \in Nat /\ (x \in Range(q) <=> Count(q, x) > 0)
  <2> DEFINE A == Held(q, {x})
  <2>1. IsFiniteSet(A) /\ Cardinality(A) \in Nat
      BY HeldFinite
  <2>2. x \in Range(q) <=> A # {}
      BY DEF Held, Range
  <2> HIDE DEF A
  <2>3. Cardinality(A) = 0 <=> A = {}
      BY <2>1, FS_EmptySet
  <2>4. Cardinality(A) \in Nat /\ (x \in Range(q) <=> Cardinality(A) > 0)
      BY <2>1, <2>2, <2>3
  <2> QED
      BY <2>4 DEF A, Count
<1> QED
    BY <1>1, <1>2

\* queue_add_* adds one copy of its element to the bag.
LEMMA AddToBag ==
    ASSUME NEW S, NEW key \in [S -> Nat], NEW q \in Seq(S), NEW el \in S
    PROVE  ToBag(QueueAdd(q, el, key)) = Promise!BagAdd(ToBag(q), el)
<1> DEFINE r == QueueAdd(q, el, key)
<1>1. r \in Seq(S)
    BY QueueAddShape
<1>2. ASSUME NEW x PROVE Count(r, x) = Count(q, x) + (IF x = el THEN 1 ELSE 0)
  <2>1. Count(r, x) = Count(q, x) + (IF el \in {x} THEN 1 ELSE 0)
      BY HeldAdd DEF Count
  <2> QED
      BY <2>1
<1> HIDE DEF r
<1>3. /\ ToBag(q) = [x \in Range(q) |-> Count(q, x)]
      /\ \A x : Count(q, x) \in Nat /\ (x \in Range(q) <=> Count(q, x) > 0)
    BY QueueAsBag
<1>4. /\ ToBag(r) = [x \in Range(r) |-> Count(r, x)]
      /\ \A x : Count(r, x) \in Nat /\ (x \in Range(r) <=> Count(r, x) > 0)
    BY <1>1, QueueAsBag
<1>5. Range(r) = Range(q) \union {el}
    BY <1>2, <1>3, <1>4
<1>6. ToBag(r) = Promise!BagAdd(ToBag(q), el)
  <2>1. CASE el \in Range(q)
    <3>1. Range(r) = Range(q)
        BY <1>5, <2>1
    <3>2. \A x \in Range(q) : Count(r, x) = IF x = el THEN Count(q, x) + 1 ELSE Count(q, x)
        BY <1>2, <1>3
    <3> QED
        BY <1>3, <1>4, <2>1, <3>1, <3>2 DEF Promise!BagAdd
  <2>2. CASE el \notin Range(q)
    <3>1. \A x \in Range(r) : Count(r, x) = IF x = el THEN 1 ELSE Count(q, x)
        BY <1>2, <1>3, <2>2
    <3> QED
        BY <1>3, <1>4, <1>5, <2>2, <3>1 DEF Promise!BagAdd
  <2> QED
      BY <2>1, <2>2
<1> QED
    BY <1>6 DEF r

\* queue_next_* removes one copy of the head.
LEMMA NextFromBag ==
    ASSUME NEW S, NEW q \in Seq(S), q # << >>
    PROVE  /\ q[1] \in DOMAIN ToBag(q)
           /\ ToBag(QueueNext(q)) = Promise!BagRemove(ToBag(q), q[1])
<1> DEFINE r == QueueNext(q)
           h == q[1]
<1>1. r \in Seq(S)
    BY QueueNextShape
<1>2. ASSUME NEW x PROVE Count(q, x) = Count(r, x) + (IF x = h THEN 1 ELSE 0)
  <2>1. Count(q, x) = Count(r, x) + (IF q[1] \in {x} THEN 1 ELSE 0)
      BY HeldNext DEF Count
  <2> QED
      BY <2>1
<1>3. /\ ToBag(q) = [x \in Range(q) |-> Count(q, x)]
      /\ \A x : Count(q, x) \in Nat /\ (x \in Range(q) <=> Count(q, x) > 0)
    BY QueueAsBag
<1> HIDE DEF r, h
<1>4. /\ ToBag(r) = [x \in Range(r) |-> Count(r, x)]
      /\ \A x : Count(r, x) \in Nat /\ (x \in Range(r) <=> Count(r, x) > 0)
    BY <1>1, QueueAsBag
<1>5. h \in Range(q)
    BY <1>2, <1>3, <1>4
<1>6. ToBag(r) = Promise!BagRemove(ToBag(q), h)
  <2>1. CASE Count(q, h) = 1
    <3>1. Range(r) = Range(q) \ {h}
        BY <1>2, <1>3, <1>4, <2>1
    <3>2. \A x \in Range(r) : Count(r, x) = Count(q, x)
        BY <1>2, <1>3, <1>4, <3>1
    <3> QED
        BY <1>3, <1>4, <1>5, <2>1, <3>1, <3>2 DEF Promise!BagRemove
  <2>2. CASE Count(q, h) # 1
    <3>1. Range(r) = Range(q)
        BY <1>2, <1>3, <1>4, <1>5, <2>2
    <3>2. \A x \in Range(q) : Count(r, x) = IF x = h THEN Count(q, x) - 1 ELSE Count(q, x)
        BY <1>2, <1>3, <1>4
    <3> QED
        BY <1>3, <1>4, <1>5, <2>2, <3>1, <3>2 DEF Promise!BagRemove
  <2> QED
      BY <2>1, <2>2
<1> QED
    BY <1>3, <1>5, <1>6 DEF r, h

LEMMA EmptyQueueAsBag == ToBag(<< >>) = Promise!EmptyBag
<1>1. Range(<< >>) = {}
    BY EmptySeq DEF Range
<1> QED
    BY <1>1 DEF ToBag, Promise!EmptyBag, Promise!SetToBag

\* The head of a sorted queue has the smallest key of the bag.
LEMMA HeadIsLeast ==
    ASSUME NEW S, NEW key \in [S -> Nat], NEW q \in Seq(S), q # << >>, KeySorted(q, key)
    PROVE  \A x \in DOMAIN ToBag(q) : x \in S /\ key[q[1]] <= key[x]
<1>1. Len(q) \in Nat \ {0} /\ DOMAIN q = 1..Len(q)
    BY EmptySeq
<1> SUFFICES ASSUME NEW x \in Range(q) PROVE x \in S /\ key[q[1]] <= key[x]
    BY DEF ToBag
<1>2. PICK i \in 1..Len(q) : x = q[i]
    BY <1>1 DEF Range
<1>3. q[i] \in S /\ q[1] \in S
    BY <1>1
<1>4. key[q[1]] \in Nat /\ key[q[i]] \in Nat
    BY <1>3
<1>5. i # 1 => key[q[1]] <= key[q[i]]
    BY <1>1 DEF KeySorted
<1> QED
    BY <1>2, <1>3, <1>4, <1>5

-----------------------------------------------------------------------------
(* The link that is about to be queued came from a client *)

\* A buffer that holds the password holds a link some client wrote, in one order
\* or the other.
LinkFromWire == data.password \in Orders =>
    \E d \in WireLinks : d.password = "net" /\ (data = d \/ data = SwapLink(d))

LEMMA SwapsBack ==
    ASSUME NEW d \in Links_data PROVE SwapLink(SwapLink(d)) = d
<1>1. \A o \in Passwords : ntoh64[ntoh64[o]] = o
    BY DEF ntoh64, Passwords, Orders
<1>2. d.password \in Passwords /\ d.ids \in Passwords
    BY DEF Links_data, Passwords
<1>3. /\ ntoh64[ntoh64[d.password]] = d.password
      /\ ntoh64[ntoh64[d.ids]] = d.ids
    BY <1>1, <1>2
<1> QED
    BY <1>3 DEF SwapLink, Links_data

LEMMA LinkFromWireInit == Init => LinkFromWire
BY DEF Init, LinkFromWire, UninitLink, Orders

LEMMA LinkFromWireStep == Inv1 /\ LinkFromWire /\ [Next]_vars => LinkFromWire'
<1> SUFFICES ASSUME Inv1, LinkFromWire, [Next]_vars PROVE LinkFromWire'
    OBVIOUS
<1>1. ASSUME NEW j \in Links_data, Examine(j),
             j.password \in Orders =>
                \E d \in WireLinks : d.password = "net" /\ (j = d \/ j = SwapLink(d))
      PROVE  LinkFromWire'
  <2>1. data' = SwapLink(j) /\ data'.password = ntoh64[j.password]
      BY <1>1, SwapLinkProperties DEF Examine
  <2>2. ntoh64[j.password] \in Orders => j.password \in Orders
      BY NtohProperties DEF Links_data, Passwords, Orders
  <2>3. SUFFICES ASSUME NEW d \in WireLinks, d.password = "net", j = d \/ j = SwapLink(d)
                 PROVE  data' = d \/ data' = SwapLink(d)
      BY <1>1, <2>1, <2>2 DEF LinkFromWire
  <2>4. d \in Links_data
      BY WireAssumption
  <2> QED
      BY <2>1, <2>3, <2>4, SwapsBack
<1>2. ASSUME NEW j \in WireLinks, RecvLink(j) PROVE LinkFromWire'
  <2>1. j \in Links_data /\ j.password # "host"
      BY WireAssumption
  <2>2. j.password \in Orders => j.password = "net"
      BY <2>1 DEF Orders
  <2> QED
      BY <1>1, <1>2, <2>1, <2>2 DEF RecvLink
<1>3. CASE RecvLinkFails
  <2>1. PICK j \in {data, UninitLink} : Examine(j)
      BY <1>3 DEF RecvLinkFails
  <2>2. data \in Links_data
      BY DEF Inv1, TypeOK
  <2>3. CASE j = data
      BY <1>1, <2>1, <2>2, <2>3 DEF LinkFromWire
  <2>4. CASE j = UninitLink
    <3>1. UninitLink \in Links_data /\ UninitLink.password = "other"
        BY UninitTypes DEF UninitLink
    <3> QED
        BY <1>1, <2>1, <2>4, <3>1 DEF Orders
  <2> QED
      BY <2>1, <2>3, <2>4
<1>4. CASE UNCHANGED data
    BY <1>4 DEF LinkFromWire
<1>5. \/ \E j \in WireLinks : RecvLink(j)
      \/ RecvLinkFails
      \/ UNCHANGED data
    BY DEF Next, Receive, RecvInfos, RecvInfosFails, ExamineInfos, UnknownLinksStep, AddLink,
       PostLink, CloseLink, ConnInfosStep, AddServer, PostServer, CloseInfos,
       AttributionStep, WaitLink, TakeLink, WaitServer, TakeServer, SendLink, SendFails,
       FailedTo, Requeue, PostRequeued, vars, unknownLinksVars
<1> QED
    BY <1>2, <1>3, <1>4, <1>5

\* What AddLink queues is one of the links of the mapping.
LEMMA QueuedLinkIsMapped ==
    ASSUME Inv1, LinkFromWire, u_pc = "add"
    PROVE  [data |-> data, destination |-> Destination(data)] \in QueuedLinks
<1>1. /\ data.password = "host" /\ Destination(data) \in Destinations
      /\ data.password \in Orders
    BY DEF Inv1, BuffersConsistent, Orders
<1>2. PICK d \in WireLinks : d.password = "net" /\ (data = d \/ data = SwapLink(d))
    BY <1>1 DEF LinkFromWire
<1>3. data = SwapLink(d) /\ d \in Links_data
    BY <1>1, <1>2, WireAssumption
<1>4. /\ data.url = d.url /\ data.priority = d.priority
      /\ data.file_certified = d.file_certified
    BY <1>3 DEF SwapLink, Links_data
<1>5. Destination(data) = Destination(d)
    BY <1>4 DEF Destination
<1> QED
    BY <1>1, <1>3, <1>5 DEF QueuedLinks

LEMMA QueuedServerIsMapped ==
    ASSUME Inv1, InfosFromWire, i_pc = "add"
    PROVE  /\ [ip |-> infos_data.ip, port |-> infos_data.port,
               avg_time |-> infos_data.avg_time] \in QueuedServers
           /\ ReadyKind(infos_data) \in Destinations
<1>1. /\ infos_data.port = "host" /\ infos_data.password \in Orders
      /\ ReadyKind(infos_data) \in Destinations
    BY DEF Inv1, BuffersConsistent, Orders
<1>2. PICK i \in WireInfos : i.ip = infos_data.ip /\ i.avg_time = infos_data.avg_time
    BY <1>1 DEF InfosFromWire
<1> QED
    BY <1>1, <1>2 DEF QueuedServers

-----------------------------------------------------------------------------
(* The mapping *)

Waiting == ToBag(links_queue)
Idle    == [k \in Destinations |-> ToBag(servers[k])]
Picked  == IF InAttribution THEN links_el ELSE Nobody
Grabbed == IF a_pc \in {"send", "requeue"} THEN server_el ELSE Nobody

LEMMA MappingOfNextState ==
    /\ Waiting' = ToBag(links_queue')
    /\ Idle' = [k \in Destinations |-> ToBag(servers'[k])]
    /\ Picked' = IF a_pc' \in {"server_wait", "server_pop", "send", "requeue"}
                 THEN links_el' ELSE Nobody
    /\ Grabbed' = IF a_pc' \in {"send", "requeue"} THEN server_el' ELSE Nobody
BY DEF Waiting, Idle, Picked, Grabbed, InAttribution, ToBag, Range

\* The actions of Dispatcher, on the mapped variables.
LEMMA AcceptIs ==
    ASSUME NEW l \in QueuedLinks, Waiting' = Promise!BagAdd(Waiting, l),
           Idle' = Idle, Picked' = Picked, Grabbed' = Grabbed
    PROVE  Promise!Next
BY DEF Promise!Next, Promise!Accept, Waiting, Idle, Picked, Grabbed

LEMMA AnnounceIs ==
    ASSUME NEW k \in Destinations, NEW s \in QueuedServers,
           Idle' = [Idle EXCEPT ![k] = Promise!BagAdd(Idle[k], s)],
           Waiting' = Waiting, Picked' = Picked, Grabbed' = Grabbed
    PROVE  Promise!Next
BY DEF Promise!Next, Promise!Announce, Waiting, Idle, Picked, Grabbed

LEMMA PickIs ==
    ASSUME Picked = Nobody, NEW l \in DOMAIN Waiting,
           \A m \in DOMAIN Waiting : l.data.priority <= m.data.priority,
           Waiting' = Promise!BagRemove(Waiting, l), Picked' = l,
           Idle' = Idle, Grabbed' = Grabbed
    PROVE  Promise!Next
BY DEF Promise!Next, Promise!Pick, Promise!BagToSet, Waiting, Idle, Picked, Grabbed

LEMMA GrabIs ==
    ASSUME Picked # Nobody, Grabbed = Nobody, NEW s \in DOMAIN Idle[Picked.destination],
           \A t \in DOMAIN Idle[Picked.destination] : s.avg_time <= t.avg_time,
           Idle' = [Idle EXCEPT ![Picked.destination] =
                       Promise!BagRemove(Idle[Picked.destination], s)],
           Grabbed' = s, Waiting' = Waiting, Picked' = Picked
    PROVE  Promise!Next
BY DEF Promise!Next, Promise!Grab, Promise!BagToSet, Waiting, Idle, Picked, Grabbed

LEMMA AssignIs ==
    ASSUME Grabbed # Nobody, Picked' = Nobody, Grabbed' = Nobody,
           Waiting' = Waiting, Idle' = Idle
    PROVE  Promise!Next
BY DEF Promise!Next, Promise!Assign, Waiting, Idle, Picked, Grabbed

LEMMA GiveBackIs ==
    ASSUME Grabbed # Nobody, Waiting' = Promise!BagAdd(Waiting, Picked),
           Picked' = Nobody, Grabbed' = Nobody, Idle' = Idle
    PROVE  Promise!Next
BY DEF Promise!Next, Promise!GiveBack, Waiting, Idle, Picked, Grabbed

LEMMA StutterIs ==
    ASSUME Waiting' = Waiting, Idle' = Idle, Picked' = Picked, Grabbed' = Grabbed
    PROVE  UNCHANGED Promise!vars
BY DEF Promise!vars, Waiting, Idle, Picked, Grabbed

-----------------------------------------------------------------------------
(* The steps of Central *)

\* What links_attribution holds is a link and a server.
LEMMA NobodyIsNobody ==
    ASSUME Inv1
    PROVE  links_el # Nobody /\ server_el # Nobody
BY NobodyAssumption DEF Inv1, TypeOK

LEMMA AddLinkIsAccept ==
    ASSUME Inv1, LinkFromWire, AddLink PROVE Promise!Next
<1> DEFINE el == [data |-> data, destination |-> Destination(data)]
<1>1. /\ u_pc = "add" /\ links_queue' = QueueAdd(links_queue, el, linkKey)
      /\ UNCHANGED << servers, a_pc, links_el, server_el >>
    BY DEF AddLink, attributionVars
<1>2. el \in LinksEl /\ links_queue \in Seq(LinksEl) /\ linkKey \in [LinksEl -> Nat]
    BY <1>1, ElementTypes, KeysAreFunctions DEF Inv1, TypeOK, BuffersConsistent
<1>3. el \in QueuedLinks
    BY <1>1, QueuedLinkIsMapped
<1> HIDE DEF el
<1>4. Waiting' = Promise!BagAdd(Waiting, el)
    BY <1>1, <1>2, AddToBag, MappingOfNextState DEF Waiting
<1>5. Idle' = Idle /\ Picked' = Picked /\ Grabbed' = Grabbed
    BY <1>1, MappingOfNextState DEF Idle, Picked, Grabbed, InAttribution
<1> QED
    BY <1>3, <1>4, <1>5, AcceptIs

LEMMA AddServerIsAnnounce ==
    ASSUME Inv1, InfosFromWire, AddServer PROVE Promise!Next
<1> DEFINE k == ReadyKind(infos_data)
           s == [ip |-> infos_data.ip, port |-> infos_data.port,
                 avg_time |-> infos_data.avg_time]
           r == QueueAdd(servers[k], s, serverKey)
<1>1. /\ i_pc = "add" /\ servers' = [servers EXCEPT ![k] = r]
      /\ UNCHANGED << links_queue, a_pc, links_el, server_el >>
    BY DEF AddServer, attributionVars
<1>2. s \in QueuedServers /\ k \in Destinations /\ s \in ServerEl
    BY <1>1, QueuedServerIsMapped, ElementTypes DEF Inv1, TypeOK
<1>3. servers \in [Destinations -> Seq(ServerEl)] /\ serverKey \in [ServerEl -> Nat]
    BY KeysAreFunctions DEF Inv1, TypeOK
<1> HIDE DEF k, s
<1>4. servers[k] \in Seq(ServerEl)
    BY <1>2, <1>3
<1>5. ToBag(r) = Promise!BagAdd(ToBag(servers[k]), s)
    BY <1>2, <1>3, <1>4, AddToBag
<1> HIDE DEF r
<1>6. Idle' = [Idle EXCEPT ![k] = Promise!BagAdd(Idle[k], s)]
    BY <1>1, <1>2, <1>3, <1>5, MappingOfNextState DEF Idle
<1>7. Waiting' = Waiting /\ Picked' = Picked /\ Grabbed' = Grabbed
    BY <1>1, MappingOfNextState DEF Waiting, Picked, Grabbed, InAttribution
<1> QED
    BY <1>2, <1>6, <1>7, AnnounceIs

LEMMA TakeLinkIsPick ==
    ASSUME Inv1, NeverPopsEmptyQueue, QueuesSorted, TakeLink PROVE Promise!Next
<1> DEFINE l == links_queue[1]
<1>1. /\ a_pc = "links_pop" /\ a_pc' = "server_wait"
      /\ links_queue' = QueueNext(links_queue)
      /\ links_el' = NextEl(links_queue, links_el) /\ UNCHANGED << servers, server_el >>
    BY DEF TakeLink
<1>2. /\ links_queue \in Seq(LinksEl) /\ links_queue # << >>
      /\ linkKey \in [LinksEl -> Nat] /\ KeySorted(links_queue, linkKey)
    BY <1>1, KeysAreFunctions DEF Inv1, TypeOK, NeverPopsEmptyQueue, QueuesSorted
<1>3. links_el' = l
    BY <1>1, <1>2, QueueNextShape
<1>4. l \in DOMAIN Waiting /\ Waiting' = Promise!BagRemove(Waiting, l)
    BY <1>1, <1>2, NextFromBag, MappingOfNextState DEF Waiting
<1>5. ASSUME NEW m \in DOMAIN Waiting PROVE l.data.priority <= m.data.priority
  <2>1. \A x \in DOMAIN ToBag(links_queue) : x \in LinksEl /\ linkKey[l] <= linkKey[x]
      BY <1>2, HeadIsLeast
  <2>2. m \in LinksEl /\ l \in LinksEl /\ linkKey[l] <= linkKey[m]
      BY <1>4, <2>1 DEF Waiting
  <2> QED
      BY <2>2 DEF linkKey
<1> HIDE DEF l
<1>6. Picked = Nobody /\ Picked' = l /\ Idle' = Idle /\ Grabbed' = Grabbed
    BY <1>1, <1>3, MappingOfNextState DEF Idle, Picked, Grabbed, InAttribution
<1> QED
    BY <1>4, <1>5, <1>6, PickIs

LEMMA TakeServerIsGrab ==
    ASSUME Inv1, NeverPopsEmptyQueue, QueuesSorted, TakeServer PROVE Promise!Next
<1> DEFINE k == links_el.destination
           q == servers[k]
           s == q[1]
           r == QueueNext(q)
<1>1. /\ a_pc = "server_pop" /\ a_pc' = "send" /\ servers' = [servers EXCEPT ![k] = r]
      /\ server_el' = NextEl(q, server_el) /\ UNCHANGED << links_queue, links_el >>
    BY DEF TakeServer
<1>2. /\ servers \in [Destinations -> Seq(ServerEl)] /\ k \in Destinations
      /\ serverKey \in [ServerEl -> Nat]
    BY KeysAreFunctions DEF Inv1, TypeOK, LinksEl
<1>3. q \in Seq(ServerEl) /\ q # << >> /\ KeySorted(q, serverKey)
    BY <1>1, <1>2 DEF NeverPopsEmptyQueue, QueuesSorted
<1>4. server_el' = s
    BY <1>1, <1>3, QueueNextShape
<1>5. Picked = links_el /\ Picked # Nobody /\ Grabbed = Nobody
    BY <1>1, NobodyIsNobody DEF Picked, Grabbed, InAttribution
<1>6. Picked' = Picked /\ Grabbed' = s /\ Waiting' = Waiting
    BY <1>1, <1>4, <1>5, MappingOfNextState DEF Waiting
<1>7. Idle[k] = ToBag(q) /\ Picked.destination = k
    BY <1>2, <1>5 DEF Idle
<1> HIDE DEF k, q, s
<1>8. s \in DOMAIN ToBag(q) /\ ToBag(r) = Promise!BagRemove(ToBag(q), s)
    BY <1>3, NextFromBag DEF s
<1>9. \A t \in DOMAIN ToBag(q) : s.avg_time <= t.avg_time
  <2>1. \A t \in DOMAIN ToBag(q) : t \in ServerEl /\ serverKey[s] <= serverKey[t]
      BY <1>2, <1>3, HeadIsLeast DEF s
  <2> QED
      BY <1>8, <2>1 DEF serverKey
<1> HIDE DEF r
<1>10. Idle' = [Idle EXCEPT ![k] = Promise!BagRemove(Idle[k], s)]
    BY <1>1, <1>2, <1>7, <1>8, MappingOfNextState DEF Idle
<1>11. s \in DOMAIN Idle[Picked.destination]
    BY <1>7, <1>8
<1>12. \A t \in DOMAIN Idle[Picked.destination] : s.avg_time <= t.avg_time
    BY <1>7, <1>9
<1>13. Idle' = [Idle EXCEPT ![Picked.destination] =
                   Promise!BagRemove(Idle[Picked.destination], s)]
    BY <1>7, <1>10
<1> QED
    BY <1>5, <1>6, <1>11, <1>12, <1>13, GrabIs

LEMMA SendLinkIsAssign ==
    ASSUME Inv1, SendLink PROVE Promise!Next
<1>1. /\ a_pc = "send" /\ a_pc' = "links_wait" /\ UNCHANGED << links_queue, servers >>
    BY DEF SendLink
<1>2. Grabbed # Nobody
    BY <1>1, NobodyIsNobody DEF Grabbed
<1>3. /\ Picked' = Nobody /\ Grabbed' = Nobody
      /\ Waiting' = Waiting /\ Idle' = Idle
    BY <1>1, MappingOfNextState DEF Waiting, Idle
<1> QED
    BY <1>2, <1>3, AssignIs

LEMMA RequeueIsGiveBack ==
    ASSUME Inv1, Requeue PROVE Promise!Next
<1>1. /\ a_pc = "requeue" /\ a_pc' = "requeue_post" /\ UNCHANGED << servers, links_el >>
      /\ links_queue' = QueueAdd(links_queue, links_el, linkKey)
    BY DEF Requeue
<1>2. /\ links_queue \in Seq(LinksEl) /\ links_el \in LinksEl
      /\ linkKey \in [LinksEl -> Nat]
    BY KeysAreFunctions DEF Inv1, TypeOK
<1>3. Grabbed # Nobody /\ Picked = links_el
    BY <1>1, NobodyIsNobody DEF Grabbed, Picked, InAttribution
<1>4. Waiting' = Promise!BagAdd(Waiting, Picked)
    BY <1>1, <1>2, <1>3, AddToBag, MappingOfNextState DEF Waiting
<1>5. Picked' = Nobody /\ Grabbed' = Nobody /\ Idle' = Idle
    BY <1>1, MappingOfNextState DEF Idle
<1> QED
    BY <1>3, <1>4, <1>5, GiveBackIs

\* Semaphores, sockets and a failed connection do not show.
LEMMA OthersStutter ==
    ASSUME \/ Receive \/ PostLink \/ CloseLink \/ PostServer \/ CloseInfos \/ WaitLink
           \/ WaitServer \/ SendFails \/ PostRequeued \/ UNCHANGED vars
    PROVE  UNCHANGED Promise!vars
<1>1. /\ UNCHANGED << links_queue, servers, links_el, server_el >>
      /\ (a_pc' \in {"server_wait", "server_pop", "send", "requeue"}) <=> InAttribution
      /\ (a_pc' \in {"send", "requeue"}) <=> (a_pc \in {"send", "requeue"})
    BY DEF Receive, RecvLink, RecvLinkFails, Examine, RecvInfos, RecvInfosFails, ExamineInfos,
       PostLink, CloseLink, PostServer, CloseInfos, WaitLink, WaitServer, SendFails, FailedTo,
       PostRequeued, InAttribution, vars, attributionVars
<1>2. Waiting' = Waiting /\ Idle' = Idle /\ Picked' = Picked /\ Grabbed' = Grabbed
    BY <1>1, MappingOfNextState DEF Waiting, Idle, Picked, Grabbed
<1> QED
    BY <1>2, StutterIs

DispatchInv == /\ Inv1 /\ Sems /\ QueuesSorted
               /\ LinkFromWire /\ InfosFromWire

LEMMA DispatchInvInit == Init => DispatchInv
BY Inv1Init, SemsInit, SortedInit, LinkFromWireInit, AnnouncedInit DEF DispatchInv

LEMMA DispatchInvStep == DispatchInv /\ [Next]_vars => DispatchInv'
BY Inv1Step, SemsStep, SemsImplyNonEmpty, SortedStep, LinkFromWireStep, InfosFromWireStep
DEF DispatchInv

LEMMA InitIsPromised == Init => Promise!Init
<1> SUFFICES ASSUME Init PROVE Promise!Init
    OBVIOUS
<1>1. /\ links_queue = << >> /\ servers = [k \in Destinations |-> << >>]
      /\ a_pc = "links_wait"
    BY DEF Init
<1>2. ToBag(links_queue) = Promise!EmptyBag
    BY <1>1, EmptyQueueAsBag
<1>3. [k \in Destinations |-> ToBag(servers[k])] = [k \in Destinations |-> Promise!EmptyBag]
    BY <1>1, EmptyQueueAsBag
<1> QED
    BY <1>1, <1>2, <1>3 DEF Promise!Init, InAttribution

LEMMA StepIsPromised == DispatchInv /\ [Next]_vars => [Promise!Next]_(Promise!vars)
<1> SUFFICES ASSUME DispatchInv, [Next]_vars
             PROVE  Promise!Next \/ UNCHANGED Promise!vars
    OBVIOUS
<1>1. /\ Inv1 /\ NeverPopsEmptyQueue /\ QueuesSorted /\ LinkFromWire /\ InfosFromWire
    BY SemsImplyNonEmpty DEF DispatchInv
<1>2. CASE AddLink
    BY <1>1, <1>2, AddLinkIsAccept
<1>3. CASE AddServer
    BY <1>1, <1>3, AddServerIsAnnounce
<1>4. CASE TakeLink
    BY <1>1, <1>4, TakeLinkIsPick
<1>5. CASE TakeServer
    BY <1>1, <1>5, TakeServerIsGrab
<1>6. CASE SendLink
    BY <1>1, <1>6, SendLinkIsAssign
<1>7. CASE Requeue
    BY <1>1, <1>7, RequeueIsGiveBack
<1>8. CASE \/ Receive \/ PostLink \/ CloseLink \/ PostServer \/ CloseInfos \/ WaitLink
           \/ WaitServer \/ SendFails \/ PostRequeued \/ UNCHANGED vars
    BY <1>8, OthersStutter
<1> QED
    BY <1>2, <1>3, <1>4, <1>5, <1>6, <1>7, <1>8
    DEF Next, UnknownLinksStep, ConnInfosStep, AttributionStep

(* Central is a Dispatcher in all but its progress: links and servers are  *)
(* neither lost nor multiplied one by one, the most urgent link meets the  *)
(* fastest ready server of its kind, an announcement serves one attempt,   *)
(* a failed link waits again (central.c:59-205).                           *)
THEOREM CentralIsADispatcher ==
    Spec => Promise!Init /\ [][Promise!Next]_(Promise!vars)
BY DispatchInvInit, DispatchInvStep, InitIsPromised, StepIsPromised, PTL DEF Spec
=============================================================================
