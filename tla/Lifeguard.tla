------------------------------ MODULE Lifeguard ------------------------------
(***************************************************************************)
(* The whole bot: central (module Central) composed with its clients, the  *)
(* Discord bot (lifeguard-bot.py), the scrapping units (scrapping_unit.c)  *)
(* and the virus checkers (virus_checker.c), over a small World Wide Web.  *)
(*                                                                         *)
(* A TLS connection is a rendezvous: the client's connect returns when the *)
(* server's thread accepts, so one step of a client and the receiving step *)
(* of the server are one action.  A client that cannot connect, a          *)
(* connection that dies before the data is read, and a worker process that *)
(* crashes and is started again are actions with a budget.                 *)
(***************************************************************************)
EXTENDS Central, FiniteSets

CONSTANTS
    Checkers, Scrappers,   \* the workers, by program
    Posts,        \* Posts[m]: the links of message m in the order on_message sends them
    Hrefs,        \* Hrefs[u]: the urls update_url finds in page u, in order
    FileUrls,     \* urls for which req_is_file is true
    DeadUrls,     \* urls answered with a status >= 400
    FlakyUrls,    \* urls for which req_get and req_head may return NULL
    WebUrls,      \* urls with a web extension (html, php, no extension...)
    WordyUrls,    \* urls that contain a relevant word (download, game...)
    Times,        \* values of avg_time_seconds
    MaxCrashes,   \* bound: crashes, of workers and of central
    MaxLost       \* bound: connections that fail

\* Links as the bot posts them.
PostedLink == [url: Urls, file_certified: BOOLEAN]

ASSUME WorkersAssumption == /\ Checkers \union Scrappers = Workers
                            /\ Checkers \intersect Scrappers = {}
                            /\ Times # {} /\ Times \subseteq Nat

ASSUME WebAssumption == /\ Posts \in [Msgs -> Seq(PostedLink)]
                        /\ Hrefs \in [Urls -> Seq(Urls)]

ASSUME FaultsAssumption == MaxCrashes \in Nat /\ MaxLost \in Nat

\* Central's clients may be any programs that know the password and send what
\* central can take in; module Lifeguard's are some of them.
ASSUME ClientsAssumption ==
    /\ [priority: 1..(MAX_DEPTH + 3), file_certified: BOOLEAN, password: {"net"},
        ids: {"net"}, msg: Msgs, url: Urls] \subseteq WireLinks
    /\ [what: {"VCHECKER_READY", "SCR_UNIT_READY"}, password: {"net"}, port: {"net"},
        avg_time: Times, ip: Workers] \subseteq WireInfos

VARIABLES
    w_pc,      \* control point of each worker's listen_links
    w_data,    \* its local "data"
    w_todo,    \* the urls of the page find_urls has not looked at yet
    bot_todo,  \* the links on_message has still to send
    replies,   \* the audits the bot received, as it received them
    crashes, lost,
    central_up,  \* central is running
    stranded,    \* history: workers that have waited since before central crashed
    fallen       \* history: workers that have crashed since central was started

workerVars == << w_pc, w_data, w_todo >>
crashVars == << crashes, central_up, stranded, fallen >>
systemVars == << workerVars, bot_todo, replies, crashVars, lost >>
allVars == << vars, systemVars >>

\* Audits as the checkers send them.
Audit == [ids: Orders, password: Passwords, msg: Msgs, url: Urls]

LInit ==
    /\ Init
    /\ w_pc = [w \in Workers |-> "announce"]
    /\ w_data = [w \in Workers |-> UninitLink]
    /\ w_todo = [w \in Workers |-> << >>]
    /\ bot_todo = Posts
    /\ replies = {}
    /\ crashes = 0 /\ lost = 0
    /\ central_up = TRUE /\ stranded = {} /\ fallen = {}

-----------------------------------------------------------------------------
(* Connections *)

\* A connection fails: the client sees NULL, the server's accept sees NULL.
ConnectionFails == lost < MaxLost /\ lost' = lost + 1

\* A client writes d on UNKNOWN_LINKS_PORT and does not look back: central
\* gets it, or cannot be reached, or reads nothing.
WriteLink(d) == \/ central_up /\ RecvLink(d) /\ UNCHANGED lost
                \/ central_up /\ RecvLinkFails /\ UNCHANGED lost
                \/ ~central_up /\ UNCHANGED << vars, lost >>
                \/ ConnectionFails /\ UNCHANGED vars

Goto(w, from, to) == w_pc[w] = from /\ w_pc' = [w_pc EXCEPT ![w] = to]

-----------------------------------------------------------------------------
(* lifeguard-bot.py *)

\* build_links_data: priority 1, every integer in big-endian order.
FromBot(m, l) == [priority |-> 1, file_certified |-> l.file_certified,
                  password |-> "net", ids |-> "net", msg |-> m, url |-> l.url]

\* on_message sends the links of one message one after the other; the events
\* of different messages interleave at every await.
SendFromBot(m) ==
    /\ bot_todo[m] # << >>
    /\ bot_todo' = [bot_todo EXCEPT ![m] = Tail(@)]
    /\ WriteLink(FromBot(m, Head(bot_todo[m])))
    /\ UNCHANGED << workerVars, replies, crashVars >>

-----------------------------------------------------------------------------
(* listen_links, in both workers *)

ReadyInfos(w, t) ==
    [what |-> IF w \in Checkers THEN "VCHECKER_READY" ELSE "SCR_UNIT_READY",
     password |-> "net", port |-> "net", avg_time |-> t, ip |-> w]

\* send_ready, repeated until central can be reached.
SendReady(w) ==
    /\ central_up
    /\ Goto(w, "announce", "accept")
    /\ \/ \E t \in Times : RecvInfos(ReadyInfos(w, t))
       \/ RecvInfosFails
    /\ UNCHANGED << w_data, w_todo, bot_todo, replies, crashVars, lost >>

\* The ntoh64 that follow recv: a checker swaps the ids too, a scrapping unit
\* hands them on as they came.
SwapReceived(w, d) ==
    IF w \in Checkers THEN SwapLink(d) ELSE [d EXCEPT !.password = ntoh64[@]]

\* Mutant: the password is not tested.
ReceivesUntested(w, d) ==
    /\ w_data' = [w_data EXCEPT ![w] = SwapReceived(w, d)]
    /\ Goto(w, "accept", "job")
    /\ UNCHANGED << w_todo, bot_todo, replies, crashVars >>

\* The worker accepts a connection of central and has d in its buffer.
Receives(w, d) ==
    /\ w_data' = [w_data EXCEPT ![w] = SwapReceived(w, d)]
    /\ Goto(w, "accept", IF w_data'[w].password = "host" THEN "job" ELSE "announce")
    /\ UNCHANGED << w_todo, bot_todo, replies, crashVars >>

\* send_to_analysis reaches the chosen worker as soon as that one accepts.
Dispatch ==
    LET w == server_el.ip
    IN  /\ SendLink
        /\ \/ Receives(w, Sent(links_el)) /\ UNCHANGED lost
           \/ ConnectionFails /\ Receives(w, w_data[w])   \* recv reads nothing

\* Nobody listens, or the handshake fails.
DispatchFails ==
    /\ SendFails
    /\ \/ w_pc[server_el.ip] = "down" /\ UNCHANGED lost
       \/ ConnectionFails
    /\ UNCHANGED << workerVars, bot_todo, replies, crashVars >>

-----------------------------------------------------------------------------
(* scrapping_unit.c *)

is_relevant_url(u, priority) ==
    /\ u \notin ImageUrls
    /\ u \notin TrustedUrls
    /\ u \in WebUrls => u \in WordyUrls /\ priority < MAX_DEPTH

\* Results of is_file: 0 as well when neither HEAD nor GET gets through.
is_file(u) == {u \in FileUrls} \union (IF u \in FlakyUrls THEN {FALSE} ELSE {})

Scrapping(s) == s \in Scrappers /\ w_pc[s] = "job"

\* req_get returns NULL or an error status.
FetchFails(s) ==
    /\ Scrapping(s)
    /\ w_data[s].url \in DeadUrls \union FlakyUrls
    /\ Goto(s, "job", "announce")
    /\ UNCHANGED << vars, w_data, w_todo, bot_todo, replies, crashVars, lost >>

\* The url was a file after all: it is sent back as one.
FetchFile(s) ==
    /\ Scrapping(s)
    /\ w_data[s].url \in FileUrls \ DeadUrls
    /\ Goto(s, "job", "certify")
    /\ UNCHANGED << vars, w_data, w_todo, bot_todo, replies, crashVars, lost >>

FetchPage(s) ==
    /\ Scrapping(s)
    /\ w_data[s].url \notin FileUrls \union DeadUrls
    /\ Goto(s, "job", "follow")
    /\ w_todo' = [w_todo EXCEPT ![s] = Hrefs[w_data[s].url]]
    /\ UNCHANGED << vars, w_data, bot_todo, replies, crashVars, lost >>

\* Mutant: the password goes out as it is.
FoundUrlHostOrder(d, u) == [d EXCEPT !.priority = @ + 1, !.url = u]

\* send_url: one level deeper, the password again in network order.
FoundUrl(d, u) == [d EXCEPT !.priority = @ + 1, !.password = "net", !.url = u]

\* data->file_certified = certified; send_url(*data, u);
SendUrl(s, u, certified) ==
    /\ w_data' = [w_data EXCEPT ![s].file_certified = certified]
    /\ WriteLink(FoundUrl(w_data'[s], u))
    /\ UNCHANGED << bot_todo, replies, crashVars >>

SendCertified(s) ==
    /\ Goto(s, "certify", "announce")
    /\ SendUrl(s, w_data[s].url, TRUE)
    /\ UNCHANGED w_todo

SendFound(s) ==
    /\ w_pc[s] = "follow"
    /\ w_todo[s] # << >>
    /\ is_relevant_url(Head(w_todo[s]), w_data[s].priority)
    /\ w_todo' = [w_todo EXCEPT ![s] = Tail(@)]
    /\ \E c \in is_file(Head(w_todo[s])) : SendUrl(s, Head(w_todo[s]), c)
    /\ UNCHANGED w_pc

SkipFound(s) ==
    /\ w_pc[s] = "follow"
    /\ w_todo[s] # << >>
    /\ ~is_relevant_url(Head(w_todo[s]), w_data[s].priority)
    /\ w_todo' = [w_todo EXCEPT ![s] = Tail(@)]
    /\ UNCHANGED << vars, w_pc, w_data, bot_todo, replies, crashVars, lost >>

PageFinished(s) ==
    /\ w_todo[s] = << >>
    /\ Goto(s, "follow", "announce")
    /\ UNCHANGED << vars, w_data, w_todo, bot_todo, replies, crashVars, lost >>

-----------------------------------------------------------------------------
(* virus_checker.c *)

Checking(c) == c \in Checkers /\ w_pc[c] = "job"

\* Mutant: send_ready is forgotten when there is nothing to send.
HashErrorSilently(c) ==
    /\ Checking(c)
    /\ w_data[c].url \in DeadUrls
    /\ Goto(c, "job", "accept")
    /\ UNCHANGED << vars, w_data, w_todo, bot_todo, replies, crashVars, lost >>

\* An error status: the file is left alone.
HashHttpError(c) ==
    /\ Checking(c)
    /\ w_data[c].url \in DeadUrls
    /\ Goto(c, "job", "announce")
    /\ UNCHANGED << vars, w_data, w_todo, bot_todo, replies, crashVars, lost >>

\* Mutant: the ids go out as they are.
ResentHostOrder(d) == [d EXCEPT !.priority = @ + 1, !.password = "net"]

\* resend_url: ids and password back in network order, one level deeper.
Resent(d) == [d EXCEPT !.priority = @ + 1, !.password = "net", !.ids = ntoh64[@]]

\* UNKNOW_ERROR: the link goes through central again.
Resend(c) ==
    /\ Checking(c)
    /\ w_data[c].url \in FlakyUrls
    /\ Goto(c, "job", "announce")
    /\ WriteLink(Resent(w_data[c]))
    /\ UNCHANGED << w_data, w_todo, bot_todo, replies, crashVars >>

AuditOf(d) == [ids |-> ntoh64[d.ids], password |-> "net", msg |-> d.msg, url |-> d.url]

\* The hash is computed and the audit sent to the bot, once.
SendAudit(c) ==
    /\ Checking(c)
    /\ w_data[c].url \notin DeadUrls
    /\ Goto(c, "job", "announce")
    /\ \/ replies' = replies \union {AuditOf(w_data[c])} /\ UNCHANGED lost
       \/ ConnectionFails /\ UNCHANGED replies
    /\ UNCHANGED << vars, w_data, w_todo, bot_todo, crashVars >>

-----------------------------------------------------------------------------
(* Crashes *)

Crash(w) ==
    /\ crashes < MaxCrashes
    /\ w_pc[w] # "down"
    /\ crashes' = crashes + 1
    /\ stranded' = stranded \ {w} /\ fallen' = fallen \union {w}
    /\ w_pc' = [w_pc EXCEPT ![w] = "down"]
    /\ w_data' = [w_data EXCEPT ![w] = UninitLink]
    /\ w_todo' = [w_todo EXCEPT ![w] = << >>]
    /\ UNCHANGED << vars, bot_todo, replies, lost, central_up >>

\* The program is started again: it binds its port, then announces itself.
Restart(w) ==
    /\ Goto(w, "down", "announce")
    /\ UNCHANGED << vars, w_data, w_todo, bot_todo, replies, crashVars, lost >>

\* Central has its queues in memory only.  Workers that wait for a connection
\* of it notice nothing.
CentralCrash ==
    /\ crashes < MaxCrashes
    /\ central_up
    /\ crashes' = crashes + 1
    /\ central_up' = FALSE
    /\ stranded' = { w \in Workers : w_pc[w] = "accept" } /\ fallen' = {}
    /\ links_queue' = << >> /\ links_sem' = 0
    /\ servers' = [k \in Destinations |-> << >>]
    /\ server_sem' = [k \in Destinations |-> 0]
    /\ u_pc' = "accept" /\ data' = UninitLink
    /\ i_pc' = "accept" /\ infos_data' = UninitInfos
    /\ a_pc' = "links_wait" /\ links_el' = UninitLinksEl /\ server_el' = UninitServerEl
    /\ accepted' = 0 /\ announced' = 0 /\ dispatched' = 0 /\ burnt' = 0 /\ drops' = 0
    /\ UNCHANGED << workerVars, bot_todo, replies, lost >>

CentralRestart ==
    /\ ~central_up
    /\ central_up' = TRUE
    /\ UNCHANGED << vars, workerVars, bot_todo, replies, crashes, lost, stranded, fallen >>

-----------------------------------------------------------------------------
CentralAlone == /\ \/ UnknownLinksStep \/ ConnInfosStep
                   \/ WaitLink \/ TakeLink \/ WaitServer \/ TakeServer
                   \/ Requeue \/ PostRequeued
                /\ UNCHANGED systemVars

WorkerStep(w) ==
    \/ SendReady(w) \/ Restart(w)
    \/ FetchFails(w) \/ FetchFile(w) \/ FetchPage(w)
    \/ SendCertified(w) \/ SendFound(w) \/ SkipFound(w) \/ PageFinished(w)
    \/ HashHttpError(w) \/ Resend(w) \/ SendAudit(w)

LNext ==
    \/ CentralAlone \/ Dispatch \/ DispatchFails \/ CentralCrash \/ CentralRestart
    \/ \E m \in Msgs : SendFromBot(m)
    \/ \E w \in Workers : WorkerStep(w) \/ Crash(w)

(***************************************************************************)
(* Every thread of central and every process runs when it can, and central *)
(* is started again when it has crashed.  Weak                             *)
(* fairness is enough for the clients although central accepts one at a    *)
(* time: no client has more than a bounded number of links to send, so a   *)
(* connection that waits is accepted in the end.                           *)
(***************************************************************************)
LFairness ==
    /\ WF_allVars(UnknownLinksStep /\ UNCHANGED systemVars)
    /\ WF_allVars(ConnInfosStep /\ UNCHANGED systemVars)
    /\ WF_allVars(\/ Dispatch \/ DispatchFails
                  \/ /\ WaitLink \/ TakeLink \/ WaitServer \/ TakeServer
                        \/ Requeue \/ PostRequeued
                     /\ UNCHANGED systemVars)
    /\ WF_allVars(CentralRestart)
    /\ \A m \in Msgs : WF_allVars(SendFromBot(m))
    /\ \A w \in Workers : WF_allVars(WorkerStep(w))

LSpec == LInit /\ [][LNext]_allVars /\ LFairness

-----------------------------------------------------------------------------
(* Properties *)

(* The type of the system's state.  A job, moreover, is done only for a    *)
(* link that carried the password and that central had let through: not    *)
(* for a depth it refuses, nor for what a dead connection left in the      *)
(* buffer of a worker (virus_checker.c:132-141, scrapping_unit.c:303-310). *)
LTypeOK ==
    /\ w_pc \in [Workers -> {"announce", "accept", "job", "certify", "follow", "down"}]
    /\ w_data \in [Workers -> Links_data]
    /\ \A w \in Workers : w_pc[w] \in {"job", "certify", "follow"} =>
          /\ w_data[w].password = "host"
          /\ w_data[w].priority \in 1..(MAX_DEPTH + 2)
    /\ w_todo \in [Workers -> Seq(Urls)]
    /\ bot_todo \in [Msgs -> Seq(PostedLink)]
    /\ replies \subseteq Audit
    /\ crashes \in 0..MaxCrashes /\ lost \in 0..MaxLost
    /\ central_up \in BOOLEAN /\ stranded \subseteq Workers /\ fallen \subseteq Workers

Entries(q, w) == Cardinality({ i \in DOMAIN q : q[i].ip = w })

\* How often central will still connect to w: one for each announcement it
\* is about to queue, has queued, or has just taken.
Tokens(w) == Entries(servers[DEST_VIRUS_CHECKER], w)
               + Entries(servers[DEST_SCRAPPING_UNIT], w)
               + One(i_pc = "add" /\ infos_data.ip = w)
               + One(a_pc = "send" /\ server_el.ip = w)

(* While no connection fails, a worker that waits for a link is known to   *)
(* central, whatever workers crash and come back: it is not left idle for  *)
(* ever.  Nothing but send_ready tells central about a worker, and a       *)
(* worker that waits in socket_accept does not call it again               *)
(* (virus_checker.c:117-131, scrapping_unit.c:287-303, central.c:77-80).   *)
(* So a crash of central costs exactly the workers that were idle, and     *)
(* each of them until it is started again itself: a worker that was busy   *)
(* or asking for central finds the new one.                                *)
NoIdleWorkerForgotten ==
    lost = 0 /\ drops = 0 =>
        \A w \in Workers : w_pc[w] = "accept" => Tokens(w) >= 1 \/ w \in stranded

(* Central has at most one announcement of an idle worker and none of a    *)
(* busy one: it never makes links_attribution wait for a worker that is    *)
(* still at its last job (central.c:77-80, 183-194;                        *)
(* virus_checker.c:186-191).  Connections that cannot be made or die while *)
(* a link is sent, crashes of central and of other workers make no         *)
(* difference, nor does one dead reception in central: what it leaves on   *)
(* the stack is swapped and has no password.  A second one may swap it     *)
(* back, and a worker that comes back after a crash of its own announces   *)
(* itself once more.                                                       *)
OnlyIdleWorkersChosen ==
    drops <= 1 => \A w \in Workers \ fallen : Tokens(w) <= One(w_pc[w] = "accept")

\* The urls at most MAX_DEPTH clicks away from a link of message m.
PostedIn(m) == { l.url : l \in ToSet(Posts[m]) }
Linked(U) == U \union UNION { ToSet(Hrefs[u]) : u \in U }
Within(m) == Linked(Linked(PostedIn(m)))

(* An audit reaches the bot in the byte order decode_audit_data expects    *)
(* and answers a message that posted the file or a page from which it can  *)
(* be reached: on its way a link is swapped by central, by a checker, not  *)
(* by a scrapping unit, swapped back for a retry, and examined again when  *)
(* a connection dies (central.c:48-50, 111-114; virus_checker.c:95-98,     *)
(* 135-137, 155-157; scrapping_unit.c:192, 304).                           *)
AuditsAnswerTheirMessage ==
    \A a \in replies : a.ids = "net" /\ a.password = "net" /\ a.url \in Within(a.msg)

(* What the bot and the workers write on central's two ports is what       *)
(* module Central assumes of its clients, and central behaves as that      *)
(* module says, from its beginning each time it is started again           *)
(* (virus_checker.c:56-60, 95-98; scrapping_unit.c:191-194, 265-269;       *)
(* lifeguard-bot.py:27-34).                                                *)
CentralAsAssumed == Init /\ [][Next \/ Init']_vars

\* Nothing is under way any more: all links are settled.
Quiet == /\ \A m \in Msgs : bot_todo[m] = << >>
         /\ links_queue = << >> /\ a_pc = "links_wait" /\ u_pc = "accept"

(* Every crawl ends and nobody waits for ever for a connection: in the end *)
(* every worker is ready again and every link has been settled, although   *)
(* pages link to each other, failed files are sent round again and each    *)
(* link a job finds is new work for central (scrapping_unit.c:191, 107;    *)
(* virus_checker.c:95; central.c:128, 138), and although a worker or       *)
(* central may crash.  Links remain only if a crash of central has left a  *)
(* worker waiting that central does not know of (virus_checker.c:127).     *)
EverythingSettles ==
    <>[](/\ \A w \in Workers : w_pc[w] = "accept"
         /\ stranded = {} => Quiet)

(* A file attached to a message is audited in the end, unless a connection *)
(* fails, a process crashes or the file cannot be downloaded: other links, *)
(* more urgent or put back after a failed download, do not keep it from    *)
(* the checker for ever (central.c:66-86, queue.c:88-96).                  *)
AttachmentsAreAudited ==
    \A m \in Msgs : \A u \in Urls \ (DeadUrls \union FlakyUrls \union ImageUrls) :
        (\E i \in DOMAIN Posts[m] : Posts[m][i] = [url |-> u, file_certified |-> TRUE])
            => <>(crashes > 0 \/ lost > 0 \/ drops > 0 \/ \E a \in replies : a.msg = m /\ a.url = u)

=============================================================================
