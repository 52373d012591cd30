------------------------------ MODULE HttpRequest ------------------------------
(***************************************************************************)
(* requests.c: req_request, from the connection to the handler it returns, *)
(* redirections included, with the sockets of easy_tcp_tls.c under it and  *)
(* the three functions that use it above: find_urls and is_file of the     *)
(* scrapping unit and cmp_create_hash_from_url of the virus checker.  One  *)
(* behaviour is one call of one of them.                                   *)
(***************************************************************************)
EXTENDS HeaderScanner

CONSTANTS
    Urls,
    Calls,        \* pairs of a caller and the url it asks for
    Answers,      \* Answers[u]: the responses the server of u may give
    Absolute,     \* Absolute[u][v]: the url that location v leads to from url u
    ContentLength, TransferEncoding, Location,   \* names of headers
    ChunkedText   \* value of Transfer-Encoding

Jobs == {"is_file", "read"}

ASSUME AnswersAssumption == /\ DOMAIN Answers = Urls
                            /\ Calls \subseteq Jobs \X Urls
                            /\ DOMAIN Absolute = Urls
                            /\ \A u \in Urls : \A v \in DOMAIN Absolute[u] : Absolute[u][v] \in Urls

Texts == Seq(DOMAIN Lower)

\* Servers send sequences of characters.
ASSUME ResponsesAssumption ==
    \A u \in Urls : \A r \in Answers[u] :
        /\ r \in [status : DOMAIN Lower, lines : Seq([name : Texts, value : Texts]), body : Texts]
        /\ Header(r) \in Texts

\* A header line is one line, and its name does not begin like a blank line.
ASSUME LinesAssumption ==
    \A u \in Urls : \A r \in Answers[u] :
        /\ r.status # LF
        /\ \A line \in ToSet(r.lines) :
              /\ LF \notin ToSet(line.name) \union ToSet(line.value)
              /\ line.name # << >> /\ line.name[1] \notin Below0 \union {COLON}

\* NULL is not a text, and the status line is not cut.
ASSUME TextsAssumption ==
    /\ NULL \notin Seq(DOMAIN Lower \union {UNINIT, NUL})
    /\ FragmentSize > 3

\* Names are tokens that survive the cut into fragments; nothing contains a NUL.
ASSUME TokensAssumption ==
    \A u \in Urls : \A r \in Answers[u] :
        /\ r.status # COLON
        /\ \A line \in ToSet(r.lines) :
              /\ ToSet(line.name) \intersect (Blanks \union {COLON}) = {} /\ Intact(line.name)
              /\ NUL \notin ToSet(line.value)

\* The request names no transfer coding it accepts, so chunked is the only one used.
ASSUME CodingAssumption ==
    /\ {ContentLength, TransferEncoding} \subseteq Names /\ ChunkedText \in Texts
    /\ \A u \in Urls : \A r \in Answers[u] : \A line \in ToSet(r.lines) :
          SameName(line.name, TransferEncoding) =>
              Intact(RawValue(line)) /\ Trimmed(line.value) = ChunkedText

VARIABLES
    job, link,   \* the caller: "is_file", or one of the two that read a body; its url
    method, url, \* arguments of the current, possibly recursive call
    handle,      \* a connection is open and held by the handler
    chunked, read_finished,   \* fields of the handler
    sockets,     \* descriptors open in the process
    failed,      \* connections that could not be made (connect returned an error)
    abandoned    \* handlers a caller has dropped without closing them

requestVars == << job, link, method, url >>
socketVars  == << handle, sockets, failed, abandoned >>
handlerVars == << chunked, read_finished >>
vars == << scanVars, requestVars, socketVars, handlerVars, pc >>

Init ==
    /\ \E call \in Calls : job = call[1] /\ link = call[2]
    /\ url = link
    /\ method = (IF job = "is_file" THEN "HEAD" ELSE "GET")
    /\ handle = FALSE /\ sockets = 0 /\ failed = 0 /\ abandoned = 0
    /\ chunked = FALSE /\ read_finished = FALSE
    /\ response = NULL /\ stream = << >> /\ short_reads = 0 /\ broken = FALSE
    /\ ptree_init
    /\ buffer = << >> /\ size = 0 /\ i = 0 /\ offset = -1
    /\ key_value = << >> /\ j = 0 /\ in_value = FALSE /\ c_return = FALSE
    /\ status_code = "0" /\ residue = << >>
    /\ pc = "connect"

-----------------------------------------------------------------------------
(* socket_client_init, socket_ssl_client_init, socket_send *)

\* The host is unknown, or the TLS handshake fails and socket_close is called.
NoConnection ==
    /\ pc = "connect"
    /\ pc' = "null"
    /\ UNCHANGED << scanVars, requestVars, socketVars, handlerVars >>

\* connect fails: the structure is freed, its descriptor stays open.
ConnectFails ==
    /\ pc = "connect"
    /\ sockets' = sockets + 1 /\ failed' = failed + 1
    /\ pc' = "null"
    /\ UNCHANGED << scanVars, requestVars, handle, abandoned, handlerVars >>

Connect ==
    /\ pc = "connect"
    /\ sockets' = sockets + 1 /\ handle' = TRUE
    /\ read_finished' = FALSE
    /\ \E r \in Answers[url] :
          StartScan(IF method = "HEAD" THEN [r EXCEPT !.body = << >>] ELSE r)
    /\ UNCHANGED << requestVars, failed, abandoned, chunked >>

CloseSocket == handle' = FALSE /\ sockets' = sockets - 1

\* socket_send fails before anything has been parsed, or the header is refused:
\* req_close_connection; return NULL.
GiveUp ==
    /\ \/ pc = "read" /\ Received = 0 /\ size = 0
       \/ pc = "refused"
    /\ IF pc = "refused" /\ ~Walkable
       THEN pc' = "crashed" /\ UNCHANGED << handle, sockets >>
       ELSE pc' = "null" /\ CloseSocket
    /\ UNCHANGED << scanVars, requestVars, failed, abandoned, handlerVars >>

-----------------------------------------------------------------------------
(* req_request, once the header has been parsed *)

HeaderValue(name) == ptree_get_value(tree, name)

\* Mutant: Content-Length wins over Transfer-Encoding.
UseFramingOfLength ==
    /\ pc = "accepted"
    /\ IF method = "HEAD"
       THEN read_finished' = TRUE /\ UNCHANGED chunked
       ELSE /\ chunked' = (HeaderValue(ContentLength) = NULL)
            /\ UNCHANGED read_finished
    /\ pc' = "framed"
    /\ UNCHANGED << scanVars, requestVars, socketVars >>

UseFraming ==
    /\ pc = "accepted"
    /\ IF method = "HEAD"
       THEN read_finished' = TRUE /\ UNCHANGED chunked
       ELSE /\ chunked' = (\/ HeaderValue(ContentLength) = NULL
                           \/ HeaderValue(TransferEncoding) = ChunkedText)
            /\ UNCHANGED read_finished
    /\ pc' = "framed"
    /\ UNCHANGED << scanVars, requestVars, socketVars >>

Ask(m, u) == method' = m /\ url' = u /\ UNCHANGED << job, link >>

Redirected == HeaderValue(Location) \in DOMAIN Absolute[url]

\* Mutant: the first connection stays open.
FollowUnclosed ==
    /\ pc = "framed"
    /\ Redirected
    /\ Ask(method, Absolute[url][HeaderValue(Location)])
    /\ handle' = FALSE /\ UNCHANGED sockets
    /\ pc' = "connect"
    /\ UNCHANGED << scanVars, failed, abandoned, handlerVars >>

\* There is a location, whatever the status: close, and call req_request again.
Follow ==
    /\ pc = "framed"
    /\ Redirected
    /\ Ask(method, Absolute[url][HeaderValue(Location)])
    /\ CloseSocket
    /\ pc' = "connect"
    /\ UNCHANGED << scanVars, failed, abandoned, handlerVars >>

\* Any other text leads to no server.
FollowNowhere ==
    /\ pc = "framed"
    /\ HeaderValue(Location) \notin DOMAIN Absolute[url] \union {NULL}
    /\ CloseSocket
    /\ pc' = "null"
    /\ UNCHANGED << scanVars, requestVars, failed, abandoned, handlerVars >>

ReturnHandler ==
    /\ pc = "framed"
    /\ HeaderValue(Location) = NULL
    /\ pc' = "handler"
    /\ UNCHANGED << scanVars, requestVars, socketVars, handlerVars >>

-----------------------------------------------------------------------------
(* The callers *)

\* Mutant: HEAD is tried again, and again.
TryHeadAgain ==
    /\ pc = "null" /\ method = "HEAD"
    /\ Ask("HEAD", link)
    /\ pc' = "connect"
    /\ UNCHANGED << scanVars, socketVars, handlerVars >>

\* is_file: "head is not working, try get to be sure", of its own url, wherever HEAD
\* was redirected.
TryGet ==
    /\ pc = "null" /\ method = "HEAD"
    /\ Ask("GET", link)
    /\ pc' = "connect"
    /\ UNCHANGED << scanVars, socketVars, handlerVars >>

GotNothing ==
    /\ pc = "null" /\ method = "GET"
    /\ pc' = "end"
    /\ UNCHANGED << scanVars, requestVars, socketVars, handlerVars >>

\* find_urls and cmp_create_hash_from_url return on status >= 400 without closing.
IsError == job # "is_file" /\ status_code = "4"

DropHandler ==
    /\ pc = "handler" /\ IsError
    /\ handle' = FALSE /\ abandoned' = abandoned + 1
    /\ pc' = "end"
    /\ UNCHANGED << scanVars, requestVars, sockets, failed, handlerVars >>

\* The response is used and the connection closed; ptree_display and ptree_free
\* need a tree that is not empty.
UseHandler ==
    /\ pc = "handler" /\ ~IsError
    /\ IF Walkable THEN CloseSocket /\ pc' = "end"
                   ELSE pc' = "crashed" /\ UNCHANGED << handle, sockets >>
    /\ UNCHANGED << scanVars, requestVars, failed, abandoned, handlerVars >>

-----------------------------------------------------------------------------
Parse == ParseStep /\ UNCHANGED << requestVars, socketVars, handlerVars >>

Next == \/ NoConnection \/ ConnectFails \/ Connect \/ GiveUp \/ Parse
        \/ UseFraming \/ Follow \/ FollowNowhere \/ ReturnHandler
        \/ TryGet \/ GotNothing \/ DropHandler \/ UseHandler

\* The peer answers or closes the connection: no call blocks for ever.
Spec == Init /\ [][Next]_vars /\ WF_vars(Next)

-----------------------------------------------------------------------------
(* Properties *)

TypeOK ==
    /\ job \in Jobs /\ method \in {"GET", "HEAD"} /\ link \in Urls /\ url \in Urls
    /\ size \in -1..PARSER_BUFFER_SIZE /\ i \in 0..PARSER_BUFFER_SIZE
    /\ j \in 0..(PARSER_BUFFER_SIZE - 1) /\ offset \in -1..(PARSER_BUFFER_SIZE + 1)
    /\ Len(buffer) \in {0, PARSER_BUFFER_SIZE} /\ Len(key_value) \in {0, PARSER_BUFFER_SIZE}
    /\ handle \in BOOLEAN /\ sockets \in Nat /\ failed \in Nat /\ abandoned \in Nat
    /\ pc \in {"connect", "read", "scan", "push", "finish", "refused", "accepted", "framed",
               "handler", "null", "end", "crashed"}

Sends(name) == \E l \in ToSet(response.lines) : SameName(l.name, name)

(* The reader of the body looks for chunks exactly if the server sends     *)
(* them, or does not say how long the body is (requests.c:268-286): the    *)
(* order and the spelling of the two headers that decide it, and what is   *)
(* parsed between them, make no difference.                                *)
FramingIsTheServers ==
    pc \in {"framed", "handler"} /\ ~broken /\ method = "GET" =>
        chunked = (Sends(TransferEncoding) \/ ~Sends(ContentLength))

(* Every descriptor is the one of the connection at hand, or was lost by   *)
(* one of the two paths that lose one: a refused connection                *)
(* (easy_tcp_tls.c:198-203) and an error status (scrapping_unit.c:216-217, *)
(* cmp_hash.c:92-96).  Redirections, retries with GET, refused headers and *)
(* failed sends close what they leave (requests.c:253, 264, 294).          *)
SocketsAccountedFor ==
    sockets = failed + abandoned + (IF handle THEN 1 ELSE 0)
        /\ (pc \in {"connect", "null", "end"} => ~handle)

(* The process survives every answer in which at least one header line has *)
(* arrived; only without one is the tree empty when it is displayed or     *)
(* freed (parser_tree.c:179-209, requests.c:601).                          *)
OnlyHeaderlessAnswersCrash == pc = "crashed" => Arrived = {}

(* A call returns, unless servers redirect it again and again, in a circle *)
(* or to ever new urls: nothing but the servers bounds the recursion       *)
(* (requests.c:288-296).                                                   *)
RequestsEnd == <>(pc \in {"end", "crashed"}) \/ []<>(pc = "framed" /\ Redirected)

=============================================================================
