# A formal model of lifeguard-bot

TLA+ modules, TLC runs and TLAPS proofs about lifeguard-bot, a Discord bot that
sends the links and files of messages through a small distributed system of
scanners. Paths below are relative to the repository (`central.c` is
`src/central.c`); definitions of the project are in `code`.

## 1. The system

Four programs talk over TLS sockets. Every connection carries one packed
structure in one direction (and, on two ports, one byte back).

    Discord --> lifeguard-bot.py --links--> central --links--> scrapping_unit
                      ^                      ^  ^  \                |    |
                      |                      |  |   \--links--> virus_checker
                      |                      |  +----links found----+    |
                      |                      +------"ready", retries-----+
                      +-------------audits (virus_checker)---------------+

| Component | State it keeps | Operations | What is hard | What makes it correct |
|---|---|---|---|---|
| **central** (`central.c`) | one queue of links, one queue of ready servers per kind, a mutex and a semaphore for each; each thread's locals | three threads: `unknown_links_gestion` receives, classifies and queues links; `conn_infos_gestion` receives "ready"; `links_attribution` takes a link, then a server of its kind, and sends one to the other, or puts the link back | element and semaphore change in two steps; results of `queue_next_*` and `socket_recv` are ignored; a failed connection after link and server were taken; one thread that waits for either kind of server | semaphores count elements; nothing is popped from an empty list; nothing is lost or multiplied; best link to fastest server of the right kind; structures swapped exactly once; a restart loses nobody but idle workers |
| **queue** (`queue.c`) | a singly-linked list sorted by priority or average time | `queue_add_*`, `queue_next_*` | two pointer writes per insertion, cells freed after the root moved on | operations are atomic; sorted, first in first out among equals; no leak, no freed cell |
| **virus checker** (`virus_checker.c`) | its server socket, the last received link, an average time | announce, accept, download and hash, audit or retry | crash and restart; every path must announce again exactly once | audits answer the right message in the right byte order; retries end |
| **scrapping unit** (`scrapping_unit.c`) | the same, and the state of its HTML scanner (static variables) | announce, accept, download, filter and send on the links found | pages that link to each other; the url turns out to be a file | crawls end; exactly the relevant links of a page are sent; a broken page costs the next one little; one announcement per job |
| **Discord bot** (`lifeguard-bot.py`) | pending sends of each message handler | `on_message`, `send_link`, `handle_audit_response` | handlers interleave at each await | every attachment is audited once the system works |
| **wire format** (`connexion_data.h/.py`) | - | `build_links_data`, `socket_ntoh64` | 64-bit fields swapped by some programs and handed on by others | host order inside, network order outside |
| **file hash** (`cmp_hash.c`) | `Cmp_hash`, indices carried from buffer to buffer | `cmp_create_hash`, `cmp_create_hash_from_url`, comparison | 32-bit counters, cutting into buffers | depends on the content only |
| **header tree** (`parser_tree.c`) | a binary tree and the pair under construction | update, abort, push, lookup | fragments, repeated names, case | a map from folded names to the last value |
| **HTTP client** (`requests.c`) | a connection, residue bytes, headers, a chunk counter | request, header scanner, body and chunk reader, redirections | cutting of the stream, end of connection, static state | same result however the response is cut; framing as the server's; requests end |
| **url and string utilities** | arrays reused for one url after the other | `url_slicer`, `retrieve_absolute_url`, `stristr`, `strtrim` | walking by index through texts whose end is not always looked for | the url a browser would open; nothing behind the end of a text matters |
| **sockets** (`easy_tcp_tls.c`) | OpenSSL handles | connect, accept, send, receive, close | error paths | no descriptor is leaked |
| **malware database** (`database.c`, `add_*_to_db.c`) | a file of hashes | append, find the best match | - | sequential file access |

Interactions that matter: workers announce themselves to central on `INFOS_PORT`
(retrying until it answers) before each `socket_accept`; central connects to the
announced address; a worker answers nothing to central, it sends results as new
links on `UNKNOWN_LINKS_PORT` or as audits to the bot, and announces itself again.
Nothing acknowledges a job, nothing is persisted.

## 2. Modules

| Module | Stands for |
|---|---|
| `PrioQueue` | the two lists of `queue.c` as operators on sequences (`QueueAdd`, `QueueNext`) |
| `AtomicQueue` | what a queue promises: each call takes effect at one instant |
| `LockedQueue` | `queue.c` pointer write by pointer write; implements `AtomicQueue` |
| `Central` | the three threads of `central.c`, using `PrioQueue` |
| `Dispatcher` | what central promises: bags of links and idle servers, most urgent link to fastest server |
| `CentralDispatches` | the mapping from `Central` to `Dispatcher` |
| `Lifeguard` | the whole system: `Central` with the bot, the workers, failing connections and crashes |
| `CmpHash` | the incremental hash of `cmp_hash.c` |
| `ParserTree` | the tree of `parser_tree.c`, as state of the modules that extend it |
| `HeaderScanner` | one call of `req_parse_headers`, on top of `ParserTree` |
| `HttpRequest` | `req_request` with redirections and sockets, and its three callers, on top of `HeaderScanner` |
| `BodyReader` | `req_read_output_body` of `requests.c` and what it calls |
| `UrlUtils` | `url_utils.c`, `stristr` and `is_relevant_url` as operators on arrays |
| `LinkScanner` | `update_url` and `check_href` over a sequence of pages, on top of `UrlUtils` |
| `PrioQueue_proofs`, `LockedQueue_proofs`, `Central_proofs`, `Lifeguard_proofs`, `HttpRequest_proofs`, `BodyReader_proofs`, `CmpHash_proofs`, `LinkScanner_proofs` | theorems and proofs |
| `MC*` | instances for TLC |

`Lifeguard` extends `Central`, which extends `PrioQueue`; `CentralDispatches` and
`LockedQueue` instantiate the abstract modules. The modules about the inside of a worker
(`HttpRequest`, `BodyReader`, `CmpHash`, `LinkScanner`) meet `Lifeguard` in its constants:
what a download ends in, and the links of a page.

### How state and actions correspond to the code

**Central.** `links_queue`, `servers[k]`, `links_sem`, `server_sem[k]` are the
globals of `central.c`; `k` selects the `v_*` or the `s_*` ones. Each thread has a
control point (`u_pc`, `i_pc`, `a_pc`) and its locals (`data`, `infos_data`,
`links_el`, `server_el`). The steps are the points where another thread can see a
difference: `RecvLink` (accept, recv, the three swaps and the tests), `AddLink`
(`queue_add_links`), `PostLink` (`sem_post`), `CloseLink`; `RecvInfos`,
`AddServer`, `PostServer`, `CloseInfos`; `WaitLink`, `TakeLink`, `WaitServer`,
`TakeServer`, `SendLink` or `SendFails`, `Requeue`, `PostRequeued`. A queue
operation is one step because it runs under its mutex; that this is sound is the
run `locked_queue`. The result of `socket_recv` is ignored by the code, so
`RecvLinkFails` and `RecvInfosFails` swap and examine whatever is on the stack:
the previous structure, or nothing meaningful.

**Data.** A message (channel and message id), a url and a server address are
model values. The code asks of a url whether it starts with the attachment
prefix, has a trusted host or ends like an image: three sets of urls. A 64-bit
field is represented by the byte order it is in, which is all the swaps change;
a password is also possibly a different value. `socket_ntoh64` always reverses
its bytes (its test `(&n)[0] == 1` compares a whole int and does not detect the
machine's order), so `ntoh64` is a reversal; the clients' "network order" is
big-endian and the model is right for the little-endian machines the bot targets.

**Lifeguard.** `w_pc[w]` is the control point of `listen_links` in worker `w`,
`w_data[w]` its local `data`, `w_todo[w]` what `find_urls` has still to send.
A connection is a rendezvous: the client's write and the server's read are one
step. `SendFound` sends the first link of `w_todo` that `is_relevant_url` lets through,
`SkipFound` passes over one it does not. `socket_close` shuts TLS down in both directions and so returns only when
the server, too, has read and closed; a client therefore cannot run ahead of the
structure it wrote. A connection may also fail on the client's side
(`ConnectionFails`), or reach a server that then reads nothing (`RecvLinkFails`,
the second case of `Dispatch`). Central's `SendLink` waits for the chosen worker
to accept; `SendFails` happens when the worker is down or a connection fails.
`Hrefs`, `FileUrls`, `DeadUrls`, `FlakyUrls`, `WebUrls`, `WordyUrls` describe the
web, that is, what the HTTP client and the HTML scanner return.
`Crash` and `Restart` are those of a worker; `CentralCrash` empties the queues, the
semaphores and the threads of central, and clients that want to connect find nobody
until `CentralRestart`: `send_ready` is repeated, a link or a retry is given up. A
worker in `socket_accept` notices nothing; `stranded` remembers which ones these were, and
`fallen` which workers have crashed since central was started. The bot does not crash.

**LockedQueue.** `cell`, `alloc`, `root`, `mutex` are the heap, the allocator,
`*pproot` and the mutex; one action per pointer access. `malloc` is assumed to
succeed, as in the code, which does not test it in the threads. `Chain` is the list that
begins at the root, with an insertion that has made the first of its two writes counted as
finished; `Content` is what it holds, and is the queue of `AtomicQueue`.

**CmpHash.** One turn of the reading loop is `ReadBuffer`; `_update_hash` is the
fold of `SeeByte` over the buffer. All counters are taken modulo `2^W`.

**ParserTree.** A node is named by its path from the root; `PlaceOf` is the walk
that `ptree_push` and `ptree_get_value` share. `Walkable` is what `ptree_free` and
`ptree_display` take for granted.

**HeaderScanner.** `buffer`, `size`, `i`, `offset`, `key_value`, `j`, `in_value`,
`c_return` are the locals of `req_parse_headers`. `Read` is a `recv` of any size, or the
end of the connection. A turn of the inner loop is `Flush` (the text fills its array),
`ScanColon`, `ScanValueEnd` with `Push`, `ScanOtherLine` (the status line) or
`ScanCharacter`; `EndPiece` is the test behind the loop, which looks at a character that
may not belong to the piece, and `Finish` makes the residue. Arrays are not initialised:
`UNINIT` stands for any character, so `EndPiece` may take it for a line feed. `strtrim`
runs from array to array as the code's pointers do. A name, a status line's protocol and
a status code are a few characters each.

**HttpRequest.** `link` is the caller's url, `url` the one of the current call of
`req_request`: `Follow` replaces the second, as the recursion does, and `TryGet` asks for the
first, as `is_file` does (`scrapping_unit.c:88`). `Absolute[u][v]` is where location `v` leads
from url `u`, so a relative location may lead anywhere. `handle` says whether the handler
holds a connection, `sockets` counts the descriptors of the process. `Connect` or one of its two failures, the header scanner
(`Parse`), `UseFraming`, then `Follow`, `FollowNowhere` or `ReturnHandler`; `TryGet` and
`GotNothing` are the callers' reaction to NULL, `DropHandler` and `UseHandler` theirs to
a handler. The recursion of `req_request` is a tail call, so there is no stack. Walking
down an empty tree is undefined behaviour; here the process ends (`crashed`).

**LinkScanner, UrlUtils.** `i`, `j`, `href_passed` and `href_i` are the static variables
of `update_url` and `check_href`; `url` is the array of `find_urls`, which the compiler
puts on the same place of the stack for each page, so that it still holds the url before.
One action per character: `LeaveTag`, `StayInTag`, `StoreChar`, `CloseUrl` (with
`retrieve_absolute_url`, the filter and the sending). `EndPage` may come at any
character: a page can be cut off. Nothing in the code bounds the absolute url, which
`retrieve_absolute_url` makes in `url[MAX_URL_SIZE]` (`url_utils.c:134`-`143`), or the extension,
which `url_slicer` writes into `extension[MAX_EXTENSION_SIZE]` (`scrapping_unit.c:103`,
`url_utils.c:42`): a link for which either is too long is the action `Overflow`, after which
the model stops (`overflown`), as nothing can be said of the process any more. Letters are
lower case, where the code uses `tolower`.

**BodyReader.** `stream` is what the server has sent and nobody has read, of which
`residue_size` bytes came with the headers; `total_bytes`, `bytes_readed`,
`read_finished` are fields of the handler, `length` is the static array of
`get_chunk_size`. `req_read_output_body` and `start_chunk_read` call themselves and
each other; between two reads their state is what they have put in the caller's
buffer (`out`), what they still have to look at (`raw`) and whether they look for a
size (`pc`). The server sends neither chunk extensions nor trailers. The digits of a
chunk size are a constant, binary in the instance, so that short chunks have sizes of
several digits. The buffer is a sequence without a capacity.

Definitions commented "Mutant" are plausible mistakes in the definition that
follows them. They are used by no specification; replacing the definition by one
of them shows that a run's property depends on it.

## 3. Runs

All runs were made with two TLC workers; none needs more than three minutes.

| Run | Instance and bounds | What it shows |
|---|---|---|
| `locked_queue` | 2 threads, 2 keys, 3 adds, 2 nexts, 3 cells | `CellsHaveOneOwner`: no cell is leaked, shared or reached after `free`. `ImplementsAtomicQueue`: refinement with liveness, every call takes effect once and returns. Three adds over two keys insert at the head, before an equal key, in the middle and at the tail, each while the other thread removes; more cells only lengthen the walk. |
| `central_safety` | 4 forms of links on the wire (one with a wrong password), 4 of announcements (one of no known kind), 2 accepted links, 3 accepted announcements, 2 dead connections | the safety invariants of `Central` below, and `ImplementsDispatcher`: safety (most urgent link, fastest server of its kind, elements kept one by one) and liveness (a picked link meets a ready server: no wake-up is lost). Two links exercise ordering and retry against a second link, three announcements both kinds and two speeds, two dead connections in a row the two byte orders a stale buffer can be in. The invariants are also proved for all values. |
| `runner_blocked` | one checker, no scrapping unit, as `runner.sh` starts them | **expected violation**, see section 6 |
| `lifeguard_settles` | two pages linking to each other, an image, a flaky file; a dead and a live attachment; an attachment prefix and a trusted host; one worker of each kind; one crash, of a worker or of central, at any time | `EverythingSettles`: each crawl ends and no process waits for ever, and links remain only if a crash of central has left a worker waiting unknown to it; `NoIdleWorkerForgotten`: a crash of a worker leaves central with one announcement too many, never one too few, a crash of central strands exactly the idle workers; `OnlyIdleWorkersChosen` of every worker that has not crashed; without a crash `AttachmentsAreAudited`. The cycle of pages, a retry and all refusals of central occur. |
| `lifeguard_broken` | smaller web: a page with a link to a trusted host and one to a file, the url of an attachment and one of the trusted host posted as text; two failed connections, two dead ones, anywhere | `OnlyIdleWorkersChosen`: a failed connection and one dead reception give central no announcement too many; `AuditsAnswerTheirMessage` on all paths of a link, with stale structures; `CentralAsAssumed`: the bot and the workers stay inside `WireLinks` and `WireInfos`, the assumption of the proofs about `Central` |
| `hash` | 2 byte values, 3-bit counters, buffers of up to 3 bytes, 10 bytes | `HashMatchesContent` and, beyond the wrap at 8, `HashIsIntegral`. 3 does not divide 8, so the counters wrap at any place in a buffer. |
| `hash_4gb` | the same | **expected violation**, see section 6 |
| `body` | 3 chunks out of 4 contents that look like digits and line ends, or the same with a length; buffers of 5; the last 0 to 4 bytes missing; any cut, any residue | `DeliveredInOrder`, `ZeroMeansAll`, `ChunkStateIsClean`, `CallsReturn`. Sizes, contents and line ends start at every place of a buffer; three chunks in one read make `start_chunk_read` nest. |
| `body_until_close` | bodies that end with the connection | **expected violation**, see section 6 |
| `request` | answers of up to 2 header lines out of 9 forms, some of 3: lengths, chunks, redirections, blank and quoted values, values longer than a fragment; a buffer of 7 characters, 2 pieces that do not fill it, the end of the connection anywhere; GET and HEAD with retry; urls whose relative locations lead on and in a circle | the properties of `ParserTree`, `HeaderScanner` and `HttpRequest`. A buffer of 7 puts piece edges and fragment edges (every 6 characters) at every place of a name, a value and a line end; two short pieces shift them against each other. Trees of one to three nodes in all shapes the names allow. `RequestsEnd`: a call ends unless it is redirected again and again. |
| `page_links` | a page with each of 22 links on each of 5 pages at 2 depths, 6 of the links in single quotes, 4 with a url or an extension that just fits its array or just does not; all pages of 3 pieces out of 10 forms; pages of such pieces after another page of one, cut off anywhere; a url array of 50, an extension array of 6 | `WellFormedPagesYieldTheirLinks`: links in double quotes are sent as the url a browser would open, links in single quotes as relative ones with the quotes in them, and only a link that does not fit overruns an array; `ScannerRecovers`, `TypeOK`. One of the pieces is a tag longer than the array. |
| `word_search` | one page with two links | **expected violation**, see section 6 |

`MaxLinks`, `MaxReady`, `MaxDrops`, `MaxCrashes`, `MaxLost`, `MaxAdds`,
`MaxNexts`, `MaxContent`, `MaxChunks` and `MaxShortReads` are bounds on how often
something happens; the program has none of them. In the `Lifeguard` runs
`MaxLinks` and `MaxReady` are never reached (`EverythingSettles` would fail
otherwise), so there the bound is the web and the number of faults. Deadlock is
not checked: every bounded system stops, and the absence of deadlock is what the
liveness properties state.

### Fairness

- `HttpRequest`, `BodyReader`: weak fairness of the process, with reads that return in the
  end: the peer sends or closes.
- `Central`, `LockedQueue`: weak fairness of each thread's own steps. They are
  POSIX threads; a thread that is not blocked runs. Nothing forces the network to
  deliver. A contended mutex could starve a thread under weak fairness in an
  unbounded system; the bounded number of calls rules that out.
- `Lifeguard`: weak fairness of each thread of central, of each message handler
  of the bot and of each worker process, `Restart` and `CentralRestart` included
  (somebody restarts what crashed). Crashes and failing connections are never forced. Whether a
  flaky download succeeds is not assumed either: the retries end because each
  is one level deeper, not because one succeeds.

## 4. Proofs

All proofs are checked by TLAPS in full, for all values of the constants that satisfy the
named assumptions. TLC evaluates each assumption in the runs.

| Module | Assumption | Why the code justifies it |
|---|---|---|
| `Central` | `SetsAssumption`: there is a message, a url and a server | uninitialised locals need a value |
| | `WireAssumption`: a client that knows the password writes it, and the ids or the port that go with it, in network order | proved of the bot and the workers: `SystemImplementsCentral` |
| | `BoundsAssumption`: bounds are natural numbers | |
| `Lifeguard` | `WorkersAssumption`: a worker is a checker or a scrapping unit and not both, and its times are natural numbers | two programs; `avg_time` is never negative |
| | `WebAssumption`: messages hold lists of posted links, pages lists of urls; `FaultsAssumption`: bounds are natural numbers | the constants describe the web |
| | `ClientsAssumption`: what the bot and the workers may write is among what `Central` takes in | `Central` stands alone with any clients, `Lifeguard` gives it these |
| `LockedQueue` | `NodesAssumption`: the memory is finite and NULL no cell of it; `ThreadsAssumption`: the value for "no thread" is no thread; `KeysAssumption`: keys are natural numbers | `priority` is unsigned, `avg_time` is never negative |
| `CentralDispatches` | `NobodyAssumption`: the value for "no element" is no element | |
| `HttpRequest` | `AnswersAssumption`: every url has its answers, and where a location leads from a url there is a url of the web; `ResponsesAssumption`: servers send sequences of characters | the constants describe the web |
| | `LinesAssumption`: a header line contains no line end, and its name has at least one character and does not begin with one below `'0'` or with a colon | names begin with a letter; a line that held only characters below `'0'` would be taken for the blank line (`requests.c:393-394`) |
| | `TextsAssumption`: NULL is no text, and a fragment has more than three characters | a pointer is no string; `PARSER_BUFFER_SIZE` is 1024, so the status line is not cut |
| | `TokensAssumption`: a header name has no blank and no colon in it and is `Intact`, a value contains no NUL, the status is no colon | what HTTP calls a token; a name is not intact if it fills the array of 1024 to the last byte, once or several times |
| | `CodingAssumption`: the two headers of the framing are among the names that are looked up, and whoever sends `Transfer-Encoding` sends `chunked`, intact | the request has no `TE` (`requests.c:168-196`), and without one no other coding may be used; the case of its letters, which `stristr` ignores, is abstracted |
| `CmpHash` | `WidthAssumption`: the buffer has at least one byte and its size fits into the counters; `BytesAssumption`: there are finitely many byte values | 256 values; 32-bit counters |
| `LinkScanner` | `StringsAssumption`: the tag looked for has at least one character, fits into the array and does not begin with a quote; `VisitsAssumption`: a unit visits at least one page | it is `"a"`; an idle unit scans nothing |
| `BodyReader` | `DigitsAssumption`: CR and LF are no digits; `NumeralAssumption`: sizes are written as non-empty numerals that denote them, 0 among them | hexadecimal numerals, whose value `strtol` gives |
| | `ContentsAssumption`: a chunk has at least one byte and its length a numeral | an empty chunk is the last one |
| | `SizesAssumption`: the buffer has at least one byte, bounds and numbers of lost bytes are natural | both callers pass 2048 |

**Central** (`PrioQueue_proofs`, `Central_proofs`).

1. *Lists.* `QueueAdd` puts one element somewhere into the list and leaves the rest
   as it is (`QueueAddShape`). The `CHOOSE` of `InsertPos` is well defined because
   a non-empty set of naturals has a least element, used here on the positions
   where the walk may stop (`LeastNatural`, `InsertPosFound`). Hence sortedness
   is kept (`QueueAddKeepsSorted`), lengths grow by one and every old element
   remains. How often elements of a set occur changes by one for the element added or
   removed and not at all for the others (`Held`, `HeldAdd`, `HeldNext`).
2. *Types.* `TypeOK` is not inductive: that `AddLink` queues a well-formed element
   needs `Destination(data)` to be one of the two queues, which was tested one step
   before. `Inv1 == TypeOK /\ BuffersConsistent` remembers the tests, and is.
   `TypeCorrect`, `BuffersStayConsistent`.
3. *Semaphores.* Given `Inv1`, `SemaphoresCountElements` is inductive: its summands
   account for each thread between its queue operation and its semaphore operation.
   It is proved queue by queue (`LinksSemStep`, `ServerSemStep`).
   `SemaphoresAreExact`.
4. *No empty pop* follows: between `sem_wait` and `queue_next` the summand is 1 and
   the length at least 1 (`PopsFindAnElement`). Sortedness of a popped list, and
   conservation, use this.
5. *Sorted queues* from 1, 2 and 4 (`QueuesAreSorted`), *conservation* from the
   lengths (`NothingIsLostOrDuplicated`).
6. *Byte order.* From `BuffersConsistent`: a stale buffer that passes the password
   test has its ids in the same order, so what is queued is in host order however
   many times it was swapped (`ByteOrderIsKept`).
7. *Right kind.* The announcement in `conn_infos_gestion`'s buffer is, whenever it
   is accepted, one a client wrote (`InfosFromWire`), and servers stay in the queue
   of the kind they announced (`LinksGoToTheRightKind`).

**The pointers of a queue** (`LockedQueue_proofs`). A list that begins at a pointer and ends
is the only one that does (`ListIsUnique`), contains no cell twice (`NoCellTwice`) and so
fits into the memory (`ListFits`); `Chain` is therefore the list there is (`ListFromIs`), and
a step is understood by naming the list after it: `InsertCell` for the two writes of an
insertion, `RemoveCell` for the root that moves on, the same list for all else
(`QuietKeepsList`). `CellsHaveOneOwner` is not inductive: it does not say who holds the mutex,
what a thread has learnt under it (the new key is smaller than all, or not smaller than
those up to `walk[t]`), that the cell in hand points where it should, or that the list is
sorted. `QInv` says these; `EveryCellHasOneOwner` follows. For the refinement,
`InsertionIsQueueAdd` shows that a place with no larger key in front and only larger ones
behind is the place `QueueAdd` chooses, so the write that links the cell is `DoAdd`; the write
that moves the root is `DoNext`, and what `CopyOut` copies later is still the element that
was first, because no other thread writes to a cell in hand (`CellsInHandStay`). All other
steps stutter (`MapStep`, `QueueIsAtomic`).

**Central dispatches** (last part of `Central_proofs`). `CentralIsADispatcher` maps every step of
the three threads to a step of `Dispatcher` or a stutter. Queues become bags: adding to a
queue adds one copy to the bag, taking the head of a sorted queue takes one copy of a least
element (`AddToBag`, `NextFromBag`, `HeadIsLeast`). `DispatchInv` adds to `Central`'s
invariants that a link in a thread's hand came from the wire with the password
(`LinkFromWire`), which `Dispatcher` demands of what it accepts.

**The system** (`Lifeguard_proofs`), for any web, any workers and any number of faults and
crashes. `Lifeguard` extends `Central`, so a step of the system is, as far as `Central`'s
variables go, a step of `Central`, a stutter, or after a crash its initial state again
(the run of `CentralAsAssumed` explores no crash, the theorem allows any number of them):
`CentralAsAssumed == Init /\ [][Next \/ Init']_vars`. That holds only if what the clients write
is in `WireLinks` and `WireInfos`, and what a worker writes is what central gave it. `LInv`
proves both together: `CentralSound` (the invariants of `Central` that do not count) and
`ClientsSound` (a link anywhere in the system, on the way or in a stale buffer with the right
password, belongs to the message it names, reached from it by as many clicks as its priority
says). `SystemTypeCorrect`, `AuditsAnswer` and `SystemImplementsCentral` follow, and with the
last one everything proved of `Central` alone, restarts included (`CentralSafeInSystem`).

**Who is known to central** (second part of `Lifeguard_proofs`). Central will connect to a
worker once for each announcement it has accepted: `Tokens(w)` counts those in the queue, in
`conn_infos_gestion`'s hand and in `links_attribution`'s. `AnnInv` relates that number to the
control point of the worker. Its parts are:

- `OnlyIdleWorkersChosen`: until two receptions have died, a worker has at most one token when
  it waits and none when it does not, unless it has itself crashed since central was started.
  Connections that cannot be made, links that do not arrive, crashes of central and crashes of
  other workers are all allowed for. Both exceptions are needed: the worker's old announcement
  outlives it, and a stale announcement that is swapped twice passes again.
- `StaleIsRefused`, why one dead reception does no harm: before it, whatever lies in
  `conn_infos_gestion`'s buffer has its password in host order, so the swap that follows the
  reception makes it a wrong one.
- `NoIdleWorkerForgotten`: while no connection failed, a worker that waits has a token or has
  waited since before central crashed.
- `StrandedUnknown`: a worker that has waited since before central crashed has no token, and no
  stale buffer holds an announcement that would make one.

With `LInv` they are inductive (`AnnInvHolds`). Hence
`OnlyIdleWorkersAreChosen`, `IdleWorkersAreKnown`, `StrandedWorkersStayUnknown`.

**A request** (`HttpRequest_proofs`), for every web of answers and redirections and every size
of the buffers.

- *Descriptors.* `IInv` adds to `SocketsAccountedFor` where a connection is held: at every
  control point but `connect`, `null` and `end`. `Follow` closes what it holds, so the
  recursion accumulates nothing; the header scanner, whose details do not matter here, stays
  among the connected points (`ParseKeepsConnected`).
- *Header tree.* `TreeInv` says of the tree that its nodes are reached from the root by
  nodes (`TreeSound`: each is where the comparisons with those above it lead) and of the
  sequence of stored headers that each is in the tree. Two walks for one name agree as far as
  both go (`WalksAgree`), so there is one place where it stops (`SomeStop`, `OneStop`); hence
  `EveryHeaderIsReachable` and, as a new node is a leaf at that place and a renewed one keeps
  its name, `LookupsFindTheLatest`.
- *Arrays.* `TypeOK` of the scanner depends on the order of its tests: `ScanInv` says at which
  control points `i` and `j` are known to be below which bound. `RequestsStayTyped`.

- *Place in the header.* The three properties about where a header ends say nothing of the
  scanner's way there. `HeadInv` does, in three parts. `FlowInv`: the buffer and the stream are
  a stretch of the header and the body (`Wire`). `PlaceInv`: the scanner is at
  a `Place` of the header before its blank line ends, `c_return` is set only where a line
  has just ended or only the last line feed is missing, and `offset`, once set, is behind the
  blank line or one behind the piece (`Found`). `ValueInv`: between the first colon and the end of the
  first line the scanner is in a value, and after it the tree has a node. What these need of the
  header is `HeaderShaped`: it ends with the blank line, and no other line begins with a
  character that keeps `c_return` (`HeadersAreShaped`). One lemma per part says what a turn
  of the inner loop does to it (`ScanKeepsFlow`, `ScanKeepsPlace`, `ScanKeepsValue`).
  `BodiesStartAfterBlankLine`, `RefusalsOnlyBetweenLines`, `CrashesOnlyHeaderless`.
- *Headers.* `AcceptedHeadersAreSent` compares what the tree answers at the end with what was
  sent. `ContentInv` says at every character what has become of what was scanned. A text (a
  name, or a value with its blanks) is cut into fragments as long as the array allows:
  `Handed` says that the tree has joined the trimmed ones so far, `Collecting` that the array
  holds the first characters of the next. `Scanned` places this in the header: in the
  status, in the name or the value of line `m + 1`, or behind the last line; `Reflects` says
  that the history of stored headers has the names of the first `m` lines and for each the
  value of its last line. A turn of the inner loop is one of five steps of such a place
  (`ScannedCharacter`, `ScannedColon`, `ScannedFlush`, `ScannedValueEnd`, `ScannedPush`). What is needed of
  the text: that `strtrim` of an array with a text of which one character is not blank is that
  text without the blanks at its ends, whatever stands behind its NUL (`strtrimIs`), and that a
  text which is `Intact` is the concatenation of its trimmed fragments. A value that is not
  may become anything, but `Carries` claims nothing of it and no other line suffers. With
  `LookupFindsLatest` the tree then has the last line of each name: `HeadersAreSent`. The choice
  between length and chunks is read off the tree (`FramingInv`): `FramingsAreTheServers`.

**Bodies** (`BodyReader_proofs`).

- *Static array.* `ChunkStateIsClean` does not say what the array holds while a size is looked
  for: `CleanInv` adds that it is empty as soon as one is found. `ChunkStateStaysClean`.
- *Place.* `DeliveredInOrder` says nothing of what is unread. `BodyInv` does: there is a "tail",
  the bytes that will never come, and what the reader holds, what the connection brings and
  this tail together begin within a content (`InContent`), at the line ends between a content and
  a size (`BetweenChunks`), or in a size of which the array holds the first part
  (`InSize`); `total_bytes` and `bytes_readed` say how many bytes of a content are left; and
  the content still in them (`more`) completes what the caller got. A step moves one such
  place to another: `TakeContent`, `ContentOver`, `ByteBetween`, `ByteInSize`. A body with
  `Content-Length` needs only the sum of the lengths (`LengthInv`).
- *Zero.* With a complete body the tail is empty and a place is followed by at least one byte
  (`PlacesAreTyped`), so the connection cannot end there (`Settled`); hence `EndsInv`.
- *Underneath.* What the server sends is a `FlattenSeq`, read from its front, but the fold is
  defined from its end; `FlattenFront` turns it round. `FlattenSeq` and `Value` are recursive
  functions: that they exist is proved by a least counterexample (`RecursionExists`). Of
  `Value` the proofs use that it is natural and undoes `Numeral`, which TLC evaluates.
- `BodyDeliveredInOrder`, `ZeroEndsBody` and `BodyTypeCorrect`. The first two are about bodies
  with `Content-Length` or in chunks (`Delimited`), as the run `body` is: a body that ends with
  the connection is taken for chunks (run `body_until_close`).

**The hash** (`CmpHash_proofs`), for every width of the counters.

- *Folds.* `_update_hash` is a fold over the buffer, the sum of `check_hash_integrity` one
  over the byte values; the library defines both by a recursive function on the subsets of
  a finite set. `SetRecursion` says that such a function exists; then the hash after `k` bytes
  of the buffer is that after `k - 1` changed by `SeeByte` (`HashSteps`), and a sum is one over any
  subset (`SumIs`).
- *Wrapping.* One more occurrence of one byte is one more in the sum, modulo `2^W`, wherever
  the counter of that byte wraps (`SumGrows`): size and sum wrap together. That the guard
  meant to stop at 4 GB is always true (`AlwaysFits`) is part of the proof: were it not,
  `size` would count bytes the other counters have not seen. `HashesAreIntegral`.
- *Gaps.* `HashMatchesContent` does not say what `last_viewed` and `max_gap` are. `ByteCounted`
  does, for one byte value and the set of its positions: the last of them and the longest gap.
  `ByteCountedStep` adds a position behind the others, which changes no gap before it
  (`GapsStay`); the first of the longest gaps stays so because the comparison is strict.
  `HashesMatchTheirContent`.

**Links of a page** (`LinkScanner_proofs`) shows `TypeOK`, for every page, every sequence of pages,
every size of the arrays and all strings: `j < i` is the part that makes it inductive, for
the bound of `update_url` is on `i`, the writes are at `j` (`WritesInside`).

**Induction.** Where a statement is about all elements of a list or all steps of a walk, the
proofs take a least counterexample (`LeastNatural`, `LeastNumber`): a set of numbers defined by a
formula needs no theorem with an operator parameter.

**Only model-checked.** All liveness properties, and with them the fairness part of the two
refinements `ImplementsAtomicQueue` and `ImplementsDispatcher` (fairness and `ENABLED` are beyond the
prover); and `WellFormedPagesYieldTheirLinks` and `ScannerRecovers`, which compare what the scanner
did over a whole page with the pieces the page is made of. Whether a piece is `sound` and which
link it has is said by the constants; a proof would have to assume a grammar of sound pieces
instead, and to follow the scanner and `retrieve_absolute_url` through every form of it.

## 5. What a property is aimed at

The list `hazards` of `PROJECT.json` gives, line by line, what can go wrong in this
code and which property would show it. Conclusions a reader of the code may
find useful:

- Ignoring the results of `queue_next_*` is safe, ignoring that of `socket_recv`
  is nearly so: after one dead connection the stale structure fails the password
  test, after two in a row it passes again and a link (or an announcement) is
  processed a second time. It is then still consistent.
- A worker is dispatched to only when idle, whatever fails, with two exceptions. After its own
  crash central holds a stale announcement, and after two dead receptions in a row it may
  accept one twice; then all dispatching may wait for a busy worker. No crash of a worker
  makes central forget an idle one. It does forget one when a connection to
  a living worker fails (`central.c:79`), so `NoIdleWorkerForgotten` is stated for
  behaviours without lost connections.
- A crash of central costs exactly the workers that were waiting for a link: they go on
  waiting, known to nobody, until they are started again themselves.
- The header scanner looks at a character behind each piece. That it works is due to
  the line feed in `c_return`: only a piece that ends right behind a line end can be taken
  for the end of the header, and then no malloc succeeds and the response is refused (`RefusedOnlyBetweenLines`).
- Header values that fill fragments exactly, blank values and names are spoilt by
  `strtrim` (`Intact` says which are not); no other line suffers.
- An answer in which no header line has arrived, and no other, makes the client follow a
  NULL root.
- The scanner's state is never reset, and still a page that is cut off costs at most the
  next two tags. A url in single quotes keeps both of them, as `'` is a character of
  urls (`scrapping_unit.c:26`, `152`): it is taken for a relative one, wherever it leads, and
  its extension ends in a quote, so that a page or an image is sent on as a file.
  `retrieve_absolute_url` differs from a browser in the cases
  that `Resolves` lists, and `WellFormedPagesYieldTheirLinks` leaves them out.
- Requests end unless servers redirect them for ever; that need not be a circle, as a relative
  location can make a new url each time.
- Crawling and retrying end because each hop adds one to `priority`, with a limit
  in central that does not depend on the workers.

## 6. Findings

- `runner_blocked`: `links_attribution` takes a link and then waits for a server of
  its kind. Without a scrapping unit - the configuration `runner.sh` starts - the
  first page posted stops central from sending files to the virus checker, although
  it is ready. The repository's README says central sends links on to "scrapping-units
  or virus-checkers". Under fairness of all threads TLC shows a link waiting for ever
  beside a ready server of its kind.
- `body_until_close`: `start_chunk_read` loops for ever when the connection ends while
  it looks for a chunk size (`requests.c:471-475`). That takes a chunked body cut off at
  the wrong place, or any response that has neither Content-Length nor chunks:
  `req_request` takes it for chunked (`requests.c:276`). The worker that downloads it
  is lost until it is restarted. `Lifeguard` does not contain this: there a download
  ends.
- `word_search`: `stristr` goes on behind the end of its string when the string ends
  with the beginning of what is searched (`str_utils.c:59-70`). `update_url` writes one url
  after the other into the same array, so a word in an earlier, longer url makes a later
  one relevant. (`stristr` also misses a word that begins inside a partial match.)
- `hash_4gb`: the guard for the first 4 GB (`cmp_hash.c:62`, `108`) adds two 32-bit
  numbers and compares the sum with the largest 32-bit number, which is always true.
  Content beyond 4 GB is hashed with wrapped counters, contrary to the comments at
  `cmp_hash.c:61` and `107`.

## 7. What is not modelled

- `malloc` failures and a failure of `socket_ssl_server_init` inside a thread of
  central (`central.c:95-99`, `161-165`): the thread ends at start-up.
- The text of a request, the slicing of its url (`requests.c:116-198`) and the bounds of the
  arrays for it (`host`, `uri`, `location_url`); chunk
  extensions and trailers; `req_is_file`'s two headers (constant `FileUrls`).
- What happens after a link has overrun `url` or `extension`: the action `Overflow` is the last
  of its behaviour. `unknown_links_gestion` calls `url_slicer` with such an array, too
  (`central.c:108`, `122`); in `Central` a url is a model value and the extension one of three sets.
- The room in the buffer `BodyReader` reads into (`requests.c:473`): a nested
  `start_chunk_read` may ask for more than is left.
- Crashes of the bot.
- `retrieve_absolute_url` on a link with more `../` than its page has slashes: the
  code's loop leaves the string.
- The internals of TLS, and the server's side of `easy_tcp_tls.c`: a connection is a
  rendezvous that may fail. `SSL_connect` returning 0 is counted as noticed.
- The database and the comparison of hashes: one query, and floating-point arithmetic.
- The contents of audits and replies, `extract_urls`, log output, `avg_time` (any value
  in `Times`).
- `CmpHash` leaves out opening files; `ParserTree` leaves out the memory that is freed.

## 8. Plan

The order: the queues and central, on which all depends; the composition with the
workers and the bot; the pure parts the workers are made of; proofs from the inside
out.

Done: all modules of section 2, the runs of section 3, the theorems of section 4.

Next, the model:

1. `Lifeguard` with two checkers, so that a crash leaves central a choice.
2. `HttpRequest` followed by `BodyReader` in one behaviour: the residue handed on.
3. The bot's `audit_server` and its replies.

Next, the proofs: names that are not `Intact`, which `TokensAssumption` leaves out; and the two
invariants of `LinkScanner`, once the grammar of sound pieces is an assumption.
