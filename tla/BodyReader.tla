------------------------------ MODULE BodyReader ------------------------------
(***************************************************************************)
(* requests.c: req_read_output_body and what it calls.  The body of an     *)
(* HTTP response arrives in pieces of any size, the first of which the     *)
(* header scanner may already have read (the residue).  It is framed by    *)
(* Content-Length, or cut into chunks, each after its size in hexadecimal, *)
(* or it goes on until the connection is closed.                           *)
(* A caller asks for BUFFER_SIZE bytes again and again, until it gets none.*)
(*                                                                         *)
(* A step is one read of the connection, one turn of the loop that looks   *)
(* for a chunk size, or one return.  The recursion of the two functions is *)
(* flattened: its only state is what the buffer holds, "out" (bytes that   *)
(* count as read) followed by "raw" (bytes still to be looked at).  Both   *)
(* are sequences and grow as needed.  The server sends no chunk extensions *)
(* and no trailers.                                                        *)
(***************************************************************************)
EXTENDS Integers, SequencesExt

CONSTANTS
    Digits,       \* the digits of a chunk size, in order (16 of them in HTTP)
    Numeral,      \* Numeral[n]: how the server writes the size n
    Contents,     \* what a chunk, or a body with Content-Length, may consist of
    MaxChunks,    \* bound: chunks of a body
    BUFFER_SIZE,
    Framings,     \* how servers mark the end of a body: "length", "chunked", "close"
    Lost          \* Lost[f]: how many last bytes of a body framed so may never come

CR == "CR"
LF == "LF"

\* strtol(text, NULL, 16)
Value(text) ==
    LET value[n \in 0..Len(text)] ==
            IF n = 0 THEN 0
            ELSE value[n - 1] * Len(Digits)
                 + (CHOOSE d \in DOMAIN Digits : Digits[d] = text[n]) - 1
    IN  value[Len(text)]

\* What strtol sees of the array: a CR was stored as the end of the text.
TextIn(array) ==
    LET end == SelectInSeq(array, LAMBDA d : d = CR)
    IN  IF end = 0 THEN array ELSE SubSeq(array, 1, end - 1)

ASSUME DigitsAssumption == /\ Digits \in Seq(ToSet(Digits))
                           /\ CR \notin ToSet(Digits) /\ LF \notin ToSet(Digits)

ASSUME NumeralAssumption ==
    /\ 0 \in DOMAIN Numeral /\ DOMAIN Numeral \subseteq Nat
    /\ \A n \in DOMAIN Numeral : /\ Numeral[n] \in Seq(ToSet(Digits))
                                /\ Numeral[n] # << >> /\ Value(Numeral[n]) = n

\* An empty chunk would be the last one.
ASSUME ContentsAssumption ==
    \A c \in Contents : c \in Seq(ToSet(c)) /\ c # << >> /\ Len(c) \in DOMAIN Numeral

ASSUME SizesAssumption == /\ BUFFER_SIZE \in Nat \ {0} /\ MaxChunks \in Nat
                          /\ \A f \in Framings : Lost[f] \subseteq Nat

VARIABLES
    payload, framing, complete,  \* the response: its content, and whether all of it is sent
    stream,        \* the bytes of the body req_read_output has not given yet
    residue_size,  \* how many of them are in reading_residue
    total_bytes, bytes_readed, read_finished,
    length,        \* the static array of get_chunk_size, up to its index i
    pc,            \* "idle", "body", "size" (in start_chunk_read), "return"
    room,          \* the buffer_size start_chunk_read was called with
    out, raw,
    delivered,     \* history: all the caller got
    result         \* what the last call returned

response == << payload, framing, complete >>
source   == << stream, residue_size >>
counts   == << total_bytes, bytes_readed >>
caller   == << delivered, result >>
vars     == << response, source, counts, read_finished, length, pc, room, out, raw, caller >>

-----------------------------------------------------------------------------
(* What the server sends *)

Chunk(content) == Numeral[Len(content)] \o << CR, LF >> \o content \o << CR, LF >>

Bodies == UNION { [1..k -> Contents] : k \in 0..MaxChunks }

Sent(body, how) ==
    IF how = "chunked" THEN FlattenSeq([i \in DOMAIN body |-> Chunk(body[i])]) \o Chunk(<< >>)
    ELSE FlattenSeq(body)

\* What req_request makes of it: chunks, unless there is a Content-Length.
chunked == framing # "length"

\* After req_parse_headers and the end of req_request.
Init ==
    /\ framing \in Framings
    /\ \E body \in Bodies, lost \in Lost[framing] :
          /\ payload = FlattenSeq(body)
          /\ complete = (lost = 0)
          /\ lost <= Len(Sent(body, framing))
          /\ stream = SubSeq(Sent(body, framing), 1, Len(Sent(body, framing)) - lost)
    /\ residue_size \in 0..Len(stream)
    /\ total_bytes = (IF chunked THEN 0 ELSE Len(payload))
    /\ bytes_readed = 0
    /\ read_finished = FALSE
    /\ length = << >>
    /\ pc = "idle" /\ room = 0 /\ out = << >> /\ raw = << >>
    /\ delivered = << >> /\ result = BUFFER_SIZE

-----------------------------------------------------------------------------
(* req_read_output *)

Least(a, b) == IF a < b THEN a ELSE b

\* How many bytes a read of at most n gives: from the residue as long as there
\* is one, else what the connection has, and none at its end.
Available(n) ==
    IF residue_size > 0 THEN {Least(n, residue_size)}
    ELSE IF stream = << >> THEN {0} ELSE 1..Least(n, Len(stream))

\* Mutant: residue_size is not counted down.
ConsumeUncounted(m) ==
    /\ stream' = SubSeq(stream, m + 1, Len(stream))
    /\ UNCHANGED residue_size

Consume(m) ==
    /\ stream' = SubSeq(stream, m + 1, Len(stream))
    /\ residue_size' = (IF residue_size > m THEN residue_size - m ELSE 0)

-----------------------------------------------------------------------------
(* req_read_output_body *)

\* while n != 0, in cmp_create_hash_from_url and find_urls.
Call ==
    /\ pc = "idle"
    /\ result # 0
    /\ pc' = "body"
    /\ out' = << >>
    /\ UNCHANGED << response, source, counts, read_finished, length, room, raw, caller >>

\* The buffer is full, or the function calls itself to fill what is left of it.
Resume(buffer) == pc' = IF Len(buffer) < BUFFER_SIZE THEN "body" ELSE "return"

\* Nothing came: read_finished = 1; return 0;
ConnectionEnds ==
    /\ read_finished' = TRUE
    /\ pc' = "return"
    /\ UNCHANGED << counts, room, out, raw >>

\* Within a chunk or a body whose length is known.
ReadKnown ==
    /\ pc = "body" /\ ~read_finished
    /\ total_bytes > bytes_readed
    /\ \E m \in Available(Least(BUFFER_SIZE - Len(out), total_bytes - bytes_readed)) :
          /\ Consume(m)
          /\ IF m = 0
             THEN ConnectionEnds
             ELSE /\ out' = out \o SubSeq(stream, 1, m)
                  /\ bytes_readed' = bytes_readed + m
                  /\ Resume(out')
                  /\ UNCHANGED << total_bytes, read_finished, room, raw >>
    /\ UNCHANGED << response, length, caller >>

\* At the end of a chunk: whatever comes next has to be looked at.
ReadChunk ==
    /\ pc = "body" /\ ~read_finished
    /\ total_bytes <= bytes_readed /\ chunked
    /\ \E m \in Available(BUFFER_SIZE - Len(out)) :
          /\ Consume(m)
          /\ IF m = 0
             THEN ConnectionEnds
             ELSE /\ raw' = SubSeq(stream, 1, m)
                  /\ room' = BUFFER_SIZE - Len(out)
                  /\ total_bytes' = -1
                  /\ pc' = "size"
                  /\ UNCHANGED << bytes_readed, read_finished, out >>
    /\ UNCHANGED << response, length, caller >>

BodyEnds ==
    /\ pc = "body"
    /\ read_finished \/ (total_bytes <= bytes_readed /\ ~chunked)
    /\ pc' = "return"
    /\ UNCHANGED << response, source, counts, read_finished, length, room, out, raw, caller >>

Return ==
    /\ pc = "return"
    /\ pc' = "idle"
    /\ delivered' = delivered \o out
    /\ result' = Len(out)
    /\ out' = << >>
    /\ UNCHANGED << response, source, counts, read_finished, length, room, raw >>

-----------------------------------------------------------------------------
(* start_chunk_read and get_chunk_size *)

NoSize == -1

\* Mutant: a CR counts even when no digit came before it.
GetSizeAnyReturn(c) ==
    CASE c \in ToSet(Digits) \union {CR} -> [size |-> NoSize, length |-> Append(length, c)]
      [] c = LF /\ length # << >> ->
            [size |-> Value(TextIn(length)), length |-> << >>]
      [] OTHER -> [size |-> NoSize, length |-> length]

\* Mutant: the index into the static array is not set back.
GetSizeKeepsIndex(c) ==
    CASE c \in ToSet(Digits) -> [size |-> NoSize, length |-> Append(length, c)]
      [] c = CR /\ length # << >> -> [size |-> NoSize, length |-> Append(length, CR)]
      [] c = LF /\ length # << >> ->
            [size |-> Value(TextIn(length)), length |-> length]
      [] OTHER -> [size |-> NoSize, length |-> length]

\* What character c changes in the static array and whether it ends a size:
\* the CR ends the text strtol will see, the LF is the end; a CR LF without
\* digits, as after the content of a chunk, means nothing.
get_chunk_size(c) ==
    CASE c \in ToSet(Digits) -> [size |-> NoSize, length |-> Append(length, c)]
      [] c = CR /\ length # << >> -> [size |-> NoSize, length |-> Append(length, CR)]
      [] c = LF /\ length # << >> ->
            [size |-> Value(TextIn(length)), length |-> << >>]
      [] OTHER -> [size |-> NoSize, length |-> length]

LookAtByte ==
    /\ pc = "size" /\ total_bytes = NoSize
    /\ raw # << >>
    /\ total_bytes' = get_chunk_size(Head(raw)).size
    /\ length' = get_chunk_size(Head(raw)).length
    /\ raw' = Tail(raw)
    /\ UNCHANGED << response, source, bytes_readed, read_finished, pc, room, out, caller >>

\* The size goes on beyond what was read.  That nothing came is not looked at:
\* then the loop goes round for ever.
ReadMore ==
    /\ pc = "size" /\ total_bytes = NoSize
    /\ raw = << >>
    /\ \E m \in Available(room) :
          /\ Consume(m)
          /\ raw' = SubSeq(stream, 1, m)
    /\ UNCHANGED << response, counts, read_finished, length, pc, room, out, caller >>

\* Mutant: the last chunk is taken for one more.
LastChunkReadOn ==
    /\ pc = "size" /\ total_bytes = 0
    /\ raw' = << >>
    /\ total_bytes' = NoSize
    /\ UNCHANGED << response, source, bytes_readed, read_finished, length, pc, room, out, caller >>

LastChunk ==
    /\ pc = "size" /\ total_bytes = 0
    /\ read_finished' = TRUE
    /\ raw' = << >>
    /\ Resume(out)
    /\ UNCHANGED << response, source, counts, length, room, out, caller >>

\* Mutant: all that follows a size is taken for content.
NoChunkEnds == FALSE

\* The next chunk begins in what has been read already.
ChunkEnds == Len(raw) > total_bytes

ChunkContent ==
    /\ pc = "size" /\ total_bytes > 0
    /\ bytes_readed' = Len(raw)
    /\ IF ChunkEnds
       THEN /\ out' = out \o SubSeq(raw, 1, total_bytes)
            /\ raw' = SubSeq(raw, total_bytes + 1, Len(raw))
            /\ total_bytes' = NoSize     \* start_chunk_read calls itself
            /\ UNCHANGED pc
       ELSE /\ out' = out \o raw
            /\ raw' = << >>
            /\ Resume(out')
            /\ UNCHANGED total_bytes
    /\ UNCHANGED << response, source, read_finished, length, room, caller >>

-----------------------------------------------------------------------------
Running == \/ ReadKnown \/ ReadChunk \/ BodyEnds \/ Return
           \/ LookAtByte \/ ReadMore \/ LastChunk \/ ChunkContent

Next == Call \/ Running

\* The peer sends or closes: no read blocks for ever.
Spec == Init /\ [][Next]_vars /\ WF_vars(Running)

-----------------------------------------------------------------------------
(* Properties *)

TypeOK ==
    /\ framing \in Framings /\ complete \in BOOLEAN /\ read_finished \in BOOLEAN
    /\ residue_size \in 0..Len(stream)
    /\ total_bytes \in Nat \union {NoSize} /\ bytes_readed \in Nat
    /\ ToSet(length) \subseteq ToSet(Digits) \union {CR}
    /\ pc \in {"idle", "body", "size", "return"} /\ room \in 0..BUFFER_SIZE
    /\ result \in Nat

(* However the connection cuts the body into pieces, whatever of it came   *)
(* with the headers, and wherever sizes and contents fall in the buffer,   *)
(* the caller gets the content and nothing but the content, in order       *)
(* (requests.c:461-586).                                                   *)
DeliveredInOrder == IsPrefix(delivered \o out, payload)

(* "Returns the number of bytes readed.  Use this in a loop"               *)
(* (requests.c:502-506): 0 means that all of a complete body was           *)
(* delivered.                                                              *)
ZeroMeansAll == result = 0 /\ complete => delivered = payload

(* Nothing stays behind in the static variables of get_chunk_size between  *)
(* two calls, so that one response cannot disturb the chunk sizes of the   *)
(* next one of the same process (requests.c:433-459, 465-480).             *)
ChunkStateIsClean == pc # "size" => length = << >>

(* A call comes to its end, with a body that arrives completely or whose   *)
(* length is known, wherever the connection is cut (requests.c:461-558).   *)
CallsReturn == pc # "idle" /\ (framing = "length" \/ complete) ~> pc = "idle"

(* "Returns the number of bytes readed.  Use this in a loop"               *)
(* (requests.c:504-505): every call comes to its end.                      *)
EveryCallReturns == pc # "idle" ~> pc = "idle"

=============================================================================
