----------------------------- MODULE HeaderScanner -----------------------------
(***************************************************************************)
(* requests.c: req_parse_headers, one call of it.  The response arrives in *)
(* pieces of any size; a piece is scanned character by character, texts    *)
(* are collected in key_value, trimmed and handed to the header tree in    *)
(* fragments of at most PARSER_BUFFER_SIZE - 1 characters.  What follows   *)
(* the blank line in the last piece is kept for the reader of the body.    *)
(*                                                                         *)
(* Both arrays are local and not initialised: a character nothing has been *)
(* written to, in them or behind them, is UNINIT, and a piece leaves what  *)
(* lies behind it in the buffer as it was.  "HTTP/1.1 " and a status code  *)
(* with its reason are one character each.                                 *)
(***************************************************************************)
EXTENDS ParserTree

CONSTANTS
    PARSER_BUFFER_SIZE,
    MaxShortReads,   \* bound: pieces of a response that do not fill the buffer
    Below0,   \* the characters that come before '0'
    Blanks    \* the characters that are not is_ascii (str_utils.c)

CR == "CR"
LF == "LF"
SP == "SP"
COLON == ":"
NUL == "NUL"
UNINIT == "?"
HTTP == "HTTP/"

ASSUME AlphabetAssumption == /\ PARSER_BUFFER_SIZE \in Nat \ {0, 1}
                             /\ {CR, LF, SP, NUL} \subseteq Blanks \intersect Below0
                             /\ UNINIT \notin Blanks

VARIABLES
    response,   \* what the server answers: [status, lines, body]
    stream,     \* the part of it that has not arrived yet
    short_reads,
    broken,     \* the connection has ended before all of it had arrived
    buffer, size, i, offset,
    key_value, j, in_value, c_return,
    status_code, residue,
    pc          \* control point: "read", "scan", "push", "finish" in req_parse_headers

serverVars == << response, stream, short_reads, broken >>
pieceVars  == << buffer, size, offset >>
textVars   == << key_value, j, in_value, c_return >>
scanVars   == << treeVars, serverVars, pieceVars, i, textVars, status_code, residue >>

-----------------------------------------------------------------------------
(* What the server sends *)

StatusLine(status) == << HTTP, status, CR, LF >>

HeaderLine(line) == line.name \o << COLON, SP >> \o line.value \o << CR, LF >>

Header(r) == StatusLine(r.status) \o FlattenSeq([k \in DOMAIN r.lines |-> HeaderLine(r.lines[k])])
               \o << CR, LF >>

-----------------------------------------------------------------------------
(* str_utils.c: strtrim *)

IsSolid(c) == c \notin Blanks
IsNul(c) == c = NUL

\* From the first character that is not blank, even behind the end of the text, to
\* the last such character before the next end.  (The blanks cut off are also
\* overwritten with NUL, which is no less blank.)
strtrim(array) ==
    LET all  == array \o << UNINIT, NUL >>
        rest == SubSeq(all, SelectInSeq(all, IsSolid), Len(all))
        word == SubSeq(rest, 1, SelectInSeq(rest, IsNul) - 1)
    IN  SubSeq(word, 1, SelectLastInSeq(word, IsSolid))

-----------------------------------------------------------------------------
(* req_parse_headers *)

Smaller(a, b) == IF a < b THEN a ELSE b

StartScan(r) ==
    /\ response' = r
    /\ stream' = Header(r) \o r.body
    /\ short_reads' = 0 /\ broken' = FALSE
    /\ tree' = << >> /\ current_key' = NULL /\ current_value' = NULL /\ latest' = << >>
    /\ buffer' = [k \in 1..PARSER_BUFFER_SIZE |-> UNINIT]
    /\ key_value' = [k \in 1..PARSER_BUFFER_SIZE |-> UNINIT]
    /\ size' = 0 /\ i' = 0 /\ offset' = -1
    /\ j' = 0 /\ in_value' = FALSE /\ c_return' = FALSE
    /\ status_code' = "0" /\ residue' = << >>
    /\ pc' = "read"

\* recv gives some of what has been sent, or nothing at the end of the
\* connection: 0 if the peer has closed it, -1 if it was reset.
Read ==
    /\ pc = "read"
    /\ \/ \E m \in 1..Smaller(PARSER_BUFFER_SIZE, Len(stream)) :
             /\ m < PARSER_BUFFER_SIZE => short_reads < MaxShortReads \/ m = Len(stream)
             /\ short_reads' = IF m < PARSER_BUFFER_SIZE /\ short_reads < MaxShortReads
                               THEN short_reads + 1 ELSE short_reads
             /\ size' = m
             /\ buffer' = SubSeq(stream, 1, m) \o SubSeq(buffer, m + 1, PARSER_BUFFER_SIZE)
             /\ stream' = SubSeq(stream, m + 1, Len(stream))
             /\ pc' = "scan"
             /\ UNCHANGED broken
       \/ /\ size' \in {0, -1}
          /\ broken' = TRUE
          /\ pc' = "finish"
          /\ UNCHANGED << buffer, stream, short_reads >>
    /\ i' = 0
    /\ UNCHANGED << treeVars, response, offset, textVars, status_code, residue >>

\* The loop looks at the next character; before that it terminates the text.
\* Where the loop has stopped, at the end of a piece, that character is what some
\* earlier piece left there, or lies behind the buffer.
Character == IF i = PARSER_BUFFER_SIZE THEN UNINIT ELSE buffer[i + 1]
AtBlankLine == Character = LF /\ c_return
Scanning == pc = "scan" /\ i < size /\ ~AtBlankLine
Terminated == [key_value EXCEPT ![j + 1] = NUL]

\* Mutant: off by one.
TextIsOverfull == j = PARSER_BUFFER_SIZE

TextIsFull == j = PARSER_BUFFER_SIZE - 1

Flush ==
    /\ Scanning /\ TextIsFull
    /\ IF in_value THEN ptree_update_value(strtrim(Terminated))
                   ELSE ptree_update_key(strtrim(Terminated))
    /\ j' = 0
    /\ key_value' = [Terminated EXCEPT ![1] = NUL]
    /\ UNCHANGED << serverVars, pieceVars, i, in_value, c_return, status_code, residue, pc >>

ScanColon ==
    /\ Scanning /\ ~TextIsFull /\ Character = COLON /\ ~in_value
    /\ in_value' = TRUE
    /\ ptree_update_key(strtrim(Terminated))
    /\ key_value' = Terminated
    /\ j' = 0 /\ i' = i + 1
    /\ UNCHANGED << serverVars, pieceVars, c_return, status_code, residue, pc >>

ScanValueEnd ==
    /\ Scanning /\ ~TextIsFull /\ Character = LF /\ in_value
    /\ c_return' = TRUE
    /\ in_value' = FALSE
    /\ ptree_update_value(strtrim(Terminated))
    /\ key_value' = Terminated
    /\ pc' = "push"
    /\ UNCHANGED << serverVars, pieceVars, i, j, status_code, residue >>

Push ==
    /\ pc = "push"
    /\ ptree_push
    /\ pc' = "scan"
    /\ j' = 0 /\ i' = i + 1
    /\ UNCHANGED << serverVars, pieceVars, key_value, in_value, c_return, status_code, residue >>

\* A line without a colon: the status line.
ScanOtherLine ==
    /\ Scanning /\ ~TextIsFull /\ Character = LF /\ ~in_value
    /\ c_return' = TRUE
    /\ status_code' = IF Terminated[1] = HTTP THEN Terminated[2] ELSE status_code
    /\ ptree_abort
    /\ key_value' = Terminated
    /\ j' = 0 /\ i' = i + 1
    /\ UNCHANGED << serverVars, pieceVars, in_value, residue, pc >>

\* Mutant: every character ends the search for a blank line.
StaysAtLineEnd(c) == FALSE

\* A CR between two LF does not end the search for a blank line.
AtLineEnd(c) == c_return /\ c \in Below0

ScanCharacter ==
    /\ Scanning /\ ~TextIsFull /\ Character # LF /\ ~(Character = COLON /\ ~in_value)
    /\ c_return' = AtLineEnd(Character)
    /\ key_value' = [Terminated EXCEPT ![j + 1] = Character]
    /\ j' = j + 1 /\ i' = i + 1
    /\ UNCHANGED << treeVars, serverVars, pieceVars, in_value, status_code, residue, pc >>

EndPiece ==
    /\ pc = "scan"
    /\ i = size \/ AtBlankLine
    /\ \E c \in IF Character = UNINIT THEN {LF, UNINIT} ELSE {Character} :
          IF c = LF /\ c_return
          THEN offset' = i + 1 /\ pc' = "finish"
          ELSE offset' = offset /\ pc' = "read"
    /\ UNCHANGED << treeVars, serverVars, buffer, size, i, textVars, status_code, residue >>

\* Mutant: the line end itself is part of the residue.
ResidueWithLineEnd ==
    IF offset = -1 THEN [k \in 1..(size + 1) |-> UNINIT] ELSE SubSeq(buffer, offset, size)

\* What is left of the last piece; at the end of the connection offset is still -1,
\* and the byte before the buffer counts.
Residue ==
    IF offset = -1 THEN [k \in 1..(size + 1) |-> UNINIT] ELSE SubSeq(buffer, offset + 1, size)

\* A blank line "found" behind the piece makes the size of the residue -1, for which
\* no malloc succeeds.
Finish ==
    /\ pc = "finish"
    /\ IF offset > size THEN pc' = "refused" /\ UNCHANGED residue
                        ELSE pc' = "accepted" /\ residue' = Residue
    /\ UNCHANGED << treeVars, serverVars, pieceVars, i, textVars, status_code >>

ParseStep == \/ Read \/ Flush \/ ScanColon \/ ScanValueEnd \/ Push \/ ScanOtherLine
             \/ ScanCharacter \/ EndPiece \/ Finish

-----------------------------------------------------------------------------
(* Properties *)

Received == Len(Header(response)) + Len(response.body) - Len(stream)

\* The part of the header up to its k-th line, and the lines that have arrived.
UpTo(k) == Header([response EXCEPT !.lines = SubSeq(@, 1, k)])
Arrived == { k \in DOMAIN response.lines : Len(UpTo(k)) - 2 <= Received }

(* A text survives the cut into fragments if no fragment is empty, blank, or *)
(* begins or ends, inside the text, with a blank.                            *)
FragmentSize == PARSER_BUFFER_SIZE - 1
Fragment(text, k) ==
    SubSeq(text, (k - 1) * FragmentSize + 1, Smaller(k * FragmentSize, Len(text)))
Trimmed(text) == SubSeq(text, SelectInSeq(text, IsSolid), SelectLastInSeq(text, IsSolid))
Intact(text) ==
    LET n == (Len(text) + FragmentSize) \div FragmentSize
    IN  /\ \A k \in 1..n : \E c \in ToSet(Fragment(text, k)) : IsSolid(c)
        /\ FlattenSeq([k \in 1..n |-> Trimmed(Fragment(text, k))]) = Trimmed(text)

\* The value the last line with this name gives it.
LastLine(name) ==
    LET with == { k \in Arrived : SameName(response.lines[k].name, name) }
    IN  IF with = {} THEN 0 ELSE CHOOSE k \in with : \A l \in with : l <= k

RawValue(line) == << SP >> \o line.value \o << CR >>

(* When req_parse_headers accepts a response, the status and every header  *)
(* that has arrived can be looked up, with the value its last line gives   *)
(* it less the blanks at its ends, however the connection cut the response *)
(* and whatever stood in the arrays before.  The lines that a fragment's   *)
(* edge or a blank value spoils (requests.c:347-364, str_utils.c:107-121)  *)
(* spoil no other line (requests.c:324-406, 301-321).                      *)
AcceptedHeadersAreSent ==
    pc = "accepted" =>
        /\ ~broken => status_code = response.status
        /\ \A name \in Names :
              LET k == LastLine(name)
              IN  IF k = 0 THEN ptree_get_value(tree, name) = NULL
                  ELSE Intact(name) /\ Intact(RawValue(response.lines[k])) =>
                          ptree_get_value(tree, name) = Trimmed(response.lines[k].value)

(* Of a response whose blank line has arrived, the residue and what is     *)
(* still to come are exactly the body; the byte from before the buffer     *)
(* that residue has instead belongs to connections that end earlier        *)
(* (requests.c:402-412).                                                   *)
BodyStartsAfterBlankLine ==
    pc = "accepted" /\ ~broken => residue \o stream = response.body

(* A response is refused only when the connection cut it right behind a    *)
(* line end before the blank line: with the whole header in one piece it   *)
(* is never refused, although the scanner looks behind each piece          *)
(* (requests.c:402-410).                                                   *)
RefusedOnlyBetweenLines ==
    pc = "refused" =>
        /\ Received < Len(Header(response))
        /\ \E k \in 0..Len(response.lines) : Received \in {Len(UpTo(k)) - 2, Len(UpTo(k)) - 1}

=============================================================================
