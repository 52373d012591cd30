------------------------------- MODULE CmpHash -------------------------------
(***************************************************************************)
(* cmp_hash.c: the hash a virus checker computes of what it downloads (or  *)
(* of a local file, to fill the database).  The content is read buffer by  *)
(* buffer; for each byte value the hash counts its occurrences and keeps   *)
(* the index at which the longest gap without that byte ended.  All        *)
(* counters are uint32_t; here they are W bits wide.                       *)
(***************************************************************************)
EXTENDS Integers, SequencesExt

CONSTANTS
    Bytes,         \* byte values
    BUFFER_SIZE,
    W,             \* width of the counters: 32 in the code
    MaxContent     \* bound: bytes the content has at most

ASSUME WidthAssumption == /\ W \in Nat /\ BUFFER_SIZE \in Nat /\ MaxContent \in Nat
                          /\ 0 < BUFFER_SIZE /\ BUFFER_SIZE < 2^W

\* There are finitely many byte values: 256 in the code.
ASSUME BytesAssumption == IsFiniteSet(Bytes)

MAX_U32 == 2^W - 1
uint(x) == x % 2^W

VARIABLES
    hash,      \* *phash
    scan,      \* last_viewed, max_gap
    index,
    n,         \* what the last read returned
    source,    \* "file": cmp_create_hash, "url": cmp_create_hash_from_url
    content,   \* history: all bytes read so far
    viewed     \* history: how many of them went through _update_hash

vars == << hash, scan, index, n, source, content, viewed >>

Zero == [b \in Bytes |-> 0]

Init ==
    /\ hash = [size |-> 0, data_occ |-> Zero, data_gap |-> Zero]
    /\ scan = [last_viewed |-> Zero, max_gap |-> Zero]
    /\ index = 0
    /\ n = BUFFER_SIZE
    /\ source \in {"file", "url"}
    /\ content = << >>
    /\ viewed = 0

\* Mutant: the last of the longest gaps counts.
LongerOrEqualGap(gap, max_gap) == max_gap <= gap

LongerGap(gap, max_gap) == max_gap < gap

\* One turn of the loop of _update_hash: byte b at index "at".
SeeByte(hs, b, at) ==
    LET gap == uint(at - hs.scan.last_viewed[b])
        counted == [hs EXCEPT !.scan.last_viewed[b] = at,
                              !.hash.data_occ[b] = uint(@ + 1)]
    IN  IF LongerGap(gap, hs.scan.max_gap[b])
        THEN [counted EXCEPT !.scan.max_gap[b] = gap, !.hash.data_gap[b] = at]
        ELSE counted

_update_hash(buffer) ==
    FoldLeftDomain(LAMBDA hs, i : SeeByte(hs, buffer[i], uint(index + i - 1)),
                   [hash |-> hash, scan |-> scan], buffer)

\* phash->size + n <= MAX_U32, where the sum is computed in 32 bits.
Fits(size, m) == uint(size + m) <= MAX_U32

\* Mutant: the last, short buffer counts as a full one.
AdvanceByBuffer(x, m) == uint(x + BUFFER_SIZE)

Advance(x, m) == uint(x + m)

\* One turn of the reading loop; the source gives m bytes (none at its end,
\* and a file less than BUFFER_SIZE only there).
ReadBuffer ==
    /\ hash.size < MAX_U32
    /\ source = "file" => n = BUFFER_SIZE
    /\ source = "url" => n # 0
    /\ \E m \in 0..BUFFER_SIZE : \E buffer \in [1..m -> Bytes] :
          LET fits == Fits(hash.size, m)
              hs == IF fits THEN _update_hash(buffer) ELSE [hash |-> hash, scan |-> scan]
          IN  /\ Len(content) + m <= MaxContent
              /\ n' = m
              /\ hash' = [hs.hash EXCEPT !.size = Advance(@, m)]
              /\ scan' = hs.scan
              /\ index' = Advance(index, m)
              /\ content' = content \o buffer
              /\ viewed' = viewed + (IF fits THEN m ELSE 0)
    /\ UNCHANGED source

Next == ReadBuffer

Spec == Init /\ [][Next]_vars

-----------------------------------------------------------------------------
(* Properties *)

(* What check_hash_integrity demands of a hash in the database is true of  *)
(* every hash the two functions compute, even of a content so long that    *)
(* the counters wrap around: they all wrap together                        *)
(* (cmp_hash.c:27, 65, 111, 165-175).                                      *)
HashIsIntegral ==
    uint(FoldFunction(LAMBDA x, y : x + y, 0, hash.data_occ)) = hash.size

\* The indices, from 0 on, at which b occurs in the content.
Positions(b) == { i \in 0..(Len(content) - 1) : content[i + 1] = b }

\* How far back the occurrence before p is; a byte not seen yet counts as seen at 0.
GapBefore(b, p) ==
    LET earlier == { q \in Positions(b) : q < p }
    IN  p - (IF earlier = {} THEN 0 ELSE CHOOSE q \in earlier : \A r \in earlier : r <= q)

\* Where the first of the longest gaps ends.
IsEndOfLongestGap(b, p) ==
    /\ p \in Positions(b)
    /\ \A q \in Positions(b) : \/ GapBefore(b, q) < GapBefore(b, p)
                               \/ GapBefore(b, q) = GapBefore(b, p) /\ p <= q

(* Up to 2^W - 1 bytes the hash depends on the content only, not on how    *)
(* the network cut it into buffers: it holds the number of occurrences and *)
(* the end of the first longest gap of each byte (cmp_hash.c:13-30,        *)
(* 57-67, 99-119).                                                         *)
HashMatchesContent ==
    Len(content) <= MAX_U32 =>
        \A b \in Bytes :
            /\ hash.data_occ[b] = Cardinality(Positions(b))
            /\ \/ IsEndOfLongestGap(b, hash.data_gap[b])
               \/ Positions(b) = {} /\ hash.data_gap[b] = 0

(* "We just look at the first 4 GB, beyond that the uint32_t are too       *)
(* small" (cmp_hash.c:61, 107).                                            *)
OnlyFirst4GBViewed == viewed <= MAX_U32

=============================================================================
