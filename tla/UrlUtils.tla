------------------------------- MODULE UrlUtils -------------------------------
(***************************************************************************)
(* url_utils.c and the string search of str_utils.c: what the scrapping    *)
(* unit does with a link once it has been cut out of a page.  A url lies   *)
(* in an array of characters that is used for one url after the other:     *)
(* behind the NUL of a text stands what longer texts have left there.      *)
(* Letters are lower case, and stand for both cases where tolower is used. *)
(***************************************************************************)
EXTENDS Integers, SequencesExt

CONSTANTS
    MAX_URL_SIZE, MAX_EXTENSION_SIZE,   \* sizes of arrays
    MAX_DEPTH,
    TrustedHosts, ImageExtensions, WebExtensions, RelevantWords

NUL == "NUL"
UNINIT == "?"
HTTP == << "h", "t", "t", "p", ":", "/", "/" >>
HTTPS == << "h", "t", "t", "p", "s", ":", "/", "/" >>

IsNul(c) == c = NUL
IsSlash(c) == c = "/"
IsDot(c) == c = "."
IsQueryMark(c) == c \in {"?", "#"}

-----------------------------------------------------------------------------
(* Arrays *)

Byte(array, k) == IF k \in DOMAIN array THEN array[k] ELSE UNINIT
TextAt(array, k) == LET rest == SubSeq(array, k, Len(array))
                    IN  SubSeq(rest, 1, SelectInSeq(rest, IsNul) - 1)
Text(array) == TextAt(array, 1)

\* The text is copied into the array, with its NUL.
Write(array, text) == text \o << NUL >> \o SubSeq(array, Len(text) + 2, Len(array))

\* The text up to the first character that passes the test, or all of it; and the rest.
Until(text, Test(_)) ==
    LET k == SelectInSeq(text, Test) IN IF k = 0 THEN text ELSE SubSeq(text, 1, k - 1)
From(text, Test(_)) == SubSeq(text, Len(Until(text, Test)) + 1, Len(text))

-----------------------------------------------------------------------------
(* stristr *)

\* How many characters of word stand in the array from k on.
Matching(array, word, k) ==
    CHOOSE n \in 0..Len(word) : /\ \A d \in 1..n : Byte(array, k + d - 1) = word[d]
                                /\ n < Len(word) => Byte(array, k + n) # word[n + 1]

\* Does stristr find the word from position k on?  After a part of the word it
\* goes on behind the character that did not match, which may be the NUL.
stristr(array, word) ==
    LET found[k \in 1..(Len(array) + Len(word) + 1)] ==
            IF k > Len(array) \/ Byte(array, k) = NUL THEN FALSE
            ELSE LET n == Matching(array, word, k)
                 IN  n = Len(word) \/ found[k + n + 1]
    IN  found[1]

-----------------------------------------------------------------------------
(* url_slicer, trusted_host *)

Behind(text, Test(_)) == Tail(From(text, Test))

Host(url) == 
    IF Len(SelectSeq(url, IsSlash)) < 2 THEN << >>
    ELSE Until(Behind(Behind(url, IsSlash), IsSlash), LAMBDA c : c = "/" \/ IsQueryMark(c))

\* What stands behind the host, up to a query; without a path there is no extension.
Path(url) == 
    IF Len(SelectSeq(url, IsSlash)) < 3 THEN << >>
    ELSE Until(From(Behind(Behind(url, IsSlash), IsSlash), LAMBDA c : c = "/" \/ IsQueryMark(c)),
               IsQueryMark)

\* Mutant: a slash does not end an extension.
ExtensionAcrossSlashes(path) ==
    FoldLeft(LAMBDA ext, c : IF c = "." THEN << c >>
                             ELSE IF ext # << >> THEN Append(ext, c) ELSE ext,
             << >>, path)

\* What the array extension holds once the path has been read as far as that.
ExtensionIn(path) ==
    FoldLeft(LAMBDA ext, c : IF c = "." THEN << c >>
                             ELSE IF c # "/" /\ ext # << >> THEN Append(ext, c) ELSE << >>,
             << >>, path)

Extension(url) == ExtensionIn(Path(url))

\* The loop has no bound: it stays inside the array extension only if the text behind
\* every dot of the path leaves room for the character, or the NUL, that follows it.
ExtensionFits(url) ==
    \A k \in 0..Len(Path(url)) : Len(ExtensionIn(SubSeq(Path(url), 1, k))) < MAX_EXTENSION_SIZE

\* is_relevant_url of scrapping_unit.c, for the url in the array.
is_relevant_url(array, priority) ==
    LET url == Text(array)
    IN  /\ Extension(url) \notin ImageExtensions
        /\ Host(url) \notin TrustedHosts
        /\ Extension(url) \in WebExtensions =>
              /\ \E word \in RelevantWords : stristr(array, word)
              /\ priority < MAX_DEPTH

-----------------------------------------------------------------------------
(* retrieve_absolute_url *)

IsAbsolute(text) == IsPrefix(HTTP, text) \/ IsPrefix(HTTPS, text)

\* Where the path of a relative url begins, and how many "../" come before it.
\* The loop goes on while one of the next three characters is a slash.
RelativePart(array) ==
    LET skip[k \in 1..(Len(array) + 3)] ==
            IF \A d \in 0..2 : Byte(array, k + d) # "/" THEN [from |-> k, up |-> 0]
            ELSE IF << Byte(array, k), Byte(array, k + 1), Byte(array, k + 2) >> = << ".", ".", "/" >>
                 THEN [skip[k + 3] EXCEPT !.up = @ + 1]
                 ELSE skip[k + 1]
    IN  skip[1]

WithoutLast(path) == SubSeq(path, 1, SelectLastInSeq(path, IsSlash) - 1)
LastSegment(path) == SubSeq(path, SelectLastInSeq(path, IsSlash) + 1, Len(path))

\* The directory of the page: a last segment without a dot is one.
Directory(reference) ==
    LET path == Until(reference, IsQueryMark)
        dir  == IF Len(SelectSeq(path, IsSlash)) > 2 /\ \E c \in ToSet(LastSegment(path)) : IsDot(c)
                THEN WithoutLast(path) ELSE path
    IN  IF IsSlash(Last(dir)) THEN Front(dir) ELSE dir

\* n directories up.  The slashes of "http://" count as well; with fewer slashes than n
\* the loop of the code would leave the string, which is not modelled.
Up(path, n) ==
    LET above[k \in 0..n] == IF k = 0 THEN path ELSE WithoutLast(above[k - 1])
    IN  above[n]

\* The result is longer than the array if the absolute url does not fit into it.
retrieve_absolute_url(array, reference) ==
    LET part == RelativePart(array)
        dir  == Directory(reference)
    IN  IF IsAbsolute(Text(array)) THEN array
        ELSE Write(array, Up(dir, part.up) \o << "/" >> \o TextAt(array, part.from))

=============================================================================
