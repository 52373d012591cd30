----------------------------- MODULE LinkScanner -----------------------------
(***************************************************************************)
(* scrapping_unit.c: the loop of find_urls that looks for links in a page, *)
(* with update_url and check_href, which see one character at a time and   *)
(* keep in static variables how far they are, from page to page.           *)
(*                                                                         *)
(* A job is [page, priority, pieces].  A piece is [html, tag, sound, link]:*)
(* its characters, whether it ends with a closed tag, whether it is well   *)
(* formed, and the link it has, or NoLink.  A link is [up, text], "../" up *)
(* times before the text; a page is [site, dirs, name, query].             *)
(*                                                                         *)
(* A link that is too long for one of two arrays makes the code write past *)
(* its end: the behaviour stops there (Overflow).                          *)
(***************************************************************************)
EXTENDS UrlUtils

CONSTANTS
    HTML_A_TAG_STR, HREF_STR,
    UrlChars,   \* the characters that are is_char_of_url
    Visits,     \* sequences of jobs one unit may be given
    NoLink

Quotes == {"QUOTE", "'"}

ASSUME StringsAssumption == /\ MAX_URL_SIZE \in Nat
                            /\ Len(HTML_A_TAG_STR) \in 1..MAX_URL_SIZE /\ Len(HREF_STR) \in Nat
                            /\ HTML_A_TAG_STR[1] \notin Quotes
ASSUME VisitsAssumption == \A v \in Visits : Len(v) \in Nat \ {0} /\ DOMAIN v = 1..Len(v)

VARIABLES
    i, j, href_passed,   \* statics of update_url
    href_i,              \* static i of check_href
    url,                 \* the array of find_urls, on the stack at the same place each time
    visit, n,            \* the jobs, and which one is being done
    rest,                \* the characters of the page still to come
    was_damaged,         \* history: the page before was malformed, or was cut off
    done,                \* the page has been read to its end
    overflown,           \* an array has been written past its end
    links                \* the urls sent for this page

scannerVars == << i, j, href_passed, href_i, url >>
vars == << scannerVars, visit, n, rest, was_damaged, done, overflown, links >>

Job == visit[n]
Html(job) == FlattenSeq([k \in DOMAIN job.pieces |-> job.pieces[k].html])

Segments(dirs) == FlattenSeq([k \in DOMAIN dirs |-> << "/" >> \o dirs[k]])
Reference(page) == page.site \o Segments(page.dirs) \o << "/" >> \o page.name \o page.query

Init ==
    /\ i = 0 /\ j = -1 /\ href_passed = FALSE /\ href_i = 0
    /\ url = [k \in 1..MAX_URL_SIZE |-> UNINIT]
    /\ visit \in Visits /\ n = 1
    /\ rest = Html(visit[1])
    /\ was_damaged = FALSE /\ done = FALSE /\ overflown = FALSE
    /\ links = << >>

-----------------------------------------------------------------------------
(* check_href: it is asked about each character inside a tag, and says yes *)
(* at the one behind HREF_STR.                                             *)

Char == Head(rest)

Matched == IF href_i < Len(HREF_STR) /\ Char # HREF_STR[href_i + 1] THEN 0 ELSE href_i + 1
IsBehindHref == Matched = Len(HREF_STR) + 1
check_href == href_i' = IF IsBehindHref THEN 0 ELSE Matched

-----------------------------------------------------------------------------
(* update_url *)

\* Mutant: off by one.
TagIsLonger == i > MAX_URL_SIZE

TagIsTooLong == i >= MAX_URL_SIZE

\* Mutant: a tag without a link goes on in the next one.
ResetsInNameOnly == TagIsTooLong \/ (i < Len(HTML_A_TAG_STR) /\ Char # HTML_A_TAG_STR[i + 1])

\* No a tag, or the end of one, or one that is too long.
Resets == \/ TagIsTooLong
          \/ i < Len(HTML_A_TAG_STR) /\ Char # HTML_A_TAG_STR[i + 1]
          \/ j = -1 /\ Char = ">"

HrefPassed == href_passed \/ IsBehindHref
QuotesOpen == HrefPassed /\ j = -1 /\ Char \in Quotes
At == IF QuotesOpen THEN 0 ELSE j
StartOver == i' = 0 /\ j' = -1 /\ href_passed' = FALSE

Reading == ~done /\ ~overflown

NextChar == /\ Reading /\ rest # << >>
            /\ rest' = Tail(rest)
            /\ UNCHANGED << visit, n, was_damaged, done >>

LeaveTag ==
    /\ NextChar /\ Resets
    /\ StartOver
    /\ UNCHANGED << href_i, url, overflown, links >>

StayInTag ==
    /\ NextChar /\ ~Resets
    /\ IF Char \in UrlChars THEN At = -1 ELSE At = -1 \/ QuotesOpen
    /\ i' = i + 1 /\ j' = At
    /\ check_href /\ href_passed' = HrefPassed
    /\ UNCHANGED << url, overflown, links >>

StoreChar ==
    /\ NextChar /\ ~Resets
    /\ At >= 0 /\ Char \in UrlChars
    /\ url' = [url EXCEPT ![At + 1] = Char]
    /\ i' = i + 1 /\ j' = At + 1
    /\ check_href /\ href_passed' = HrefPassed
    /\ UNCHANGED << overflown, links >>

IsCoherent(text) == Len(text) >= 11 /\ \E c \in ToSet(text) : IsDot(c)

\* The url is complete.  strcat has no bound for it, nor has url_slicer for its extension.
Complete == retrieve_absolute_url([url EXCEPT ![j + 1] = NUL], Reference(Job.page))
Overflows == \/ Len(Complete) > MAX_URL_SIZE
             \/ IsCoherent(Text(Complete)) /\ ~ExtensionFits(Text(Complete))

EndsUrl == /\ NextChar /\ ~Resets
           /\ j >= 0 /\ Char \notin UrlChars

\* find_urls sends the url on if it is relevant.
CloseUrl ==
    /\ EndsUrl /\ ~Overflows
    /\ StartOver /\ check_href
    /\ url' = Complete
    /\ links' = IF IsCoherent(Text(url')) /\ is_relevant_url(url', Job.priority)
                THEN Append(links, Text(url')) ELSE links
    /\ UNCHANGED overflown

\* What becomes of the process is not modelled.
Overflow ==
    /\ EndsUrl /\ Overflows
    /\ overflown' = TRUE
    /\ UNCHANGED << scannerVars, links >>

\* The body has been read, or the connection has ended before its end.
EndPage == /\ Reading /\ done' = TRUE
           /\ UNCHANGED << scannerVars, visit, n, rest, was_damaged, overflown, links >>

NextPage ==
    /\ done /\ n < Len(visit)
    /\ n' = n + 1
    /\ rest' = Html(visit[n + 1])
    /\ was_damaged' = (rest # << >> \/ \E p \in ToSet(Job.pieces) : ~p.sound)
    /\ done' = FALSE /\ links' = << >>
    /\ UNCHANGED << scannerVars, visit, overflown >>

Next == LeaveTag \/ StayInTag \/ StoreChar \/ CloseUrl \/ Overflow \/ EndPage \/ NextPage

Spec == Init /\ [][Next]_vars

-----------------------------------------------------------------------------
(* Properties *)

(* The type of the scanner's state.  Together with the bound of update_url *)
(* on the length of a tag it keeps every character that is written inside  *)
(* the array url, the closing NUL included (scrapping_unit.c:137-165).     *)
TypeOK ==
    /\ i \in 0..MAX_URL_SIZE /\ j \in -1..(MAX_URL_SIZE - 1) /\ j < i
    /\ href_passed \in BOOLEAN /\ href_i \in 0..Len(HREF_STR)
    /\ n \in 1..Len(visit)
    /\ was_damaged \in BOOLEAN /\ done \in BOOLEAN /\ overflown \in BOOLEAN

PageRead == done /\ rest = << >>

\* Where a browser would go, if the link stands in double quotes.  Single ones are url
\* characters: a link in them has a text that begins and ends with one, so it is
\* relative, wherever it leads, and so is what it is taken for.
Target(page, link) ==
    IF IsAbsolute(link.text) THEN link.text
    ELSE page.site \o Segments(SubSeq(page.dirs, 1, Len(page.dirs) - link.up))
             \o << "/" >> \o link.text

\* A link is wanted if it is taken for a file, or for a page with a relevant word that is
\* not too deep.
Wanted(link) == link.kind = "file" \/ (link.kind = "word" /\ Job.priority < MAX_DEPTH)

\* retrieve_absolute_url differs from a browser, moreover, for a page whose name has no dot, more
\* "../" than directories, a slash among the first three characters (the directory
\* before it is lost, and a path from the root is taken for one from here), and less
\* than three characters (it reads behind them); stristr for a url that ends with the
\* first letters of a relevant word (it reads behind that, too).
Resolves(page, link) ==
    /\ page.name = << >> \/ \E c \in ToSet(page.name) : IsDot(c)
    /\ \/ IsAbsolute(link.text)
       \/ /\ link.up <= Len(page.dirs)
          /\ Len(link.text) >= 3 /\ SelectInSeq(link.text, IsSlash) \notin 1..3
    /\ \A word \in RelevantWords : \A k \in 1..(Len(word) - 1) : ~IsSuffix(SubSeq(word, 1, k), link.text)

Pieces == Job.pieces
IsDamaged(k) == IF k = 0 THEN was_damaged ELSE ~Pieces[k].sound
HasLink(k) == Pieces[k].link # NoLink

\* The scanner has seen two whole tags since anything went wrong: the first may reach
\* MAX_URL_SIZE together with what it continues, and is left with HREF_STR matched.
IsSure(k) == \A l \in 0..(k - 1) : IsDamaged(l) =>
    Cardinality({ t \in (l + 1)..(k - 1) : Pieces[t].tag /\ Pieces[t].sound }) >= 2

\* The urls to be sent for those pieces.
Due(Test(_)) ==
    LET ks == SelectSeq([k \in DOMAIN Pieces |-> k],
                        LAMBDA k : HasLink(k) /\ Test(k) /\ Wanted(Pieces[k].link))
    IN  [m \in DOMAIN ks |-> Target(Job.page, Pieces[ks[m]].link)]

Always(k) == TRUE
IsReliable(k) == ~IsDamaged(k) /\ IsSure(k) /\ Resolves(Job.page, Pieces[k].link)

Fits(text) == Len(text) < MAX_URL_SIZE /\ ExtensionFits(text)

(* Of a page that is well formed and was read to its end, after one that   *)
(* was too, and whose links url_utils.c and stristr can resolve, exactly   *)
(* the wanted links are sent, in their order.  A link in double quotes is  *)
(* sent as the url a browser would open, one in single quotes as a         *)
(* relative one, quotes and all (scrapping_unit.c:26, 152); other tags,    *)
(* attributes and texts make no difference, nor does what earlier urls     *)
(* have left in the array.  Only a link whose url or whose extension is    *)
(* too long for its array takes the code past the array's end              *)
(* (scrapping_unit.c:103, 130-178, 229-244; url_utils.c:42, 134).          *)
WellFormedPagesYieldTheirLinks ==
    /\ \A k \in 0..Len(Pieces) : ~IsDamaged(k)
    /\ \A k \in DOMAIN Pieces : HasLink(k) => Resolves(Job.page, Pieces[k].link)
    => /\ PageRead => links = Due(Always)
       /\ overflown => \E k \in DOMAIN Pieces :
                           HasLink(k) /\ ~Fits(Target(Job.page, Pieces[k].link))

IsSubsequence(s, t) ==
    FoldLeft(LAMBDA left, x : IF left # << >> /\ Head(left) = x THEN Tail(left) ELSE left, s, t) = << >>

(* The scanner recovers: a page that is cut off anywhere, or a malformed   *)
(* tag, costs at most the next two tags and what stands before them, and   *)
(* makes up at most one url, although the scanner's state is never reset   *)
(* between two pages (scrapping_unit.c:112, 132-134).                      *)
ScannerRecovers ==
    PageRead =>
        /\ IsSubsequence(Due(IsReliable), links)
        /\ Len(links) <= Cardinality({ k \in DOMAIN Pieces : HasLink(k) })
                           + Cardinality({ k \in 0..Len(Pieces) : IsDamaged(k) })

Occurs(word, text) ==
    \E k \in 0..(Len(text) - Len(word)) : SubSeq(text, k + 1, k + Len(word)) = word

(* stristr finds what occurs in its string, and nothing else: "return the  *)
(* position of the first occurence's end" (str_utils.c:49).  So a page is  *)
(* followed only for a word in its url.                                    *)
FollowedForAWord ==
    \A l \in ToSet(links) : Extension(l) \in WebExtensions =>
        \E word \in RelevantWords : Occurs(word, l)

=============================================================================
