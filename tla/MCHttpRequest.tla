---------------------------- MODULE MCHttpRequest ----------------------------
(* Answers of up to two header lines, of three for some shapes of the tree, *)
(* read through a buffer of seven characters.                               *)
EXTENDS HttpRequest

MCLower == [c \in {NUL, LF, CR, SP, "QUOTE", "-", "2", "4", "5", COLON, UNINIT, HTTP, "c", "l", "L", "s", "t", "u", "v", "x"} |->
    CASE c = NUL -> 0  [] c = LF -> 10  [] c = CR -> 13 [] c = SP -> 32 [] c = "QUOTE" -> 34 [] c = "-" -> 45
      [] c = "2" -> 50 [] c = "4" -> 52 [] c = "5" -> 53 [] c = COLON -> 58 [] c = UNINIT -> 63
      [] c = HTTP -> 104 [] c \in {"l", "L"} -> 108
      [] c = "c" -> 99 [] c = "s" -> 115 [] c = "t" -> 116 [] c = "u" -> 117 [] c = "v" -> 118
      [] c = "x" -> 120]

MCBlanks == {NUL, LF, CR, SP, "QUOTE"}
MCBelow0 == {NUL, LF, CR, SP, "QUOTE", "-"}

MCContentLength == << "l" >>
MCTransferEncoding == << "t" >>
MCLocation == << "c" >>
MCChunked == << "x" >>
MCNames == {<< "l" >>, << "t" >>, << "c" >>, << "L", "s" >>}

Line(n, v) == [name |-> n, value |-> v]

Length  == Line(<< "l" >>, << "5" >>)
Length2 == Line(<< "L" >>, << "-", "2" >>)
Chunked == Line(<< "t" >>, << "x" >>)
Moved   == Line(<< "c" >>, << "v" >>)
Lost    == Line(<< "c" >>, << "x", COLON, "x" >>)
Blank   == Line(<< "l", "s" >>, << >>)
Spaced  == Line(<< "l", "s" >>, << "s", SP, "s" >>)
Exact   == Line(<< "l", "s" >>, << "QUOTE", "s", "s", "QUOTE" >>)
Long    == Line(<< "L", "s" >>, << "c", "c", "s", "c", "s", "s" >>)
Forms == {Length, Length2, Chunked, Moved, Blank, Exact}

UpTo2 == {<< >>} \union { << a >> : a \in Forms \union {Lost, Spaced, Long} }
                 \union { << a, b >> : a \in Forms, b \in Forms }
Triples == { << Length, Chunked, Spaced >>, << Long, Chunked, Length >>, << Chunked, Length, Spaced >>,
             << Moved, Length, Lost >>, << Chunked, Blank, Length2 >> }

Response(s, ls) == [status |-> s, lines |-> ls, body |-> << "x", LF >>]

MCUrls == {"page", "next", "last", "file"}
MCCalls == {<< "read", "page" >>, << "is_file", "file" >>}
MCAnswers == [u \in MCUrls |->
    CASE u = "page" -> { Response("2", ls) : ls \in UpTo2 \union Triples }
      [] u = "next" -> { Response("4", << >>), Response("2", << Moved >>) }
      [] u = "last" -> { Response("2", << Length >>), Response("2", << Moved >>) }
      [] u = "file" -> { Response("2", << >>), Response("4", << Moved >>) }]

\* The location is relative: from "next" it leads to "last", and from there back.
MCAbsolute == [u \in MCUrls |-> [v \in {<< "v" >>} |-> IF u = "next" THEN "last" ELSE "next"]]
=============================================================================
