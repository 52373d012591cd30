---------------------------- MODULE MCLinkScanner ----------------------------
(* Pages of one to three pieces, at most two pages in a row.               *)
EXTENDS LinkScanner

MCATag == << "<", "a", " " >>
MCHref == << "h", "r", "e", "f", "=" >>
Letters == {"a", "c", "d", "e", "f", "g", "h", "i", "l", "m", "n", "o", "p", "r", "s", "t", "x", "y", "z"}
MCUrlChars == Letters \union {":", "/", ".", "=", "?", "'"}

MCWords == {<< "m", "a", "c" >>}
MCTrusted == {<< "t", ".", "o" >>}
MCImages == {<< ".", "g", "i", "f" >>}
MCWeb == {<< >>, << ".", "p", "h", "p" >>, << ".", "h", "t", "m" >>}

(* Links *)
File  == << "f", "i", ".", "z" >>
Link(up, text, kind) == [up |-> up, text |-> text, kind |-> kind]

InDir == << "d", "i", "r", "/" >>
Same      == Link(0, File, "file")
Below == Link(0, InDir \o File, "file")
Above == Link(1, InDir \o File, "file")
TooHigh  == Link(2, File, "file")
NoText   == Link(1, << >>, "file")
Short    == Link(0, << "x", "/" >> \o File, "file")
Picture  == Link(0, << "p", "p", "/", "i", ".", "g", "i", "f" >>, "other")
Away     == Link(0, HTTP \o << "t", ".", "o", "/" >> \o File, "other")
Page     == Link(0, HTTPS \o << "x", ".", "y", "/", "p", ".", "p", "h", "p" >>, "other")
Htm      == Link(0, HTTP \o << "x", ".", "y", "/", "p", ".", "h", "t", "m" >>, "other")
MacPage  == Link(0, HTTP \o << "x", ".", "y", "/", "d", "i", "r", "/", "p", "i", "m", "a", "c", "/", "p", ".", "p", "h", "p" >>, "word")
Dotted   == Link(0, << "v", "x", "x", ".", "z", "/", "d" >>, "other")

Single(text, kind) == Link(0, << "'" >> \o text \o << "'" >>, kind)
SingleFile == Single(File, "file")
SinglePicture == Single(Picture.text, "file")
SingleHtm  == Single(Htm.text, "file")
SingleAway == Single(Away.text, "file")
SingleUp   == Single(<< ".", ".", "/" >> \o File, "file")
SingleDir  == Single(<< "d", "i", "r" >>, "other")

\* One character more than the array extension holds, and just as many; the same of url.
Ends(m) == << "." >> \o [k \in 1..m |-> "z"]
LongEnd  == Link(0, << "f", "i" >> \o Ends(MAX_EXTENSION_SIZE - 1), "file")
FullEnd  == Link(0, << "f", "i" >> \o Ends(MAX_EXTENSION_SIZE - 2), "file")
LongDir  == Link(0, << "f", "i" >> \o Ends(MAX_EXTENSION_SIZE - 1) \o << "/" >> \o File, "file")
LongName == Link(0, [k \in 1..(MAX_URL_SIZE - 20) |-> "x"] \o File, "file")

Dots(up) == FlattenSeq([k \in 1..up |-> << ".", ".", "/" >>])
Quoted(text) == << "QUOTE" >> \o text \o << "QUOTE" >>
\* A link in single quotes has them in its text.
Attribute(link) == IF link.text # << >> /\ link.text[1] = "'" THEN link.text
                   ELSE Quoted(Dots(link.up) \o link.text)
HrefOf(link) == << " " >> \o MCHref \o Attribute(link)

(* Pieces *)
Piece(html, tag, sound, link) == [html |-> html, tag |-> tag, sound |-> sound, link |-> link]

A(link) == Piece(<< "<", "a" >> \o HrefOf(link) \o << ">" >>, TRUE, TRUE, link)
Titled(link) == Piece(<< "x", "<", "a", " ", "t", "=" >> \o Quoted(<< "h" >>) \o HrefOf(link) \o << ">" >>, TRUE, TRUE, link)
Named == Piece(<< "<", "a", " ", "n", ">" >>, TRUE, TRUE, NoLink)
Para  == Piece(<< "<", "p" >> \o HrefOf(Same) \o << ">" >>, TRUE, TRUE, NoLink)
Words == Piece(<< "a", " ", "h" >>, FALSE, TRUE, NoLink)
Bare  == Piece(<< "<", "a", " " >> \o MCHref \o << ">" >>, TRUE, FALSE, NoLink)
Open  == Piece(<< "<", "a", " " >> \o MCHref \o << "QUOTE" >> \o File, FALSE, FALSE, Same)
Long  == Piece(<< "<", "a", " " >> \o [k \in 1..40 |-> "x"] \o HrefOf(Same) \o << ">" >>, TRUE, FALSE, Same)

(* Pages *)
At_(dirs, name, query) == [site |-> HTTP \o << "s", ".", "t" >>, dirs |-> dirs, name |-> name, query |-> query]
Deep == At_(<< << "d" >>, << "e" >> >>, << "f", ".", "h", "t", "m" >>, << >>)
MCPages == { Deep,
             At_(<< >>, << >>, << >>),
             At_(<< << "d" >>, << "v", ".", "e" >> >>, << >>, << >>),
             At_(<< << "d" >> >>, << "p", ".", "p", "h", "p" >>, << "?", "x", "=", ".", "/" >>),
             At_(<< << "d" >>, << "e" >> >>, << "p" >>, << >>) }

Do(page, priority, pieces) == [page |-> page, priority |-> priority, pieces |-> pieces]

Links == {Same, Below, Above, TooHigh, NoText, Short, Picture, Away, Page, Htm, MacPage, Dotted,
          SingleFile, SinglePicture, SingleHtm, SingleAway, SingleUp, SingleDir,
          LongEnd, FullEnd, LongDir, LongName}
OneLink == { << Do(p, q, << A(l) >>) >> : p \in MCPages, q \in {1, 2}, l \in Links }

Some == {A(Same), A(SingleHtm), Titled(MacPage), A(LongEnd), Named, Para, Words, Bare, Open, Long}
OnePage == { << Do(Deep, 1, << a, b, c >>) >> : a \in Some, b \in Some, c \in Some }
TwoPages == { << Do(Deep, 1, << a >>), Do(At_(<< >>, << >>, << >>), 1, << b, c, d >>) >> :
                a \in Some, b \in Some, c \in Some, d \in {A(Same), Titled(MacPage)} }

MCVisits == OneLink \union OnePage \union TwoPages

(* The array keeps the end of a longer url. *)
StaleVisits == { << Do(Deep, 1, << A(MacPage), A(Htm) >>) >> }
=============================================================================
