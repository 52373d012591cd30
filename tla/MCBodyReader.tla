----------------------------- MODULE MCBodyReader -----------------------------
(* Bodies of up to two chunks.  Sizes are written in binary, so that they  *)
(* have up to three digits; contents hold digits and line ends themselves. *)
EXTENDS BodyReader

MCDigits == << "0", "1" >>

MCNumeral == [n \in 0..4 |-> CASE n = 0 -> << "0" >> [] n = 1 -> << "1" >>
                               [] n = 2 -> << "1", "0" >> [] n = 3 -> << "1", "1" >>
                               [] n = 4 -> << "1", "0", "0" >>]

MCContents == { << "1" >>, << CR, LF >>, << "x", "0", CR >>, << "y", "1", CR, LF >> }

Framed == {"length", "chunked"}
Truncated == [f \in Framed |-> 0..4]

\* A body that ends with the connection.
UntilClose == {"close"}
Complete == [f \in UntilClose |-> {0}]
=============================================================================
