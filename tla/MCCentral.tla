------------------------------ MODULE MCCentral ------------------------------
(* A small instance of Central.  Two messages; a website, which is a file  *)
(* for one of them, and an image; one virus checker and two scrapping      *)
(* units of which one is slow.                                             *)
EXTENDS CentralDispatches

Link(p, c, m, u) == [priority |-> p, file_certified |-> c, password |-> "net",
                     ids |-> "net", msg |-> m, url |-> u]

Ready(what, w, t) == [what |-> what, password |-> "net", port |-> "net",
                      avg_time |-> t, ip |-> w]

MCMsgs == {"m1", "m2"}
MCUrls == {"site", "image"}

\* A site straight from a message, a file found by a scrapping unit, an image, and a
\* link from a client that does not know the password.
MCWireLinks == { Link(1, FALSE, "m1", "site"), Link(2, TRUE, "m1", "site"), Link(1, TRUE, "m2", "image"),
                 [Link(1, TRUE, "m2", "site") EXCEPT !.password = "other"] }

MCWireInfos == { Ready("VCHECKER_READY", "checker", 0),
                 Ready("SCR_UNIT_READY", "fast", 1), Ready("SCR_UNIT_READY", "slow", 3),
                 Ready("UNKNOWN_WHAT", "checker", 0) }
=============================================================================
