----------------------------- MODULE MCLifeguard -----------------------------
(* A small web: two pages that link to each other, one to an image and one *)
(* to a file that often fails to download.  One message posts a page, the  *)
(* other has two attachments, of which one has already been deleted.  With *)
(* faults it posts the url of an attachment and one of a trusted host.     *)
EXTENDS Lifeguard

MCMsgs == {"m1", "m2"}
MCUrls == {"home", "page", "tool", "big", "logo", "gone", "tube"}
MCWebUrls == {"home", "page"}

MCHrefs == [u \in MCUrls |-> CASE u = "home" -> << "page" >>
                               [] u = "page" -> << "home", "logo", "big" >>
                               [] OTHER -> << >>]
\* The web of the runs with faults: one page that links to a trusted host and to one file.
SmallHrefs == [MCHrefs EXCEPT !["home"] = << "tube", "big" >>]

Post(u, c) == [url |-> u, file_certified |-> c]

MCPosts == [m \in MCMsgs |-> IF m = "m1" THEN << Post("home", FALSE) >>
                             ELSE << Post("gone", TRUE), Post("tool", TRUE) >>]
SmallPosts == [MCPosts EXCEPT !["m2"] = << Post("tool", FALSE), Post("tube", FALSE) >>]

\* All a client that knows the password may write.
MCWireLinks == [priority: 1..5, file_certified: BOOLEAN, password: {"net"},
                ids: {"net"}, msg: MCMsgs, url: MCUrls]
MCWireInfos == [what: Whats, password: {"net"}, port: {"net"},
                avg_time: Times, ip: Workers]
=============================================================================
