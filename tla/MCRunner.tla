------------------------------- MODULE MCRunner -------------------------------
(* Central as runner.sh starts the bot: with one virus checker and no      *)
(* scrapping unit.  A page and a file are posted.                          *)
EXTENDS Central

MCMsgs == {"m1"}
MCUrls == {"site", "tool"}

Link(c, u) == [priority |-> 1, file_certified |-> c, password |-> "net",
               ids |-> "net", msg |-> "m1", url |-> u]
MCWireLinks == { Link(FALSE, "site"), Link(TRUE, "tool") }
MCWireInfos == { [what |-> "VCHECKER_READY", password |-> "net", port |-> "net",
                  avg_time |-> 0, ip |-> "checker"] }

\* A link for a server of kind k waits although one is ready.
Waits(k) == /\ \E i \in DOMAIN links_queue : links_queue[i].destination = k
            /\ servers[k] # << >>

(* Central "receives links on port UNKNOW_LINKS_PORT, sends these links to *)
(* scrapping-units or virus-checkers" (README.md:33-34): a link for a      *)
(* server that is ready does not wait for ever.                            *)
LinksReachReadyServers == \A k \in Destinations : Waits(k) ~> ~Waits(k)
=============================================================================
