----------------------------- MODULE MCNewsSite -----------------------------
(* The news site (docs/news-site.md) for TLC: the hook that pulls its      *)
(* content, and the TLB with the certificates.  They share no state: a     *)
(* behaviour is that of one part, the other at rest.                       *)
EXTENDS NewsHook, CertRenew

CONSTANT Parts

VARIABLE part

newsVars == <<part, vars, siteVars>>

NewsInit == part \in Parts /\ Init /\ TlbInit /\ RenewInit

NewsNext ==
    /\ \/ part = "hook"  /\ Next      /\ UNCHANGED siteVars
       \/ part = "tlb"   /\ TlbNext   /\ UNCHANGED <<vars, renewVars>>
       \/ part = "certs" /\ RenewNext /\ UNCHANGED vars
       \/ part = "certs" /\ Operates  /\ UNCHANGED <<vars, renewVars>>
    /\ UNCHANGED part

(* The console's site with two routes, one of which every start puts back. *)
MCSeeds     == {[name |-> "web", path |-> <<"a">>, target |-> "t1"], [name |-> "home", path |-> <<>>, target |-> "t1"]}
MCKeptSeeds == {[name |-> "home", path |-> <<>>, target |-> "t1"]}
MCLegacy    == [n \in {"web"} |-> [from |-> {<<>>}, to |-> <<"a">>, old |-> {"t0"}, new |-> "t1"]]
MCTls       == <<"c", "z">>
MCNames     == {<<>>, <<"s">>, <<"c">>}
MCRoutes    == {<<>>, <<"web">>}
MCHosts     == {<<>>, <<"s">>, <<"l", "z">>}
MCBadHosts  == {<<"l", "z">>}
MCPaths     == {<<>>, <<"a", "">>, <<"", "a">>}
MCOldSites  == <<[name |-> "s", host |-> <<"s", "z">>]>>
MCOldRoutes == <<[site |-> 2, name |-> "root", path |-> <<>>, target |-> "t2"]>>
MCCerts     == {<<"s", "z">>}

NewsSpec ==
    /\ NewsInit /\ [][NewsNext]_newsVars
    /\ \A h \in Handlers : WF_vars(part = "hook" /\ StartLoop(h))
    /\ \A t \in Threads : WF_vars(part = "hook" /\ Loop(t))
=============================================================================
