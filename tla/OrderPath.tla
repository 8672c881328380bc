----------------------------- MODULE OrderPath -----------------------------
(***************************************************************************)
(* A request on its way: gateway, order service, user instance, each on    *)
(* the RPC runtime, with Consul beside them.                               *)
(***************************************************************************)
EXTENDS Gateway

CONSTANT MaxAll    \* bound: requests and deaths together

PathInit == OrderInit /\ GatewayInit
PathNext ==
    /\ GatewayNext \/ (OrderNext /\ UNCHANGED gwVars)
    /\ Len(req') + downs' <= MaxAll

(* Instances announce every 2 s, Consul's clock runs, the watch loop runs  *)
(* every 2 s, and of the goroutines that can take a step one takes it.     *)
(* Deaths, starts (of an instance, of the order service) and deadlines     *)
(* need not come, and a service that starts may give up before it listens. *)
Progress ==
    \/ /\ \/ \E a \in UserAddrs : announce(a) \/ Expire(a)
          \/ Watching
          \/ Handlers
       /\ UNCHANGED gwVars
    \/ \E p \in DOMAIN req : Call(p) \/ Answer(p) \/ redial(p) \/ redialFails(p) \/ closeOld(p)

(* Consul's clock runs whatever the others do: without that, a watch loop  *)
(* that keeps failing to dial a dead instance could keep it from expiring. *)
Expiry == (\E a \in UserAddrs : Expire(a)) /\ UNCHANGED gwVars

PathFairness == WF_pathVars(Progress) /\ WF_pathVars(Expiry)

PathSpec == PathInit /\ [][PathNext]_pathVars /\ PathFairness

-----------------------------------------------------------------------------
(* Properties. *)

Done(p) == p \in DOMAIN req /\ req[p].at = "done"

(* Calls share connections, some give up before their answer comes, and    *)
(* connections are replaced under them: whoever gets an answer gets the    *)
(* one to its own call (the seq check of Client.Call).                     *)
AnswerIsOwn == \A p \in DOMAIN req : Done(p) /\ req[p].ok => req[p].value.req = p

(* An order is made a second time for one request only when the first call *)
(* ended without an answer: the connection was closed by another request   *)
(* that failed (gw.call closes the shared client) or the service died.     *)
MadeTwiceOnlyIfLost ==
    \A p \in DOMAIN req :
        Cardinality({m \in made : m[1] = p}) <= IF req[p].lost THEN 2 ELSE 1

(* applyAddrs closes only connections that pickUser no longer hands out.   *)
PeersOpen == \A a \in DOMAIN users : ~conn[users[a]].closed

(* docs/infra-roadmap.md: a GetUser hangs below the GetOrder that caused   *)
(* it, under the same trace, also when several are under way.              *)
TraceFollows ==
    \A s \in spans : s.method = "GetUser" =>
        /\ s.span.parent # NoSpan
        /\ \A o \in spans : o.span.span = s.span.parent => o.span.trace = s.span.trace /\ o.req = s.req

(* Once instances no longer die (MaxDown), an order service that listens   *)
(* has, in the end and from then on, the instances that are there in its   *)
(* list, each with a connection that lives.  An address whose instance     *)
(* came back before Consul saw it go is excepted: applyAddrs keeps the     *)
(* client it has for an address, its connection has ended, and calls that  *)
(* go there fail until the address leaves the list or the service stops.   *)
PeersFollow ==
    <>[](OrderAddr \in up =>
            /\ DOMAIN users = up \cap UserAddrs
            /\ \A a \in DOMAIN users : conn[users[a]].gone => a \in early)

(* Every request ends, with an answer or an error, whoever dies and        *)
(* however the clients are swapped: no mutex stays locked.                 *)
RequestsEnd == \A p \in 1..MaxAsk : [](p \in DOMAIN req => <>Done(p))
=============================================================================
