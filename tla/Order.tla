------------------------------- MODULE Order -------------------------------
(***************************************************************************)
(* The order service (example/order/main.go), the user instances it calls  *)
(* (example/server/main.go) and how it finds them (discovery/client.go in  *)
(* Consul).  The watch loop is one goroutine; handlers run beside it, one  *)
(* per connection.                                                         *)
(***************************************************************************)
EXTENDS Rpc, FiniteSets

CONSTANTS
    OrderAddr,     \* where the order service listens
    UserAddrs,     \* where user instances listen: 1, 2, ... in the order of the addresses
    UserIds,       \* user ids that orders are made for
    KnownUsers,    \* those that GetUser knows
    FirstOrder,    \* the order there is at the start, of a known user
    FirstId,       \* nextID at the start
    RrLimit        \* 2^64: rr is a uint64

ASSUME OrderAssumption ==
    /\ IsFiniteSet(UserAddrs) /\ UserAddrs = 1..Cardinality(UserAddrs)
    /\ OrderAddr \notin UserAddrs
    /\ FirstId \in Nat /\ RrLimit \in Nat \ {0}

VARIABLES
    registry,   \* Consul: the addresses whose check passes
    orders,     \* Handler.orders: id -> user
    nextID,
    users,      \* Handler.users: address -> connection, in the order of the addresses
    rr,         \* Handler.rr
    watch,      \* waitAndWatch and applyAddrs; "down" when the order service does not run
    early,      \* history: addresses of the list whose instance died and came back while the list had them
    made,       \* history: orders ever made, with the request they are for
    spans       \* history: what Trace reported

orderVars == <<registry, orders, nextID, users, rr, watch, early, made, spans>>
peerVars  == <<registry, users, watch, early>>
storeVars == <<orders, nextID, made>>

Sleeping   == [at |-> "sleep"]
NotRunning == [at |-> "down"]
AddrOf(k) == conn[k].addr
Nth(S, n) == CHOOSE a \in S : Cardinality({b \in S : b < a}) = n

(* Every instance has announced itself, and the order service has found    *)
(* them and listens.                                                       *)
OrderInit ==
    /\ up = UserAddrs \cup {OrderAddr}
    /\ registry = UserAddrs
    /\ orders = [i \in {FirstOrder} |-> CHOOSE u \in KnownUsers : TRUE]
    /\ nextID = FirstId
    /\ users = [a \in UserAddrs |-> a]
    /\ rr = 0 /\ watch = Sleeping /\ early = {}
    /\ made = {} /\ spans = {}

-----------------------------------------------------------------------------
(* The user instances and Consul. *)

(* discovery.Register puts the entry, whose check is critical, and passes  *)
(* the check; Lookup, which asks for passing entries, sees no difference   *)
(* before that.                                                            *)
Register(a) == registry' = registry \cup {a}
LookupPassing == registry

(* The loop of announce; putting what is there changes nothing. *)
announce(a) ==
    /\ a \in up
    /\ a \notin registry
    /\ Register(a)
    /\ UNCHANGED <<rpcVars, storeVars, users, rr, watch, early, spans>>

(* Consul: an instance that has not announced itself for 8 s is critical,  *)
(* and after a minute it is forgotten.                                     *)
Expire(a) ==
    /\ a \in registry \ up
    /\ registry' = registry \ {a}
    /\ UNCHANGED <<rpcVars, storeVars, users, rr, watch, early, spans>>

(* The list may still have the address, with a connection that ended when  *)
(* the instance died, or applyAddrs be at dialling it.                     *)
StartUser(a) ==
    /\ a \in UserAddrs \ up
    /\ up' = up \cup {a}
    /\ early' = IF a \in DOMAIN users \/ (watch.at = "apply" /\ a \in watch.addrs)
                THEN early \cup {a} ELSE early
    /\ UNCHANGED <<conn, serving, downs, storeVars, registry, users, rr, watch, spans>>

UserDies(a) ==
    /\ a \in UserAddrs
    /\ Die(a, {})
    /\ UNCHANGED orderVars

(* GetUser, within Server.serve. *)
GetUser(k) ==
    /\ AddrOf(k) \in UserAddrs
    /\ CanServe(k, AddrOf(k))
    /\ LET m == Head(conn[k].out)
           known == m.arg.user \in KnownUsers
       IN  /\ conn' = Answered(Taken(k), k, IF known THEN "reply" ELSE "exception", m.seq,
                               [req |-> m.arg.req, user |-> m.arg.user])
           /\ spans' = spans \cup Trace(k, m)
    /\ UNCHANGED <<up, serving, downs, peerVars, storeVars, rr>>

-----------------------------------------------------------------------------
(* waitAndWatch: Lookup, then applyAddrs; the service listens only when    *)
(* the first Lookup has found an instance and its addresses are applied.   *)
(* A Lookup that finds the list as it is changes nothing and is left out.  *)
waitAndWatch ==
    /\ watch = Sleeping
    /\ LookupPassing # DOMAIN users
    /\ watch' = [at |-> "apply", addrs |-> LookupPassing]
    /\ UNCHANGED <<rpcVars, storeVars, registry, users, rr, early, spans>>

(* Fifty lookups that fail or find nobody, and main ends (log.Fatal).      *)
GivesUp ==
    /\ watch = Sleeping
    /\ OrderAddr \notin up
    /\ watch' = NotRunning
    /\ UNCHANGED <<rpcVars, storeVars, registry, users, rr, early, spans>>

(* Nothing restarts the service (docker-compose.yml); somebody may.        *)
StartOrder ==
    /\ watch = NotRunning
    /\ watch' = Sleeping
    /\ UNCHANGED <<rpcVars, storeVars, registry, users, rr, early, spans>>

applyAddrsAdds ==
    /\ watch.at = "apply"
    /\ \E dialled \in SUBSET (watch.addrs \ DOMAIN users), stale \in SUBSET early :
          LET n == Cardinality(dialled)
              at(a) == Len(conn) + 1 + Cardinality({b \in dialled : b < a})
          IN  /\ (watch.addrs \ DOMAIN users) \cap up \subseteq dialled
              /\ Len(conn) + n <= MaxConn
              /\ conn' = conn \o [i \in 1..n |-> [NewConn(Nth(dialled, i - 1)) EXCEPT
                                                 !.gone = Nth(dialled, i - 1) \notin up \ stale]]
              /\ serving' = serving \o [i \in 1..n |-> NoFrame]
              /\ stale \subseteq dialled
              /\ users' = [a \in DOMAIN users \cup dialled |-> IF a \in dialled THEN at(a) ELSE users[a]]
              /\ early' = (early \cap watch.addrs \cap DOMAIN users) \cup stale
    /\ watch' = [at |-> "drop", old |-> users, addrs |-> watch.addrs]
    /\ UNCHANGED <<up, downs, storeVars, registry, rr, spans>>

(* applyAddrs dials the new addresses (one that died since may have        *)
(* accepted before, and may be back) and puts the new list in place.  An   *)
(* address that is in the list keeps its client, whatever became of it.    *)
applyAddrs ==
    /\ watch.at = "apply"
    /\ \E dialled \in SUBSET (watch.addrs \ DOMAIN users), stale \in SUBSET early :
          LET n == Cardinality(dialled)
              at(a) == Len(conn) + 1 + Cardinality({b \in dialled : b < a})
          IN  /\ (watch.addrs \ DOMAIN users) \cap up \subseteq dialled
              /\ Len(conn) + n <= MaxConn
              /\ conn' = conn \o [i \in 1..n |-> [NewConn(Nth(dialled, i - 1)) EXCEPT
                                                 !.gone = Nth(dialled, i - 1) \notin up \ stale]]
              /\ serving' = serving \o [i \in 1..n |-> NoFrame]
              /\ stale \subseteq dialled
              /\ users' = [a \in (watch.addrs \cap DOMAIN users) \cup dialled |->
                              IF a \in dialled THEN at(a) ELSE users[a]]
              /\ early' = (early \cap watch.addrs \cap DOMAIN users) \cup stale
    /\ watch' = [at |-> "drop", old |-> users, addrs |-> watch.addrs]
    /\ UNCHANGED <<up, downs, storeVars, registry, rr, spans>>

DropPeersAll ==
    /\ watch.at = "drop"
    /\ conn' = Closed(conn, {watch.old[a] : a \in DOMAIN watch.old})
    /\ watch' = Sleeping
    /\ up' = up \cup {OrderAddr}
    /\ UNCHANGED <<serving, downs, storeVars, registry, users, rr, early, spans>>

(* Then the connections that dropped out are closed, calls in flight or    *)
(* not.                                                                    *)
DropPeers ==
    /\ watch.at = "drop"
    /\ conn' = Closed(conn, {watch.old[a] : a \in DOMAIN watch.old \ watch.addrs})
    /\ watch' = Sleeping
    /\ up' = up \cup {OrderAddr}
    /\ UNCHANGED <<serving, downs, storeVars, registry, users, rr, early, spans>>

OrderDies ==
    /\ Die(OrderAddr, {k \in DOMAIN conn : AddrOf(k) \in UserAddrs})
    /\ orders' = [i \in {FirstOrder} |-> CHOOSE u \in KnownUsers : TRUE]
    /\ nextID' = FirstId
    /\ users' = <<>> /\ rr' = 0 /\ watch' = NotRunning /\ early' = {}
    /\ UNCHANGED <<registry, made, spans>>

-----------------------------------------------------------------------------
(* The handlers, within Server.serve of connection k. *)
CreateOrder(k) ==
    /\ CanServe(k, OrderAddr)
    /\ LET m == Head(conn[k].out)
       IN  /\ m.method = "CreateOrder"
           /\ orders' = [i \in DOMAIN orders \cup {nextID} |-> IF i = nextID THEN m.arg.user ELSE orders[i]]
           /\ nextID' = nextID + 1
           /\ made' = made \cup {<<m.arg.req, k, m.seq>>}
           /\ conn' = Answered(Taken(k), k, "reply", m.seq, [req |-> m.arg.req, id |-> nextID])
           /\ spans' = spans \cup Trace(k, m)
    /\ UNCHANGED <<up, serving, downs, peerVars, rr>>

(* GetOrder: an order that is not there, or no instance, is an exception;  *)
(* otherwise the call goes to the next instance (pickUser).                *)
pickUser == users[Nth(DOMAIN users, rr % Cardinality(DOMAIN users))]

GetOrder(k) ==
    /\ CanServe(k, OrderAddr)
    /\ LET m == Head(conn[k].out)
       IN  /\ m.method = "GetOrder"
           /\ IF m.arg.id \notin DOMAIN orders \/ users = <<>>
              THEN /\ conn' = Answered(Taken(k), k, "exception", m.seq, [req |-> m.arg.req])
                   /\ spans' = spans \cup Trace(k, m)
                   /\ UNCHANGED <<serving, rr>>
              ELSE /\ conn' = Taken(k)
                   /\ serving' = [serving EXCEPT ![k] = [typ |-> "user", m |-> m, peer |-> pickUser,
                                                         user |-> orders[m.arg.id], called |-> FALSE]]
                   /\ rr' = (rr + 1) % RrLimit
                   /\ UNCHANGED spans
    /\ UNCHANGED <<up, downs, peerVars, storeVars>>

CallUser(k) ==
    /\ serving[k].typ = "user" /\ ~serving[k].called
    /\ LET s == serving[k]
       IN  /\ CanCall(s.peer)
           /\ conn' = CallWrite(k, s.peer, "GetUser", [req |-> s.m.arg.req, user |-> s.user], outgoingHdr(startSpan(k, s.m)))
    /\ serving' = [serving EXCEPT ![k].called = TRUE]
    /\ UNCHANGED <<up, downs, orderVars>>

UserAnswers(k) ==
    /\ serving[k].typ = "user" /\ serving[k].called
    /\ LET s == serving[k]
           r == CallRead(s.peer)
       IN  /\ CanRead(s.peer, FALSE)
           /\ conn' = Answered(AfterRead(s.peer), k, IF r.ok THEN "reply" ELSE "exception", s.m.seq,
                               IF r.ok THEN r.value ELSE [req |-> s.m.arg.req])
           /\ spans' = spans \cup Trace(k, s.m)
    /\ serving' = [serving EXCEPT ![k] = NoFrame]
    /\ UNCHANGED <<up, downs, peerVars, storeVars, rr>>

Instances == \E a \in UserAddrs : announce(a) \/ Expire(a) \/ StartUser(a) \/ UserDies(a)
Watching  == waitAndWatch \/ applyAddrs \/ DropPeers
Handlers  == \E k \in DOMAIN conn : GetUser(k) \/ CreateOrder(k) \/ GetOrder(k) \/ CallUser(k) \/ UserAnswers(k)

OrderNext == Instances \/ Watching \/ Handlers \/ OrderDies \/ GivesUp \/ StartOrder
=============================================================================
