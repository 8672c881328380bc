------------------------------ MODULE Gateway ------------------------------
(***************************************************************************)
(* The gateway (example/gateway/main.go) in front of the order service:    *)
(* HTTP requests share one client per backend, and a request whose call    *)
(* fails dials again, puts the new client in place of the shared one,      *)
(* closes that one and calls once more.                                    *)
(*                                                                         *)
(* Beside it, a program that uses the order client directly, as            *)
(* example/order_client does: it asks for the first order.  Its calls have *)
(* a deadline, which no caller in the repository sets and the runtime      *)
(* provides for.                                                           *)
(***************************************************************************)
EXTENDS Order

CONSTANTS
    AskedIds,   \* order ids that are asked for
    MaxAsk      \* bound: HTTP requests and calls of the program

(* So many calls that the number of one comes again are not looked at: an  *)
(* answer 2^32 calls late would be taken for the right one.                *)
ASSUME GatewayAssumption == MaxAsk \in Nat /\ MaxAsk < SeqLimit

VARIABLES
    clis,    \* gw.clis of the backend: a connection
    dcli,    \* the program's client
    req      \* the requests and calls so far: what each is at, and how it ended

gwVars == <<clis, dcli, req>>
pathVars == <<rpcVars, orderVars, gwVars>>

(* A body that does not encode fails before anything is sent. *)
Bodies == {[method |-> "bad"]}
          \cup [method : {"GetOrder"}, id : AskedIds]
          \cup [method : {"CreateOrder"}, user : UserIds]

ArgOf(p, b) == IF b.method = "GetOrder" THEN [req |-> p, id |-> b.id] ELSE [req |-> p, user |-> b.user]

(* main has called ensure, which dials until the backend is there; from    *)
(* then on ensure finds a client.  The program has its client too.         *)
GatewayInit ==
    LET n == Cardinality(UserAddrs)
    IN  /\ RpcInit([i \in 1..(n + 2) |-> IF i <= n THEN i ELSE OrderAddr])
        /\ clis = n + 1 /\ dcli = n + 2
        /\ req = <<>>

Goes(p, at) == req[p].at = at
To(p, r)    == req' = [req EXCEPT ![p] = r]
Ended(p, ok, value, lost) == [at |-> "done", b |-> req[p].b, ok |-> ok, value |-> value, lost |-> lost]

Asks(program, b, cli) ==
    /\ Len(req) < MaxAsk
    /\ req' = Append(req, [at |-> IF b.method = "bad" THEN "failed" ELSE "call", b |-> b, direct |-> program,
                           conn |-> cli, old |-> Nobody, try |-> 1, lost |-> FALSE])
    /\ UNCHANGED <<rpcVars, orderVars, clis, dcli>>

(* handle, and call: the client is read under the lock. *)
handle(b) == Asks(FALSE, b, clis)

(* The program calls. *)
direct == Asks(TRUE, [method |-> "GetOrder", id |-> FirstOrder], dcli)

(* generic.Client.Call. *)
Call(p) ==
    /\ Goes(p, "call")
    /\ CanCall(req[p].conn)
    /\ conn' = CallWrite(p, req[p].conn, req[p].b.method, ArgOf(p, req[p].b), NoSpan)
    /\ To(p, [req[p] EXCEPT !.at = "wait"])
    /\ UNCHANGED <<up, serving, downs, orderVars, clis, dcli>>

OutcomeAlwaysAgain(p, r) ==
    IF req[p].direct \/ req[p].try = 2
    THEN Ended(p, r.ok, r.value, req[p].lost \/ r.lost)
    ELSE [req[p] EXCEPT !.at = "failed", !.lost = r.lost]

(* The program is told of the error, and so is the client of the gateway   *)
(* when the second try fails.                                              *)
Outcome(p, r) ==
    IF r.ok \/ req[p].direct \/ req[p].try = 2
    THEN Ended(p, r.ok, r.value, req[p].lost \/ r.lost)
    ELSE [req[p] EXCEPT !.at = "failed", !.lost = r.lost]

Answer(p) ==
    /\ Goes(p, "wait")
    /\ CanRead(req[p].conn, FALSE)
    /\ To(p, Outcome(p, CallRead(req[p].conn)))
    /\ conn' = AfterRead(req[p].conn)
    /\ UNCHANGED <<up, serving, downs, orderVars, clis, dcli>>

(* The second half of call: dial, swap ... *)
redial(p) ==
    /\ Goes(p, "failed")
    /\ Dial(OrderAddr)
    /\ clis' = Len(conn')
    /\ To(p, [at |-> "close", b |-> req[p].b, direct |-> FALSE, conn |-> Len(conn'), old |-> clis, try |-> 2,
              lost |-> req[p].lost])
    /\ UNCHANGED <<up, downs, orderVars, dcli>>

redialFails(p) ==
    /\ Goes(p, "failed")
    /\ OrderAddr \notin up
    /\ To(p, Ended(p, FALSE, NoValue, req[p].lost))
    /\ UNCHANGED <<rpcVars, orderVars, clis, dcli>>

(* ... close the client that was in place, which others may be using, and  *)
(* call again.                                                             *)
closeOld(p) ==
    /\ Goes(p, "close")
    /\ conn' = Closed(conn, {req[p].old})
    /\ To(p, IF req[p].b.method = "bad" THEN Ended(p, FALSE, NoValue, FALSE) ELSE [req[p] EXCEPT !.at = "call"])
    /\ UNCHANGED <<up, serving, downs, orderVars, clis, dcli>>

(* The program's deadline. *)
Timeout(p) ==
    /\ Goes(p, "wait")
    /\ req[p].direct
    /\ To(p, Ended(p, FALSE, NoValue, TRUE))
    /\ conn' = AfterTimeout(req[p].conn)
    /\ UNCHANGED <<up, serving, downs, orderVars, clis, dcli>>

GatewayNext ==
    \/ \E b \in Bodies : handle(b)
    \/ direct
    \/ \E p \in DOMAIN req :
          \/ Call(p) \/ Answer(p) \/ Timeout(p)
          \/ redial(p) \/ redialFails(p) \/ closeOld(p)
=============================================================================
