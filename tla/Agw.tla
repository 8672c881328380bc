-------------------------------- MODULE Agw --------------------------------
(***************************************************************************)
(* Contracts and the gateway: SaveIdl and PublishAgw of the platform       *)
(* (platform/server/main.go, ops.go), the gateway that reads order.thrift  *)
(* when it starts (example/gateway/main.go) and what a request becomes on  *)
(* its way through the generic codec to the order service, whose generated *)
(* code keeps the contract it was built with.                              *)
(***************************************************************************)
EXTENDS Codec, FiniteSets

CONSTANTS
    Editors,    \* who calls the platform
    Contracts,  \* the texts there are, by a name for each: sequences of lines
    First,      \* the text at the start
    Empty,      \* the name of the text without lines
    Requests,   \* HTTP requests: method, uri, JSON body, and what handle wraps it in
    MatchedBy,  \* by a pattern, the <<method, path>> that net/http's mux gives it; none if it is not valid
    Room,       \* bytes a frame (runtime/frame.go) has for a body
    MaxOrder,   \* bound: orders after which no request creates one
    MaxEdit,    \* bound: calls
    MaxBreak    \* bound: restarts that fail, and starts that find no backend

VARIABLES
    idl,          \* the file order.thrift
    editor,       \* what each caller is at
    gateway,      \* the gateway's process
    agw_publish,  \* the last row
    orders,       \* the order service's map
    answered,     \* the last request the gateway answered
    quiet,        \* history: no save has begun since the published text was read
    edits, breaks

Specs == [text \in DOMAIN Contracts |-> Parse(Contracts[text])]

(* A method with a URI is a route; paths of r.http and r.uri are those the *)
(* mux knows.  A URI that begins with a host is not among the contracts.   *)
Exposed(spec) == {m \in Range(spec.methods) : m.uri # ""}
Pattern(m)    == <<IF m.http = "" THEN "POST" ELSE m.http, m.uri>>

(* The gateway that runs at the start has read its contract; frames end at *)
(* 2^20 bytes, and order ids stay within 31 bits.                          *)
ASSUME AgwAssumption ==
    /\ {First, Empty} \subseteq DOMAIN Contracts /\ Contracts[Empty] = <<>>
    /\ \A text \in DOMAIN Contracts : Contracts[text] \in Seq(LineForms)
    /\ Specs[First].ok
    /\ \A r \in Requests : \A body \in {r.body, r.wrapped} : \A n \in DOMAIN body : body[n] \in JsonValues
    /\ \A text \in DOMAIN Contracts : {Pattern(m) : m \in Exposed(Specs[text])} \subseteq DOMAIN MatchedBy
    /\ Room \in Nat /\ Room <= 2 ^ 20
    /\ MaxOrder \in Nat /\ MaxOrder < 2 ^ 30

agwVars == <<idl, editor, gateway, agw_publish, orders, answered, quiet, edits, breaks>>

Free == [at |-> "free"]
At(e, at) == editor[e].at = at
Turn(e, rec) == editor' = [editor EXCEPT ![e] = rec]
Begin(e) == editor[e] = Free /\ edits < MaxEdit /\ edits' = edits + 1

-----------------------------------------------------------------------------
(* SaveIdl: a text that does not parse is refused; os.WriteFile empties    *)
(* the file and fills it.                                                  *)
Writes(e, text, rec) ==
    /\ idl' = text
    /\ quiet' = FALSE
    /\ editor' = [o \in Editors |-> IF o = e THEN rec
                                    ELSE IF editor[o] = Free THEN Free ELSE [editor[o] EXCEPT !.quiet = FALSE]]

SaveIdl(e, text) ==
    /\ Begin(e)
    /\ Specs[text].ok
    /\ Writes(e, Empty, [at |-> "fill", text |-> text, quiet |-> FALSE])
    /\ UNCHANGED <<gateway, agw_publish, orders, answered, breaks>>

SaveFill(e) ==
    /\ At(e, "fill")
    /\ Writes(e, editor[e].text, Free)
    /\ UNCHANGED <<gateway, agw_publish, orders, answered, edits, breaks>>

(* PublishAgw: the text as it is now, docker compose restart, and a row.   *)
Saving == \E o \in Editors : At(o, "fill")

PublishAgw(e) ==
    /\ Begin(e)
    /\ Specs[idl].ok
    /\ Turn(e, [at |-> "restart", text |-> idl, quiet |-> ~Saving])
    /\ UNCHANGED <<idl, gateway, agw_publish, orders, answered, quiet, breaks>>

Restarted(e, status) == [at |-> "record", text |-> editor[e].text, quiet |-> editor[e].quiet, status |-> status]

RestartSkipped(e) ==
    /\ At(e, "restart")
    /\ Turn(e, Restarted(e, "ok"))
    /\ UNCHANGED <<idl, gateway, agw_publish, orders, answered, quiet, edits, breaks>>

Restart(e) ==
    /\ At(e, "restart")
    /\ gateway' = [at |-> "starting", text |-> Empty, why |-> "none"]
    /\ Turn(e, Restarted(e, "ok"))
    /\ UNCHANGED <<idl, agw_publish, orders, answered, quiet, edits, breaks>>

(* The container may be left as it was, or stopped. *)
RestartFails(e) ==
    /\ At(e, "restart")
    /\ breaks < MaxBreak /\ breaks' = breaks + 1
    /\ gateway' \in {gateway, [at |-> "down", text |-> Empty, why |-> "compose"]}
    /\ Turn(e, Restarted(e, "fail"))
    /\ UNCHANGED <<idl, agw_publish, orders, answered, quiet, edits>>

Record(e) ==
    /\ At(e, "record")
    /\ agw_publish' = [status |-> editor[e].status, text |-> editor[e].text]
    /\ quiet' = editor[e].quiet
    /\ Turn(e, Free)
    /\ UNCHANGED <<idl, gateway, orders, answered, edits, breaks>>

-----------------------------------------------------------------------------
(* The gateway's main.  The mux panics at a pattern that is not valid, and *)
(* at a second one for requests of which it has one that is not narrower   *)
(* and not wider; a text that does not parse is fatal.  Nothing starts it  *)
(* again.                                                                  *)
Matched(m)     == MatchedBy[Pattern(m)]
Narrower(m, n) == Matched(m) \subseteq Matched(n) /\ Matched(m) # Matched(n)

Conflict(spec) ==
    \E i, j \in DOMAIN spec.methods :
       LET m == spec.methods[i]
           n == spec.methods[j]
       IN  /\ i # j /\ {m, n} \subseteq Exposed(spec)
           /\ Matched(m) \cap Matched(n) # {}
           /\ ~Narrower(m, n) /\ ~Narrower(n, m)

Refused(spec) == (\E m \in Exposed(spec) : Matched(m) = {}) \/ Conflict(spec)

StartGateway ==
    LET spec == Specs[idl]
    IN  /\ gateway.at = "starting"
        /\ gateway' = IF spec.ok /\ ~Refused(spec) THEN [at |-> "up", text |-> idl, why |-> "none"]
                      ELSE [at |-> "down", text |-> idl, why |-> IF spec.ok THEN "routes" ELSE "parse"]
        /\ UNCHANGED <<idl, editor, agw_publish, orders, answered, quiet, edits, breaks>>

(* ensure: fifty attempts to dial the backend, and fatal. *)
StartNoBackend ==
    /\ gateway.at = "starting"
    /\ breaks < MaxBreak /\ breaks' = breaks + 1
    /\ gateway' = [at |-> "down", text |-> Empty, why |-> "backend"]
    /\ UNCHANGED <<idl, editor, agw_publish, orders, answered, quiet, edits>>

-----------------------------------------------------------------------------
(* The order service: Register's handlers, by the code it was built with,  *)
(* around GetOrder, which asks the user service for the name, and          *)
(* CreateOrder.  Texts are one letter each, and the suffix of a user's     *)
(* name is empty.  os is the map of orders.                                *)
Compiled ==
    [GetOrder    |-> [req |-> GetOrderReq, resp |-> GetOrderResp],
     CreateOrder |-> [req |-> CreateOrderReq, resp |-> CreateOrderResp]]

names == [id \in {Int64(1), Int64(2)} |-> IF id = Int64(1) THEN <<97>> ELSE <<98>>]
paid == <<112>>
created == <<99>>

(* GetUser, with what its Register's handler has decoded, and its caller.  *)
UserFound(in) ==
    IF in.id \notin DOMAIN names THEN Short
    ELSE DecodeGen(GetUserResp, EncodeGen(GetUserResp, [id |-> in.id, name |-> names[in.id]]))

GetUser(id) == UserFound(DecodeGen(GetUserReq, EncodeGen(GetUserReq, [id |-> id])).m)

OrderOf(id, o, u) ==
    IF u.ok THEN [ok |-> TRUE, m |-> [id |-> id, userId |-> o.userID, status |-> o.status, userName |-> u.m.name]]
    ELSE Short

GetOrder(os, in) == IF in.id \notin DOMAIN os THEN Short ELSE OrderOf(in.id, os[in.id], GetUser(os[in.id].userID))

nextID(os) == Int64(1999 + Cardinality(DOMAIN os))

CreateOrder(os) == [ok |-> TRUE, m |-> [id |-> nextID(os), status |-> created]]

Stores(os, in) ==
    [id \in DOMAIN os \cup {nextID(os)} |-> IF id \in DOMAIN os THEN os[id]
                                           ELSE [userID |-> in.userId, status |-> created]]

Handler(os, name, in) == IF name = "GetOrder" THEN GetOrder(os, in) ELSE CreateOrder(os)

(* A call and back: Encode, Register's handler, the method itself, the     *)
(* answer's bytes, and Decode.  Each may be the last.                      *)
Ends(call, how, in, out, back) ==
    [how |-> how, m |-> call.m, text |-> call.text, body |-> call.body, in |-> in, out |-> out, back |-> back]

Decoded(call, in, out, back) ==
    IF back.ok THEN Ends(call, "fine", in, out, back.m) ELSE Ends(call, "reply", in, out, <<>>)

Answered(call, in, done) ==
    IF done.ok
    THEN Decoded(call, in, done.m, Decode(Specs[call.text].structs[call.m.resp],
                                          EncodeGen(Compiled[call.m.name].resp, done.m)))
    ELSE Ends(call, "error", in, <<>>, <<>>)

Register(os, call, in) ==
    IF in.ok THEN Answered(call, in.m, Handler(os, call.m.name, in.m)) ELSE Ends(call, "request", <<>>, <<>>, <<>>)

(* generic.Client.Call.  The server reads no frame that is longer, and     *)
(* answers a method nobody registered itself.                              *)
Call(os, call, out) ==
    CASE ~out.ok -> Ends(call, "encode", <<>>, <<>>, <<>>)
      [] out.ok /\ Len(out.b) > Room -> Ends(call, "frame", <<>>, <<>>, <<>>)
      [] out.ok /\ Len(out.b) <= Room /\ call.m.name \notin DOMAIN Compiled -> Ends(call, "unknown", <<>>, <<>>, <<>>)
      [] OTHER -> Register(os, call, DecodeGen(Compiled[call.m.name].req, out.b))

Attempt(os, call) == Call(os, call, Encode(Specs[call.text].structs[call.m.req], call.body))

Stored(a) == a.m.name = "CreateOrder" /\ a.how \in {"fine", "reply"}

Left(os, a) == IF Stored(a) THEN Stores(os, a.in) ELSE os

(* handle: the method of the narrowest route, but what Call makes of its   *)
(* name; a request struct with a token is sent what handle wraps the body  *)
(* in.                                                                     *)
Matching(text, r) == {m \in Exposed(Specs[text]) : <<r.http, r.uri>> \in Matched(m)}
Routed(text, r)   == {m \in Matching(text, r) : \A n \in Matching(text, r) : m = n \/ Narrower(m, n)}

apiReq(fields) == \E f \in Range(fields) : f.name = "token"

CallOf(text, m, r) ==
    [m |-> MethodNamed(Specs[text], m.name), text |-> text,
     body |-> IF apiReq(Specs[text].structs[m.req]) THEN r.wrapped ELSE r.body]

(* ... and call: when it fails and the backend can be dialled, once more,  *)
(* whatever the first attempt has left behind.                             *)
TryTwice(call, first, left) ==
    \/ answered' = first /\ orders' = left
    \/ /\ first.how # "fine"
       /\ answered' = Attempt(left, call)
       /\ orders' = Left(left, answered')

handle(r) ==
    /\ gateway.at = "up"
    /\ \E m \in Routed(gateway.text, r) :
          LET call  == CallOf(gateway.text, m, r)
              first == Attempt(orders, call)
          IN  TryTwice(call, first, Left(orders, first))
    /\ orders' # orders => Cardinality(DOMAIN orders) < MaxOrder
    /\ UNCHANGED <<idl, editor, gateway, agw_publish, quiet, edits, breaks>>

-----------------------------------------------------------------------------
AgwInit ==
    /\ idl = First
    /\ editor = [e \in Editors |-> Free]
    /\ gateway = [at |-> "up", text |-> First, why |-> "none"]
    /\ agw_publish = [status |-> "none", text |-> Empty]
    /\ orders = [id \in {Int64(1001)} |-> [userID |-> Int64(1), status |-> paid]]
    /\ answered = [how |-> "none"]
    /\ quiet = TRUE
    /\ edits = 0 /\ breaks = 0

AgwNext ==
    \/ \E e \in Editors :
          \/ \E text \in DOMAIN Contracts : SaveIdl(e, text)
          \/ SaveFill(e) \/ PublishAgw(e) \/ Restart(e) \/ RestartFails(e) \/ Record(e)
    \/ StartGateway \/ StartNoBackend
    \/ \E r \in Requests : handle(r)

AgwSpec == AgwInit /\ [][AgwNext]_agwVars

-----------------------------------------------------------------------------
(* Properties. *)

(* When a publish has answered ok and nobody has saved since it read the   *)
(* text, the gateway serves that text, however publishes and saves were    *)
(* mixed; it is down only if the mux refuses the routes of the text, which *)
(* neither SaveIdl nor PublishAgw looks for (a URI without its slash, two  *)
(* routes that overlap), or if the order service is not there.             *)
PublishedIsServed ==
    (agw_publish.status = "ok" /\ quiet) =>
        \/ gateway.at = "starting"
        \/ gateway.at = "up" /\ gateway.text = agw_publish.text
        \/ gateway.at = "down" /\ gateway.why = "routes" /\ Refused(Specs[agw_publish.text])
        \/ gateway.at = "down" /\ gateway.why \in {"backend", "compose"}

(* Two contracts agree on a struct if every id that both use has the same  *)
(* type in both, and ids fit into 16 bits.                                 *)
Agree(fs, gs) ==
    /\ \A f \in Range(fs), g \in Range(gs) : f.id = g.id => f.type = g.type
    /\ \A f \in Range(fs) \cup Range(gs) : f.id \in Ids16

(* A name that no other field of the struct has. *)
Alone(f, fields) == \A g \in Range(fields) : g.name = f.name => g.id = f.id

(* What the service has of a JSON value: what a float64 holds of it, which *)
(* is the value itself unless it is a number of more than 53 bits or has a *)
(* fraction.                                                               *)
Exact(j)    == j.t \in {"string", "bool"} \/ (j.t = "number" /\ j.v[1] \in Sig)
Heeds(v, j) == v = Value(j) /\ (Exact(j) => v = j.v)

(* The field id is the contract: where the gateway's contract and the      *)
(* service's code agree, whatever either has renamed, moved, added or      *)
(* dropped, the service gets every value it has a field for, a number as   *)
(* float64 has it, and zero for the others, and its answer comes back the  *)
(* same way, unrounded, except where the contract gives two fields one     *)
(* name, which validate does not look for: a request fails only by what    *)
(* the service itself refuses.                                             *)
Arrived(a) ==
    LET rq == Specs[a.text].structs[a.m.req]
        rs == Specs[a.text].structs[a.m.resp]
        c  == Compiled[a.m.name]
        sent(g) == {f \in FieldByID(rq, g.id) : Given(a.body, f)}
    IN  (a.how \in {"request", "error", "reply", "fine"} /\ Agree(rq, c.req) /\ Agree(rs, c.resp)) =>
            /\ a.how \in {"error", "fine"}
            /\ \A g \in Range(c.req) :
                  IF sent(g) = {} THEN a.in[g.name] = Zero[g.type]
                  ELSE \A f \in sent(g) : Heeds(a.in[g.name], a.body[f.name])
            /\ a.how = "fine" => \A f \in Range(rs) : \A g \in FieldByID(c.resp, f.id) :
                  Alone(f, rs) => f.name \in DOMAIN a.back /\ a.back[f.name] = a.out[g.name]

KnownFieldsArrive == Arrived(answered)
=============================================================================
