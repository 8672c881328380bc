----------------------------- MODULE MCPlatform -----------------------------
(* Three parts of the platform beside releases, for TLC: BAM, the compose  *)
(* files of what is deployed, and the gateway's contract.  They share      *)
(* nothing: a behaviour is that of one of them, the others at rest.        *)
EXTENDS Bam, Compose, Agw, TLC

CONSTANT Parts

VARIABLE part

platformVars == <<part, bamVars, composeVars, agwVars>>

PlatformInit == part \in Parts /\ BamInit /\ ComposeInit /\ AgwInit

PlatformNext ==
    /\ \/ part = "bam"     /\ BamNext     /\ UNCHANGED <<composeVars, agwVars>>
       \/ part = "compose" /\ ComposeNext /\ UNCHANGED <<bamVars, agwVars>>
       \/ part = "agw"     /\ AgwNext     /\ UNCHANGED <<bamVars, composeVars>>
    /\ UNCHANGED part

PlatformSpec == PlatformInit /\ [][PlatformNext]_platformVars

(* Callers of BAM are alike, and so are editors; no liveness is checked. *)
Symmetry == Permutations(Users) \cup Permutations(Editors)

-----------------------------------------------------------------------------
(* BAM: two modules of one repository and seedBam's own.  At commit 2, d2  *)
(* does not compile and buf fails on d1; d3 has no .proto at commit 1.     *)
MCTrouble == (<<"d2", 2>> :> "parse") @@ (<<"d1", 2>> :> "buf") @@ (<<"d3", 1>> :> "gone")
MCBound   == ("m1" :> "d1") @@ ("m2" :> "d2")
MCRefs    == <<"dev", "main">>
MCLists   == {<<[name |-> "own", lang |-> ""], [name |-> "m1", lang |-> "ts"]>>,
              <<[name |-> "m3", lang |-> "go"], [name |-> "m2", lang |-> "py"]>>}

(* Compose: two apps that share a service of the old runtime.yml, one of   *)
(* them an image app that brings its own docker-compose.yml.               *)
MCLabel    == [go |-> "golang", img |-> "image"]
MCWorkMain == [img |-> {"m", "w"}]
MCListed   == [go |-> {"x"}, img |-> {"x", "w"}]
MCShipped  == {<<"go", "w">>}

(* Contracts: order.thrift, and what may be made of it. *)
Contract(getReq, getResp, createReq, createResp, methods) ==
    <<Line("header"), Struct("GetOrderReq")>> \o getReq
    \o <<Line("close"), Struct("GetOrderResp")>> \o getResp
    \o <<Line("close"), Struct("CreateOrderReq")>> \o createReq
    \o <<Line("close"), Struct("CreateOrderResp")>> \o createResp
    \o <<Line("close"), Line("blank"), Service("OrderService"),
         Method("GetOrder", "GetOrderReq", "GetOrderResp", "POST", "/get")>> \o methods \o <<Line("close")>>

Create(http, uri) == <<Method("CreateOrder", "CreateOrderReq", "CreateOrderResp", http, uri)>>

Thrift  == Contract(GetOrderReq, GetOrderResp, CreateOrderReq, CreateOrderResp, Create("POST", "/create"))
Renamed == Contract(<<Field(7, "bool", "deep"), Field(1, "i64", "orderId")>>,
                    <<Field(3, "string", "state"), Field(9, "string", "note"), Field(1, "i64", "id")>>,
                    <<Field(5, "string", "coupon"), Field(2, "i64", "amount")>>, CreateOrderResp, Create("", "/:any"))
Retyped == Contract(<<Field(1, "string", "id")>>, GetOrderResp,
                    <<Field(1, "i64", "userId"), Field(2, "bool", "amount")>>,
                    <<Field(1, "i64", "id"), Field(2, "i64", "status")>>, Create("POST", "/create"))
Wide    == Contract(<<Field(1, "i64", "id"), Field(65537, "i64", "trace")>>, GetOrderResp, CreateOrderReq,
                    CreateOrderResp,
                    <<Method("CancelOrder", "GetOrderReq", "GetOrderResp", "POST", ""),
                      Method("CancelOrder", "CreateOrderReq", "CreateOrderResp", "POST", "/create")>>)
Doubled == Contract(GetOrderReq, <<Field(1, "i64", "id"), Field(2, "i64", "id"), Field(3, "string", "status")>>,
                    <<Field(1, "i64", "userId"), Field(6, "string", "token")>>, CreateOrderResp, Create("POST", "/create"))
Crossed == Contract(GetOrderReq, GetOrderResp, CreateOrderReq, CreateOrderResp,
                    Create("POST", "/:any") \o Create("POST", "/:id"))
Crooked == Contract(GetOrderReq, GetOrderResp, CreateOrderReq, CreateOrderResp, Create("POST", "create"))

MCContracts ==
    [thrift |-> Thrift, renamed |-> Renamed, retyped |-> Retyped, wide |-> Wide, doubled |-> Doubled,
     crossed |-> Crossed, crooked |-> Crooked, open |-> SubSeq(Thrift, 1, Len(Thrift) - 2), broken |-> SubSeq(Thrift, 2, 4) \o <<Service("OrderService")>>,
     empty |-> <<>>]

(* The mux: a segment in braces, which paramPat makes of a name after a    *)
(* colon, matches any; a pattern without a slash is not valid.             *)
Paths == {"/get", "/create", "/else"}
MCMatchedBy ==
    [p \in {"POST"} \X {"/get", "/create", "/:any", "/:id", "create"} |->
        {p[1]} \X (IF p[2] \in {"/:any", "/:id"} THEN Paths ELSE {p[2]} \cap Paths)]

JSON(typ, value) == [t |-> typ, v |-> value]
Number(n) == JSON("number", Int64(n))

(* An amd64 makes the same of every number that is too large or too small. *)
MCBeyond == [positive \in BOOLEAN |-> <<-(2 ^ 30) - 2 ^ 30, 0>>]

(* What handle makes of a request when the struct has a token. *)
Wrap(token) == [n \in {"name", "id", "token", "query", "body"} |->
                  JSON("string", CASE n = "token" -> token [] n = "body" -> <<123, 125>> [] OTHER -> <<>>)]

MCRequests ==
    [http : {"POST"}, uri : {"/get"}, wrapped : {Wrap(<<48>>)}, body : {[id |-> JSON("float", Int64(1001))]}]
    \cup [http : {"POST"}, uri : {"/create"}, wrapped : {Wrap(<<48>>)},
          body : {[userId |-> JSON("null", 0), amount |-> JSON("number", <<Last, -1>>)]}]
    \cup [http : {"POST"}, uri : {"/get", "/create"}, wrapped : {Wrap(<<48>>)},
          body : {[id |-> JSON("huge", FALSE), userId |-> JSON("number", <<2 ^ 22, 6>>),
                   amount |-> JSON("number", <<-(2 ^ 21) - 1, -1>>), coupon |-> JSON("string", <<98, 0, 2>>)]}]
    \cup [http : {"POST"}, uri : {"/get", "/create"}, wrapped : {Wrap([i \in 1..20 |-> 48])},
          body : {[id |-> JSON("string", <<1>>), orderId |-> Number(1001), trace |-> Number(-5),
                   deep |-> JSON("bool", TRUE), amount |-> JSON("other", 0)]}]
=============================================================================
