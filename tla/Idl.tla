-------------------------------- MODULE Idl --------------------------------
(***************************************************************************)
(* The IDL parser (idl/idl.go).  A contract is a sequence of lines, and a  *)
(* line, which stripComment has cleaned, is known by what parseMethod,     *)
(* parseField and the prefixes make of it:                                 *)
(*   blank               empty, a comment or "{"                           *)
(*   close               begins with "}"                                   *)
(*   header              namespace, include, const or typedef              *)
(*   service, struct     with a name                                       *)
(*   method              name, req, resp, and from (agw. ...) http and uri *)
(*   field               id, type and name                                 *)
(*   bad                 anything else                                     *)
(***************************************************************************)
EXTENDS Integers, Sequences, Functions

Types == {"i64", "string", "bool"}

Line(kind)           == [k |-> kind]
Service(name)        == [k |-> "service", name |-> name]
Struct(name)         == [k |-> "struct", name |-> name]
Field(id, typ, name) == [k |-> "field", id |-> id, type |-> typ, name |-> name]
Method(name, req, resp, http, uri) ==
    [k |-> "method", name |-> name, req |-> req, resp |-> resp, http |-> http, uri |-> uri]

(* What a line can be. *)
LineForms ==
    [k : {"blank", "close", "header", "bad"}]
    \cup [k : {"service", "struct"}, name : STRING]
    \cup [k : {"field"}, id : Int, type : STRING, name : STRING]
    \cup [k : {"method"}, name : STRING, req : STRING, resp : STRING, http : STRING, uri : STRING]

NoName == ""
Start == [at |-> "top", cur |-> NoName, service |-> NoName, methods |-> <<>>, structs |-> <<>>, ok |-> TRUE]

(* A struct that is named again begins anew. *)
NewStruct(structs, name) == [n \in DOMAIN structs \cup {name} |-> IF n = name THEN <<>> ELSE structs[n]]

(* One line; the first that does not fit ends it. *)
ParseLine(line, s) ==
    CASE ~s.ok -> s
      [] s.ok /\ line.k = "blank" -> s
      [] s.ok /\ line.k = "close" -> [s EXCEPT !.at = "top", !.cur = NoName]
      [] s.ok /\ s.at = "top" /\ line.k = "header" -> s
      [] s.ok /\ s.at = "top" /\ line.k = "service" ->
            [s EXCEPT !.at = "service", !.service = line.name, !.ok = line.name # NoName]
      [] s.ok /\ s.at = "top" /\ line.k = "struct" ->
            [s EXCEPT !.at = "struct", !.cur = line.name, !.structs = NewStruct(@, line.name), !.ok = line.name # NoName]
      [] s.ok /\ s.at = "service" /\ line.k = "method" ->
            [s EXCEPT !.methods = Append(@, line), !.ok = NoName \notin {line.name, line.req, line.resp}]
      [] s.ok /\ s.at = "struct" /\ line.k = "field" ->
            [s EXCEPT !.structs[s.cur] = Append(@, line), !.ok = line.type \in Types]
      [] OTHER -> [s EXCEPT !.ok = FALSE]

validate(s) ==
    /\ s.service # NoName
    /\ s.methods # <<>>
    /\ \A m \in Range(s.methods) : {m.req, m.resp} \subseteq DOMAIN s.structs
    /\ \A st \in Range(s.structs) : \A i, j \in DOMAIN st : i # j => st[i].id # st[j].id

(* The state after each line, and at the end of the text, which may come  *)
(* anywhere: an open brace is no error.                                    *)
Scanned(lines) ==
    LET after[i \in 0..Len(lines)] == IF i = 0 THEN Start ELSE ParseLine(lines[i], after[i - 1])
    IN  after

Parse(lines) ==
    LET s == Scanned(lines)[Len(lines)]
    IN  [ok |-> s.ok /\ validate(s), service |-> s.service, methods |-> s.methods, structs |-> s.structs]

(* Spec.Method: the first of that name. *)
MethodNamed(spec, name) ==
    spec.methods[CHOOSE i \in DOMAIN spec.methods :
                    /\ spec.methods[i].name = name
                    /\ \A j \in 1..(i - 1) : spec.methods[j].name # name]

FieldByID(fields, id) == {f \in Range(fields) : f.id = id}
=============================================================================
