------------------------------- MODULE Codec -------------------------------
(***************************************************************************)
(* The wire format (wire/wire.go) and the two codecs over it: the generic  *)
(* one, which follows a contract that was read at run time                 *)
(* (generic/generic.go), and the one that cmd/gen writes into gen/user and *)
(* gen/order, which follows the contract of the day it was generated.      *)
(*                                                                         *)
(* A body is a sequence of bytes, a string too.  An i64 is the pair of its *)
(* 32-bit words, both signed.  A JSON value is [t, v] with t "string",     *)
(* "bool", "null", "other" (an object or a list), or one of three kinds of *)
(* number, which encoding/json makes a float64 of:                         *)
(*   number              a literal that is an integer and fits: v is it    *)
(*   float               any other, v its float64 without the fraction     *)
(*   huge                one whose float64 an int64 has no room for, v its *)
(*                       sign, TRUE above zero                             *)
(***************************************************************************)
EXTENDS Idl

CONSTANT Beyond   \* what int64(n), which Go leaves to the machine, makes of a huge n, by its sign

Bytes == 0..255
Word  == (-(2 ^ 30) - 2 ^ 30)..((2 ^ 30 - 1) + 2 ^ 30)
I64   == Word \X Word
Ids16 == 0..65535

ASSUME BeyondAssumption == Beyond \in [BOOLEAN -> I64]

Int64(n) == <<IF n < 0 THEN -1 ELSE 0, n>>

TStop == 0
TypeByte == [bool |-> 1, i64 |-> 2, string |-> 3]

Byte(n, i) == (n \div (256 ^ i)) % 256
U16(n) == <<Byte(n, 1), Byte(n, 0)>>
U32(n) == <<Byte(n, 3), Byte(n, 2), Byte(n, 1), Byte(n, 0)>>

ValueBytes(typ, v) ==
    CASE typ = "i64"    -> U32(v[1]) \o U32(v[2])
      [] typ = "string" -> U32(Len(v)) \o v
      [] typ = "bool"   -> IF v THEN <<1>> ELSE <<0>>

(* FieldI64, FieldString and FieldBool: the id is cut to 16 bits. *)
FieldBytes(f, v) == <<TypeByte[f.type]>> \o U16(f.id) \o ValueBytes(f.type, v)

(* What a read at byte i gives: the value and where it ends. *)
Short == [ok |-> FALSE]
Got(v, next) == [ok |-> TRUE, v |-> v, next |-> next]

ReadWord(b, i) ==
    ((b[i] - (IF b[i] > 127 THEN 256 ELSE 0)) * 256 ^ 3) + (b[i + 1] * 256 ^ 2) + (b[i + 2] * 256) + b[i + 3]

ReadI64(b, i) ==
    IF i + 7 > Len(b) THEN Short ELSE Got(<<ReadWord(b, i), ReadWord(b, i + 4)>>, i + 8)

(* A length of 2^31 or more is longer than any body. *)
ReadString(b, i) ==
    LET size == ReadWord(b, i)
    IN  IF i + 3 > Len(b) \/ size < 0 \/ size > Len(b) - (i + 3) THEN Short
        ELSE Got(SubSeq(b, i + 4, i + 3 + size), i + 4 + size)

ReadBool(b, i) == IF i > Len(b) THEN Short ELSE Got(b[i] = 1, i + 1)

readValue(typ, b, i) ==
    CASE typ = "i64"    -> ReadI64(b, i)
      [] typ = "string" -> ReadString(b, i)
      [] typ = "bool"   -> ReadBool(b, i)

(* The type and id of the field that begins at byte i, TStop at the end. *)
NextField(b, i) ==
    CASE i > Len(b) -> Short
      [] i <= Len(b) /\ b[i] = TStop -> Got([typ |-> TStop, id |-> 0], i + 1)
      [] i <= Len(b) /\ b[i] # TStop /\ i + 2 > Len(b) -> Short
      [] OTHER -> Got([typ |-> b[i], id |-> b[i + 1] * 256 + b[i + 2]], i + 3)

SkipNothing(typ, b, i) == Got(0, i)

(* A field nobody knows, by the type that was written. *)
Skip(typ, b, i) ==
    LET known == {t \in Types : TypeByte[t] = typ}
    IN  IF known = {} THEN Short ELSE readValue(CHOOSE t \in known : TRUE, b, i)

(* The loop of Decode: a field the reader knows is read by the type the    *)
(* reader knows it with, whatever was written.  A later one of an id wins. *)
Kept(known, r, rest) ==
    CASE ~r.ok -> Short
      [] r.ok /\ ~rest.ok -> Short
      [] r.ok /\ rest.ok /\ known = {} -> rest
      [] OTHER -> [ok |-> TRUE, m |-> [n \in DOMAIN rest.m \cup {f.name : f \in known} |->
                                         IF n \in DOMAIN rest.m THEN rest.m[n] ELSE r.v]]

Loop(fields, b) ==
    LET at[i \in 1..(Len(b) + 1)] ==
          LET f == NextField(b, i)
              known == FieldByID(fields, f.v.id)
              r == IF known = {} THEN Skip(f.v.typ, b, f.next)
                   ELSE readValue((CHOOSE k \in known : TRUE).type, b, f.next)
          IN  IF ~f.ok THEN Short
              ELSE IF f.v.typ = TStop THEN [ok |-> TRUE, m |-> <<>>]
              ELSE Kept(known, r, at[r.next])
    IN  at

Read(fields, b) == Loop(fields, b)[1]

(* What a Writer has after these appends and Stop. *)
Tails(parts) ==
    LET from[i \in 1..(Len(parts) + 1)] == IF i > Len(parts) THEN <<TStop>> ELSE parts[i] \o from[i + 1]
    IN  from

Written(parts) == Tails(parts)[1]

-----------------------------------------------------------------------------
(* A number on its way through float64, which has 53 bits for it: of one   *)
(* with more (its high word is not in Sig) the nearest multiple of a gap   *)
(* is left, of two that are as near the even one.                          *)
Sig  == -(2 ^ 21)..(2 ^ 21 - 1)
Gaps == {2 ^ k : k \in 0..10}
Last == (2 ^ 30 - 1) + 2 ^ 30

Gap(high) == CHOOSE g \in Gaps : high \div g \in Sig /\ (g = 1 \/ high \div (g \div 2) \notin Sig)

RoundsUp(over, down, gap) == 2 * over > gap \/ (2 * over = gap /\ (down \div gap) % 2 = 1)

(* The low word's next multiple after down; the carry is for the high one. *)
NextMultiple(high, down, gap) ==
    CASE down > Last - gap -> <<high, -(2 ^ 30) - 2 ^ 30>>
      [] down <= Last - gap /\ down + gap # 0 -> <<high, down + gap>>
      [] down + gap = 0 /\ high < Last -> <<high + 1, 0>>
      [] OTHER -> Beyond[TRUE]

Float64(n) ==
    LET gap  == Gap(n[1])
        over == n[2] % gap
        down == n[2] - over
    IN  IF RoundsUp(over, down, gap) THEN NextMultiple(n[1], down, gap) ELSE <<n[1], down>>

asI64(j) ==
    CASE j.t = "number" -> Float64(j.v)
      [] j.t = "float"  -> j.v
      [] j.t = "huge"   -> Beyond[j.v]

(* generic.Encode of a JSON object: fields in the contract's order, those  *)
(* that are missing or null left out; a value of another type is an error. *)
JsonValues ==
    [t : {"number", "float"}, v : I64] \cup [t : {"huge"}, v : BOOLEAN]
    \cup [t : {"string"}, v : Seq(Bytes)] \cup [t : {"bool"}, v : BOOLEAN] \cup [t : {"null", "other"}, v : {0}]

GoType == [number |-> "i64", float |-> "i64", huge |-> "i64", string |-> "string", bool |-> "bool", other |-> "any"]

Value(j) == IF GoType[j.t] = "i64" THEN asI64(j) ELSE j.v

Given(body, f) == f.name \in DOMAIN body /\ body[f.name].t # "null"

writeField(body, f) ==
    CASE ~Given(body, f) -> [ok |-> TRUE, b |-> <<>>]
      [] Given(body, f) /\ GoType[body[f.name].t] = f.type -> [ok |-> TRUE, b |-> FieldBytes(f, Value(body[f.name]))]
      [] OTHER -> Short

Encode(fields, body) ==
    LET out == [i \in DOMAIN fields |-> writeField(body, fields[i])]
    IN  IF \E i \in DOMAIN out : ~out[i].ok THEN Short
        ELSE [ok |-> TRUE, b |-> Written([i \in DOMAIN fields |-> out[i].b])]

(* generic.Decode. *)
Decode(fields, b) == Read(fields, b)

-----------------------------------------------------------------------------
(* The generated codec: the fields of a struct, all of them written, and   *)
(* zero where nothing came.                                                *)
Zero == [i64 |-> Int64(0), string |-> <<>>, bool |-> FALSE]

EncodeGen(fields, s) == Written([i \in DOMAIN fields |-> FieldBytes(fields[i], s[fields[i].name])])

DecodeGen(fields, b) ==
    LET r == Read(fields, b)
        type(n) == (CHOOSE f \in Range(fields) : f.name = n).type
    IN  IF ~r.ok THEN Short
        ELSE [ok |-> TRUE, m |-> [n \in {f.name : f \in Range(fields)} |->
                                    IF n \in DOMAIN r.m THEN r.m[n] ELSE Zero[type(n)]]]

(* What cmd/gen made of user.thrift ... *)
GetUserReq  == <<Field(1, "i64", "id")>>
GetUserResp == <<Field(1, "i64", "id"), Field(2, "string", "name")>>

(* ... and of order.thrift. *)
GetOrderReq     == <<Field(1, "i64", "id")>>
GetOrderResp    == <<Field(1, "i64", "id"), Field(2, "i64", "userId"), Field(3, "string", "status"),
                     Field(4, "string", "userName")>>
CreateOrderReq  == <<Field(1, "i64", "userId"), Field(2, "i64", "amount")>>
CreateOrderResp == <<Field(1, "i64", "id"), Field(2, "string", "status")>>
=============================================================================
