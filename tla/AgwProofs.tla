---------------------------- MODULE AgwProofs -------------------------------
(***************************************************************************)
(* What the gateway serves after saves, publishes and restarts, and what   *)
(* becomes of a request on its way through the contract the gateway has    *)
(* read and the code the order service was built with (Agw, Codec and      *)
(* Idl), for any callers, contracts, requests and number of orders.        *)
(*                                                                         *)
(* The loops of the parser, the writer and the reader are recursive        *)
(* functions of a position.  A property of every turn of one is shown by   *)
(* Rises or Falls: the positions that have it are a set, and a position    *)
(* without it would have a least or a greatest one.                        *)
(***************************************************************************)
EXTENDS Agw, SequenceTheorems, FiniteSetTheorems, WellFoundedInduction, TLAPS

-----------------------------------------------------------------------------
(* Induction over positions. *)

LEMMA LeastOf == ASSUME NEW S \in SUBSET Nat, S # {} PROVE \E m \in S : \A x \in S : m <= x
<1> DEFINE R == {p \in Nat \X Nat : p[1] < p[2]}
<1>1. IsWellFoundedOn(R, Nat)
  BY NatLessThanWellFounded DEF OpToRel
<1> HIDE DEF R
<1>2. PICK m \in S : \A x \in S : ~(<<x, m>> \in R)
  BY <1>1, WFMin
<1>3. ASSUME NEW x \in S PROVE m <= x
  <2>1. x \in Nat /\ m \in Nat /\ (x < m => <<x, m>> \in R)
    BY DEF R
  <2> QED
    BY <1>2, <2>1
<1> QED
  BY <1>3

LEMMA Rises ==
  ASSUME NEW n \in Nat, NEW S, \A k \in 0..n : (\A j \in 0..(k - 1) : j \in S) => k \in S
  PROVE  \A k \in 0..n : k \in S
<1> DEFINE B == {k \in 0..n : k \notin S}
<1>1. SUFFICES ASSUME NEW k \in 0..n, k \notin S PROVE FALSE
  OBVIOUS
<1>2. PICK m \in B : \A x \in B : m <= x
  <2>1. B \in SUBSET Nat /\ B # {}
    BY <1>1
  <2> HIDE DEF B
  <2> QED
    BY <2>1, LeastOf
<1>3. \A j \in 0..(m - 1) : j \in S
  BY <1>2
<1> QED
  BY <1>2, <1>3

LEMMA Falls ==
  ASSUME NEW n \in Nat, NEW S, \A k \in 1..n : (\A j \in (k + 1)..n : j \in S) => k \in S
  PROVE  \A k \in 1..n : k \in S
<1> DEFINE B == {d \in 0..n : n - d \in 1..n /\ n - d \notin S}
<1>1. SUFFICES ASSUME NEW k \in 1..n, k \notin S PROVE FALSE
  OBVIOUS
<1>2. n - k \in B
  BY <1>1
<1>3. PICK m \in B : \A x \in B : m <= x
  <2>1. B \in SUBSET Nat /\ B # {}
    BY <1>2
  <2> HIDE DEF B
  <2> QED
    BY <2>1, LeastOf
<1>4. ASSUME NEW j \in (n - m + 1)..n PROVE j \in S
  <2>1. n - j \in 0..n /\ n - (n - j) = j /\ j \in 1..n /\ n - j < m
    BY <1>3
  <2> QED
    BY <1>3, <2>1
<1>5. n - m \in 1..n /\ n - m \notin S
  BY <1>3
<1>6. n - m \in S
  BY <1>4, <1>5
<1> QED
  BY <1>5, <1>6

-----------------------------------------------------------------------------
(* The loops go on as their definitions say. *)

LEMMA ScannedTurn ==
  ASSUME NEW lines, Len(lines) \in Nat
  PROVE  Scanned(lines) = [i \in 0..Len(lines) |-> IF i = 0 THEN Start ELSE ParseLine(lines[i], Scanned(lines)[i - 1])]
<1> DEFINE n == Len(lines)
           Is(f, k) == f = [i \in 0..k |-> IF i = 0 THEN Start ELSE ParseLine(lines[i], f[i - 1])]
           S == {k \in 0..n : \E f : Is(f, k)}
<1>1. Scanned(lines) = CHOOSE f : Is(f, n)
  BY DEF Scanned
<1>2. ASSUME NEW k \in 0..n, \A j \in 0..(k - 1) : j \in S PROVE k \in S
  <2>1. CASE k = 0
    <3>1. Is([i \in 0..0 |-> Start], 0)
      OBVIOUS
    <3> QED
      BY <2>1, <3>1
  <2>2. CASE k # 0
    <3>1. PICK f : Is(f, k - 1)
      BY <1>2, <2>2
    <3> DEFINE g == [i \in 0..k |-> IF i = k THEN ParseLine(lines[k], f[k - 1]) ELSE f[i]]
    <3>2. ASSUME NEW i \in 0..k PROVE g[i] = IF i = 0 THEN Start ELSE ParseLine(lines[i], g[i - 1])
      <4>1. CASE i = k
        BY <2>2, <4>1
      <4>2. CASE i # k
        <5>1. i \in 0..(k - 1) /\ g[i] = f[i]
          BY <4>2
        <5>2. f[i] = IF i = 0 THEN Start ELSE ParseLine(lines[i], f[i - 1])
          BY <3>1, <5>1
        <5>3. i # 0 => g[i - 1] = f[i - 1]
          BY <5>1
        <5> QED
          BY <5>1, <5>2, <5>3
      <4> QED
        BY <4>1, <4>2
    <3>3. Is(g, k)
      <4>1. g = [i \in 0..k |-> g[i]]
        OBVIOUS
      <4> HIDE DEF g
      <4> QED
        BY <3>2, <4>1
    <3> QED
      BY <3>3
  <2> QED
    BY <2>1, <2>2
<1>3. n \in S
  <2>1. n \in Nat /\ n \in 0..n
    OBVIOUS
  <2> HIDE DEF S, n
  <2>2. \A k \in 0..n : k \in S
    BY <1>2, <2>1, Rises
  <2> QED
    BY <2>1, <2>2
<1>4. PICK f : Is(f, n)
  BY <1>3
<1>5. Is(CHOOSE g : Is(g, n), n)
  <2> HIDE DEF Is
  <2> QED
    BY <1>4
<1> QED
  BY <1>1, <1>5

LEMMA TailsTurn ==
  ASSUME NEW parts, Len(parts) \in Nat
  PROVE  Tails(parts) = [i \in 1..(Len(parts) + 1) |-> IF i > Len(parts) THEN <<TStop>> ELSE parts[i] \o Tails(parts)[i + 1]]
<1> DEFINE n == Len(parts) + 1
           T(i, x) == IF i > Len(parts) THEN <<TStop>> ELSE parts[i] \o x
           Is(f, k) == f = [i \in k..n |-> T(i, f[i + 1])]
           S == {k \in 1..n : \E f : Is(f, k)}
<1>1. Tails(parts) = CHOOSE f : Is(f, 1)
  BY DEF Tails
<1>2. \A x, y : T(n, x) = T(n, y)
  OBVIOUS
<1> HIDE DEF T
<1>3. ASSUME NEW k \in 1..n, \A j \in (k + 1)..n : j \in S PROVE k \in S
  <2>1. PICK f : k = n \/ Is(f, k + 1)
    <3>1. k = n \/ k + 1 \in S
      BY <1>3
    <3> HIDE DEF Is
    <3> QED
      BY <3>1
  <2> DEFINE g == [i \in k..n |-> IF i = k THEN T(k, f[k + 1]) ELSE f[i]]
  <2>2. ASSUME NEW i \in k..n PROVE g[i] = T(i, g[i + 1])
    <3>1. g[i] = T(i, f[i + 1])
      <4>1. CASE i = k
        BY <4>1
      <4>2. CASE i # k
        <5>1. i \in (k + 1)..n /\ g[i] = f[i] /\ k # n
          BY <4>2
        <5> QED
          BY <2>1, <5>1
      <4> QED
        BY <4>1, <4>2
    <3>2. CASE i # n
      <4>1. i + 1 \in k..n /\ i + 1 # k
        BY <3>2
      <4>2. g[i + 1] = f[i + 1]
        BY <4>1
      <4> QED
        BY <3>1, <4>2
    <3> QED
      BY <1>2, <3>1, <3>2
  <2>3. Is(g, k)
    <3>1. g = [i \in k..n |-> g[i]]
      OBVIOUS
    <3> HIDE DEF g
    <3> QED
      BY <2>2, <3>1
  <2> QED
    BY <2>3
<1>4. 1 \in S
  <2>1. n \in Nat /\ 1 \in 1..n
    OBVIOUS
  <2> HIDE DEF S, n
  <2>2. \A k \in 1..n : k \in S
    BY <1>3, <2>1, Falls
  <2> QED
    BY <2>1, <2>2
<1>5. PICK f : Is(f, 1)
  BY <1>4
<1>6. Is(CHOOSE g : Is(g, 1), 1)
  <2> HIDE DEF Is
  <2> QED
    BY <1>5
<1>7. Is(Tails(parts), 1)
  <2> HIDE DEF Is
  <2> QED
    BY <1>1, <1>6
<1> HIDE DEF T
<1>8. Tails(parts) = [i \in 1..n |-> T(i, Tails(parts)[i + 1])]
  BY <1>7
<1> QED
  BY <1>8, Zenon DEF T

\* A turn of the reader at byte i: what it reads there, the byte it goes on at, and
\* what it has, if rest is what the turns from there have.
Met(fields, b, i) ==
    LET f == NextField(b, i)
        known == FieldByID(fields, f.v.id)
    IN  IF known = {} THEN Skip(f.v.typ, b, f.next) ELSE readValue((CHOOSE k \in known : TRUE).type, b, f.next)

Turned(fields, b, i, rest) ==
    IF ~NextField(b, i).ok THEN Short
    ELSE IF NextField(b, i).v.typ = TStop THEN [ok |-> TRUE, m |-> <<>>]
    ELSE Kept(FieldByID(fields, NextField(b, i).v.id), Met(fields, b, i), rest)

\* It goes on further right, or not at all.
Onward(fields, b, i) ==
    \/ Met(fields, b, i).next \in (i + 1)..(Len(b) + 1)
    \/ \A x, y : Turned(fields, b, i, x) = Turned(fields, b, i, y)

LEMMA LoopTurn ==
  ASSUME NEW fields, NEW b, Len(b) \in Nat, \A i \in 1..(Len(b) + 1) : Onward(fields, b, i)
  PROVE  Loop(fields, b) = [i \in 1..(Len(b) + 1) |-> Turned(fields, b, i, Loop(fields, b)[Met(fields, b, i).next])]
<1> DEFINE n == Len(b) + 1
           T(i, x) == Turned(fields, b, i, x)
           next(i) == Met(fields, b, i).next
           Is(f, k) == f = [i \in k..n |-> T(i, f[next(i)])]
           S == {k \in 1..n : \E f : Is(f, k)}
<1>1. Loop(fields, b) = CHOOSE f : Is(f, 1)
  BY DEF Loop, Turned, Met
<1>2. ASSUME NEW i \in 1..n PROVE next(i) \in (i + 1)..n \/ \A x, y : T(i, x) = T(i, y)
  BY DEF Onward
<1> HIDE DEF T, next
<1>3. ASSUME NEW k \in 1..n, \A j \in (k + 1)..n : j \in S PROVE k \in S
  <2>1. PICK f : k = n \/ Is(f, k + 1)
    BY <1>3
  <2> DEFINE g == [i \in k..n |-> IF i = k THEN T(k, f[next(k)]) ELSE f[i]]
  <2>2. ASSUME NEW i \in k..n PROVE g[i] = T(i, g[next(i)])
    <3>1. g[i] = T(i, f[next(i)])
      <4>1. CASE i = k
        BY <4>1
      <4>2. CASE i # k
        <5>1. i \in (k + 1)..n /\ g[i] = f[i] /\ k # n
          BY <4>2
        <5> QED
          BY <2>1, <5>1
      <4> QED
        BY <4>1, <4>2
    <3>2. CASE next(i) \in (i + 1)..n
      <4>1. next(i) \in k..n /\ next(i) # k
        BY <3>2
      <4>2. g[next(i)] = f[next(i)]
        BY <4>1
      <4> QED
        BY <3>1, <4>2
    <3>3. CASE \A x, y : T(i, x) = T(i, y)
      BY <3>1, <3>3
    <3> QED
      BY <1>2, <3>2, <3>3
  <2>3. Is(g, k)
    <3>1. g = [i \in k..n |-> g[i]]
      OBVIOUS
    <3> HIDE DEF g
    <3> QED
      BY <2>2, <3>1
  <2> QED
    BY <2>3
<1>4. 1 \in S
  <2>1. n \in Nat /\ 1 \in 1..n
    OBVIOUS
  <2> HIDE DEF S, n
  <2>2. \A k \in 1..n : k \in S
    BY <1>3, <2>1, Falls
  <2> QED
    BY <2>1, <2>2
<1>5. PICK f : Is(f, 1)
  BY <1>4
<1>6. Is(CHOOSE g : Is(g, 1), 1)
  <2> HIDE DEF Is
  <2> QED
    BY <1>5
<1> QED
  BY <1>1, <1>6 DEF T, next

-----------------------------------------------------------------------------
(* What is written is read again, wherever it is in a body. *)

\* What the types of a contract hold.
Valued(typ) == CASE typ = "i64" -> I64 [] typ = "string" -> Seq(Bytes) [] typ = "bool" -> BOOLEAN

\* Concatenation, by a name the provers do not look into.
Then(c, s) == c \o s

\* What b has from byte o on.
Rest(b, o, s) ==
    /\ o \in Nat \ {0}
    /\ Len(b) = o - 1 + Len(s)
    /\ \A j \in 1..Len(s) : b[o - 1 + j] = s[j]

LEMMA RestCut ==
  ASSUME NEW b, NEW o, NEW c \in Seq(Bytes), NEW s \in Seq(Bytes), Rest(b, o, Then(c, s))
  PROVE  /\ Rest(b, o + Len(c), s)
         /\ \A j \in 1..Len(c) : b[o - 1 + j] = c[j]
         /\ o - 1 + Len(c) <= Len(b)
<1> DEFINE w == Then(c, s)
<1>1. /\ Len(c) \in Nat /\ Len(s) \in Nat /\ o \in Nat \ {0}
      /\ Len(w) = Len(c) + Len(s)
      /\ \A j \in 1..(Len(c) + Len(s)) : w[j] = IF j <= Len(c) THEN c[j] ELSE s[j - Len(c)]
  BY ConcatProperties DEF Rest, Then
<1>5. Rest(b, o, w)
  OBVIOUS
<1> HIDE DEF w
<1>2. Len(b) = o - 1 + Len(c) + Len(s)
  BY <1>1, <1>5 DEF Rest
<1>3. ASSUME NEW j \in 1..Len(c) PROVE b[o - 1 + j] = c[j]
  BY <1>1, <1>5 DEF Rest
<1>4. ASSUME NEW j \in 1..Len(s) PROVE b[o + Len(c) - 1 + j] = s[j]
  <2>1. Len(c) + j \in 1..(Len(c) + Len(s)) /\ ~(Len(c) + j <= Len(c)) /\ (Len(c) + j) - Len(c) = j
    BY <1>1
  <2>2. b[o - 1 + (Len(c) + j)] = s[j]
    BY <1>1, <1>5, <2>1 DEF Rest
  <2>3. o - 1 + (Len(c) + j) = o + Len(c) - 1 + j
    BY <1>1
  <2> QED
    BY <2>2, <2>3
<1> QED
  BY <1>1, <1>2, <1>3, <1>4 DEF Rest

LEMMA ByteTyped == ASSUME NEW n \in Int, NEW i \in 0..3 PROVE Byte(n, i) \in Bytes
<1>1. i = 0 \/ i = 1 \/ i = 2 \/ i = 3
  OBVIOUS
<1>2. \A k \in Int : k % 256 \in 0..255
  OBVIOUS
<1>3. i = 0 => Byte(n, i) \in Bytes
  BY <1>2 DEF Byte, Bytes
<1>4. i = 1 => Byte(n, i) \in Bytes
  BY <1>2 DEF Byte, Bytes
<1>5. i = 2 => Byte(n, i) \in Bytes
  BY <1>2 DEF Byte, Bytes
<1>6. i = 3 => Byte(n, i) \in Bytes
  BY <1>2 DEF Byte, Bytes
<1> QED
  BY <1>1, <1>3, <1>4, <1>5, <1>6

LEMMA U32Typed ==
  ASSUME NEW n \in Int
  PROVE  /\ U32(n) \in Seq(Bytes) /\ Len(U32(n)) = 4
         /\ U32(n)[1] = Byte(n, 3) /\ U32(n)[2] = Byte(n, 2) /\ U32(n)[3] = Byte(n, 1) /\ U32(n)[4] = Byte(n, 0)
<1>1. Byte(n, 0) \in Bytes /\ Byte(n, 1) \in Bytes /\ Byte(n, 2) \in Bytes /\ Byte(n, 3) \in Bytes
  BY ByteTyped
<1> QED
  BY <1>1 DEF U32

LEMMA WordBack ==
  ASSUME NEW b, NEW i \in Nat, NEW v \in Word,
         b[i] = Byte(v, 3), b[i + 1] = Byte(v, 2), b[i + 2] = Byte(v, 1), b[i + 3] = Byte(v, 0)
  PROVE  ReadWord(b, i) = v
<1>1. v \in Int /\ v >= -2147483648 /\ v < 2147483648
  BY SMT DEF Word
<1>2. /\ b[i] = (v \div 16777216) % 256 /\ b[i + 1] = (v \div 65536) % 256
      /\ b[i + 2] = (v \div 256) % 256 /\ b[i + 3] = v % 256
  BY <1>1, SMT DEF Byte
<1>3. CASE v >= 0
  <2>1. ~(b[i] > 127)
    BY <1>1, <1>2, <1>3, SMT
  <2>2. ReadWord(b, i) = b[i] * 16777216 + b[i + 1] * 65536 + b[i + 2] * 256 + b[i + 3]
    BY <1>1, <1>2, <2>1, SMT DEF ReadWord
  <2> QED
    BY <1>1, <1>2, <1>3, <2>2, SMT
<1>4. CASE v < 0
  <2>1. b[i] > 127
    BY <1>1, <1>2, <1>4, SMT
  <2>2. ReadWord(b, i) = (b[i] - 256) * 16777216 + b[i + 1] * 65536 + b[i + 2] * 256 + b[i + 3]
    BY <1>1, <1>2, <2>1, SMT DEF ReadWord
  <2> QED
    BY <1>1, <1>2, <1>4, <2>2, SMT
<1> QED
  BY <1>1, <1>3, <1>4

LEMMA ThenBytes ==
  ASSUME NEW x \in Seq(Bytes), NEW y \in Seq(Bytes)
  PROVE  Then(x, y) \in Seq(Bytes) /\ Len(Then(x, y)) = Len(x) + Len(y) /\ Len(Then(x, y)) \in Nat /\ Len(x) \in Nat
BY ConcatProperties, LenProperties DEF Then

LEMMA ThenThen ==
  ASSUME NEW x \in Seq(Bytes), NEW y \in Seq(Bytes), NEW z \in Seq(Bytes)
  PROVE  Then(Then(x, y), z) = Then(x, Then(y, z))
BY ConcatAssociative DEF Then

LEMMA WordOf ==
  ASSUME NEW p \in Bytes, NEW q \in Bytes, NEW r \in Bytes, NEW t \in Bytes
  PROVE  ((p - (IF p > 127 THEN 256 ELSE 0)) * 256 ^ 3) + (q * 256 ^ 2) + (r * 256) + t \in Word
<1>1. p \in 0..255 /\ q \in 0..255 /\ r \in 0..255 /\ t \in 0..255
  BY DEF Bytes
<1>2. CASE p > 127
  <2>1. (p - 256) * 256 ^ 3 \in Int /\ (p - 256) * 256 ^ 3 >= -(2 ^ 30) - 2 ^ 30 /\ (p - 256) * 256 ^ 3 <= -16777216
    BY <1>1, <1>2, SMT
  <2> QED
    BY <1>1, <1>2, <2>1, SMT DEF Word
<1>3. CASE ~(p > 127)
  <2>1. (p - 0) * 256 ^ 3 \in Int /\ (p - 0) * 256 ^ 3 >= 0 /\ (p - 0) * 256 ^ 3 <= 127 * 16777216
    BY <1>1, <1>3, SMT
  <2> QED
    BY <1>1, <1>3, <2>1, SMT DEF Word
<1> QED
  BY <1>2, <1>3

LEMMA WordTyped ==
  ASSUME NEW b \in Seq(Bytes), NEW i \in 1..Len(b), i + 3 <= Len(b)
  PROVE  ReadWord(b, i) \in Word
<1>1. /\ i \in 1..Len(b) /\ i + 1 \in 1..Len(b) /\ i + 2 \in 1..Len(b) /\ i + 3 \in 1..Len(b)
  BY LenProperties
<1>2. /\ b[i] \in Bytes /\ b[i + 1] \in Bytes /\ b[i + 2] \in Bytes /\ b[i + 3] \in Bytes
  BY <1>1, ElementOfSeq
<1> QED
  BY <1>2, WordOf DEF ReadWord

LEMMA ValueBytesTyped ==
  ASSUME NEW typ \in Types, NEW v \in Valued(typ)
  PROVE  ValueBytes(typ, v) \in Seq(Bytes)
<1>1. CASE typ = "i64"
  <2>1. v[1] \in Word /\ v[2] \in Word
    BY <1>1 DEF Valued, I64
  <2>4. v[1] \in Int /\ v[2] \in Int
    BY <2>1, SMT DEF Word
  <2>2. ValueBytes(typ, v) = U32(v[1]) \o U32(v[2])
    BY <1>1 DEF ValueBytes
  <2>3. U32(v[1]) \in Seq(Bytes) /\ U32(v[2]) \in Seq(Bytes)
    BY <2>4, U32Typed
  <2> QED
    BY <2>2, <2>3, ConcatProperties
<1>2. CASE typ = "string"
  <2>1. v \in Seq(Bytes) /\ Len(v) \in Int
    BY <1>2 DEF Valued
  <2>2. ValueBytes(typ, v) = U32(Len(v)) \o v
    BY <1>2 DEF ValueBytes
  <2>3. U32(Len(v)) \in Seq(Bytes)
    BY <2>1, U32Typed
  <2> QED
    BY <2>1, <2>2, <2>3, ConcatProperties
<1>3. CASE typ = "bool"
  <2>1. ValueBytes(typ, v) \in {<<0>>, <<1>>}
    BY <1>3 DEF ValueBytes, Valued
  <2>2. 0 \in Bytes /\ 1 \in Bytes
    BY DEF Bytes
  <2>3. <<0>> \in Seq(Bytes) /\ <<1>> \in Seq(Bytes)
    BY <2>2
  <2> QED
    BY <2>1, <2>3
<1> QED
  BY <1>1, <1>2, <1>3 DEF Types

LEMMA I64Back ==
  ASSUME NEW b, NEW o, NEW v \in I64, NEW s \in Seq(Bytes), Rest(b, o, Then(ValueBytes("i64", v), s))
  PROVE  readValue("i64", b, o) = Got(v, o + Len(ValueBytes("i64", v)))
<1>1. v = <<v[1], v[2]>> /\ v[1] \in Word /\ v[2] \in Word
  BY DEF I64
<1>2. v[1] \in Int /\ v[2] \in Int
  BY <1>1, SMT DEF Word
<1> DEFINE x == U32(v[1])
           y == U32(v[2])
<1>3. /\ x \in Seq(Bytes) /\ Len(x) = 4 /\ y \in Seq(Bytes) /\ Len(y) = 4
      /\ x[1] = Byte(v[1], 3) /\ x[2] = Byte(v[1], 2) /\ x[3] = Byte(v[1], 1) /\ x[4] = Byte(v[1], 0)
      /\ y[1] = Byte(v[2], 3) /\ y[2] = Byte(v[2], 2) /\ y[3] = Byte(v[2], 1) /\ y[4] = Byte(v[2], 0)
  BY <1>2, U32Typed
<1>4. ValueBytes("i64", v) = Then(x, y)
  BY DEF ValueBytes, Then
<1> HIDE DEF x, y
<1>5. x \in Seq(Bytes) /\ y \in Seq(Bytes) /\ Then(y, s) \in Seq(Bytes) /\ Rest(b, o, Then(x, Then(y, s)))
  BY <1>3, <1>4, ThenBytes, ThenThen
<1>6. Rest(b, o + 4, Then(y, s)) /\ \A j \in 1..4 : b[o - 1 + j] = x[j]
  <2>1. Rest(b, o + Len(x), Then(y, s)) /\ \A j \in 1..Len(x) : b[o - 1 + j] = x[j]
    BY <1>5, RestCut
  <2> QED
    BY <1>3, <2>1
<1>7. (\A j \in 1..4 : b[(o + 4) - 1 + j] = y[j]) /\ (o + 4) - 1 + 4 <= Len(b)
  <2>2. y \in Seq(Bytes) /\ Rest(b, o + 4, Then(y, s))
    BY <1>5, <1>6
  <2>1. (\A j \in 1..Len(y) : b[(o + 4) - 1 + j] = y[j]) /\ (o + 4) - 1 + Len(y) <= Len(b)
    BY <2>2, RestCut
  <2> QED
    BY <1>3, <2>1
<1>12. Len(ValueBytes("i64", v)) = 8
  <2>1. Len(Then(x, y)) = Len(x) + Len(y)
    BY <1>5, ThenBytes
  <2> QED
    BY <1>3, <1>4, <2>1
<1>8. o \in Nat \ {0} /\ Len(b) \in Nat
  <2>1. Len(Then(x, Then(y, s))) \in Nat
    BY <1>5, ThenBytes
  <2> QED
    BY <1>5, <2>1 DEF Rest
<1>9. /\ b[o] = x[1] /\ b[o + 1] = x[2] /\ b[o + 2] = x[3] /\ b[o + 3] = x[4]
      /\ b[o + 4] = y[1] /\ b[(o + 4) + 1] = y[2] /\ b[(o + 4) + 2] = y[3] /\ b[(o + 4) + 3] = y[4]
  <2>1. /\ o - 1 + 1 = o /\ o - 1 + 2 = o + 1 /\ o - 1 + 3 = o + 2 /\ o - 1 + 4 = o + 3
        /\ (o + 4) - 1 + 1 = o + 4 /\ (o + 4) - 1 + 2 = (o + 4) + 1 /\ (o + 4) - 1 + 3 = (o + 4) + 2
        /\ (o + 4) - 1 + 4 = (o + 4) + 3
    BY <1>8
  <2> QED
    BY <1>6, <1>7, <2>1
<1>10. ReadWord(b, o) = v[1] /\ ReadWord(b, o + 4) = v[2]
  <2>1. o \in Nat /\ o + 4 \in Nat
    BY <1>8
  <2> QED
    BY <1>1, <1>3, <1>9, <2>1, WordBack
<1>11. readValue("i64", b, o) = Got(<<v[1], v[2]>>, o + 8)
  <2>1. ~(o + 7 > Len(b))
    BY <1>7, <1>8
  <2> QED
    BY <1>10, <2>1 DEF readValue, ReadI64
<1> QED
  BY <1>1, <1>12, <1>11

LEMMA BoolBack ==
  ASSUME NEW b, NEW o, NEW v \in BOOLEAN, NEW s \in Seq(Bytes), Rest(b, o, Then(ValueBytes("bool", v), s))
  PROVE  readValue("bool", b, o) = Got(v, o + Len(ValueBytes("bool", v)))
<1> DEFINE x == IF v THEN <<1>> ELSE <<0>>
<1>1. ValueBytes("bool", v) = x
  BY DEF ValueBytes
<1>2. x \in Seq(Bytes) /\ Len(x) = 1 /\ (x[1] = 1 <=> v = TRUE)
  <2>1. 0 \in Bytes /\ 1 \in Bytes
    BY DEF Bytes
  <2>2. <<0>> \in Seq(Bytes) /\ <<1>> \in Seq(Bytes) /\ Len(<<0>>) = 1 /\ Len(<<1>>) = 1 /\ <<0>>[1] = 0 /\ <<1>>[1] = 1
    BY <2>1
  <2>3. CASE v = TRUE
    BY <2>2, <2>3
  <2>4. CASE v = FALSE
    BY <2>2, <2>4
  <2> QED
    BY <2>3, <2>4
<1> HIDE DEF x
<1>3. Rest(b, o, Then(x, s)) /\ o \in Nat \ {0} /\ Len(b) \in Nat
  <2>1. Rest(b, o, Then(x, s)) /\ Len(Then(x, s)) \in Nat
    BY <1>1, <1>2, ThenBytes
  <2> QED
    BY <2>1 DEF Rest
<1>4. b[o - 1 + 1] = x[1] /\ o - 1 + 1 <= Len(b)
  <2>1. x \in Seq(Bytes)
    BY <1>2
  <2>3. Rest(b, o, Then(x, s))
    BY <1>3
  <2>2. (\A j \in 1..Len(x) : b[o - 1 + j] = x[j]) /\ o - 1 + Len(x) <= Len(b)
    BY <2>1, <2>3, RestCut
  <2> QED
    BY <1>2, <2>2
<1>5. (b[o] = 1 <=> v = TRUE) /\ ~(o > Len(b))
  BY <1>2, <1>3, <1>4
<1>6. readValue("bool", b, o) = Got(b[o] = 1, o + 1)
  BY <1>5 DEF readValue, ReadBool
<1>7. (b[o] = 1) = v
  BY <1>5
<1> QED
  BY <1>1, <1>2, <1>6, <1>7, Zenon

LEMMA SubSeqIs ==
  ASSUME NEW b, NEW i \in Nat \ {0}, NEW v \in Seq(Bytes), \A j \in 1..Len(v) : b[i - 1 + j] = v[j]
  PROVE  SubSeq(b, i, i - 1 + Len(v)) = v
<1> DEFINE n == i - 1 + Len(v)
<1>1. Len(v) \in Nat /\ n \in Int /\ i \in Int /\ n - i + 1 = Len(v)
  BY LenProperties
<1>2. ASSUME NEW k \in i..n PROVE b[k] \in Bytes
  <2>1. k - i + 1 \in 1..Len(v) /\ i - 1 + (k - i + 1) = k
    BY <1>1
  <2>2. b[k] = v[k - i + 1]
    BY <2>1
  <2> QED
    BY <2>1, <2>2, ElementOfSeq
<1>3. /\ SubSeq(b, i, n) \in Seq(Bytes)
      /\ Len(SubSeq(b, i, n)) = IF i <= n THEN n - i + 1 ELSE 0
      /\ \A j \in 1..(n - i + 1) : SubSeq(b, i, n)[j] = b[i + j - 1]
  <2> HIDE DEF n
  <2> QED
    BY <1>1, <1>2, SubSeqProperties
<1> DEFINE t == SubSeq(b, i, n)
<1>4. t \in Seq(Bytes) /\ Len(t) = Len(v)
  BY <1>1, <1>3
<1>5. ASSUME NEW j \in 1..Len(t) PROVE t[j] = v[j]
  <2>1. j \in 1..(n - i + 1) /\ j \in 1..Len(v) /\ i + j - 1 = i - 1 + j
    BY <1>1, <1>4
  <2> QED
    BY <1>3, <2>1
<1>6. t = v
  <2> HIDE DEF t
  <2> QED
    BY <1>4, <1>5, SeqEqual
<1> QED
  BY <1>6

LEMMA StringBack ==
  ASSUME NEW b, NEW o, NEW v \in Seq(Bytes), NEW s \in Seq(Bytes), Rest(b, o, Then(ValueBytes("string", v), s)),
         Len(b) \in Word
  PROVE  readValue("string", b, o) = Got(v, o + Len(ValueBytes("string", v)))
<1> DEFINE x == U32(Len(v))
<1>1. Len(v) \in Nat
  BY LenProperties
<1>2. /\ x \in Seq(Bytes) /\ Len(x) = 4
      /\ x[1] = Byte(Len(v), 3) /\ x[2] = Byte(Len(v), 2) /\ x[3] = Byte(Len(v), 1) /\ x[4] = Byte(Len(v), 0)
  BY <1>1, U32Typed
<1>3. ValueBytes("string", v) = Then(x, v)
  BY DEF ValueBytes, Then
<1> HIDE DEF x
<1>4. x \in Seq(Bytes) /\ Then(v, s) \in Seq(Bytes) /\ Rest(b, o, Then(x, Then(v, s)))
  BY <1>2, <1>3, ThenBytes, ThenThen
<1>5. Rest(b, o + 4, Then(v, s)) /\ \A j \in 1..4 : b[o - 1 + j] = x[j]
  <2>1. Rest(b, o + Len(x), Then(v, s)) /\ \A j \in 1..Len(x) : b[o - 1 + j] = x[j]
    BY <1>4, RestCut
  <2> QED
    BY <1>2, <2>1
<1>6. (\A j \in 1..Len(v) : b[(o + 4) - 1 + j] = v[j]) /\ (o + 4) - 1 + Len(v) <= Len(b)
  <2>1. Rest(b, o + 4, Then(v, s))
    BY <1>5
  <2> QED
    BY <2>1, RestCut
<1>7. Len(ValueBytes("string", v)) = 4 + Len(v)
  <2>1. Len(Then(x, v)) = Len(x) + Len(v)
    BY <1>4, ThenBytes
  <2> QED
    BY <1>2, <1>3, <2>1
<1>8. o \in Nat \ {0} /\ Len(b) \in Nat
  <2>1. Len(Then(x, Then(v, s))) \in Nat
    BY <1>4, ThenBytes
  <2> QED
    BY <1>4, <2>1 DEF Rest
<1>9. Len(v) \in Word
  <2>1. Len(v) <= Len(b)
    BY <1>1, <1>6, <1>8
  <2> QED
    BY <1>1, <1>8, <2>1, SMT DEF Word
<1>10. ReadWord(b, o) = Len(v)
  <2>1. o \in Nat /\ o - 1 + 1 = o /\ o - 1 + 2 = o + 1 /\ o - 1 + 3 = o + 2 /\ o - 1 + 4 = o + 3
    BY <1>8
  <2>2. b[o] = x[1] /\ b[o + 1] = x[2] /\ b[o + 2] = x[3] /\ b[o + 3] = x[4]
    BY <1>5, <2>1
  <2>3. b[o] = Byte(Len(v), 3) /\ b[o + 1] = Byte(Len(v), 2) /\ b[o + 2] = Byte(Len(v), 1) /\ b[o + 3] = Byte(Len(v), 0)
    BY <1>2, <2>2
  <2> QED
    BY <1>9, <2>1, <2>3, WordBack
<1>11. SubSeq(b, o + 4, o + 3 + Len(v)) = v
  <2>1. o + 4 \in Nat \ {0} /\ (o + 4) - 1 + Len(v) = o + 3 + Len(v)
    BY <1>1, <1>8
  <2>2. \A j \in 1..Len(v) : b[(o + 4) - 1 + j] = v[j]
    BY <1>6
  <2>3. SubSeq(b, o + 4, (o + 4) - 1 + Len(v)) = v
    BY <2>1, <2>2, SubSeqIs
  <2> QED
    BY <2>1, <2>3
<1>12. ~(o + 3 > Len(b)) /\ ~(Len(v) < 0) /\ ~(Len(v) > Len(b) - (o + 3))
  BY <1>1, <1>6, <1>8
<1>13. ReadString(b, o) = Got(SubSeq(b, o + 4, o + 3 + Len(v)), o + 4 + Len(v))
  BY <1>10, <1>12 DEF ReadString
<1>14. o + 4 + Len(v) = o + (4 + Len(v))
  BY <1>1, <1>8
<1>15. readValue("string", b, o) = ReadString(b, o)
  BY DEF readValue
<1> QED
  BY <1>7, <1>11, <1>13, <1>14, <1>15

LEMMA ValueBack ==
  ASSUME NEW typ \in Types, NEW b, NEW o, NEW v \in Valued(typ), NEW s \in Seq(Bytes),
         Rest(b, o, Then(ValueBytes(typ, v), s)), Len(b) \in Word
  PROVE  readValue(typ, b, o) = Got(v, o + Len(ValueBytes(typ, v)))
<1>1. CASE typ = "i64"
  BY <1>1, I64Back DEF Valued
<1>2. CASE typ = "string"
  BY <1>2, StringBack DEF Valued
<1>3. CASE typ = "bool"
  BY <1>3, BoolBack DEF Valued
<1> QED
  BY <1>1, <1>2, <1>3 DEF Types

LEMMA TypeBytes ==
  /\ \A t \in Types : TypeByte[t] \in 1..3 /\ TypeByte[t] \in Bytes
  /\ \A t, u \in Types : TypeByte[t] = TypeByte[u] => t = u
BY DEF Types, TypeByte, Bytes

LEMMA Halves ==
  ASSUME NEW n \in Int, NEW p, NEW q, n >= 0, n < 65536, p = (n \div 256) % 256, q = n % 256
  PROVE  p * 256 + q = n
BY SMT

LEMMA IdBytes ==
  ASSUME NEW n \in Ids16
  PROVE  Byte(n, 1) * 256 + Byte(n, 0) = n
<1>1. n \in Int /\ n >= 0 /\ n < 65536
  BY SMT DEF Ids16
<1>2. Byte(n, 1) = (n \div 256) % 256 /\ Byte(n, 0) = n % 256
  BY <1>1, SMT DEF Byte
<1> QED
  BY <1>1, <1>2, Halves, SMT

LEMMA IdInt == \A n \in Ids16 : n \in Int
BY SMT DEF Ids16

LEMMA OneAndTwo == ASSUME NEW p, NEW q, NEW r PROVE <<p>> \o <<q, r>> = <<p, q, r>>
<1> DEFINE x == <<p>>
           y == <<q, r>>
           z == <<p, q, r>>
           S == {p, q, r}
<1>1. x \in Seq(S) /\ y \in Seq(S) /\ z \in Seq(S) /\ Len(x) = 1 /\ Len(y) = 2 /\ Len(z) = 3
  OBVIOUS
<1>2. x[1] = p /\ y[1] = q /\ y[2] = r /\ z[1] = p /\ z[2] = q /\ z[3] = r
  OBVIOUS
<1> HIDE DEF x, y, z
<1>3. /\ x \o y \in Seq(S) /\ Len(x \o y) = Len(x) + Len(y)
      /\ \A i \in 1..(Len(x) + Len(y)) : (x \o y)[i] = IF i <= Len(x) THEN x[i] ELSE y[i - Len(x)]
  BY <1>1, ConcatProperties
<1>4. Len(x \o y) = 3 /\ \A i \in 1..3 : (x \o y)[i] = IF i <= 1 THEN x[i] ELSE y[i - 1]
  BY <1>1, <1>3
<1>5. x \o y = z
  BY <1>1, <1>2, <1>3, <1>4, SeqEqual
<1> QED
  BY <1>5 DEF x, y, z

\* The type and the id of a field, and the field.
HeadBytes(f) == <<TypeByte[f.type]>> \o U16(f.id)

LEMMA HeadTyped ==
  ASSUME NEW f, f.type \in Types, f.id \in Int
  PROVE  /\ HeadBytes(f) \in Seq(Bytes) /\ Len(HeadBytes(f)) = 3
         /\ HeadBytes(f)[1] = TypeByte[f.type] /\ HeadBytes(f)[2] = Byte(f.id, 1) /\ HeadBytes(f)[3] = Byte(f.id, 0)
<1>2. Byte(f.id, 1) \in Bytes /\ Byte(f.id, 0) \in Bytes /\ TypeByte[f.type] \in Bytes
  BY ByteTyped, TypeBytes
<1>3. HeadBytes(f) = <<TypeByte[f.type], Byte(f.id, 1), Byte(f.id, 0)>>
  BY OneAndTwo DEF HeadBytes, U16
<1> QED
  BY <1>2, <1>3

LEMMA FieldTyped ==
  ASSUME NEW f, f.type \in Types, f.id \in Int, NEW v \in Valued(f.type)
  PROVE  /\ FieldBytes(f, v) = Then(HeadBytes(f), ValueBytes(f.type, v))
         /\ FieldBytes(f, v) \in Seq(Bytes)
         /\ Len(FieldBytes(f, v)) = 3 + Len(ValueBytes(f.type, v))
<1>1. HeadBytes(f) \in Seq(Bytes) /\ Len(HeadBytes(f)) = 3
  BY HeadTyped
<1>2. ValueBytes(f.type, v) \in Seq(Bytes)
  BY ValueBytesTyped
<1>3. FieldBytes(f, v) = Then(HeadBytes(f), ValueBytes(f.type, v))
  BY DEF FieldBytes, HeadBytes, Then
<1>4. /\ Then(HeadBytes(f), ValueBytes(f.type, v)) \in Seq(Bytes)
      /\ Len(Then(HeadBytes(f), ValueBytes(f.type, v))) = Len(HeadBytes(f)) + Len(ValueBytes(f.type, v))
  <2>1. HeadBytes(f) \in Seq(Bytes)
    BY <1>1
  <2> QED
    BY <1>2, <2>1, ThenBytes
<1> QED
  BY <1>1, <1>3, <1>4

LEMMA FieldBack ==
  ASSUME NEW f, f.type \in Types, f.id \in Ids16, NEW v \in Valued(f.type), NEW b, NEW o, NEW s \in Seq(Bytes),
         Rest(b, o, Then(FieldBytes(f, v), s)), Len(b) \in Word
  PROVE  /\ NextField(b, o) = Got([typ |-> TypeByte[f.type], id |-> f.id], o + 3)
         /\ readValue(f.type, b, o + 3) = Got(v, o + Len(FieldBytes(f, v)))
         /\ Skip(TypeByte[f.type], b, o + 3) = Got(v, o + Len(FieldBytes(f, v)))
         /\ Rest(b, o + Len(FieldBytes(f, v)), s)
         /\ o \in 1..Len(b) /\ o + Len(FieldBytes(f, v)) \in (o + 1)..(Len(b) + 1)
<1> DEFINE x == HeadBytes(f)
           y == ValueBytes(f.type, v)
<1>0. f.id \in Int
  BY IdInt
<1>1. /\ x \in Seq(Bytes) /\ Len(x) = 3
      /\ x[1] = TypeByte[f.type] /\ x[2] = Byte(f.id, 1) /\ x[3] = Byte(f.id, 0)
  BY <1>0, HeadTyped
<1>2. y \in Seq(Bytes)
  BY ValueBytesTyped
<1>3. FieldBytes(f, v) = Then(x, y) /\ FieldBytes(f, v) \in Seq(Bytes) /\ Len(FieldBytes(f, v)) = 3 + Len(y)
  BY <1>0, FieldTyped
<1>4. Rest(b, o + Len(FieldBytes(f, v)), s) /\ o - 1 + Len(FieldBytes(f, v)) <= Len(b)
  <2>1. FieldBytes(f, v) \in Seq(Bytes)
    BY <1>3
  <2> QED
    BY <2>1, RestCut
<1> HIDE DEF x, y
<1>5. x \in Seq(Bytes) /\ Then(y, s) \in Seq(Bytes) /\ Rest(b, o, Then(x, Then(y, s)))
  BY <1>1, <1>2, <1>3, ThenBytes, ThenThen
<1>6. Rest(b, o + 3, Then(y, s)) /\ \A j \in 1..3 : b[o - 1 + j] = x[j]
  <2>1. Rest(b, o + Len(x), Then(y, s)) /\ \A j \in 1..Len(x) : b[o - 1 + j] = x[j]
    BY <1>5, RestCut
  <2> QED
    BY <1>1, <2>1
<1>7. o \in Nat \ {0} /\ Len(b) \in Nat /\ Len(y) \in Nat
  <2>1. Len(Then(x, Then(y, s))) \in Nat /\ Len(y) \in Nat
    BY <1>2, <1>5, ThenBytes, LenProperties
  <2> QED
    BY <1>5, <2>1 DEF Rest
<1>8. o \in 1..Len(b) /\ o + Len(FieldBytes(f, v)) \in (o + 1)..(Len(b) + 1) /\ o + 2 <= Len(b)
  BY <1>3, <1>4, <1>7
<1>9. b[o] = TypeByte[f.type] /\ b[o + 1] = Byte(f.id, 1) /\ b[o + 2] = Byte(f.id, 0)
  <2>1. o - 1 + 1 = o /\ o - 1 + 2 = o + 1 /\ o - 1 + 3 = o + 2
    BY <1>7
  <2> QED
    BY <1>1, <1>6, <2>1
<1>10. NextField(b, o) = Got([typ |-> TypeByte[f.type], id |-> f.id], o + 3)
  <2>5. TypeByte[f.type] \in 1..3
    BY TypeBytes
  <2>1. b[o] # TStop
    BY <1>9, <2>5 DEF TStop
  <2>2. ~(o > Len(b)) /\ o <= Len(b) /\ ~(o + 2 > Len(b))
    BY <1>7, <1>8
  <2>3. NextField(b, o) = Got([typ |-> b[o], id |-> b[o + 1] * 256 + b[o + 2]], o + 3)
    BY <2>1, <2>2 DEF NextField
  <2>4. b[o + 1] * 256 + b[o + 2] = f.id
    BY <1>9, IdBytes
  <2> QED
    BY <1>9, <2>3, <2>4
<1>11. readValue(f.type, b, o + 3) = Got(v, o + Len(FieldBytes(f, v)))
  <2>1. readValue(f.type, b, o + 3) = Got(v, (o + 3) + Len(y))
    BY <1>6, ValueBack DEF y
  <2>2. (o + 3) + Len(y) = o + Len(FieldBytes(f, v))
    BY <1>3, <1>7
  <2> QED
    BY <2>1, <2>2
<1>12. Skip(TypeByte[f.type], b, o + 3) = readValue(f.type, b, o + 3)
  <2>1. {t \in Types : TypeByte[t] = TypeByte[f.type]} = {f.type}
    BY TypeBytes
  <2>2. (CHOOSE t \in {f.type} : TRUE) = f.type
    OBVIOUS
  <2> QED
    BY <2>1, <2>2 DEF Skip
<1> QED
  BY <1>4, <1>8, <1>10, <1>11, <1>12

-----------------------------------------------------------------------------
(* Whatever the bytes are, a read gives a value of its type and goes       *)
(* further right, or ends.                                                 *)

LEMMA I64Read ==
  ASSUME NEW b \in Seq(Bytes), NEW i \in 1..(Len(b) + 1), ~(i + 7 > Len(b))
  PROVE  readValue("i64", b, i) = Got(<<ReadWord(b, i), ReadWord(b, i + 4)>>, i + 8)
         /\ <<ReadWord(b, i), ReadWord(b, i + 4)>> \in I64 /\ i + 8 \in (i + 1)..(Len(b) + 1)
<1>1. Len(b) \in Nat
  BY LenProperties
<1>2. i \in 1..Len(b) /\ i + 3 <= Len(b) /\ i + 4 \in 1..Len(b) /\ (i + 4) + 3 <= Len(b)
  BY <1>1
<1>3. ReadWord(b, i) \in Word /\ ReadWord(b, i + 4) \in Word
  BY <1>2, WordTyped
<1> QED
  BY <1>1, <1>3 DEF readValue, ReadI64, I64

LEMMA StringRead ==
  ASSUME NEW b \in Seq(Bytes), NEW i \in 1..(Len(b) + 1), readValue("string", b, i) # Short
  PROVE  \E v \in Seq(Bytes) : \E next \in (i + 1)..(Len(b) + 1) : readValue("string", b, i) = Got(v, next)
<1> DEFINE size == ReadWord(b, i)
<1>1. Len(b) \in Nat
  BY LenProperties
<1>2. readValue("string", b, i) = ReadString(b, i)
  BY DEF readValue
<1>3. ~(i + 3 > Len(b)) /\ ~(size < 0) /\ ~(size > Len(b) - (i + 3))
  BY <1>2 DEF ReadString
<1>4. i \in 1..Len(b) /\ i + 3 <= Len(b)
  BY <1>1, <1>3
<1>5. size \in Word
  BY <1>4, WordTyped
<1>6. size \in Int
  BY <1>5, SMT DEF Word
<1>7. ReadString(b, i) = Got(SubSeq(b, i + 4, i + 3 + size), i + 4 + size)
  BY <1>3 DEF ReadString
<1> HIDE DEF size
<1>8. i + 4 + size \in (i + 1)..(Len(b) + 1) /\ i + 4 \in Int /\ i + 3 + size \in Int
  BY <1>1, <1>3, <1>4, <1>6
<1>9. ASSUME NEW k \in (i + 4)..(i + 3 + size) PROVE b[k] \in Bytes
  <2>1. k \in 1..Len(b)
    BY <1>1, <1>3, <1>4, <1>6
  <2> QED
    BY <2>1, ElementOfSeq
<1>10. SubSeq(b, i + 4, i + 3 + size) \in Seq(Bytes)
  BY <1>8, <1>9, SubSeqProperties
<1> QED
  BY <1>2, <1>7, <1>8, <1>10

LEMMA ReadTyped ==
  ASSUME NEW typ \in Types, NEW b \in Seq(Bytes), NEW i \in 1..(Len(b) + 1), readValue(typ, b, i) # Short
  PROVE  \E v \in Valued(typ) : \E next \in (i + 1)..(Len(b) + 1) : readValue(typ, b, i) = Got(v, next)
<1>1. CASE typ = "i64"
  <2>1. ~(i + 7 > Len(b))
    BY <1>1 DEF readValue, ReadI64
  <2> QED
    BY <1>1, <2>1, I64Read DEF Valued
<1>2. CASE typ = "string"
  BY <1>2, StringRead DEF Valued
<1>3. CASE typ = "bool"
  <2>1. readValue(typ, b, i) = ReadBool(b, i)
    BY <1>3 DEF readValue
  <2>2. ~(i > Len(b)) /\ readValue(typ, b, i) = Got(b[i] = 1, i + 1)
    BY <2>1 DEF ReadBool
  <2>3. i + 1 \in (i + 1)..(Len(b) + 1) /\ (b[i] = 1) \in Valued(typ)
    <3>1. Len(b) \in Nat
      BY LenProperties
    <3> QED
      BY <1>3, <2>2, <3>1 DEF Valued
  <2> QED
    BY <2>2, <2>3
<1> QED
  BY <1>1, <1>2, <1>3 DEF Types

\* Fields as a contract that has been read has them: a type of the three each.
TypedFields(fields) == fields \in Seq(Range(fields)) /\ \A f \in Range(fields) : f.type \in Types /\ f.id \in Int

\* ... and an id of its own each.
Distinct(fields) == \A i, j \in 1..Len(fields) : fields[i].id = fields[j].id => i = j

LEMMA NextOnward ==
  ASSUME NEW b, NEW i \in 1..(Len(b) + 1), Len(b) \in Nat, NextField(b, i).ok, NextField(b, i).v.typ # TStop
  PROVE  NextField(b, i).next = i + 3 /\ i + 3 \in 1..(Len(b) + 1)
<1>1. ~(i > Len(b))
  BY DEF NextField, Short
<1>2. b[i] # TStop
  BY <1>1 DEF NextField, Got
<1>3. ~(i + 2 > Len(b))
  BY <1>1, <1>2 DEF NextField, Short
<1>4. NextField(b, i) = Got([typ |-> b[i], id |-> b[i + 1] * 256 + b[i + 2]], i + 3)
  BY <1>1, <1>2, <1>3 DEF NextField
<1> QED
  BY <1>3, <1>4 DEF Got

LEMMA MetTyped ==
  ASSUME NEW fields, TypedFields(fields), NEW b \in Seq(Bytes), NEW i \in 1..(Len(b) + 1),
         NextField(b, i).ok, NextField(b, i).v.typ # TStop, Met(fields, b, i) # Short
  PROVE  /\ Met(fields, b, i).ok
         /\ Met(fields, b, i).next \in (i + 1)..(Len(b) + 1)
         /\ \A f \in FieldByID(fields, NextField(b, i).v.id) :
               \E g \in FieldByID(fields, NextField(b, i).v.id) : Met(fields, b, i).v \in Valued(g.type)
<1> DEFINE known == FieldByID(fields, NextField(b, i).v.id)
           g == CHOOSE k \in known : TRUE
           t == CHOOSE u \in {x \in Types : TypeByte[x] = NextField(b, i).v.typ} : TRUE
<1>1. Len(b) \in Nat
  BY LenProperties
<1>2. NextField(b, i).next = i + 3 /\ i + 3 \in 1..(Len(b) + 1)
  BY <1>1, NextOnward
<1>3. \A typ \in Types : readValue(typ, b, i + 3) # Short =>
         /\ readValue(typ, b, i + 3).ok /\ readValue(typ, b, i + 3).next \in (i + 1)..(Len(b) + 1)
         /\ readValue(typ, b, i + 3).v \in Valued(typ)
  <2>1. SUFFICES ASSUME NEW typ \in Types, readValue(typ, b, i + 3) # Short
                 PROVE  /\ readValue(typ, b, i + 3).ok /\ readValue(typ, b, i + 3).next \in (i + 1)..(Len(b) + 1)
                        /\ readValue(typ, b, i + 3).v \in Valued(typ)
    OBVIOUS
  <2>2. PICK v \in Valued(typ), next \in ((i + 3) + 1)..(Len(b) + 1) : readValue(typ, b, i + 3) = Got(v, next)
    BY <1>2, <2>1, ReadTyped
  <2>3. next \in (i + 1)..(Len(b) + 1)
    BY <1>1
  <2> QED
    BY <2>2, <2>3 DEF Got
<1>4. CASE known = {}
  <2>1. Met(fields, b, i) = Skip(NextField(b, i).v.typ, b, i + 3)
    BY <1>2, <1>4 DEF Met
  <2>2. {x \in Types : TypeByte[x] = NextField(b, i).v.typ} # {} /\ Skip(NextField(b, i).v.typ, b, i + 3) = readValue(t, b, i + 3)
    BY <2>1 DEF Skip
  <2>3. t \in Types
    BY <2>2
  <2> HIDE DEF t
  <2> QED
    BY <1>3, <1>4, <2>1, <2>2, <2>3
<1>5. CASE known # {}
  <2>1. Met(fields, b, i) = readValue(g.type, b, i + 3)
    BY <1>2, <1>5 DEF Met
  <2>2. g \in known /\ g.type \in Types
    BY <1>5 DEF FieldByID, TypedFields
  <2> HIDE DEF g
  <2> QED
    BY <1>3, <2>1, <2>2
<1> QED
  BY <1>4, <1>5

LEMMA OnwardAll ==
  ASSUME NEW fields, TypedFields(fields), NEW b \in Seq(Bytes), NEW i \in 1..(Len(b) + 1)
  PROVE  Onward(fields, b, i)
<1>1. CASE ~NextField(b, i).ok \/ NextField(b, i).v.typ = TStop
  BY <1>1 DEF Onward, Turned
<1>2. CASE NextField(b, i).ok /\ NextField(b, i).v.typ # TStop /\ Met(fields, b, i) = Short
  <2>1. \A x : Turned(fields, b, i, x) = Short
    BY <1>2 DEF Turned, Kept, Short
  <2> QED
    BY <2>1 DEF Onward
<1>3. CASE NextField(b, i).ok /\ NextField(b, i).v.typ # TStop /\ Met(fields, b, i) # Short
  BY <1>3, MetTyped DEF Onward
<1> QED
  BY <1>1, <1>2, <1>3

LEMMA LoopIs ==
  ASSUME NEW fields, TypedFields(fields), NEW b \in Seq(Bytes)
  PROVE  Loop(fields, b) = [i \in 1..(Len(b) + 1) |-> Turned(fields, b, i, Loop(fields, b)[Met(fields, b, i).next])]
<1>1. Len(b) \in Nat
  BY LenProperties
<1> QED
  BY <1>1, OnwardAll, LoopTurn

-----------------------------------------------------------------------------
(* What the writer has, from each field on. *)

LEMMA TailsTyped ==
  ASSUME NEW parts \in Seq(Seq(Bytes))
  PROVE  \A k \in 1..(Len(parts) + 1) : Tails(parts)[k] \in Seq(Bytes)
<1> DEFINE n == Len(parts) + 1
           S == {k \in 1..n : Tails(parts)[k] \in Seq(Bytes)}
<1>1. Len(parts) \in Nat /\ n \in Nat
  BY LenProperties
<1>2. \A k \in 1..n : Tails(parts)[k] = IF k > Len(parts) THEN <<TStop>> ELSE parts[k] \o Tails(parts)[k + 1]
  BY <1>1, TailsTurn
<1>3. ASSUME NEW k \in 1..n, \A j \in (k + 1)..n : j \in S PROVE k \in S
  <2>1. CASE k > Len(parts)
    <3>1. 0 \in Bytes
      BY DEF Bytes
    <3>2. <<TStop>> \in Seq(Bytes)
      BY <3>1 DEF TStop
    <3> QED
      BY <1>2, <2>1, <3>2
  <2>2. CASE ~(k > Len(parts))
    <3>1. k + 1 \in (k + 1)..n /\ k \in 1..Len(parts)
      BY <1>1, <2>2
    <3>2. parts[k] \in Seq(Bytes) /\ Tails(parts)[k + 1] \in Seq(Bytes)
      BY <1>3, <3>1, ElementOfSeq
    <3> QED
      BY <1>2, <2>2, <3>2, ConcatProperties
  <2> QED
    BY <2>1, <2>2
<1> HIDE DEF S, n
<1>4. \A k \in 1..n : k \in S
  BY <1>1, <1>3, Falls
<1> QED
  BY <1>4 DEF S, n

LEMMA TailsShort ==
  ASSUME NEW parts \in Seq(Seq(Bytes)), \A k \in 1..Len(parts) : Len(parts[k]) <= 11
  PROVE  \A k \in 1..(Len(parts) + 1) : Len(Tails(parts)[k]) <= 11 * (Len(parts) + 2 - k)
<1> DEFINE n == Len(parts) + 1
           most(k) == 11 * (Len(parts) + 2 - k)
           S == {k \in 1..n : Len(Tails(parts)[k]) <= most(k)}
<1>1. Len(parts) \in Nat /\ n \in Nat
  BY LenProperties
<1>6. \A k \in 1..n : most(k) \in Nat /\ most(k) >= 11
  BY <1>1
<1>7. \A k \in 1..Len(parts) : most(k) = 11 + most(k + 1)
  BY <1>1
<1> HIDE DEF most
<1>2. \A k \in 1..n : Tails(parts)[k] = IF k > Len(parts) THEN <<TStop>> ELSE Then(parts[k], Tails(parts)[k + 1])
  BY <1>1, TailsTurn DEF Then
<1>3. ASSUME NEW k \in 1..n, \A j \in (k + 1)..n : j \in S PROVE k \in S
  <2>1. CASE k > Len(parts)
    <3>1. k = Len(parts) + 1 /\ Tails(parts)[k] = <<TStop>>
      BY <1>1, <1>2, <2>1
    <3>2. Len(<<TStop>>) = 1
      OBVIOUS
    <3>3. Len(Tails(parts)[k]) <= most(k)
      BY <1>6, <3>1, <3>2
    <3> QED
      BY <3>3
  <2>2. CASE ~(k > Len(parts))
    <3>1. k + 1 \in (k + 1)..n /\ k \in 1..Len(parts)
      BY <1>1, <2>2
    <3>2. parts[k] \in Seq(Bytes) /\ Tails(parts)[k + 1] \in Seq(Bytes)
      BY <3>1, TailsTyped, ElementOfSeq
    <3>3. Tails(parts)[k] = Then(parts[k], Tails(parts)[k + 1])
      BY <1>2, <2>2
    <3>4. Len(Tails(parts)[k + 1]) <= most(k + 1)
      BY <1>3, <3>1
    <3>5. Len(Then(parts[k], Tails(parts)[k + 1])) = Len(parts[k]) + Len(Tails(parts)[k + 1])
      BY <3>2, ThenBytes
    <3>6. Len(parts[k]) \in Nat /\ Len(Tails(parts)[k + 1]) \in Nat
      BY <3>2, LenProperties
    <3>7. Len(parts[k]) <= 11
      BY <3>1
    <3>8. most(k) = 11 + most(k + 1) /\ most(k + 1) \in Nat
      BY <1>1, <1>6, <1>7, <3>1
    <3>10. Len(Tails(parts)[k]) = Len(parts[k]) + Len(Tails(parts)[k + 1])
      BY <3>3, <3>5
    <3>11. \A x, y, p, q \in Nat : (x <= 11 /\ y <= q /\ p = 11 + q) => x + y <= p
      OBVIOUS
    <3>12. most(k) \in Nat
      BY <1>6
    <3>13. Len(parts[k]) + Len(Tails(parts)[k + 1]) <= most(k)
      BY <3>4, <3>6, <3>7, <3>8, <3>11, <3>12
    <3>9. Len(Tails(parts)[k]) <= most(k)
      BY <3>10, <3>13
    <3> QED
      BY <3>9
  <2> QED
    BY <2>1, <2>2
<1> HIDE DEF S, n
<1>4. \A k \in 1..n : k \in S
  BY <1>1, <1>3, Falls
<1> QED
  BY <1>4 DEF S, n, most

-----------------------------------------------------------------------------
(* What the reader has of what the writer wrote, for any two contracts     *)
(* that agree.                                                             *)

\* Parts are the bytes of the fields at G, each with its value.
Parted(w, G, val, parts) ==
    /\ parts = [i \in 1..Len(w) |-> parts[i]]
    /\ \A i \in 1..Len(w) : IF i \in G THEN val[i] \in Valued(w[i].type) /\ parts[i] = FieldBytes(w[i], val[i])
                            ELSE parts[i] = <<>>

\* The values from the k-th field on, at the fields of r that have the ids.
Heard(r, w, G, val, k, m) ==
    /\ DOMAIN m = {f.name : f \in {g \in Range(r) : \E i \in G : i >= k /\ w[i].id = g.id}}
    /\ \A f \in Range(r) : \A i \in G : (i >= k /\ w[i].id = f.id /\ Alone(f, r)) => m[f.name] = val[i]

LEMMA PartedTyped ==
  ASSUME NEW w, TypedFields(w), NEW G \in SUBSET (1..Len(w)), NEW val,
         NEW parts, Parted(w, G, val, parts)
  PROVE  parts \in Seq(Seq(Bytes)) /\ Len(parts) = Len(w)
<1>1. Len(w) \in Nat /\ DOMAIN w = 1..Len(w)
  BY LenProperties DEF TypedFields
<1>2. ASSUME NEW i \in 1..Len(w) PROVE parts[i] \in Seq(Bytes)
  <2>1. CASE i \in G
    <3>1. w[i] \in Range(w)
      BY <1>1 DEF Range
    <3>2. w[i].type \in Types /\ w[i].id \in Int /\ val[i] \in Valued(w[i].type)
      BY <2>1, <3>1 DEF TypedFields, Parted
    <3>3. FieldBytes(w[i], val[i]) \in Seq(Bytes)
      BY <3>2, FieldTyped
    <3> QED
      BY <2>1, <3>3 DEF Parted
  <2>2. CASE i \notin G
    <3>1. parts[i] = <<>>
      BY <2>2 DEF Parted
    <3> QED
      BY <3>1, EmptySeq
  <2> QED
    BY <2>1, <2>2
<1>3. parts = [i \in 1..Len(w) |-> parts[i]]
  BY DEF Parted
<1>4. [i \in 1..Len(w) |-> parts[i]] \in Seq(Seq(Bytes)) /\ Len([i \in 1..Len(w) |-> parts[i]]) = Len(w)
  BY <1>1, <1>2
<1> QED
  BY <1>3, <1>4

LEMMA KeptHeard ==
  ASSUME NEW r, NEW w, Distinct(w), TypedFields(w), NEW G \in SUBSET (1..Len(w)), NEW val, NEW k \in G,
         NEW rest, rest.ok, Heard(r, w, G, val, k + 1, rest.m), NEW next
  PROVE  LET x == Kept(FieldByID(r, w[k].id), Got(val[k], next), rest)
         IN  x.ok /\ Heard(r, w, G, val, k, x.m)
<1> DEFINE known == FieldByID(r, w[k].id)
           m == rest.m
           x == Kept(known, Got(val[k], next), rest)
           at(j) == {g \in Range(r) : \E i \in G : i >= j /\ w[i].id = g.id}
<1>1. Len(w) \in Nat /\ \A i \in G : i \in Nat /\ (i >= k <=> i = k \/ i >= k + 1) /\ ~(k >= k + 1)
  BY LenProperties DEF TypedFields
<1>2. at(k) = at(k + 1) \cup known
  BY <1>1 DEF FieldByID
<1>3. DOMAIN m = {f.name : f \in at(k + 1)}
  BY DEF Heard
<1>4. CASE known = {}
  <2>1. x = rest
    BY <1>4 DEF Kept, Got
  <2>2. \A f \in Range(r) : w[k].id # f.id
    BY <1>4 DEF FieldByID
  <2>3. Heard(r, w, G, val, k, m)
    <3>1. DOMAIN m = {f.name : f \in at(k)}
      BY <1>2, <1>3, <1>4
    <3>2. ASSUME NEW f \in Range(r), NEW i \in G, i >= k, w[i].id = f.id, Alone(f, r) PROVE m[f.name] = val[i]
      <4>1. i >= k + 1
        BY <1>1, <2>2, <3>2
      <4> QED
        BY <3>2, <4>1 DEF Heard
    <3> QED
      BY <3>1, <3>2 DEF Heard
  <2> QED
    BY <2>1, <2>3
<1>5. CASE known # {}
  <2>1. x.ok /\ x.m = [n \in DOMAIN m \cup {f.name : f \in known} |-> IF n \in DOMAIN m THEN m[n] ELSE val[k]]
    BY <1>5 DEF Kept, Got
  <2>2. DOMAIN x.m = {f.name : f \in at(k)}
    BY <1>2, <1>3, <2>1
  <2>3. ASSUME NEW f \in Range(r), NEW i \in G, i >= k, w[i].id = f.id, Alone(f, r) PROVE x.m[f.name] = val[i]
    <3>1. CASE i = k
      <4>1. f \in known
        BY <2>3, <3>1 DEF FieldByID
      <4>2. f.name \notin DOMAIN m
        <5>1. SUFFICES ASSUME NEW g \in at(k + 1), g.name = f.name PROVE FALSE
          BY <1>3
        <5>2. PICK j \in G : j >= k + 1 /\ w[j].id = g.id
          OBVIOUS
        <5>3. g.id = f.id
          BY <2>3, <5>1 DEF Alone
        <5>4. j = k
          BY <2>3, <3>1, <5>2, <5>3 DEF Distinct
        <5> QED
          BY <1>1, <5>2, <5>4
      <4> QED
        BY <2>1, <3>1, <4>1, <4>2
    <3>2. CASE i # k
      <4>1. i >= k + 1
        BY <1>1, <2>3, <3>2
      <4>2. m[f.name] = val[i]
        BY <2>3, <4>1 DEF Heard
      <4>3. f.name \in DOMAIN m
        BY <1>3, <2>3, <4>1
      <4> QED
        BY <2>1, <4>2, <4>3
    <3> QED
      BY <3>1, <3>2
  <2> QED
    BY <2>1, <2>2, <2>3 DEF Heard
<1> QED
  BY <1>4, <1>5

LEMMA RoundTrip ==
  ASSUME NEW r, TypedFields(r), NEW w, TypedFields(w), Distinct(w), \A f \in Range(w) : f.id \in Ids16,
         \A f \in Range(w), g \in Range(r) : f.id = g.id => f.type = g.type,
         NEW G \in SUBSET (1..Len(w)), NEW val, NEW parts, Parted(w, G, val, parts), Len(Written(parts)) \in Word
  PROVE  Read(r, Written(parts)).ok /\ Heard(r, w, G, val, 1, Read(r, Written(parts)).m)
<1> DEFINE n == Len(w) + 1
           b == Written(parts)
           S == {k \in 1..n : \A o : Rest(b, o, Tails(parts)[k]) =>
                                        /\ Loop(r, b)[o].ok
                                        /\ Heard(r, w, G, val, k, Loop(r, b)[o].m)}
<1>1. Len(w) \in Nat /\ n \in Nat /\ 1 \in 1..n /\ DOMAIN w = 1..Len(w)
  BY LenProperties DEF TypedFields
<1>2. parts \in Seq(Seq(Bytes)) /\ Len(parts) = Len(w)
  BY PartedTyped
<1>3. /\ \A k \in 1..n : Tails(parts)[k] = IF k > Len(w) THEN <<TStop>> ELSE Then(parts[k], Tails(parts)[k + 1])
      /\ \A k \in 1..n : Tails(parts)[k] \in Seq(Bytes)
  BY <1>1, <1>2, TailsTurn, TailsTyped DEF Then
<1>4. b \in Seq(Bytes) /\ b = Tails(parts)[1] /\ Len(b) \in Word /\ Len(b) \in Nat
  BY <1>1, <1>3, LenProperties DEF Written
<1> HIDE DEF b
<1>5. \A i \in 1..(Len(b) + 1) : Loop(r, b)[i] = Turned(r, b, i, Loop(r, b)[Met(r, b, i).next])
  BY <1>4, LoopIs
<1>6. ASSUME NEW k \in 1..n, \A j \in (k + 1)..n : j \in S PROVE k \in S
  <2>1. SUFFICES ASSUME NEW o, Rest(b, o, Tails(parts)[k])
                 PROVE  /\ Loop(r, b)[o].ok
                        /\ Heard(r, w, G, val, k, Loop(r, b)[o].m)
    BY DEF S
  <2>2. CASE k > Len(w)
    <3>1. Tails(parts)[k] = <<TStop>> /\ Len(<<TStop>>) = 1 /\ <<TStop>>[1] = TStop
      BY <1>3, <2>2
    <3>2. o \in Nat \ {0} /\ Len(b) = o /\ b[o] = TStop
      <4>1. o \in Nat \ {0} /\ Len(b) = o - 1 + 1 /\ b[o - 1 + 1] = TStop
        BY <2>1, <3>1 DEF Rest
      <4> QED
        BY <4>1
    <3>3. NextField(b, o).ok /\ NextField(b, o).v.typ = TStop
      BY <3>2 DEF NextField, Got
    <3>4. o \in 1..(Len(b) + 1)
      BY <3>2
    <3>5. Loop(r, b)[o] = [ok |-> TRUE, m |-> <<>>]
      BY <1>5, <3>3, <3>4 DEF Turned
    <3>6. Heard(r, w, G, val, k, <<>>)
      <4>1. \A i \in G : ~(i >= k)
        BY <1>1, <2>2
      <4>2. DOMAIN <<>> = {}
        OBVIOUS
      <4> QED
        BY <4>1, <4>2 DEF Heard
    <3> QED
      BY <3>5, <3>6
  <2>3. CASE ~(k > Len(w)) /\ k \notin G
    <3>1. k \in 1..Len(w) /\ k + 1 \in (k + 1)..n
      BY <1>1, <2>3
    <3>2. Tails(parts)[k] = Then(<<>>, Tails(parts)[k + 1]) /\ Tails(parts)[k + 1] \in Seq(Bytes)
      BY <1>3, <2>3, <3>1 DEF Parted
    <3>3. Tails(parts)[k] = Tails(parts)[k + 1]
      BY <3>2, ConcatEmptySeq DEF Then
    <3>4. k + 1 \in S
      BY <1>6, <3>1
    <3>5. Loop(r, b)[o].ok /\ Heard(r, w, G, val, k + 1, Loop(r, b)[o].m)
      BY <2>1, <3>3, <3>4 DEF S
    <3>6. \A i \in G : i >= k <=> i >= k + 1
      BY <1>1, <2>3, <3>1
    <3> QED
      BY <3>5, <3>6 DEF Heard
  <2>4. CASE ~(k > Len(w)) /\ k \in G
    <3>1. k \in 1..Len(w) /\ k + 1 \in (k + 1)..n
      BY <1>1, <2>4
    <3>2. w[k] \in Range(w)
      BY <1>1, <3>1 DEF Range
    <3>3. w[k].type \in Types /\ w[k].id \in Ids16 /\ val[k] \in Valued(w[k].type) /\ parts[k] = FieldBytes(w[k], val[k])
      BY <2>4, <3>1, <3>2 DEF TypedFields, Parted
    <3>4. Tails(parts)[k + 1] \in Seq(Bytes) /\ Rest(b, o, Then(FieldBytes(w[k], val[k]), Tails(parts)[k + 1]))
      BY <1>3, <2>1, <2>4, <3>1, <3>3
    <3> DEFINE f == w[k]
               v == val[k]
               to == o + Len(FieldBytes(f, v))
    <3>5. /\ NextField(b, o) = Got([typ |-> TypeByte[f.type], id |-> f.id], o + 3)
          /\ readValue(f.type, b, o + 3) = Got(v, to)
          /\ Skip(TypeByte[f.type], b, o + 3) = Got(v, to)
          /\ Rest(b, to, Tails(parts)[k + 1])
          /\ o \in 1..Len(b)
      <4>1. f.type \in Types /\ f.id \in Ids16 /\ v \in Valued(f.type) /\ Rest(b, o, Then(FieldBytes(f, v), Tails(parts)[k + 1]))
        BY <3>3, <3>4
      <4> HIDE DEF f, v
      <4> QED
        BY <1>4, <3>4, <4>1, FieldBack
    <3>13. /\ NextField(b, o).ok /\ NextField(b, o).v.typ = TypeByte[w[k].type] /\ NextField(b, o).v.id = w[k].id
           /\ NextField(b, o).next = o + 3
      BY <3>5 DEF Got
    <3> HIDE DEF to
    <3>6. TypeByte[w[k].type] # TStop
      <4>1. TypeByte[w[k].type] \in 1..3
        BY <3>3, TypeBytes
      <4> QED
        BY <4>1 DEF TStop
    <3>7. Met(r, b, o) = Got(val[k], to)
      <4>1. CASE FieldByID(r, w[k].id) = {}
        BY <3>5, <3>13, <4>1 DEF Met
      <4>2. CASE FieldByID(r, w[k].id) # {}
        <5>1. (CHOOSE g \in FieldByID(r, w[k].id) : TRUE).type = w[k].type
          BY <3>2, <4>2 DEF FieldByID
        <5> QED
          BY <3>5, <3>13, <4>2, <5>1 DEF Met
      <4> QED
        BY <4>1, <4>2
    <3>8. Loop(r, b)[o] = Kept(FieldByID(r, w[k].id), Got(val[k], to), Loop(r, b)[to])
      <4>1. o \in 1..(Len(b) + 1)
        <5>1. o \in 1..Len(b) /\ Len(b) \in Nat
          BY <1>4, <3>5
        <5> QED
          BY <5>1
      <4>2. Loop(r, b)[o] = Turned(r, b, o, Loop(r, b)[Met(r, b, o).next])
        BY <1>5, <4>1
      <4>3. Met(r, b, o).next = to
        BY <3>7 DEF Got
      <4>4. Loop(r, b)[o] = Turned(r, b, o, Loop(r, b)[to])
        BY <4>2, <4>3
      <4> QED
        BY <3>6, <3>7, <3>13, <4>4 DEF Turned
    <3>9. Loop(r, b)[to].ok /\ Heard(r, w, G, val, k + 1, Loop(r, b)[to].m)
      <4>1. k + 1 \in S
        BY <1>6, <3>1
      <4> QED
        BY <3>5, <4>1 DEF S
    <3> QED
      BY <2>4, <3>8, <3>9, KeptHeard
  <2> QED
    BY <2>2, <2>3, <2>4
<1>7. 1 \in S
  <2> HIDE DEF S, n
  <2>1. \A k \in 1..n : k \in S
    BY <1>1, <1>6, Falls
  <2> QED
    BY <1>1, <2>1
<1>8. Rest(b, 1, Tails(parts)[1])
  <2>1. b = Tails(parts)[1] /\ Len(b) \in Nat
    BY <1>4
  <2>2. Len(b) = 1 - 1 + Len(b) /\ \A j \in 1..Len(b) : 1 - 1 + j = j
    BY <2>1
  <2>3. Rest(b, 1, b)
    BY <2>2 DEF Rest
  <2> QED
    BY <2>1, <2>3
<1>9. Loop(r, b)[1].ok /\ Heard(r, w, G, val, 1, Loop(r, b)[1].m)
  BY <1>7, <1>8
<1> QED
  BY <1>9 DEF b, Read

\* What was read is by the names and of the types of the contract.
Fits(fields, m) == \A n \in DOMAIN m : \E f \in Range(fields) : f.name = n /\ m[n] \in Valued(f.type)

LEMMA OneOfId ==
  ASSUME NEW fields, TypedFields(fields), Distinct(fields), NEW f \in Range(fields), NEW g \in Range(fields), f.id = g.id
  PROVE  f = g
<1>1. DOMAIN fields = 1..Len(fields)
  BY LenProperties DEF TypedFields
<1>2. PICK i \in 1..Len(fields), j \in 1..Len(fields) : f = fields[i] /\ g = fields[j]
  BY <1>1 DEF Range
<1> QED
  BY <1>2 DEF Distinct

LEMMA ReadFits ==
  ASSUME NEW fields, TypedFields(fields), Distinct(fields), NEW b \in Seq(Bytes), Read(fields, b).ok
  PROVE  Fits(fields, Read(fields, b).m)
<1> DEFINE n == Len(b) + 1
           at(i) == Loop(fields, b)[i]
           S == {i \in 1..n : at(i).ok => Fits(fields, at(i).m)}
<1>1. Len(b) \in Nat /\ n \in Nat /\ 1 \in 1..n
  BY LenProperties
<1>2. \A i \in 1..n : at(i) = Turned(fields, b, i, at(Met(fields, b, i).next))
  BY LoopIs
<1> HIDE DEF at
<1>3. ASSUME NEW i \in 1..n, \A j \in (i + 1)..n : j \in S PROVE i \in S
  <2>1. SUFFICES ASSUME at(i).ok PROVE Fits(fields, at(i).m)
    BY DEF S
  <2> DEFINE known == FieldByID(fields, NextField(b, i).v.id)
             met == Met(fields, b, i)
             rest == at(met.next)
  <2>2. at(i) = Turned(fields, b, i, rest)
    BY <1>2
  <2>3. NextField(b, i).ok
    BY <2>1, <2>2 DEF Turned, Short
  <2>4. CASE NextField(b, i).v.typ = TStop
    <3>1. at(i).m = <<>>
      BY <2>2, <2>3, <2>4 DEF Turned
    <3>2. DOMAIN <<>> = {}
      OBVIOUS
    <3> QED
      BY <3>1, <3>2 DEF Fits
  <2>5. CASE NextField(b, i).v.typ # TStop
    <3>1. at(i) = Kept(known, met, rest)
      BY <2>2, <2>3, <2>5 DEF Turned
    <3>2. met.ok /\ rest.ok
      BY <2>1, <3>1 DEF Kept, Short
    <3>3. met # Short
      BY <3>2 DEF Short
    <3>4. /\ met.next \in (i + 1)..(Len(b) + 1)
          /\ \A f \in known : \E g \in known : met.v \in Valued(g.type)
      BY <2>3, <2>5, <3>3, MetTyped
    <3>5. Fits(fields, rest.m)
      <4>1. met.next \in S
        BY <1>3, <3>4
      <4> QED
        BY <3>2, <4>1 DEF S
    <3>6. \A f \in known : f \in Range(fields) /\ met.v \in Valued(f.type)
      <4>1. \A f, g \in known : f = g
        BY OneOfId DEF FieldByID
      <4> QED
        BY <3>4, <4>1 DEF FieldByID
    <3> HIDE DEF known, met, rest
    <3>7. CASE known = {}
      BY <3>1, <3>2, <3>5, <3>7 DEF Kept
    <3>8. CASE known # {}
      <4>1. at(i).m = [x \in DOMAIN rest.m \cup {f.name : f \in known} |-> IF x \in DOMAIN rest.m THEN rest.m[x] ELSE met.v]
        BY <3>1, <3>2, <3>8 DEF Kept
      <4>2. ASSUME NEW x \in DOMAIN at(i).m PROVE \E f \in Range(fields) : f.name = x /\ at(i).m[x] \in Valued(f.type)
        <5>1. CASE x \in DOMAIN rest.m
          <6>1. at(i).m[x] = rest.m[x]
            BY <4>1, <5>1
          <6> QED
            BY <3>5, <5>1, <6>1 DEF Fits
        <5>2. CASE x \notin DOMAIN rest.m
          <6>1. PICK f \in known : f.name = x
            BY <4>1, <4>2, <5>2
          <6>2. at(i).m[x] = met.v
            BY <4>1, <4>2, <5>2
          <6> QED
            BY <3>6, <6>1, <6>2
        <5> QED
          BY <5>1, <5>2
      <4> QED
        BY <4>2 DEF Fits
    <3> QED
      BY <3>7, <3>8
  <2> QED
    BY <2>4, <2>5
<1>4. 1 \in S
  <2> HIDE DEF S, n
  <2>1. \A k \in 1..n : k \in S
    BY <1>1, <1>3, Falls
  <2> QED
    BY <1>1, <2>1
<1> QED
  BY <1>4 DEF S, at, Read

-----------------------------------------------------------------------------
(* A contract that has been read: the fields of its structs have types of  *)
(* the three and ids of their own, and the structs its methods name are    *)
(* there.                                                                  *)

FieldLines == [k : {"field"}, id : Int, type : STRING, name : STRING]
StructMaps == UNION {[D -> Seq(FieldLines)] : D \in SUBSET STRING}
Places == {"top", "service", "struct"}
Names  == STRING \cup {NoName}
ParseStates ==
    [at : Places, cur : Names, service : Names, methods : Seq(LineForms), structs : StructMaps, ok : BOOLEAN]

Sound(s) ==
    /\ s \in ParseStates
    /\ s.ok => \A n \in DOMAIN s.structs : \A i \in 1..Len(s.structs[n]) : s.structs[n][i].type \in Types

LEMMA StartSound == Sound(Start)
<1>1. <<>> \in Seq(LineForms)
  BY EmptySeq
<1>2. <<>> \in [{} -> Seq(FieldLines)] /\ {} \in SUBSET STRING /\ DOMAIN <<>> = {}
  OBVIOUS
<1>3. <<>> \in StructMaps
  BY <1>2 DEF StructMaps
<1>4. Start \in ParseStates
  BY <1>1, <1>3 DEF Start, ParseStates, Places, Names
<1>5. Start.structs = <<>>
  BY DEF Start
<1> QED
  BY <1>2, <1>4, <1>5 DEF Sound

LEMMA FieldKept ==
  ASSUME NEW st \in StructMaps, NEW cur, NEW line \in FieldLines
  PROVE  /\ [st EXCEPT ![cur] = Append(@, line)] \in StructMaps
         /\ (/\ \A n \in DOMAIN st : \A i \in 1..Len(st[n]) : st[n][i].type \in Types
             /\ line.type \in Types)
            => \A n \in DOMAIN st : \A i \in 1..Len([st EXCEPT ![cur] = Append(@, line)][n]) :
                  [st EXCEPT ![cur] = Append(@, line)][n][i].type \in Types
<1> DEFINE new == [st EXCEPT ![cur] = Append(@, line)]
<1>1. PICK D \in SUBSET STRING : st \in [D -> Seq(FieldLines)]
  BY DEF StructMaps
<1>2. DOMAIN st = D /\ DOMAIN new = D /\ \A n \in D : st[n] \in Seq(FieldLines)
                                         /\ new[n] = IF n = cur THEN Append(st[n], line) ELSE st[n]
  BY <1>1
<1>3. \A n \in D : Append(st[n], line) \in Seq(FieldLines)
  BY <1>2, AppendProperties
<1>4. new = [n \in D |-> new[n]]
  BY <1>1
<1>5. new \in [D -> Seq(FieldLines)]
  <2> HIDE DEF new
  <2>1. \A n \in D : new[n] \in Seq(FieldLines)
    BY <1>2, <1>3
  <2> QED
    BY <1>4, <2>1
<1>6. new \in StructMaps
  BY <1>5 DEF StructMaps
<1>7. ASSUME \A n \in DOMAIN st : \A i \in 1..Len(st[n]) : st[n][i].type \in Types, line.type \in Types,
             NEW n \in D, NEW i \in 1..Len(new[n])
      PROVE  new[n][i].type \in Types
  <2> HIDE DEF new
  <2>1. CASE n = cur
    <3> DEFINE old == st[n]
               more == Append(old, line)
    <3>4. new[n] = more /\ old \in Seq(FieldLines)
      BY <1>2, <2>1
    <3> HIDE DEF old
    <3>5. /\ Len(more) = Len(old) + 1 /\ Len(old) \in Nat
          /\ \A j \in 1..Len(old) : more[j] = old[j]
          /\ more[Len(old) + 1] = line
      BY <3>4, AppendProperties, LenProperties
    <3> HIDE DEF more
    <3>6. i \in 1..Len(old) \/ i = Len(old) + 1
      <4>1. i \in 1..Len(more)
        BY <1>7, <3>4
      <4> QED
        BY <3>5, <4>1
    <3>3. new[n][i] = line \/ (i \in 1..Len(st[n]) /\ new[n][i] = st[n][i])
      <4>1. new[n][i] = line \/ (i \in 1..Len(old) /\ new[n][i] = old[i])
        BY <3>4, <3>5, <3>6
      <4> QED
        BY <4>1 DEF old
    <3> QED
      BY <1>2, <1>7, <3>3
  <2>2. CASE n # cur
    BY <1>2, <1>7, <2>2
  <2> QED
    BY <2>1, <2>2
<1> QED
  BY <1>2, <1>6, <1>7

LEMMA StructKept ==
  ASSUME NEW st \in StructMaps, NEW name \in STRING
  PROVE  /\ NewStruct(st, name) \in StructMaps
         /\ (\A n \in DOMAIN st : \A i \in 1..Len(st[n]) : st[n][i].type \in Types)
            => \A n \in DOMAIN NewStruct(st, name) : \A i \in 1..Len(NewStruct(st, name)[n]) :
                  NewStruct(st, name)[n][i].type \in Types
<1>1. PICK D \in SUBSET STRING : st \in [D -> Seq(FieldLines)]
  BY DEF StructMaps
<1>2. <<>> \in Seq(FieldLines) /\ Len(<<>>) = 0
  BY EmptySeq
<1>3. NewStruct(st, name) \in [D \cup {name} -> Seq(FieldLines)] /\ D \cup {name} \in SUBSET STRING
  BY <1>1, <1>2 DEF NewStruct
<1>4. NewStruct(st, name) \in StructMaps
  BY <1>3 DEF StructMaps
<1>5. ASSUME \A n \in DOMAIN st : \A i \in 1..Len(st[n]) : st[n][i].type \in Types,
             NEW n \in DOMAIN st \cup {name}, NEW i \in 1..Len(NewStruct(st, name)[n])
      PROVE  NewStruct(st, name)[n][i].type \in Types
  <2>1. CASE n = name
    <3>1. NewStruct(st, name)[n] = <<>>
      BY <2>1 DEF NewStruct
    <3> QED
      BY <1>2, <1>5, <3>1
  <2>2. CASE n # name
    <3>1. n \in DOMAIN st /\ NewStruct(st, name)[n] = st[n]
      BY <2>2 DEF NewStruct
    <3> QED
      BY <1>5, <3>1
  <2> QED
    BY <2>1, <2>2
<1>6. DOMAIN NewStruct(st, name) = DOMAIN st \cup {name}
  BY DEF NewStruct
<1> QED
  BY <1>4, <1>5, <1>6

LEMMA LineSound ==
  ASSUME NEW s, Sound(s), NEW line \in LineForms, NEW t, t = ParseLine(line, s)
  PROVE  Sound(t)
<1> DEFINE Typed(st) == \A n \in DOMAIN st : \A i \in 1..Len(st[n]) : st[n][i].type \in Types
<1>1. s \in ParseStates /\ s.structs \in StructMaps /\ s.methods \in Seq(LineForms) /\ (s.ok => Typed(s.structs))
  BY DEF Sound, ParseStates
<1>2. \A st : Typed(st) <=> \A n \in DOMAIN st : \A i \in 1..Len(st[n]) : st[n][i].type \in Types
  OBVIOUS
<1>3. Sound(t) <=> t \in ParseStates /\ (t.ok => Typed(t.structs))
  BY DEF Sound
<1> HIDE DEF Typed
<1>4. "top" \in Places /\ "service" \in Places /\ "struct" \in Places /\ NoName \in Names /\ STRING \subseteq Names
  BY DEF Places, Names
<1>5. CASE t = s
  BY <1>1, <1>3, <1>5
<1>6. CASE t = [s EXCEPT !.at = "top", !.cur = NoName]
  <2>1. t \in ParseStates /\ t.ok = s.ok /\ t.structs = s.structs
    BY <1>1, <1>4, <1>6 DEF ParseStates
  <2> QED
    BY <1>1, <1>3, <2>1
<1>7. CASE line.k = "service" /\ s.ok /\ t = [s EXCEPT !.at = "service", !.service = line.name, !.ok = line.name # NoName]
  <2>1. line.name \in Names /\ (line.name # NoName) \in BOOLEAN
    BY <1>4, <1>7 DEF LineForms
  <2>2. t \in ParseStates /\ t.structs = s.structs
    BY <1>1, <1>4, <1>7, <2>1 DEF ParseStates
  <2> QED
    BY <1>1, <1>3, <1>7, <2>2
<1>8. CASE /\ line.k = "struct" /\ s.ok
           /\ t = [s EXCEPT !.at = "struct", !.cur = line.name, !.structs = NewStruct(@, line.name), !.ok = line.name # NoName]
  <2>1. line.name \in STRING /\ line.name \in Names /\ (line.name # NoName) \in BOOLEAN
    BY <1>4, <1>8 DEF LineForms
  <2>2. NewStruct(s.structs, line.name) \in StructMaps /\ (Typed(s.structs) => Typed(NewStruct(s.structs, line.name)))
    BY <1>1, <1>2, <2>1, StructKept
  <2>3. t \in ParseStates /\ t.structs = NewStruct(s.structs, line.name)
    BY <1>1, <1>4, <1>8, <2>1, <2>2 DEF ParseStates
  <2> QED
    BY <1>1, <1>3, <1>8, <2>2, <2>3
<1>9. CASE s.ok /\ t = [s EXCEPT !.methods = Append(@, line), !.ok = NoName \notin {line.name, line.req, line.resp}]
  <2>1. Append(s.methods, line) \in Seq(LineForms) /\ (NoName \notin {line.name, line.req, line.resp}) \in BOOLEAN
    BY <1>1, AppendProperties
  <2>2. t \in ParseStates /\ t.structs = s.structs
    BY <1>1, <1>9, <2>1 DEF ParseStates
  <2> QED
    BY <1>1, <1>3, <1>9, <2>2
<1>10. CASE line.k = "field" /\ s.ok /\ t = [s EXCEPT !.structs[s.cur] = Append(@, line), !.ok = line.type \in Types]
  <2>1. line \in FieldLines
    BY <1>10 DEF LineForms, FieldLines
  <2> DEFINE new == [s.structs EXCEPT ![s.cur] = Append(@, line)]
  <2>2. new \in StructMaps /\ DOMAIN new = DOMAIN s.structs
    BY <1>1, <2>1, FieldKept
  <2>3. Typed(s.structs) /\ line.type \in Types => Typed(new)
    <3>1. /\ \A n \in DOMAIN s.structs : \A i \in 1..Len(s.structs[n]) : s.structs[n][i].type \in Types
          /\ line.type \in Types
          => \A n \in DOMAIN s.structs : \A i \in 1..Len(new[n]) : new[n][i].type \in Types
      BY <1>1, <2>1, FieldKept
    <3> HIDE DEF new
    <3> QED
      BY <1>2, <2>2, <3>1
  <2>4. t = [s EXCEPT !.structs = new, !.ok = line.type \in Types]
    BY <1>1, <1>10 DEF ParseStates
  <2> HIDE DEF new
  <2> DEFINE fits == line.type \in Types
  <2>6. fits \in BOOLEAN /\ t = [s EXCEPT !.structs = new, !.ok = fits] /\ (fits <=> line.type \in Types)
    BY <2>4
  <2> HIDE DEF fits
  <2>5. t \in ParseStates /\ t.structs = new /\ t.ok = fits
    BY <1>1, <2>2, <2>6 DEF ParseStates
  <2> QED
    BY <1>1, <1>3, <1>10, <2>3, <2>5, <2>6
<1>11. CASE t = [s EXCEPT !.ok = FALSE]
  <2>1. t \in ParseStates /\ t.ok = FALSE
    BY <1>1, <1>11 DEF ParseStates
  <2> QED
    BY <1>3, <2>1
<1> QED
  BY <1>5, <1>6, <1>7, <1>8, <1>9, <1>10, <1>11 DEF ParseLine

LEMMA ScanSound ==
  ASSUME NEW lines \in Seq(LineForms)
  PROVE  Sound(Scanned(lines)[Len(lines)])
<1> DEFINE n == Len(lines)
           S == {i \in 0..n : Sound(Scanned(lines)[i])}
<1>1. n \in Nat /\ n \in 0..n
  BY LenProperties
<1>2. \A i \in 0..n : Scanned(lines)[i] = IF i = 0 THEN Start ELSE ParseLine(lines[i], Scanned(lines)[i - 1])
  BY <1>1, ScannedTurn
<1>3. ASSUME NEW i \in 0..n, \A j \in 0..(i - 1) : j \in S PROVE i \in S
  <2>1. CASE i = 0
    BY <1>2, <2>1, StartSound
  <2>2. CASE i # 0
    <3>1. i \in 1..n /\ i - 1 \in 0..(i - 1)
      BY <2>2
    <3>2. lines[i] \in LineForms /\ i - 1 \in S
      BY <1>3, <3>1, ElementOfSeq
    <3>3. Sound(Scanned(lines)[i - 1]) /\ Scanned(lines)[i] = ParseLine(lines[i], Scanned(lines)[i - 1])
      BY <1>2, <2>2, <3>2
    <3> QED
      BY <3>2, <3>3, LineSound
  <2> QED
    BY <2>1, <2>2
<1>4. n \in S
  <2> HIDE DEF S, n
  <2>1. \A i \in 0..n : i \in S
    BY <1>1, <1>3, Rises
  <2> QED
    BY <1>1, <2>1
<1> QED
  BY <1>4

\* What the gateway and the codec rely on.
Checked(spec) ==
    /\ spec.methods \in Seq(LineForms)
    /\ \A m \in Range(spec.methods) : {m.req, m.resp} \subseteq DOMAIN spec.structs
    /\ \A n \in DOMAIN spec.structs : TypedFields(spec.structs[n]) /\ Distinct(spec.structs[n])

(* Whatever the lines of a text are and in whatever order, a contract that *)
(* Parse accepts has only fields of the three types, no two of one id in a *)
(* struct, and a struct for every request and response its methods name:   *)
(* what SaveIdl lets into the file is what Encode and Decode can follow.   *)
THEOREM ParseChecked ==
  ASSUME NEW lines \in Seq(LineForms), Parse(lines).ok
  PROVE  Checked(Parse(lines))
<1> DEFINE s == Scanned(lines)[Len(lines)]
<1>1. Sound(s) /\ s.ok /\ validate(s) /\ Parse(lines).methods = s.methods /\ Parse(lines).structs = s.structs
  BY ScanSound DEF Parse
<1> HIDE DEF s
<1>2. s.methods \in Seq(LineForms) /\ s.structs \in StructMaps
  BY <1>1 DEF Sound, ParseStates
<1>3. ASSUME NEW n \in DOMAIN s.structs PROVE TypedFields(s.structs[n]) /\ Distinct(s.structs[n])
  <2> DEFINE fields == s.structs[n]
  <2>1. fields \in Seq(FieldLines)
    BY <1>2, <1>3 DEF StructMaps
  <2>2. fields \in Range(s.structs) /\ \A i \in 1..Len(fields) : fields[i].type \in Types
    BY <1>1, <1>3 DEF Sound, Range
  <2>3. \A i, j \in DOMAIN fields : i # j => fields[i].id # fields[j].id
    BY <1>1, <2>2 DEF validate
  <2> HIDE DEF fields
  <2>4. DOMAIN fields = 1..Len(fields) /\ Len(fields) \in Nat
    BY <2>1, LenProperties
  <2>5. fields \in Seq(Range(fields))
    <3>1. \A i \in 1..Len(fields) : fields[i] \in Range(fields)
      BY <2>4 DEF Range
    <3> QED
      BY <2>1, <3>1, SeqDef
  <2>6. \A f \in Range(fields) : f.type \in Types /\ f.id \in Int
    <3>1. \A i \in 1..Len(fields) : fields[i] \in FieldLines
      BY <2>1, ElementOfSeq
    <3>2. \A i \in 1..Len(fields) : fields[i].id \in Int
      BY <3>1 DEF FieldLines
    <3> QED
      BY <2>2, <2>4, <3>2 DEF Range
  <2>7. Distinct(fields)
    BY <2>3, <2>4 DEF Distinct
  <2> QED
    BY <2>5, <2>6, <2>7 DEF TypedFields, fields
<1> QED
  BY <1>1, <1>2, <1>3 DEF Checked, validate

LEMMA NamedThere ==
  ASSUME NEW spec, Checked(spec), NEW m \in Range(spec.methods)
  PROVE  MethodNamed(spec, m.name) \in Range(spec.methods) /\ MethodNamed(spec, m.name).name = m.name
<1> DEFINE S == {i \in DOMAIN spec.methods : spec.methods[i].name = m.name}
           First1(i) == /\ spec.methods[i].name = m.name
                        /\ \A j \in 1..(i - 1) : spec.methods[j].name # m.name
<1>1. DOMAIN spec.methods = 1..Len(spec.methods) /\ Len(spec.methods) \in Nat
  BY LenProperties DEF Checked
<1>2. S \in SUBSET Nat /\ S # {}
  BY <1>1 DEF Range
<1>3. PICK k \in S : \A x \in S : k <= x
  <2> HIDE DEF S
  <2> QED
    BY <1>2, LeastOf
<1>4. First1(k) /\ k \in DOMAIN spec.methods
  <2>1. ASSUME NEW j \in 1..(k - 1), spec.methods[j].name = m.name PROVE FALSE
    <3>1. j \in S /\ ~(k <= j)
      BY <1>1, <1>3, <2>1
    <3> QED
      BY <1>3, <3>1
  <2> QED
    BY <1>3, <2>1
<1>5. MethodNamed(spec, m.name) = spec.methods[CHOOSE i \in DOMAIN spec.methods : First1(i)]
  BY DEF MethodNamed
<1>6. (CHOOSE i \in DOMAIN spec.methods : First1(i)) \in DOMAIN spec.methods /\ First1(CHOOSE i \in DOMAIN spec.methods : First1(i))
  <2> HIDE DEF First1
  <2> QED
    BY <1>4
<1> QED
  BY <1>5, <1>6 DEF Range

-----------------------------------------------------------------------------
(* The two codecs, as writers and readers of this kind.                    *)

\* The gaps there are between float64's neighbours.
LEMMA GapsAre == Gaps = {1, 2, 4, 8, 16, 32, 64, 128, 256, 512, 1024}
<1>1. /\ 2 ^ 0 = 1 /\ 2 ^ 1 = 2 /\ 2 ^ 2 = 4 /\ 2 ^ 3 = 8 /\ 2 ^ 4 = 16 /\ 2 ^ 5 = 32
      /\ 2 ^ 6 = 64 /\ 2 ^ 7 = 128 /\ 2 ^ 8 = 256 /\ 2 ^ 9 = 512 /\ 2 ^ 10 = 1024
  BY SMT
<1>2. 0..10 = {0, 1, 2, 3, 4, 5, 6, 7, 8, 9, 10}
  BY SMT
<1>3. Gaps = {2 ^ k : k \in {0, 1, 2, 3, 4, 5, 6, 7, 8, 9, 10}}
  BY <1>2, Zenon DEF Gaps
<1> QED
  BY <1>1, <1>3

\* Every number has one, and one of 53 bits has the gap 1.
LEMMA GapThere ==
  ASSUME NEW high \in Word
  PROVE  Gap(high) \in Gaps /\ (high \in Sig => Gap(high) = 1)
<1> DEFINE P(g) == high \div g \in Sig /\ (g = 1 \/ high \div (g \div 2) \notin Sig)
<1>1. high \in Int /\ high >= -2147483648 /\ high < 2147483648
  BY SMT DEF Word
<1>2. \A x \in Int : x \in Sig <=> x >= -2097152 /\ x <= 2097151
  BY SMT DEF Sig
<1> DEFINE In(g) == high \div g >= -2097152 /\ high \div g <= 2097151
<1>3. /\ P(1) <=> In(1)
      /\ P(2) <=> In(2) /\ ~In(1)
      /\ P(4) <=> In(4) /\ ~In(2)
      /\ P(8) <=> In(8) /\ ~In(4)
      /\ P(16) <=> In(16) /\ ~In(8)
      /\ P(32) <=> In(32) /\ ~In(16)
      /\ P(64) <=> In(64) /\ ~In(32)
      /\ P(128) <=> In(128) /\ ~In(64)
      /\ P(256) <=> In(256) /\ ~In(128)
      /\ P(512) <=> In(512) /\ ~In(256)
      /\ P(1024) <=> In(1024) /\ ~In(512)
  <2>1. \A g \in {1, 2, 4, 8, 16, 32, 64, 128, 256, 512, 1024} : high \div g \in Int
    BY <1>1, SMT
  <2>2. /\ 2 \div 2 = 1 /\ 4 \div 2 = 2 /\ 8 \div 2 = 4 /\ 16 \div 2 = 8 /\ 32 \div 2 = 16 /\ 64 \div 2 = 32
        /\ 128 \div 2 = 64 /\ 256 \div 2 = 128 /\ 512 \div 2 = 256 /\ 1024 \div 2 = 512
    BY SMT
  <2> QED
    BY <1>2, <2>1, <2>2
<1>4. \E g \in {1, 2, 4, 8, 16, 32, 64, 128, 256, 512, 1024} : P(g)
  <2>1. In(1024)
    BY <1>1, SMT
  <2> HIDE DEF P, In
  <2> QED
    BY <1>3, <2>1
<1>5. \E g \in Gaps : P(g)
  BY <1>4, GapsAre
<1>6. Gap(high) = CHOOSE g \in Gaps : P(g)
  BY DEF Gap
<1>7. ASSUME high \in Sig, NEW g \in Gaps, P(g) PROVE g = 1
  <2>1. g \in {1, 2, 4, 8, 16, 32, 64, 128, 256, 512, 1024}
    BY GapsAre
  <2>2. high >= -2097152 /\ high <= 2097151
    BY <1>1, <1>2, <1>7
  <2>3. In(1) /\ In(2) /\ In(4) /\ In(8) /\ In(16) /\ In(32) /\ In(64) /\ In(128) /\ In(256) /\ In(512)
    BY <1>1, <2>2, SMT
  <2> HIDE DEF P, In
  <2> QED
    BY <1>7, <1>3, <2>1, <2>3
<1> HIDE DEF P
<1>8. Gap(high) \in Gaps /\ P(Gap(high))
  BY <1>5, <1>6
<1> QED
  BY <1>7, <1>8

\* The multiples of a gap beside a low word.
LEMMA Multiples ==
  ASSUME NEW low \in Word, NEW gap \in Gaps
  PROVE  LET over == low % gap
             down == low - over
         IN  /\ down \in Word /\ over \in Int /\ gap \in 1..1024 /\ Last - gap \in Int
             /\ down <= Last - gap => down + gap \in Word
             /\ gap = 1 => over = 0
<1>1. low \in Int /\ low >= -2147483648 /\ low < 2147483648
  BY SMT DEF Word
<1>2. Last = 2147483647 /\ \A x \in Int : x \in Word <=> x >= -2147483648 /\ x <= 2147483647
  BY SMT DEF Word, Last
<1>3. gap \in {1, 2, 4, 8, 16, 32, 64, 128, 256, 512, 1024}
  BY GapsAre
<1> QED
  BY <1>1, <1>2, <1>3, SMTT(60)

(* Any number of 64 bits is one again, and the same if 53 bits hold it:    *)
(* this is what asI64 has of it.                                           *)
LEMMA Rounded ==
  ASSUME NEW n \in I64
  PROVE  Float64(n) \in I64 /\ (n[1] \in Sig => Float64(n) = n)
<1> DEFINE gap  == Gap(n[1])
           over == n[2] % gap
           down == n[2] - over
<1>1. n = <<n[1], n[2]>> /\ n[1] \in Word /\ n[2] \in Word
  BY DEF I64
<1>2. gap \in Gaps /\ (n[1] \in Sig => gap = 1)
  BY <1>1, GapThere
<1>3. Float64(n) = IF RoundsUp(over, down, gap) THEN NextMultiple(n[1], down, gap) ELSE <<n[1], down>>
  BY DEF Float64
<1> HIDE DEF gap
<1>4. /\ down \in Word /\ over \in Int /\ gap \in 1..1024 /\ Last - gap \in Int
      /\ down <= Last - gap => down + gap \in Word
      /\ gap = 1 => over = 0
  BY <1>1, <1>2, Multiples
<1> HIDE DEF over
<1>5. CASE RoundsUp(over, down, gap)
  <2>1. gap # 1
    BY <1>4, <1>5, SMT DEF RoundsUp
  <2>2. down \in Int /\ n[1] \in Int
    BY <1>1, <1>4, SMT DEF Word
  <2> HIDE DEF down
  <2>3. NextMultiple(n[1], down, gap) \in I64
    <3>1. -(2 ^ 30) - 2 ^ 30 \in Word /\ 0 \in Word /\ (n[1] < Last => n[1] + 1 \in Word)
      BY <1>1, <2>2, SMT DEF Word, Last
    <3>2. Beyond[TRUE] \in I64
      BY BeyondAssumption
    <3>3. \A x, y \in Word : <<x, y>> \in I64
      BY DEF I64
    <3>4. CASE down > Last - gap
      <4>1. NextMultiple(n[1], down, gap) = <<n[1], -(2 ^ 30) - 2 ^ 30>>
        <5>1. ~(down <= Last - gap) /\ down + gap # 0
          BY <1>4, <2>2, <3>4, SMT DEF Last
        <5> QED
          BY <3>4, <5>1, Zenon DEF NextMultiple
      <4> QED
        BY <1>1, <3>1, <3>3, <4>1
    <3>5. CASE ~(down > Last - gap)
      <4>1. down <= Last - gap /\ down + gap \in Word
        BY <1>4, <2>2, <3>5, SMT
      <4>2. CASE down + gap # 0
        <5>1. NextMultiple(n[1], down, gap) = <<n[1], down + gap>>
          BY <3>5, <4>1, <4>2, Zenon DEF NextMultiple
        <5> QED
          BY <1>1, <3>3, <4>1, <5>1
      <4>3. CASE down + gap = 0
        <5>1. NextMultiple(n[1], down, gap) = IF n[1] < Last THEN <<n[1] + 1, 0>> ELSE Beyond[TRUE]
          BY <3>5, <4>1, <4>3, Zenon DEF NextMultiple
        <5>2. CASE n[1] < Last
          BY <3>1, <3>3, <5>1, <5>2
        <5>3. CASE ~(n[1] < Last)
          BY <3>2, <5>1, <5>3
        <5> QED
          BY <5>2, <5>3
      <4> QED
        BY <4>2, <4>3
    <3> QED
      BY <3>4, <3>5
  <2> QED
    BY <1>2, <1>3, <1>5, <2>1, <2>3
<1>6. CASE ~RoundsUp(over, down, gap)
  <2>1. Float64(n) = <<n[1], down>>
    BY <1>3, <1>6
  <2>2. gap = 1 => down = n[2]
    BY <1>1, <1>4, SMT DEF Word
  <2> QED
    BY <1>1, <1>2, <1>4, <2>1, <2>2 DEF I64
<1> QED
  BY <1>5, <1>6

\* What writeField writes is what was given where 53 bits are enough ...
LEMMA ExactKept == ASSUME NEW j \in JsonValues, Exact(j) PROVE Value(j) = j.v
<1>1. CASE j.t \in {"string", "bool"}
  <2>1. GoType[j.t] # "i64"
    BY <1>1 DEF GoType
  <2> QED
    BY <2>1, Zenon DEF Value
<1>2. CASE j.t = "number" /\ j.v[1] \in Sig
  <2>1. j.v \in I64 /\ Value(j) = Float64(j.v)
    BY <1>2 DEF GoType, JsonValues, Value, asI64
  <2> QED
    BY <1>2, <2>1, Rounded
<1> QED
  BY <1>1, <1>2 DEF Exact

\* ... and has the field's type.
LEMMA JsonTyped ==
  ASSUME NEW j \in JsonValues, NEW typ \in Types, j.t # "null", GoType[j.t] = typ
  PROVE  Value(j) \in Valued(typ)
<1>1. CASE j.t = "number"
  <2>1. typ = "i64" /\ j.v \in I64 /\ Value(j) = Float64(j.v)
    BY <1>1 DEF GoType, JsonValues, Value, asI64
  <2> QED
    BY <2>1, Rounded DEF Valued
<1>2. CASE j.t = "float"
  <2>1. typ = "i64" /\ j.v \in I64 /\ Value(j) = j.v
    BY <1>2 DEF GoType, JsonValues, Value, asI64
  <2> QED
    BY <2>1 DEF Valued
<1>3. CASE j.t = "huge"
  <2>1. typ = "i64" /\ j.v \in BOOLEAN /\ Value(j) = Beyond[j.v]
    BY <1>3 DEF GoType, JsonValues, Value, asI64
  <2> QED
    BY <2>1, BeyondAssumption DEF Valued
<1>4. CASE j.t = "string"
  <2>1. typ = "string" /\ j.v \in Seq(Bytes) /\ Value(j) = j.v
    BY <1>4 DEF GoType, JsonValues, Value
  <2> QED
    BY <2>1 DEF Valued
<1>5. CASE j.t = "bool"
  <2>1. typ = "bool" /\ j.v \in BOOLEAN /\ Value(j) = j.v
    BY <1>5 DEF GoType, JsonValues, Value
  <2> QED
    BY <2>1 DEF Valued
<1>6. CASE j.t = "other"
  BY <1>6 DEF GoType, Types
<1> QED
  BY <1>1, <1>2, <1>3, <1>4, <1>5, <1>6 DEF JsonValues

GivenAt(fields, body) == {i \in 1..Len(fields) : Given(body, fields[i])}
ValuesAt(fields, body) == [i \in 1..Len(fields) |-> Value(body[fields[i].name])]

LEMMA EncodeParted ==
  ASSUME NEW fields, TypedFields(fields), NEW body, \A n \in DOMAIN body : body[n] \in JsonValues,
         Encode(fields, body).ok
  PROVE  \E parts : /\ Encode(fields, body).b = Written(parts)
                    /\ Parted(fields, GivenAt(fields, body), ValuesAt(fields, body), parts)
<1> DEFINE out == [i \in DOMAIN fields |-> writeField(body, fields[i])]
           parts == [i \in DOMAIN fields |-> out[i].b]
<1>1. DOMAIN fields = 1..Len(fields)
  BY LenProperties DEF TypedFields
<1>2. (\A i \in DOMAIN fields : writeField(body, fields[i]).ok) /\ Encode(fields, body).b = Written(parts)
  BY DEF Encode, Short
<1>3. ASSUME NEW i \in 1..Len(fields)
      PROVE  IF i \in GivenAt(fields, body)
             THEN ValuesAt(fields, body)[i] \in Valued(fields[i].type)
                  /\ parts[i] = FieldBytes(fields[i], ValuesAt(fields, body)[i])
             ELSE parts[i] = <<>>
  <2> DEFINE f == fields[i]
  <2>1. f.type \in Types /\ parts[i] = writeField(body, f).b /\ writeField(body, f).ok
    <3>1. f \in Range(fields)
      BY <1>1 DEF Range
    <3> QED
      BY <1>1, <1>2, <3>1 DEF TypedFields
  <2>2. CASE ~Given(body, f)
    <3>2. writeField(body, f) = [ok |-> TRUE, b |-> <<>>]
      BY <2>2, Zenon DEF writeField
    <3>1. parts[i] = <<>>
      BY <2>1, <3>2
    <3> QED
      BY <2>2, <3>1 DEF GivenAt
  <2>3. CASE Given(body, f)
    <3>5. IF GoType[body[f.name].t] = f.type THEN writeField(body, f) = [ok |-> TRUE, b |-> FieldBytes(f, Value(body[f.name]))]
          ELSE writeField(body, f) = Short
      BY <2>3, Zenon DEF writeField
    <3>1. GoType[body[f.name].t] = f.type /\ parts[i] = FieldBytes(f, Value(body[f.name]))
      BY <2>1, <3>5 DEF Short
    <3>2. body[f.name] \in JsonValues /\ body[f.name].t # "null"
      BY <2>3 DEF Given
    <3>3. Value(body[f.name]) \in Valued(f.type)
      BY <2>1, <3>1, <3>2, JsonTyped
    <3>4. ValuesAt(fields, body)[i] = Value(body[f.name]) /\ i \in GivenAt(fields, body)
      BY <2>3 DEF ValuesAt, GivenAt
    <3> QED
      BY <3>1, <3>3, <3>4
  <2> QED
    BY <2>2, <2>3
<1>4. parts = [i \in 1..Len(fields) |-> parts[i]]
  BY <1>1
<1> HIDE DEF parts
<1>5. Parted(fields, GivenAt(fields, body), ValuesAt(fields, body), parts)
  BY <1>3, <1>4 DEF Parted
<1> QED
  BY <1>2, <1>5

\* A struct of the generated code.
GenStruct(fields) ==
    /\ TypedFields(fields) /\ Distinct(fields)
    /\ \A f, g \in Range(fields) : f.name = g.name => f = g
    /\ \A f \in Range(fields) : f.id \in Ids16

LEMMA EncodeGenParted ==
  ASSUME NEW fields, GenStruct(fields), NEW s, \A f \in Range(fields) : s[f.name] \in Valued(f.type)
  PROVE  \E parts : /\ EncodeGen(fields, s) = Written(parts)
                    /\ Parted(fields, 1..Len(fields), [i \in 1..Len(fields) |-> s[fields[i].name]], parts)
<1> DEFINE parts == [i \in DOMAIN fields |-> FieldBytes(fields[i], s[fields[i].name])]
           val == [i \in 1..Len(fields) |-> s[fields[i].name]]
<1>1. DOMAIN fields = 1..Len(fields)
  BY LenProperties DEF GenStruct, TypedFields
<1>2. EncodeGen(fields, s) = Written(parts)
  BY DEF EncodeGen
<1>3. ASSUME NEW i \in 1..Len(fields)
      PROVE  val[i] \in Valued(fields[i].type) /\ parts[i] = FieldBytes(fields[i], val[i])
  BY <1>1 DEF Range
<1>4. parts = [i \in 1..Len(fields) |-> parts[i]]
  BY <1>1
<1> HIDE DEF parts, val
<1>5. Parted(fields, 1..Len(fields), val, parts)
  BY <1>3, <1>4 DEF Parted
<1> QED
  BY <1>2, <1>5 DEF val

LEMMA ZeroTyped == \A typ \in Types : Zero[typ] \in Valued(typ)
<1>1. Int64(0) \in I64
  <2>1. 0 \in Word
    BY SMT DEF Word
  <2> QED
    BY <2>1 DEF Int64, I64
<1>2. Zero["i64"] = Int64(0) /\ Zero["string"] = <<>> /\ Zero["bool"] = FALSE
  BY DEF Zero
<1>3. <<>> \in Seq(Bytes)
  BY EmptySeq
<1> QED
  BY <1>1, <1>2, <1>3 DEF Valued, Types

LEMMA GenHas ==
  ASSUME NEW fields, GenStruct(fields), NEW b, Read(fields, b).ok
  PROVE  /\ DecodeGen(fields, b).ok
         /\ DOMAIN DecodeGen(fields, b).m = {f.name : f \in Range(fields)}
         /\ \A g \in Range(fields) :
               DecodeGen(fields, b).m[g.name] = IF g.name \in DOMAIN Read(fields, b).m THEN Read(fields, b).m[g.name]
                                                ELSE Zero[g.type]
<1> DEFINE m == Read(fields, b).m
           type(n) == (CHOOSE f \in Range(fields) : f.name = n).type
<1>1. DecodeGen(fields, b) = [ok |-> TRUE, m |-> [n \in {f.name : f \in Range(fields)} |->
                                                    IF n \in DOMAIN m THEN m[n] ELSE Zero[type(n)]]]
  BY DEF DecodeGen
<1>2. ASSUME NEW g \in Range(fields) PROVE type(g.name) = g.type
  <2>1. \A f \in Range(fields) : f.name = g.name => f = g
    BY DEF GenStruct
  <2> QED
    BY <2>1
<1> HIDE DEF m, type
<1> QED
  BY <1>1, <1>2 DEF m

LEMMA GenTyped ==
  ASSUME NEW fields, GenStruct(fields), NEW b \in Seq(Bytes), DecodeGen(fields, b).ok
  PROVE  \A g \in Range(fields) : DecodeGen(fields, b).m[g.name] \in Valued(g.type)
<1>1. Read(fields, b).ok
  BY DEF DecodeGen, Short
<1>2. Fits(fields, Read(fields, b).m)
  BY <1>1, ReadFits DEF GenStruct
<1>3. ASSUME NEW g \in Range(fields) PROVE DecodeGen(fields, b).m[g.name] \in Valued(g.type)
  <2>1. CASE g.name \in DOMAIN Read(fields, b).m
    <3>1. PICK f \in Range(fields) : f.name = g.name /\ Read(fields, b).m[g.name] \in Valued(f.type)
      BY <1>2, <2>1 DEF Fits
    <3>2. f = g
      BY <3>1 DEF GenStruct
    <3> QED
      BY <1>1, <2>1, <3>1, <3>2, GenHas
  <2>2. CASE g.name \notin DOMAIN Read(fields, b).m
    <3>1. Zero[g.type] \in Valued(g.type)
      BY ZeroTyped DEF GenStruct, TypedFields
    <3> QED
      BY <1>1, <2>2, <3>1, GenHas
  <2> QED
    BY <2>1, <2>2
<1> QED
  BY <1>3

LEMMA WrittenTyped ==
  ASSUME NEW w, TypedFields(w), NEW G \in SUBSET (1..Len(w)), NEW val, NEW parts, Parted(w, G, val, parts)
  PROVE  Written(parts) \in Seq(Bytes)
<1>1. parts \in Seq(Seq(Bytes)) /\ Len(parts) \in Nat
  BY PartedTyped, LenProperties
<1>2. 1 \in 1..(Len(parts) + 1)
  BY <1>1
<1> QED
  BY <1>1, <1>2, TailsTyped DEF Written

LEMMA EncodeTyped ==
  ASSUME NEW fields, TypedFields(fields), NEW body, \A n \in DOMAIN body : body[n] \in JsonValues,
         Encode(fields, body).ok
  PROVE  Encode(fields, body).b \in Seq(Bytes)
<1>1. PICK parts : /\ Encode(fields, body).b = Written(parts)
                   /\ Parted(fields, GivenAt(fields, body), ValuesAt(fields, body), parts)
  BY EncodeParted
<1>2. GivenAt(fields, body) \in SUBSET (1..Len(fields))
  BY DEF GivenAt
<1> QED
  BY <1>1, <1>2, WrittenTyped

(* Towards the service: for any contract w and generated struct r that     *)
(* agree and any JSON body, what Encode has written DecodeGen reads, field *)
(* by field id, whatever either has that the other does not know: a        *)
(* string, a bool, an integer of 53 bits as it was given, any other number *)
(* as float64 has it.                                                      *)
THEOREM RequestHeard ==
  ASSUME NEW w, TypedFields(w), Distinct(w), NEW r, GenStruct(r), Agree(w, r),
         NEW body, \A n \in DOMAIN body : body[n] \in JsonValues,
         Encode(w, body).ok, Len(Encode(w, body).b) \in Word, NEW g \in Range(r)
  PROVE  LET in   == DecodeGen(r, Encode(w, body).b)
             sent == {f \in FieldByID(w, g.id) : Given(body, f)}
         IN  in.ok /\ IF sent = {} THEN in.m[g.name] = Zero[g.type]
                      ELSE \A f \in sent : Heeds(in.m[g.name], body[f.name])
<1> DEFINE G == GivenAt(w, body)
           val == ValuesAt(w, body)
           b == Encode(w, body).b
           m == Read(r, b).m
           sent == {f \in FieldByID(w, g.id) : Given(body, f)}
<1>1. PICK parts : b = Written(parts) /\ Parted(w, G, val, parts)
  BY EncodeParted
<1>2. TypedFields(r) /\ \A f \in Range(w) : f.id \in Ids16
  BY DEF Agree, GenStruct
<1>3. \A f \in Range(w), h \in Range(r) : f.id = h.id => f.type = h.type
  BY DEF Agree
<1>4. G \in SUBSET (1..Len(w)) /\ DOMAIN w = 1..Len(w)
  BY LenProperties DEF GivenAt, TypedFields
<1>5. Read(r, b).ok /\ Heard(r, w, G, val, 1, m)
  BY <1>1, <1>2, <1>3, <1>4, RoundTrip
<1>6. DecodeGen(r, b).ok /\ DecodeGen(r, b).m[g.name] = IF g.name \in DOMAIN m THEN m[g.name] ELSE Zero[g.type]
  BY <1>5, GenHas
<1>7. CASE sent = {}
  <2>1. SUFFICES ASSUME g.name \in DOMAIN m PROVE FALSE
    BY <1>6, <1>7
  <2>2. PICK h \in Range(r), i \in G : h.name = g.name /\ w[i].id = h.id
    BY <1>5, <2>1 DEF Heard
  <2>3. h = g
    BY <2>2 DEF GenStruct
  <2>4. w[i] \in sent
    BY <1>4, <2>2, <2>3 DEF FieldByID, Range, GivenAt
  <2> QED
    BY <1>7, <2>4
<1>8. ASSUME NEW f \in sent PROVE Heeds(DecodeGen(r, b).m[g.name], body[f.name])
  <2>1. f \in Range(w) /\ f.id = g.id /\ Given(body, f)
    BY DEF FieldByID
  <2>2. PICK i \in 1..Len(w) : f = w[i]
    BY <1>4, <2>1 DEF Range
  <2>3. i \in G /\ i >= 1 /\ w[i].id = g.id /\ val[i] = Value(body[f.name])
    BY <2>1, <2>2 DEF GivenAt, ValuesAt
  <2>4. Alone(g, r)
    BY DEF Alone, GenStruct
  <2>5. m[g.name] = val[i] /\ g.name \in DOMAIN m
    BY <1>5, <2>3, <2>4 DEF Heard
  <2>6. body[f.name] \in JsonValues
    BY <2>1 DEF Given
  <2> QED
    BY <1>6, <2>3, <2>5, <2>6, ExactKept DEF Heeds
<1> HIDE DEF sent
<1> QED
  BY <1>6, <1>7, <1>8 DEF sent

(* And back: what the generated code has written of any values Decode      *)
(* reads by any contract that agrees, by the names of the contract.        *)
THEOREM ReplyHeard ==
  ASSUME NEW r, TypedFields(r), NEW w, GenStruct(w), \A f \in Range(r), g \in Range(w) : f.id = g.id => f.type = g.type,
         NEW s, \A g \in Range(w) : s[g.name] \in Valued(g.type), Len(EncodeGen(w, s)) \in Word
  PROVE  LET back == Read(r, EncodeGen(w, s))
         IN  /\ back.ok
             /\ \A f \in Range(r) : \A g \in FieldByID(w, f.id) :
                   Alone(f, r) => f.name \in DOMAIN back.m /\ back.m[f.name] = s[g.name]
<1> DEFINE G == 1..Len(w)
           val == [i \in 1..Len(w) |-> s[w[i].name]]
           b == EncodeGen(w, s)
           m == Read(r, b).m
<1>1. PICK parts : b = Written(parts) /\ Parted(w, G, val, parts)
  BY EncodeGenParted
<1>2. TypedFields(w) /\ Distinct(w) /\ \A f \in Range(w) : f.id \in Ids16
  BY DEF GenStruct
<1>3. DOMAIN w = 1..Len(w)
  BY <1>2, LenProperties DEF TypedFields
<1>4. Read(r, b).ok /\ Heard(r, w, G, val, 1, m)
  BY <1>1, <1>2, RoundTrip
<1>5. ASSUME NEW f \in Range(r), NEW g \in FieldByID(w, f.id), Alone(f, r)
      PROVE  f.name \in DOMAIN m /\ m[f.name] = s[g.name]
  <2>1. g \in Range(w) /\ g.id = f.id
    BY DEF FieldByID
  <2>2. PICK i \in 1..Len(w) : g = w[i]
    BY <1>3, <2>1 DEF Range
  <2>3. i \in G /\ i >= 1 /\ w[i].id = f.id /\ val[i] = s[g.name]
    BY <2>1, <2>2
  <2> QED
    BY <1>4, <1>5, <2>3 DEF Heard
<1> QED
  BY <1>4, <1>5

-----------------------------------------------------------------------------
(* Saves, publishes and the gateway's process, for any number of callers,  *)
(* contracts, publishes and failing restarts.                              *)

(* The editors: what a save or a publish holds. *)
EditorTyped ==
    /\ DOMAIN editor = Editors
    /\ \A e \in Editors :
          \/ editor[e] = Free
          \/ editor[e] \in [at : {"fill"}, text : DOMAIN Contracts, quiet : {FALSE}]
          \/ editor[e] \in [at : {"restart"}, text : DOMAIN Contracts, quiet : BOOLEAN]
          \/ editor[e] \in [at : {"record"}, text : DOMAIN Contracts, quiet : BOOLEAN, status : {"ok", "fail"}]

(* The gateway g serves the text, is about to, or is down for one of the   *)
(* reasons there are.                                                      *)
Serves(g, text) ==
    \/ g.at = "starting"
    \/ g.at = "up" /\ g.text = text
    \/ g.at = "down" /\ g.why = "routes" /\ Refused(Specs[text])
    \/ g.at = "down" /\ g.why \in {"backend", "compose"}

(* Nobody has saved since the text was read: the file has it. *)
Unsaved(file, at, text) == file = text /\ Specs[text].ok /\ \A o \in Editors : at[o].at # "fill"

(* A publish that has restarted the gateway, and the one recorded last. *)
Published ==
    /\ \A e \in Editors :
          /\ editor[e].at \in {"restart", "record"} /\ editor[e].quiet => Unsaved(idl, editor, editor[e].text)
          /\ At(e, "record") /\ editor[e].quiet /\ editor[e].status = "ok" => Serves(gateway, editor[e].text)
    /\ agw_publish.status = "ok" /\ quiet =>
          Unsaved(idl, editor, agw_publish.text) /\ Serves(gateway, agw_publish.text)

AgwInv == idl \in DOMAIN Contracts /\ EditorTyped /\ Published

(* A step that leaves the file and the gateway's promise alone. *)
LEMMA SaveBreaksNone ==
  ASSUME AgwInv, NEW e \in Editors, NEW text \in DOMAIN Contracts, NEW rec,
         rec = Free \/ rec \in [at : {"fill"}, text : DOMAIN Contracts, quiet : {FALSE}], Writes(e, text, rec)
  PROVE  AgwInv'
<1>1. quiet' = FALSE /\ DOMAIN editor' = Editors
  BY Zenon DEF Writes
<1>2. \A o \in Editors : editor'[o] = IF o = e THEN rec ELSE IF editor[o] = Free THEN Free ELSE [editor[o] EXCEPT !.quiet = FALSE]
  BY Zenon DEF Writes
<1>3. ASSUME NEW o \in Editors
      PROVE  \/ editor'[o] = Free
             \/ editor'[o] \in [at : {"fill"}, text : DOMAIN Contracts, quiet : {FALSE}]
             \/ editor'[o] \in [at : {"restart"}, text : DOMAIN Contracts, quiet : {FALSE}]
             \/ editor'[o] \in [at : {"record"}, text : DOMAIN Contracts, quiet : {FALSE}, status : {"ok", "fail"}]
  <2>1. CASE o = e \/ editor[o] = Free
    BY <1>2, <2>1
  <2>2. CASE ~(o = e \/ editor[o] = Free)
    <3>1. editor'[o] = [editor[o] EXCEPT !.quiet = FALSE]
      BY <1>2, <2>2
    <3>2. \/ editor[o] \in [at : {"fill"}, text : DOMAIN Contracts, quiet : {FALSE}]
          \/ editor[o] \in [at : {"restart"}, text : DOMAIN Contracts, quiet : BOOLEAN]
          \/ editor[o] \in [at : {"record"}, text : DOMAIN Contracts, quiet : BOOLEAN, status : {"ok", "fail"}]
      BY <2>2 DEF AgwInv, EditorTyped
    <3> DEFINE was == editor[o]
    <3> HIDE DEF was
    <3>3. CASE was \in [at : {"fill"}, text : DOMAIN Contracts, quiet : {FALSE}]
      <4>1. [was EXCEPT !.quiet = FALSE] \in [at : {"fill"}, text : DOMAIN Contracts, quiet : {FALSE}]
        BY <3>3
      <4> QED
        BY <3>1, <4>1 DEF was
    <3>4. CASE was \in [at : {"restart"}, text : DOMAIN Contracts, quiet : BOOLEAN]
      <4>1. [was EXCEPT !.quiet = FALSE] \in [at : {"restart"}, text : DOMAIN Contracts, quiet : {FALSE}]
        BY <3>4
      <4> QED
        BY <3>1, <4>1 DEF was
    <3>5. CASE was \in [at : {"record"}, text : DOMAIN Contracts, quiet : BOOLEAN, status : {"ok", "fail"}]
      <4>1. [was EXCEPT !.quiet = FALSE] \in [at : {"record"}, text : DOMAIN Contracts, quiet : {FALSE}, status : {"ok", "fail"}]
        BY <3>5
      <4> QED
        BY <3>1, <4>1 DEF was
    <3> QED
      BY <3>2, <3>3, <3>4, <3>5 DEF was
  <2> QED
    BY <2>1, <2>2
<1>4. EditorTyped'
  BY <1>1, <1>3 DEF EditorTyped
<1>5. ASSUME NEW o \in Editors, editor'[o].at \in {"restart", "record"} PROVE editor'[o].quiet = FALSE
  <2>1. editor'[o] # Free
    BY <1>5 DEF Free
  <2> QED
    BY <1>3, <1>5, <2>1
<1>6. Published'
  BY <1>1, <1>5 DEF Published, At
<1> QED
  BY <1>1, <1>4, <1>6 DEF AgwInv, Writes

LEMMA NextAgw == AgwInv /\ [AgwNext]_agwVars => AgwInv'
<1> SUFFICES ASSUME AgwInv, [AgwNext]_agwVars PROVE AgwInv'
  OBVIOUS
<1>0. idl \in DOMAIN Contracts /\ EditorTyped /\ Published
  BY DEF AgwInv
<1>1. ASSUME UNCHANGED <<idl, editor, agw_publish, quiet>>,
             \A text : Specs[text].ok /\ idl = text /\ Serves(gateway, text) => Serves(gateway', text)
      PROVE  AgwInv'
  BY <1>0, <1>1 DEF AgwInv, EditorTyped, Published, Unsaved, At
<1>2. CASE UNCHANGED agwVars
  BY <1>1, <1>2 DEF agwVars, Serves
<1>3. ASSUME NEW r, handle(r) PROVE AgwInv'
  BY <1>1, <1>3 DEF handle, Serves
<1>4. CASE StartNoBackend
  BY <1>1, <1>4 DEF StartNoBackend, Serves
<1>5. CASE StartGateway
  BY <1>1, <1>5 DEF StartGateway, Serves
<1>6. ASSUME NEW e \in Editors, NEW text \in DOMAIN Contracts, SaveIdl(e, text) PROVE AgwInv'
  BY <1>6, SaveBreaksNone, AgwAssumption DEF SaveIdl
<1>7. ASSUME NEW e \in Editors, SaveFill(e) PROVE AgwInv'
  <2>1. editor[e].at = "fill" /\ Writes(e, editor[e].text, Free)
    BY <1>7 DEF SaveFill, At
  <2>2. editor[e] # Free
    BY <2>1 DEF Free
  <2>3. editor[e].text \in DOMAIN Contracts
    BY <1>0, <2>1, <2>2 DEF EditorTyped
  <2> QED
    BY <2>1, <2>3, SaveBreaksNone
<1>a. ASSUME UNCHANGED <<idl, agw_publish, quiet>>, NEW e \in Editors, NEW rec,
             \/ rec \in [at : {"restart"}, text : DOMAIN Contracts, quiet : BOOLEAN]
             \/ rec \in [at : {"record"}, text : DOMAIN Contracts, quiet : BOOLEAN, status : {"ok", "fail"}],
             rec.quiet => Unsaved(idl, editor, rec.text),
             rec.at = "record" /\ rec.quiet /\ rec.status = "ok" => Serves(gateway', rec.text),
             Turn(e, rec), editor[e].at # "fill",
             \A text : Serves(gateway, text) => Serves(gateway', text)
      PROVE  AgwInv'
  <2>1. DOMAIN editor' = Editors /\ editor'[e] = rec /\ \A o \in Editors : o # e => editor'[o] = editor[o]
    BY <1>0, <1>a DEF Turn, EditorTyped
  <2>2. EditorTyped'
    BY <1>0, <1>a, <2>1 DEF EditorTyped
  <2>3. \A text : Unsaved(idl, editor, text) => Unsaved(idl', editor', text)
    BY <1>a, <2>1 DEF Unsaved
  <2>4. Published'
    BY <1>0, <1>a, <2>1, <2>3 DEF Published, At
  <2> QED
    BY <1>0, <1>a, <2>2, <2>4 DEF AgwInv
<1>8. ASSUME NEW e \in Editors, PublishAgw(e) PROVE AgwInv'
  <2> DEFINE rec == [at |-> "restart", text |-> idl, quiet |-> ~Saving]
  <2>1. rec.quiet => Unsaved(idl, editor, rec.text)
    BY <1>8 DEF PublishAgw, Unsaved, Saving, At
  <2>3. rec \in [at : {"restart"}, text : DOMAIN Contracts, quiet : BOOLEAN] /\ rec.at = "restart"
    BY <1>0
  <2> HIDE DEF rec
  <2>4. Turn(e, rec) /\ UNCHANGED <<idl, agw_publish, quiet, gateway>> /\ editor[e].at = "free"
    BY <1>8 DEF PublishAgw, rec, Begin, Free
  <2>5. \A text : Serves(gateway, text) => Serves(gateway', text)
    BY <2>4 DEF Serves
  <2> QED
    BY <1>a, <2>1, <2>3, <2>4, <2>5
<1>9. ASSUME NEW e \in Editors, Restart(e) PROVE AgwInv'
  <2>1. editor[e] \in [at : {"restart"}, text : DOMAIN Contracts, quiet : BOOLEAN]
    <3>1. editor[e].at = "restart"
      BY <1>9 DEF Restart, At
    <3>2. editor[e] # Free
      BY <3>1 DEF Free
    <3> QED
      BY <1>0, <3>1, <3>2 DEF EditorTyped
  <2> DEFINE rec == Restarted(e, "ok")
  <2>2. rec \in [at : {"record"}, text : {editor[e].text}, quiet : {editor[e].quiet}, status : {"ok"}]
    BY <2>1 DEF Restarted
  <2> HIDE DEF rec
  <2>3. Turn(e, rec) /\ UNCHANGED <<idl, agw_publish, quiet>> /\ gateway'.at = "starting" /\ editor[e].at = "restart"
    BY <1>9 DEF Restart, At, rec
  <2>4. \A text : Serves(gateway', text)
    BY <2>3 DEF Serves
  <2>5. rec.quiet => Unsaved(idl, editor, rec.text)
    BY <1>0, <2>1, <2>2 DEF Published
  <2>6. rec \in [at : {"record"}, text : DOMAIN Contracts, quiet : BOOLEAN, status : {"ok", "fail"}]
    BY <2>1, <2>2
  <2> QED
    BY <1>a, <2>3, <2>4, <2>5, <2>6
<1>10. ASSUME NEW e \in Editors, RestartFails(e) PROVE AgwInv'
  <2>1. editor[e] \in [at : {"restart"}, text : DOMAIN Contracts, quiet : BOOLEAN]
    <3>1. editor[e].at = "restart"
      BY <1>10 DEF RestartFails, At
    <3>2. editor[e] # Free
      BY <3>1 DEF Free
    <3> QED
      BY <1>0, <3>1, <3>2 DEF EditorTyped
  <2> DEFINE rec == Restarted(e, "fail")
  <2>2. rec \in [at : {"record"}, text : {editor[e].text}, quiet : {editor[e].quiet}, status : {"fail"}]
    BY <2>1 DEF Restarted
  <2> HIDE DEF rec
  <2>3. Turn(e, rec) /\ UNCHANGED <<idl, agw_publish, quiet>> /\ editor[e].at = "restart"
    BY <1>10 DEF RestartFails, At, rec
  <2>4. \A text : Serves(gateway, text) => Serves(gateway', text)
    BY <1>10 DEF RestartFails, Serves
  <2>5. rec.quiet => Unsaved(idl, editor, rec.text)
    BY <1>0, <2>1, <2>2 DEF Published
  <2>6. rec \in [at : {"record"}, text : DOMAIN Contracts, quiet : BOOLEAN, status : {"ok", "fail"}] /\ rec.status = "fail"
    BY <2>1, <2>2
  <2> QED
    BY <1>a, <2>3, <2>4, <2>5, <2>6
<1>11. ASSUME NEW e \in Editors, Record(e) PROVE AgwInv'
  <2>1. editor[e] \in [at : {"record"}, text : DOMAIN Contracts, quiet : BOOLEAN, status : {"ok", "fail"}]
    <3>1. editor[e].at = "record"
      BY <1>11 DEF Record, At
    <3>2. editor[e] # Free
      BY <3>1 DEF Free
    <3> QED
      BY <1>0, <3>1, <3>2 DEF EditorTyped
  <2>2. DOMAIN editor' = Editors /\ editor'[e] = Free /\ \A o \in Editors : o # e => editor'[o] = editor[o]
    BY <1>0, <1>11 DEF Record, Turn, EditorTyped
  <2>3. EditorTyped'
    BY <1>0, <2>2 DEF EditorTyped
  <2>4. UNCHANGED <<idl, gateway>>
    BY <1>11 DEF Record
  <2>a. Free.at = "free"
    BY DEF Free
  <2>5. \A text : Unsaved(idl, editor, text) => Unsaved(idl', editor', text)
    BY <2>2, <2>4, <2>a DEF Unsaved
  <2>6. \A o \in Editors : editor'[o].at \in {"restart", "record"} => o # e
    BY <2>2, <2>a
  <2>7. agw_publish'.status = editor[e].status /\ agw_publish'.text = editor[e].text /\ quiet' = editor[e].quiet
    BY <1>11 DEF Record
  <2>8. agw_publish'.status = "ok" /\ quiet' =>
           Unsaved(idl, editor, agw_publish'.text) /\ Serves(gateway, agw_publish'.text)
    BY <1>0, <2>1, <2>7 DEF Published, At
  <2>9. \A o \in Editors : o # e =>
          /\ editor'[o].at \in {"restart", "record"} /\ editor'[o].quiet => Unsaved(idl, editor, editor'[o].text)
          /\ editor'[o].at = "record" /\ editor'[o].quiet /\ editor'[o].status = "ok" => Serves(gateway, editor'[o].text)
    BY <1>0, <2>2 DEF Published, At
  <2>10. Published'
    BY <2>4, <2>5, <2>6, <2>8, <2>9 DEF Published, At
  <2> QED
    BY <1>0, <2>3, <2>4, <2>10 DEF AgwInv
<1> QED
  BY <1>2, <1>3, <1>4, <1>5, <1>6, <1>7, <1>8, <1>9, <1>10, <1>11 DEF AgwNext

LEMMA InitAgw == AgwInit => AgwInv
<1> SUFFICES ASSUME AgwInit PROVE AgwInv
  OBVIOUS
<1>1. idl = First /\ gateway = [at |-> "up", text |-> First, why |-> "none"] /\ agw_publish.status = "none"
  BY DEF AgwInit
<1>2. DOMAIN editor = Editors /\ \A e \in Editors : editor[e] = Free
  BY DEF AgwInit
<1>3. Free.at = "free"
  BY DEF Free
<1>4. EditorTyped
  BY <1>2 DEF EditorTyped
<1>5. Published
  BY <1>1, <1>2, <1>3 DEF Published, At
<1> QED
  BY <1>1, <1>4, <1>5, AgwAssumption DEF AgwInv

(* Where a publish has answered ok and nobody has saved since PublishAgw   *)
(* read the text, the gateway serves that text or is about to, however     *)
(* many callers save and publish and whatever restarts fail: it is down    *)
(* only because the mux refuses the routes of this text, the order service *)
(* was not there, or docker compose stopped it.                            *)
THEOREM PublishStaysServed == AgwSpec => []PublishedIsServed
<1>1. AgwInv => PublishedIsServed
  BY DEF AgwInv, Published, PublishedIsServed, Serves
<1> QED
  BY <1>1, InitAgw, NextAgw, PTL DEF AgwSpec

-----------------------------------------------------------------------------
(* The order service: what its handlers have and what they answer.         *)

LEMMA SmallIds == 1 \in Ids16 /\ 2 \in Ids16 /\ 3 \in Ids16 /\ 4 \in Ids16
BY SMT DEF Ids16

LEMMA GenOf ==
  ASSUME NEW S, NEW fields \in Seq(S), \A i \in 1..Len(fields) : fields[i].type \in Types,
         \A i, j \in 1..Len(fields) : fields[i].id = fields[j].id \/ fields[i].name = fields[j].name => i = j,
         \A i \in 1..Len(fields) : fields[i].id \in Ids16
  PROVE  GenStruct(fields)
<1>1. DOMAIN fields = 1..Len(fields) /\ \A f \in Range(fields) : \E i \in 1..Len(fields) : f = fields[i]
  BY LenProperties DEF Range
<1>2. fields \in Seq(Range(fields))
  <2>1. \A i \in 1..Len(fields) : fields[i] \in Range(fields)
    BY <1>1 DEF Range
  <2> QED
    BY <1>1, <2>1, SeqDef
<1>3. \A f \in Range(fields) : f.type \in Types /\ f.id \in Ids16
  BY <1>1
<1>4. TypedFields(fields)
  BY <1>2, <1>3, IdInt DEF TypedFields
<1>5. Distinct(fields)
  BY DEF Distinct
<1>6. \A f, g \in Range(fields) : f.name = g.name => f = g
  BY <1>1
<1> QED
  BY <1>3, <1>4, <1>5, <1>6 DEF GenStruct

LEMMA OneField ==
  ASSUME NEW f, f.type \in Types, f.id \in Ids16
  PROVE  GenStruct(<<f>>) /\ Len(<<f>>) <= 4 /\ Range(<<f>>) = {f}
<1> DEFINE fields == <<f>>
<1>1. fields \in Seq({f}) /\ Len(fields) = 1 /\ DOMAIN fields = 1..1 /\ fields[1] = f
  OBVIOUS
<1> HIDE DEF fields
<1>2. Range(fields) = {f}
  BY <1>1 DEF Range
<1>3. GenStruct(fields)
  BY <1>1, GenOf
<1> QED
  BY <1>1, <1>2, <1>3 DEF fields

LEMMA TwoFields ==
  ASSUME NEW f, f.type \in Types, f.id \in Ids16, NEW g, g.type \in Types, g.id \in Ids16,
         f.id # g.id, f.name # g.name
  PROVE  GenStruct(<<f, g>>) /\ Len(<<f, g>>) <= 4 /\ Range(<<f, g>>) = {f, g}
<1> DEFINE fields == <<f, g>>
<1>1. fields \in Seq({f, g}) /\ Len(fields) = 2 /\ DOMAIN fields = 1..2 /\ fields[1] = f /\ fields[2] = g
  OBVIOUS
<1> HIDE DEF fields
<1>2. Range(fields) = {f, g}
  BY <1>1 DEF Range
<1>3. GenStruct(fields)
  BY <1>1, GenOf
<1> QED
  BY <1>1, <1>2, <1>3 DEF fields

LEMMA FourFields ==
  ASSUME NEW f, f.type \in Types, f.id \in Ids16, NEW g, g.type \in Types, g.id \in Ids16,
         NEW h, h.type \in Types, h.id \in Ids16, NEW k, k.type \in Types, k.id \in Ids16,
         f.id # g.id, f.id # h.id, f.id # k.id, g.id # h.id, g.id # k.id, h.id # k.id,
         f.name # g.name, f.name # h.name, f.name # k.name, g.name # h.name, g.name # k.name, h.name # k.name
  PROVE  GenStruct(<<f, g, h, k>>) /\ Len(<<f, g, h, k>>) <= 4 /\ Range(<<f, g, h, k>>) = {f, g, h, k}
<1> DEFINE fields == <<f, g, h, k>>
<1>1. /\ fields \in Seq({f, g, h, k}) /\ Len(fields) = 4 /\ DOMAIN fields = 1..4
      /\ fields[1] = f /\ fields[2] = g /\ fields[3] = h /\ fields[4] = k
  OBVIOUS
<1> HIDE DEF fields
<1>2. Range(fields) = {f, g, h, k}
  BY <1>1 DEF Range
<1>4. \A i \in 1..4 : i = 1 \/ i = 2 \/ i = 3 \/ i = 4
  OBVIOUS
<1>5. \A i \in 1..4 : fields[i].type \in Types /\ fields[i].id \in Ids16
  BY <1>1, <1>4
<1>6. \A i, j \in 1..4 : fields[i].id = fields[j].id \/ fields[i].name = fields[j].name => i = j
  BY <1>1, <1>4
<1>7. fields \in Seq({f, g, h, k}) /\ 1..4 = 1..Len(fields)
  BY <1>1
<1>3. GenStruct(fields)
  BY <1>5, <1>6, <1>7, GenOf
<1> QED
  BY <1>1, <1>2, <1>3 DEF fields

LEMMA Generated ==
  /\ GenStruct(GetUserReq) /\ Len(GetUserReq) <= 4 /\ Range(GetUserReq) = {Field(1, "i64", "id")}
  /\ GenStruct(GetUserResp) /\ Len(GetUserResp) <= 4
  /\ Range(GetUserResp) = {Field(1, "i64", "id"), Field(2, "string", "name")}
  /\ GenStruct(GetOrderReq) /\ Len(GetOrderReq) <= 4 /\ Range(GetOrderReq) = {Field(1, "i64", "id")}
  /\ GenStruct(GetOrderResp) /\ Len(GetOrderResp) <= 4
  /\ Range(GetOrderResp) = {Field(1, "i64", "id"), Field(2, "i64", "userId"), Field(3, "string", "status"),
                            Field(4, "string", "userName")}
  /\ GenStruct(CreateOrderReq) /\ Len(CreateOrderReq) <= 4
  /\ Range(CreateOrderReq) = {Field(1, "i64", "userId"), Field(2, "i64", "amount")}
  /\ GenStruct(CreateOrderResp) /\ Len(CreateOrderResp) <= 4
  /\ Range(CreateOrderResp) = {Field(1, "i64", "id"), Field(2, "string", "status")}
<1>1. "i64" \in Types /\ "string" \in Types
  BY DEF Types
<1>2. \A n, t, x : Field(n, t, x).id = n /\ Field(n, t, x).type = t /\ Field(n, t, x).name = x
  BY DEF Field
<1>3. \A x : GenStruct(<<Field(1, "i64", x)>>) /\ Len(<<Field(1, "i64", x)>>) <= 4 /\ Range(<<Field(1, "i64", x)>>) = {Field(1, "i64", x)}
  BY <1>1, <1>2, SmallIds, OneField
<1>4. ASSUME NEW t \in Types, NEW u \in Types, NEW x, NEW y, x # y
      PROVE  /\ GenStruct(<<Field(1, t, x), Field(2, u, y)>>) /\ Len(<<Field(1, t, x), Field(2, u, y)>>) <= 4
             /\ Range(<<Field(1, t, x), Field(2, u, y)>>) = {Field(1, t, x), Field(2, u, y)}
  <2> DEFINE f == Field(1, t, x)
             g == Field(2, u, y)
  <2>1. f.id = 1 /\ f.type = t /\ f.name = x /\ g.id = 2 /\ g.type = u /\ g.name = y
    BY <1>2
  <2> HIDE DEF f, g
  <2>2. GenStruct(<<f, g>>) /\ Len(<<f, g>>) <= 4 /\ Range(<<f, g>>) = {f, g}
    BY <1>4, <2>1, SmallIds, TwoFields
  <2> QED
    BY <2>2 DEF f, g
<1>5. /\ GenStruct(GetOrderResp) /\ Len(GetOrderResp) <= 4
      /\ Range(GetOrderResp) = {Field(1, "i64", "id"), Field(2, "i64", "userId"), Field(3, "string", "status"),
                                Field(4, "string", "userName")}
  <2> DEFINE f == Field(1, "i64", "id")
             g == Field(2, "i64", "userId")
             h == Field(3, "string", "status")
             k == Field(4, "string", "userName")
  <2>1. /\ f.id = 1 /\ f.type = "i64" /\ f.name = "id" /\ g.id = 2 /\ g.type = "i64" /\ g.name = "userId"
        /\ h.id = 3 /\ h.type = "string" /\ h.name = "status" /\ k.id = 4 /\ k.type = "string" /\ k.name = "userName"
    BY <1>2
  <2>2. GetOrderResp = <<f, g, h, k>>
    BY DEF GetOrderResp
  <2> HIDE DEF f, g, h, k
  <2>3. GenStruct(<<f, g, h, k>>) /\ Len(<<f, g, h, k>>) <= 4 /\ Range(<<f, g, h, k>>) = {f, g, h, k}
    BY <1>1, <2>1, SmallIds, FourFields
  <2> QED
    BY <2>2, <2>3 DEF f, g, h, k
<1> QED
  BY <1>1, <1>3, <1>4, <1>5 DEF GetUserReq, GetUserResp, GetOrderReq, CreateOrderReq, CreateOrderResp

\* Values of a struct whose strings have four bytes at most.
Brief(fields, s) ==
    \A f \in Range(fields) : s[f.name] \in Valued(f.type) /\ (f.type = "string" => Len(s[f.name]) <= 4)

LEMMA FieldShort ==
  ASSUME NEW f, f.type \in Types, f.id \in Ids16, NEW v \in Valued(f.type), f.type = "string" => Len(v) <= 4
  PROVE  Len(FieldBytes(f, v)) <= 11
<1> DEFINE x == ValueBytes(f.type, v)
<1>1. x \in Seq(Bytes) /\ Len(FieldBytes(f, v)) = 3 + Len(x) /\ Len(x) \in Nat
  BY IdInt, FieldTyped, ValueBytesTyped, LenProperties
<1>2. Len(x) <= 8
  <2>1. CASE f.type = "i64"
    <3>1. v[1] \in Word /\ v[2] \in Word
      BY <2>1 DEF Valued, I64
    <3>2. v[1] \in Int /\ v[2] \in Int
      BY <3>1, SMT DEF Word
    <3>3. /\ U32(v[1]) \in Seq(Bytes) /\ Len(U32(v[1])) = 4 /\ U32(v[2]) \in Seq(Bytes) /\ Len(U32(v[2])) = 4
      BY <3>2, U32Typed
    <3>4. x = Then(U32(v[1]), U32(v[2]))
      BY <2>1 DEF ValueBytes, Then
    <3>5. Len(Then(U32(v[1]), U32(v[2]))) = Len(U32(v[1])) + Len(U32(v[2]))
      BY <3>3, ThenBytes
    <3>6. Len(x) = 8
      BY <3>3, <3>4, <3>5
    <3> QED
      BY <3>6
  <2>2. CASE f.type = "string"
    <3>1. v \in Seq(Bytes) /\ Len(v) \in Nat /\ Len(v) <= 4
      BY <2>2, LenProperties DEF Valued
    <3>2. U32(Len(v)) \in Seq(Bytes) /\ Len(U32(Len(v))) = 4
      BY <3>1, U32Typed
    <3>3. x = Then(U32(Len(v)), v)
      BY <2>2 DEF ValueBytes, Then
    <3>4. Len(Then(U32(Len(v)), v)) = Len(U32(Len(v))) + Len(v)
      BY <3>1, <3>2, ThenBytes
    <3>5. Len(x) = 4 + Len(v)
      BY <3>2, <3>3, <3>4
    <3> QED
      BY <3>1, <3>5
  <2>3. CASE f.type = "bool"
    <3>1. x = <<0>> \/ x = <<1>>
      BY <2>3 DEF ValueBytes
    <3>2. Len(<<0>>) = 1 /\ Len(<<1>>) = 1
      OBVIOUS
    <3>3. Len(x) = 1
      BY <3>1, <3>2
    <3> QED
      BY <3>3
  <2> QED
    BY <2>1, <2>2, <2>3 DEF Types
<1> HIDE DEF x
<1> QED
  BY <1>1, <1>2

LEMMA GenShort ==
  ASSUME NEW w, GenStruct(w), Len(w) <= 4, NEW s, Brief(w, s)
  PROVE  Len(EncodeGen(w, s)) \in Word
<1> DEFINE val == [i \in 1..Len(w) |-> s[w[i].name]]
<1>1. PICK parts : EncodeGen(w, s) = Written(parts) /\ Parted(w, 1..Len(w), val, parts)
  BY EncodeGenParted DEF Brief
<1>2. TypedFields(w) /\ DOMAIN w = 1..Len(w) /\ Len(w) \in Nat
  BY LenProperties DEF GenStruct, TypedFields
<1>3. parts \in Seq(Seq(Bytes)) /\ Len(parts) = Len(w)
  BY <1>1, <1>2, PartedTyped
<1>4. ASSUME NEW i \in 1..Len(parts) PROVE Len(parts[i]) <= 11
  <2> DEFINE f == w[i]
             v == s[f.name]
  <2>1. f \in Range(w) /\ i \in 1..Len(w)
    BY <1>2, <1>3 DEF Range
  <2>2. parts[i] = FieldBytes(f, v)
    BY <1>1, <2>1 DEF Parted
  <2>3. f.type \in Types /\ f.id \in Ids16 /\ v \in Valued(f.type) /\ (f.type = "string" => Len(v) <= 4)
    BY <2>1 DEF GenStruct, TypedFields, Brief
  <2> HIDE DEF f, v
  <2>4. Len(FieldBytes(f, v)) <= 11
    BY <2>3, FieldShort
  <2> QED
    BY <2>2, <2>4
<1>5. Len(Written(parts)) <= 11 * (Len(w) + 2 - 1)
  <2>1. 1 \in 1..(Len(parts) + 1)
    BY <1>2, <1>3
  <2> QED
    BY <1>3, <1>4, <2>1, TailsShort DEF Written
<1>6. Len(Written(parts)) \in Nat
  BY <1>1, <1>2, WrittenTyped, LenProperties
<1>7. 11 * (Len(w) + 2 - 1) <= 55
  BY <1>2
<1>8. Len(Written(parts)) <= 55
  <2> DEFINE n == Len(Written(parts))
             k == 11 * (Len(w) + 2 - 1)
  <2>1. n \in Nat /\ k \in Int /\ n <= k /\ k <= 55
    BY <1>2, <1>5, <1>6, <1>7
  <2> HIDE DEF n, k
  <2>2. n <= 55
    BY <2>1
  <2> QED
    BY <2>2 DEF n
<1>9. \A n \in Nat : n <= 55 => n \in Word
  BY SMT DEF Word
<1> QED
  BY <1>1, <1>6, <1>8, <1>9

LEMMA GenBack ==
  ASSUME NEW w, GenStruct(w), Len(w) <= 4, NEW s, Brief(w, s)
  PROVE  /\ DecodeGen(w, EncodeGen(w, s)).ok
         /\ \A g \in Range(w) : DecodeGen(w, EncodeGen(w, s)).m[g.name] = s[g.name]
<1> DEFINE b == EncodeGen(w, s)
<1>1. TypedFields(w) /\ \A f, g \in Range(w) : f.id = g.id => f.type = g.type
  BY OneOfId DEF GenStruct
<1>2. Len(b) \in Word
  BY GenShort
<1>3. \A g \in Range(w) : s[g.name] \in Valued(g.type)
  BY DEF Brief
<1>4. Read(w, b).ok /\ \A f \in Range(w) : \A g \in FieldByID(w, f.id) :
                          Alone(f, w) => f.name \in DOMAIN Read(w, b).m /\ Read(w, b).m[f.name] = s[g.name]
  BY <1>1, <1>2, <1>3, ReplyHeard
<1>5. ASSUME NEW g \in Range(w) PROVE g.name \in DOMAIN Read(w, b).m /\ Read(w, b).m[g.name] = s[g.name]
  <2>1. Alone(g, w) /\ g \in FieldByID(w, g.id)
    BY DEF Alone, FieldByID, GenStruct
  <2> QED
    BY <1>4, <2>1
<1> HIDE DEF b
<1> QED
  BY <1>4, <1>5, GenHas DEF b

LEMMA Letters ==
  /\ \A n \in 0..255 : <<n>> \in Seq(Bytes) /\ Len(<<n>>) <= 4
  /\ paid \in Seq(Bytes) /\ Len(paid) <= 4 /\ created \in Seq(Bytes) /\ Len(created) <= 4
<1>1. ASSUME NEW n \in 0..255 PROVE <<n>> \in Seq(Bytes) /\ Len(<<n>>) <= 4
  <2>1. n \in Bytes
    BY DEF Bytes
  <2> QED
    BY <2>1
<1>2. 112 \in 0..255 /\ 99 \in 0..255
  OBVIOUS
<1> QED
  BY <1>1, <1>2 DEF paid, created

LEMMA NamesAre == \A id \in DOMAIN names : names[id] \in Seq(Bytes) /\ Len(names[id]) <= 4
<1>1. 97 \in 0..255 /\ 98 \in 0..255
  OBVIOUS
<1>2. <<97>> \in Seq(Bytes) /\ Len(<<97>>) <= 4 /\ <<98>> \in Seq(Bytes) /\ Len(<<98>>) <= 4
  BY <1>1, Letters
<1>3. \A id \in DOMAIN names : names[id] = <<97>> \/ names[id] = <<98>>
  BY DEF names
<1> QED
  BY <1>2, <1>3

LEMMA FieldParts == \A n, t, x : Field(n, t, x).id = n /\ Field(n, t, x).type = t /\ Field(n, t, x).name = x
BY DEF Field

LEMMA UserNamed ==
  ASSUME NEW id \in I64, GetUser(id).ok
  PROVE  GetUser(id).m.name \in Seq(Bytes) /\ Len(GetUser(id).m.name) <= 4
<1> DEFINE asked == [id |-> id]
           in == DecodeGen(GetUserReq, EncodeGen(GetUserReq, asked)).m
           found == [id |-> id, name |-> names[id]]
<1>1. in.id = id
  <2>1. asked["id"] = id /\ Valued("i64") = I64
    BY DEF Valued
  <2>2. Brief(GetUserReq, asked)
    <3>1. \A f \in Range(GetUserReq) : f.name = "id" /\ f.type = "i64"
      BY Generated, FieldParts
    <3> HIDE DEF asked
    <3> QED
      BY <2>1, <3>1 DEF Brief
  <2>3. \A g \in Range(GetUserReq) : in[g.name] = asked[g.name]
    BY <2>2, Generated, GenBack
  <2>4. in["id"] = asked["id"]
    <3> HIDE DEF asked, in
    <3> QED
      BY <2>3, Generated, FieldParts
  <2> QED
    BY <2>1, <2>4
<1>2. GetUser(id) = UserFound(in)
  BY DEF GetUser
<1> HIDE DEF in
<1>3. id \in DOMAIN names /\ GetUser(id) = DecodeGen(GetUserResp, EncodeGen(GetUserResp, found))
  BY <1>1, <1>2 DEF UserFound, Short
<1>4. found["id"] = id /\ found["name"] = names[id] /\ Valued("i64") = I64 /\ Valued("string") = Seq(Bytes)
  BY DEF Valued
<1> HIDE DEF found
<1>5. Brief(GetUserResp, found)
  <2>1. \A f \in Range(GetUserResp) : \/ f.name = "id" /\ f.type = "i64"
                                      \/ f.name = "name" /\ f.type = "string"
    BY Generated, FieldParts
  <2>2. names[id] \in Seq(Bytes) /\ Len(names[id]) <= 4
    BY <1>3, NamesAre
  <2> QED
    BY <1>4, <2>1, <2>2 DEF Brief
<1>6. \A g \in Range(GetUserResp) : GetUser(id).m[g.name] = found[g.name]
  BY <1>3, <1>5, Generated, GenBack
<1>7. GetUser(id).m["name"] = names[id]
  BY <1>4, <1>6, Generated, FieldParts
<1>8. names[id] \in Seq(Bytes) /\ Len(names[id]) <= 4
  BY <1>3, NamesAre
<1> QED
  BY <1>7, <1>8

\* The map of orders.
OrdersTyped(os) ==
    /\ IsFiniteSet(DOMAIN os)
    /\ \A id \in DOMAIN os : id \in I64 /\ os[id].userID \in I64 /\ os[id].status \in {paid, created}

LEMMA NextTyped ==
  ASSUME NEW os, OrdersTyped(os), Cardinality(DOMAIN os) <= MaxOrder + 2
  PROVE  nextID(os) \in I64
<1>1. Cardinality(DOMAIN os) \in Nat /\ MaxOrder \in Nat /\ MaxOrder < 2 ^ 30
  BY AgwAssumption, FS_CardinalityType DEF OrdersTyped
<1> DEFINE n == 1999 + Cardinality(DOMAIN os)
<1>2. n \in Nat /\ n < 2 ^ 30 + 2001
  BY <1>1
<1>3. nextID(os) = <<0, n>>
  BY <1>2 DEF nextID, Int64
<1> HIDE DEF n
<1>4. n \in Word /\ 0 \in Word
  BY <1>2, SMT DEF Word
<1> QED
  BY <1>3, <1>4 DEF I64

LEMMA OrderBrief ==
  ASSUME NEW os, OrdersTyped(os), NEW in, in.id \in I64, GetOrder(os, in).ok
  PROVE  Brief(GetOrderResp, GetOrder(os, in).m)
<1>1. in.id \in DOMAIN os /\ GetOrder(os, in) = OrderOf(in.id, os[in.id], GetUser(os[in.id].userID))
  BY DEF GetOrder, Short
<1> DEFINE o == os[in.id]
           u == GetUser(o.userID)
           s == [id |-> in.id, userId |-> o.userID, status |-> o.status, userName |-> u.m.name]
<1>2. o.userID \in I64 /\ o.status \in {paid, created}
  BY <1>1 DEF OrdersTyped
<1>3. u.ok /\ GetOrder(os, in).m = s
  BY <1>1 DEF OrderOf, Short
<1>4. u.m.name \in Seq(Bytes) /\ Len(u.m.name) <= 4
  BY <1>2, <1>3, UserNamed
<1>5. o.status \in Seq(Bytes) /\ Len(o.status) <= 4
  BY <1>2, Letters
<1> HIDE DEF o, u
<1>6. s["id"] = in.id /\ s["userId"] = o.userID /\ s["status"] = o.status /\ s["userName"] = u.m.name
  OBVIOUS
<1>7. \A f \in Range(GetOrderResp) : \/ f.name = "id" /\ f.type = "i64"
                                     \/ f.name = "userId" /\ f.type = "i64"
                                     \/ f.name = "status" /\ f.type = "string"
                                     \/ f.name = "userName" /\ f.type = "string"
  BY Generated, FieldParts
<1>8. Valued("i64") = I64 /\ Valued("string") = Seq(Bytes)
  BY DEF Valued
<1> HIDE DEF s
<1>9. Brief(GetOrderResp, s)
  BY <1>2, <1>4, <1>5, <1>6, <1>7, <1>8 DEF Brief
<1> QED
  BY <1>3, <1>9

LEMMA CreateBrief ==
  ASSUME NEW os, OrdersTyped(os), Cardinality(DOMAIN os) <= MaxOrder + 2
  PROVE  CreateOrder(os).ok /\ Brief(CreateOrderResp, CreateOrder(os).m)
<1> DEFINE s == [id |-> nextID(os), status |-> created]
<1>1. CreateOrder(os).ok /\ CreateOrder(os).m = s
  BY DEF CreateOrder
<1>2. s["id"] = nextID(os) /\ s["status"] = created
  OBVIOUS
<1>3. nextID(os) \in I64
  BY NextTyped
<1>6. created \in Seq(Bytes) /\ Len(created) <= 4
  BY Letters
<1>4. \A f \in Range(CreateOrderResp) : (f.name = "id" /\ f.type = "i64") \/ (f.name = "status" /\ f.type = "string")
  BY Generated, FieldParts
<1>5. Valued("i64") = I64 /\ Valued("string") = Seq(Bytes)
  BY DEF Valued
<1> HIDE DEF s
<1> QED
  BY <1>1, <1>2, <1>3, <1>4, <1>5, <1>6 DEF Brief

-----------------------------------------------------------------------------
(* A call and back.                                                        *)

\* A call as handle makes it.
Legit(call) ==
    /\ call.text \in DOMAIN Contracts /\ Specs[call.text].ok
    /\ call.m \in Range(Specs[call.text].methods)
    /\ \A n \in DOMAIN call.body : call.body[n] \in JsonValues

ReqOf(call)  == Specs[call.text].structs[call.m.req]
RespOf(call) == Specs[call.text].structs[call.m.resp]

LEMMA SpecChecked == ASSUME NEW text \in DOMAIN Contracts, Specs[text].ok PROVE Checked(Specs[text])
<1>1. Contracts[text] \in Seq(LineForms) /\ Specs[text] = Parse(Contracts[text])
  BY AgwAssumption DEF Specs
<1> QED
  BY <1>1, ParseChecked

LEMMA LegitStructs ==
  ASSUME NEW call, Legit(call)
  PROVE  TypedFields(ReqOf(call)) /\ Distinct(ReqOf(call)) /\ TypedFields(RespOf(call)) /\ Distinct(RespOf(call))
<1>1. Checked(Specs[call.text])
  BY SpecChecked DEF Legit
<1>2. call.m.req \in DOMAIN Specs[call.text].structs /\ call.m.resp \in DOMAIN Specs[call.text].structs
  BY <1>1 DEF Checked, Legit
<1> QED
  BY <1>1, <1>2 DEF Checked, ReqOf, RespOf

\* The contract and the code the service was built with agree on the method.
AgreeOn(call) == Agree(ReqOf(call), Compiled[call.m.name].req) /\ Agree(RespOf(call), Compiled[call.m.name].resp)

\* The service has what was given.
InArrived(call, in) ==
    \A g \in Range(Compiled[call.m.name].req) :
       LET sent == {f \in FieldByID(ReqOf(call), g.id) : Given(call.body, f)}
       IN  IF sent = {} THEN in[g.name] = Zero[g.type]
           ELSE \A f \in sent : Heeds(in[g.name], call.body[f.name])

\* The gateway has what was answered.
OutArrived(call, out, back) ==
    \A f \in Range(RespOf(call)) : \A g \in FieldByID(Compiled[call.m.name].resp, f.id) :
       Alone(f, RespOf(call)) => f.name \in DOMAIN back /\ back[f.name] = out[g.name]

LEMMA EndsArrived ==
  ASSUME NEW call, NEW how, NEW in, NEW out, NEW back,
         how \in {"request", "error", "reply", "fine"} /\ AgreeOn(call) =>
            how \in {"error", "fine"} /\ InArrived(call, in) /\ (how = "fine" => OutArrived(call, out, back))
  PROVE  Arrived(Ends(call, how, in, out, back))
<1> DEFINE a == Ends(call, how, in, out, back)
<1>1. a.how = how /\ a.m = call.m /\ a.text = call.text /\ a.body = call.body /\ a.in = in /\ a.out = out /\ a.back = back
  BY DEF Ends
<1> HIDE DEF a
<1>2. Arrived(a)
  BY <1>1, ZenonT(60) DEF Arrived, AgreeOn, InArrived, OutArrived, ReqOf, RespOf
<1> QED
  BY <1>2 DEF a

LEMMA CompiledAre ==
  ASSUME NEW name \in DOMAIN Compiled
  PROVE  /\ name = "GetOrder" \/ name = "CreateOrder"
         /\ GenStruct(Compiled[name].req) /\ GenStruct(Compiled[name].resp) /\ Len(Compiled[name].resp) <= 4
<1>1. name = "GetOrder" \/ name = "CreateOrder"
  BY DEF Compiled
<1>2. /\ Compiled["GetOrder"].req = GetOrderReq /\ Compiled["GetOrder"].resp = GetOrderResp
      /\ Compiled["CreateOrder"].req = CreateOrderReq /\ Compiled["CreateOrder"].resp = CreateOrderResp
  BY DEF Compiled
<1> QED
  BY <1>1, <1>2, Generated

LEMMA HandlerBrief ==
  ASSUME NEW os, OrdersTyped(os), Cardinality(DOMAIN os) <= MaxOrder + 2, NEW name \in DOMAIN Compiled,
         NEW in, \A g \in Range(Compiled[name].req) : in[g.name] \in Valued(g.type)
  PROVE  /\ Handler(os, name, in).ok => Brief(Compiled[name].resp, Handler(os, name, in).m)
         /\ name = "CreateOrder" => in.userId \in I64
<1>1. name = "GetOrder" \/ name = "CreateOrder"
  BY CompiledAre
<1>2. CASE name = "GetOrder"
  <2>1. Handler(os, name, in) = GetOrder(os, in) /\ Compiled[name].req = GetOrderReq /\ Compiled[name].resp = GetOrderResp
    BY <1>2 DEF Handler, Compiled
  <2>2. in["id"] \in Valued("i64")
    BY <2>1, Generated, FieldParts
  <2>3. in.id \in I64
    BY <2>2 DEF Valued
  <2> QED
    BY <1>2, <2>1, <2>3, OrderBrief
<1>3. CASE name = "CreateOrder"
  <2>1. Handler(os, name, in) = CreateOrder(os) /\ Compiled[name].req = CreateOrderReq /\ Compiled[name].resp = CreateOrderResp
    BY <1>3 DEF Handler, Compiled
  <2>2. in["userId"] \in Valued("i64")
    BY <2>1, Generated, FieldParts
  <2>3. in.userId \in I64
    BY <2>2 DEF Valued
  <2> QED
    BY <2>1, <2>3, CreateBrief
<1> QED
  BY <1>1, <1>2, <1>3

LEMMA AttemptArrives ==
  ASSUME NEW os, OrdersTyped(os), Cardinality(DOMAIN os) <= MaxOrder + 2, NEW call, Legit(call)
  PROVE  Arrived(Attempt(os, call)) /\ (Stored(Attempt(os, call)) => Attempt(os, call).in.userId \in I64)
<1> DEFINE a == Attempt(os, call)
           rq == ReqOf(call)
           rs == RespOf(call)
           out == Encode(rq, call.body)
           name == call.m.name
           req == Compiled[name].req
           resp == Compiled[name].resp
           in == DecodeGen(req, out.b)
           done == Handler(os, name, in.m)
           back == Decode(rs, EncodeGen(resp, done.m))
           Ok(x) == Arrived(x) /\ (Stored(x) => x.in.userId \in I64)
<1>0. a = Call(os, call, out)
  BY DEF Attempt, ReqOf
<1>1. TypedFields(rq) /\ Distinct(rq) /\ TypedFields(rs) /\ \A n \in DOMAIN call.body : call.body[n] \in JsonValues
  BY LegitStructs DEF Legit
<1>2. ASSUME NEW how \in {"encode", "frame", "unknown"} PROVE Ok(Ends(call, how, <<>>, <<>>, <<>>))
  <2>1. how \notin {"request", "error", "reply", "fine"}
    BY <1>2
  <2>2. Arrived(Ends(call, how, <<>>, <<>>, <<>>))
    BY <2>1, EndsArrived
  <2>3. ~Stored(Ends(call, how, <<>>, <<>>, <<>>))
    BY <2>1 DEF Stored, Ends
  <2> QED
    BY <2>2, <2>3
<1>3. CASE a = Register(os, call, in) /\ out.ok /\ Len(out.b) <= Room /\ name \in DOMAIN Compiled
  <2>1. out.b \in Seq(Bytes)
    BY <1>1, <1>3, EncodeTyped
  <2>2. Len(out.b) \in Word
    <3>1. Len(out.b) \in Nat /\ Room \in Nat /\ Room <= 2 ^ 20 /\ Len(out.b) <= Room
      BY <1>3, <2>1, LenProperties, AgwAssumption
    <3>2. \A n, k \in Nat : n <= k /\ k <= 2 ^ 20 => n \in Word
      BY SMT DEF Word
    <3> QED
      BY <3>1, <3>2
  <2>3. GenStruct(req) /\ GenStruct(resp) /\ Len(resp) <= 4
    BY <1>3, CompiledAre
  <2>4. AgreeOn(call) => in.ok /\ InArrived(call, in.m)
    <3>1. SUFFICES ASSUME AgreeOn(call) PROVE in.ok /\ InArrived(call, in.m)
      OBVIOUS
    <3>2. Agree(rq, req)
      BY <3>1 DEF AgreeOn
    <3>3. ASSUME NEW g \in Range(req)
          PROVE  LET sent == {f \in FieldByID(rq, g.id) : Given(call.body, f)}
                 IN  in.ok /\ IF sent = {} THEN in.m[g.name] = Zero[g.type]
                              ELSE \A f \in sent : Heeds(in.m[g.name], call.body[f.name])
      BY <1>1, <1>3, <2>2, <2>3, <3>2, RequestHeard
    <3>4. Range(req) # {}
      <4>1. name = "GetOrder" \/ name = "CreateOrder"
        BY <1>3, CompiledAre
      <4>2. Compiled["GetOrder"].req = GetOrderReq /\ Compiled["CreateOrder"].req = CreateOrderReq
        BY DEF Compiled
      <4> QED
        BY <4>1, <4>2, Generated
    <3> QED
      BY <3>3, <3>4 DEF InArrived
  <2>5. CASE ~in.ok
    <3>1. a = Ends(call, "request", <<>>, <<>>, <<>>)
      BY <1>3, <2>5 DEF Register
    <3>2. Arrived(Ends(call, "request", <<>>, <<>>, <<>>))
      BY <2>4, <2>5, EndsArrived
    <3>3. ~Stored(Ends(call, "request", <<>>, <<>>, <<>>))
      BY DEF Stored, Ends
    <3> QED
      BY <3>1, <3>2, <3>3
  <2>6. CASE in.ok
    <3>1. a = Answered(call, in.m, done)
      BY <1>3, <2>6 DEF Register
    <3>2. \A g \in Range(req) : in.m[g.name] \in Valued(g.type)
      BY <2>1, <2>3, <2>6, GenTyped
    <3>3. (done.ok => Brief(resp, done.m)) /\ (name = "CreateOrder" => in.m.userId \in I64)
      BY <1>3, <3>2, HandlerBrief
    <3>4. CASE ~done.ok
      <4>1. a = Ends(call, "error", in.m, <<>>, <<>>)
        BY <3>1, <3>4 DEF Answered
      <4>2. Arrived(Ends(call, "error", in.m, <<>>, <<>>))
        BY <2>4, EndsArrived
      <4>3. ~Stored(Ends(call, "error", in.m, <<>>, <<>>))
        BY DEF Stored, Ends
      <4> QED
        BY <4>1, <4>2, <4>3
    <3>5. CASE done.ok
      <4>1. a = Decoded(call, in.m, done.m, back)
        BY <3>1, <3>5 DEF Answered, RespOf
      <4>2. ASSUME AgreeOn(call) PROVE back.ok /\ OutArrived(call, done.m, back.m)
        <5>2. \A f \in Range(rs), g \in Range(resp) : f.id = g.id => f.type = g.type
          BY <4>2 DEF AgreeOn, Agree
        <5>3. Brief(resp, done.m)
          BY <3>3, <3>5
        <5> HIDE DEF done, rs, resp
        <5>4. Len(EncodeGen(resp, done.m)) \in Word /\ \A g \in Range(resp) : done.m[g.name] \in Valued(g.type)
          BY <2>3, <5>3, GenShort DEF Brief
        <5>5. /\ back.ok
              /\ \A f \in Range(rs) : \A g \in FieldByID(resp, f.id) :
                    Alone(f, rs) => f.name \in DOMAIN back.m /\ back.m[f.name] = done.m[g.name]
          BY <1>1, <2>3, <5>2, <5>4, ReplyHeard DEF Decode
        <5> QED
          BY <5>5, Zenon DEF OutArrived, rs, resp
      <4> HIDE DEF a, in, done, back
      <4>3. CASE back.ok
        <5>1. a = Ends(call, "fine", in.m, done.m, back.m)
          BY <4>1, <4>3 DEF Decoded
        <5>2. Arrived(Ends(call, "fine", in.m, done.m, back.m))
          BY <2>4, <4>2, EndsArrived
        <5>3. Stored(a) => name = "CreateOrder" /\ a.in = in.m
          BY <5>1 DEF Stored, Ends
        <5>4. Arrived(a) /\ (Stored(a) => a.in.userId \in I64)
          BY <3>3, <5>1, <5>2, <5>3
        <5> QED
          BY <5>4 DEF a
      <4>4. CASE ~back.ok
        <5>1. a = Ends(call, "reply", in.m, done.m, <<>>)
          BY <4>1, <4>4 DEF Decoded
        <5>2. Arrived(Ends(call, "reply", in.m, done.m, <<>>))
          BY <4>2, <4>4, EndsArrived
        <5>3. Stored(a) => name = "CreateOrder" /\ a.in = in.m
          BY <5>1 DEF Stored, Ends
        <5>4. Arrived(a) /\ (Stored(a) => a.in.userId \in I64)
          BY <3>3, <5>1, <5>2, <5>3
        <5> QED
          BY <5>4 DEF a
      <4> QED
        BY <4>3, <4>4
    <3> QED
      BY <3>4, <3>5
  <2> QED
    BY <2>5, <2>6
<1>4. \/ \E how \in {"encode", "frame", "unknown"} : a = Ends(call, how, <<>>, <<>>, <<>>)
      \/ a = Register(os, call, in) /\ out.ok /\ Len(out.b) <= Room /\ name \in DOMAIN Compiled
  <2>1. Len(out.b) > Room \/ Len(out.b) <= Room \/ ~out.ok
    <3>1. out.ok => Len(out.b) \in Nat
      BY <1>1, EncodeTyped, LenProperties
    <3> QED
      BY <3>1, AgwAssumption
  <2> QED
    BY <1>0, <2>1 DEF Call
<1> QED
  BY <1>2, <1>3, <1>4

-----------------------------------------------------------------------------
(* The invariant: what the gateway serves has been read, the orders hold   *)
(* what their types allow, and the last answer was right.                  *)

ServesRead == gateway.at = "up" => gateway.text \in DOMAIN Contracts /\ Specs[gateway.text].ok

FlowInv ==
    /\ AgwInv
    /\ ServesRead
    /\ OrdersTyped(orders) /\ Cardinality(DOMAIN orders) <= MaxOrder + 1
    /\ KnownFieldsArrive

LEMMA LeftTyped ==
  ASSUME NEW os, OrdersTyped(os), NEW n \in Nat, Cardinality(DOMAIN os) <= n, n <= MaxOrder + 2,
         NEW a, Stored(a) => a.in.userId \in I64
  PROVE  OrdersTyped(Left(os, a)) /\ Cardinality(DOMAIN Left(os, a)) <= n + 1
<1>1. Cardinality(DOMAIN os) \in Nat /\ IsFiniteSet(DOMAIN os) /\ MaxOrder \in Nat
  BY FS_CardinalityType, AgwAssumption DEF OrdersTyped
<1>2. CASE ~Stored(a)
  <2>1. Left(os, a) = os
    BY <1>2 DEF Left
  <2> QED
    BY <1>1, <2>1
<1>3. CASE Stored(a)
  <2> DEFINE id == nextID(os)
             new == Stores(os, a.in)
  <2>1. Left(os, a) = new
    BY <1>3 DEF Left
  <2>2. id \in I64
    <3>1. Cardinality(DOMAIN os) <= MaxOrder + 2
      BY <1>1
    <3> QED
      BY <3>1, NextTyped
  <2>3. /\ DOMAIN new = DOMAIN os \cup {id}
        /\ \A x \in DOMAIN new : new[x] = IF x \in DOMAIN os THEN os[x] ELSE [userID |-> a.in.userId, status |-> created]
    BY DEF Stores
  <2> HIDE DEF id, new
  <2>4. IsFiniteSet(DOMAIN os \cup {id}) /\ Cardinality(DOMAIN os \cup {id}) <= Cardinality(DOMAIN os) + 1
    BY <1>1, FS_AddElement
  <2>5. ASSUME NEW x \in DOMAIN new PROVE x \in I64 /\ new[x].userID \in I64 /\ new[x].status \in {paid, created}
    <3>1. CASE x \in DOMAIN os
      BY <2>3, <3>1 DEF OrdersTyped
    <3>2. CASE x \notin DOMAIN os
      BY <1>3, <2>2, <2>3, <3>2
    <3> QED
      BY <3>1, <3>2
  <2>6. OrdersTyped(new)
    BY <2>3, <2>4, <2>5 DEF OrdersTyped
  <2>7. Cardinality(DOMAIN new) <= n + 1
    <3>1. Cardinality(DOMAIN new) \in Nat
      BY <2>6, FS_CardinalityType DEF OrdersTyped
    <3> QED
      BY <1>1, <2>3, <2>4, <3>1
  <2> QED
    BY <2>1, <2>6, <2>7
<1> QED
  BY <1>2, <1>3

LEMMA CallLegit ==
  ASSUME NEW text \in DOMAIN Contracts, Specs[text].ok, NEW r \in Requests, NEW m \in Routed(text, r)
  PROVE  Legit(CallOf(text, m, r))
<1>1. m \in Range(Specs[text].methods) /\ Checked(Specs[text])
  <2>1. m \in Range(Specs[text].methods)
    BY Zenon DEF Routed, Matching, Exposed
  <2>2. Checked(Specs[text])
    BY SpecChecked
  <2> QED
    BY <2>1, <2>2
<1>2. MethodNamed(Specs[text], m.name) \in Range(Specs[text].methods)
  BY <1>1, NamedThere
<1> DEFINE call == CallOf(text, m, r)
<1>3. call.text = text /\ call.m = MethodNamed(Specs[text], m.name) /\ (call.body = r.body \/ call.body = r.wrapped)
  BY DEF CallOf
<1> HIDE DEF call
<1>4. \A body \in {r.body, r.wrapped} : \A n \in DOMAIN body : body[n] \in JsonValues
  BY AgwAssumption
<1>5. \A n \in DOMAIN call.body : call.body[n] \in JsonValues
  BY <1>3, <1>4
<1> QED
  BY <1>2, <1>3, <1>5 DEF Legit, call

LEMMA HandleFlows ==
  ASSUME FlowInv, NEW r \in Requests, handle(r)
  PROVE  OrdersTyped(orders') /\ Cardinality(DOMAIN orders') <= MaxOrder + 1 /\ Arrived(answered')
<1>1. /\ OrdersTyped(orders) /\ Cardinality(DOMAIN orders) <= MaxOrder + 1
      /\ gateway.text \in DOMAIN Contracts /\ Specs[gateway.text].ok
  BY DEF FlowInv, ServesRead, handle
<1>2. MaxOrder \in Nat /\ Cardinality(DOMAIN orders) \in Nat
  BY <1>1, AgwAssumption, FS_CardinalityType DEF OrdersTyped
<1>3. PICK m \in Routed(gateway.text, r) :
         LET call  == CallOf(gateway.text, m, r)
             first == Attempt(orders, call)
         IN  TryTwice(call, first, Left(orders, first))
  BY DEF handle
<1>4. orders' # orders => Cardinality(DOMAIN orders) < MaxOrder
  BY DEF handle
<1> DEFINE call == CallOf(gateway.text, m, r)
           first == Attempt(orders, call)
           left == Left(orders, first)
<1>5. Legit(call)
  BY <1>1, CallLegit
<1>6. TryTwice(call, first, left)
  BY <1>3
<1> HIDE DEF call
<1>7. Arrived(first) /\ (Stored(first) => first.in.userId \in I64)
  <2>1. Cardinality(DOMAIN orders) <= MaxOrder + 2
    BY <1>1, <1>2
  <2> QED
    BY <1>1, <1>5, <2>1, AttemptArrives
<1> HIDE DEF first
<1>8. OrdersTyped(left) /\ Cardinality(DOMAIN left) <= Cardinality(DOMAIN orders) + 1
  <2>1. Cardinality(DOMAIN orders) <= Cardinality(DOMAIN orders) /\ Cardinality(DOMAIN orders) <= MaxOrder + 2
    BY <1>1, <1>2
  <2> QED
    BY <1>1, <1>2, <1>7, <2>1, LeftTyped
<1> HIDE DEF left
<1>9. Cardinality(DOMAIN left) \in Nat /\ Cardinality(DOMAIN left) <= MaxOrder + 2
  <2>1. Cardinality(DOMAIN left) \in Nat
    BY <1>8, FS_CardinalityType DEF OrdersTyped
  <2> QED
    BY <1>1, <1>2, <1>8, <2>1
<1>10. /\ Arrived(answered') /\ OrdersTyped(orders')
       /\ Cardinality(DOMAIN orders') <= Cardinality(DOMAIN orders) + 2
  <2>1. CASE answered' = first /\ orders' = left
    BY <1>2, <1>7, <1>8, <1>9, <2>1
  <2>2. CASE answered' = Attempt(left, call) /\ orders' = Left(left, answered')
    <3>1. Arrived(answered') /\ (Stored(answered') => answered'.in.userId \in I64)
      BY <1>5, <1>8, <1>9, <2>2, AttemptArrives
    <3>2. Cardinality(DOMAIN left) <= Cardinality(DOMAIN left)
      BY <1>9
    <3>3. OrdersTyped(Left(left, answered')) /\ Cardinality(DOMAIN Left(left, answered')) <= Cardinality(DOMAIN left) + 1
      BY <1>8, <1>9, <3>1, <3>2, LeftTyped
    <3>4. Cardinality(DOMAIN orders') \in Nat
      BY <2>2, <3>3, FS_CardinalityType DEF OrdersTyped
    <3>5. Cardinality(DOMAIN orders') <= Cardinality(DOMAIN left) + 1
      BY <2>2, <3>3
    <3>6. Cardinality(DOMAIN orders') <= Cardinality(DOMAIN orders) + 2
      BY <1>2, <1>8, <1>9, <3>4, <3>5
    <3> QED
      BY <2>2, <3>1, <3>3, <3>6
  <2> QED
    BY <1>6, <2>1, <2>2 DEF TryTwice
<1>11. Cardinality(DOMAIN orders') <= MaxOrder + 1
  <2>1. CASE orders' = orders
    BY <1>1, <2>1
  <2>2. CASE orders' # orders
    <3>1. Cardinality(DOMAIN orders') \in Nat
      BY <1>10, FS_CardinalityType DEF OrdersTyped
    <3> QED
      BY <1>2, <1>4, <1>10, <2>2, <3>1
  <2> QED
    BY <2>1, <2>2
<1> QED
  BY <1>10, <1>11

LEMMA NextFlows == FlowInv /\ [AgwNext]_agwVars => FlowInv'
<1> SUFFICES ASSUME FlowInv, [AgwNext]_agwVars PROVE FlowInv'
  OBVIOUS
<1>1. AgwInv'
  BY NextAgw DEF FlowInv
<1>2. ASSUME UNCHANGED <<orders, answered>>, ServesRead' PROVE FlowInv'
  BY <1>1, <1>2 DEF FlowInv, KnownFieldsArrive
<1>3. ASSUME UNCHANGED gateway PROVE ServesRead'
  BY <1>3 DEF FlowInv, ServesRead
<1>4. CASE UNCHANGED agwVars
  BY <1>2, <1>3, <1>4 DEF agwVars
<1>5. ASSUME NEW e \in Editors, NEW text \in DOMAIN Contracts, SaveIdl(e, text) PROVE FlowInv'
  BY <1>2, <1>3, <1>5 DEF SaveIdl
<1>6. ASSUME NEW e \in Editors, SaveFill(e) PROVE FlowInv'
  BY <1>2, <1>3, <1>6 DEF SaveFill
<1>7. ASSUME NEW e \in Editors, PublishAgw(e) PROVE FlowInv'
  BY <1>2, <1>3, <1>7 DEF PublishAgw
<1>8. ASSUME NEW e \in Editors, Restart(e) PROVE FlowInv'
  <2>1. gateway'.at = "starting" /\ UNCHANGED <<orders, answered>>
    BY <1>8 DEF Restart
  <2> QED
    BY <1>2, <2>1 DEF ServesRead
<1>9. ASSUME NEW e \in Editors, RestartFails(e) PROVE FlowInv'
  <2>1. (gateway' = gateway \/ gateway'.at = "down") /\ UNCHANGED <<orders, answered>>
    BY <1>9 DEF RestartFails
  <2> QED
    BY <1>2, <1>3, <2>1 DEF ServesRead
<1>10. ASSUME NEW e \in Editors, Record(e) PROVE FlowInv'
  BY <1>2, <1>3, <1>10 DEF Record
<1>11. CASE StartGateway
  <2>1. UNCHANGED <<orders, answered>> /\ (gateway'.at = "down" \/ (gateway'.text = idl /\ Specs[idl].ok))
    BY <1>11 DEF StartGateway
  <2>2. idl \in DOMAIN Contracts
    BY DEF FlowInv, AgwInv
  <2> QED
    BY <1>2, <2>1, <2>2 DEF ServesRead
<1>12. CASE StartNoBackend
  <2>1. gateway'.at = "down" /\ UNCHANGED <<orders, answered>>
    BY <1>12 DEF StartNoBackend
  <2> QED
    BY <1>2, <2>1 DEF ServesRead
<1>13. ASSUME NEW r \in Requests, handle(r) PROVE FlowInv'
  <2>1. OrdersTyped(orders') /\ Cardinality(DOMAIN orders') <= MaxOrder + 1 /\ Arrived(answered')
    BY <1>13, HandleFlows
  <2>2. ServesRead'
    BY <1>3, <1>13 DEF handle
  <2> QED
    BY <1>1, <2>1, <2>2 DEF FlowInv, KnownFieldsArrive
<1> QED
  BY <1>4, <1>5, <1>6, <1>7, <1>8, <1>9, <1>10, <1>11, <1>12, <1>13 DEF AgwNext

LEMMA InitFlows == AgwInit => FlowInv
<1> SUFFICES ASSUME AgwInit PROVE FlowInv
  OBVIOUS
<1>1. AgwInv
  BY InitAgw
<1>2. ServesRead
  <2>1. gateway.text = First
    BY DEF AgwInit
  <2> QED
    BY <2>1, AgwAssumption DEF ServesRead
<1>3. OrdersTyped(orders) /\ Cardinality(DOMAIN orders) <= MaxOrder + 1
  <2>1. Int64(1001) \in I64 /\ Int64(1) \in I64
    <3>1. 0 \in Word /\ 1001 \in Word /\ 1 \in Word
      BY SMT DEF Word
    <3> QED
      BY <3>1 DEF Int64, I64
  <2> DEFINE id == Int64(1001)
  <2>2. orders = [x \in {id} |-> [userID |-> Int64(1), status |-> paid]]
    BY DEF AgwInit
  <2> HIDE DEF id
  <2>3. DOMAIN orders = {id} /\ \A x \in {id} : orders[x].userID = Int64(1) /\ orders[x].status = paid
    BY <2>2
  <2>4. IsFiniteSet({id}) /\ Cardinality({id}) = 1
    BY FS_Singleton
  <2>5. OrdersTyped(orders)
    BY <2>1, <2>3, <2>4 DEF OrdersTyped, id
  <2>6. Cardinality(DOMAIN orders) <= MaxOrder + 1
    BY <2>3, <2>4, AgwAssumption
  <2> QED
    BY <2>5, <2>6
<1>4. KnownFieldsArrive
  <2>1. answered.how = "none"
    BY DEF AgwInit
  <2>2. answered.how \notin {"request", "error", "reply", "fine"}
    BY <2>1
  <2> QED
    BY <2>2, Zenon DEF KnownFieldsArrive, Arrived
<1> QED
  BY <1>1, <1>2, <1>3, <1>4 DEF FlowInv

(* Where the contract the gateway has read agrees with the code the order  *)
(* service was built with on a method's structs, every value a request     *)
(* gives arrives at the service by its field's id, a number rounded to a   *)
(* float64 if it has more than 53 bits, and zero at the others, and every  *)
(* value of the answer comes back by the contract's names, save names that *)
(* two fields of it share: for any texts with their fields in any order,   *)
(* renamed, added or dropped, any JSON values that Encode takes, any       *)
(* bytes, and however often the contract changes in between.               *)
THEOREM FieldsArrive == AgwSpec => []KnownFieldsArrive
<1>1. FlowInv => KnownFieldsArrive
  BY DEF FlowInv
<1> QED
  BY <1>1, InitFlows, NextFlows, PTL DEF AgwSpec
=============================================================================
