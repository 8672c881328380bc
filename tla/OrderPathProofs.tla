-------------------------- MODULE OrderPathProofs ---------------------------
(***************************************************************************)
(* Proofs about the order path: for any number of requests below the range *)
(* of sequence numbers, any number of user instances, deaths and outages.  *)
(*                                                                         *)
(* PathInv has the shape of the state (PathTyped), who holds a connection  *)
(* (Held), and a ledger (PathLedger) that gives to every number ever used  *)
(* on a connection the request that used it: answers, spans and orders are *)
(* matched with requests through it.                                       *)
(***************************************************************************)
EXTENDS OrderPath, FiniteSetTheorems, SequenceTheorems, TLAPS

-----------------------------------------------------------------------------
(* The invariant.  First what the state looks like. *)

Items(s) == {s[i] : i \in 1 .. Len(s)}
Queue(s) == s \in Seq(Items(s))

IsConn(c) ==
    /\ DOMAIN c = {"addr", "closed", "gone", "seq", "holder", "out", "in"}
    /\ c.addr \in UserAddrs \cup {OrderAddr}
    /\ c.closed \in BOOLEAN /\ c.gone \in BOOLEAN
    /\ c.seq \in Nat
    /\ Queue(c.out) /\ Queue(c.in)
    /\ c.closed => c.in = <<>>
    /\ c.gone => c.out = <<>>

Conns == 1 .. Len(conn)
Gate  == {k \in Conns : conn[k].addr = OrderAddr}

ConnTyped == Queue(conn) /\ \A k \in Conns : IsConn(conn[k])

ServingTyped ==
    /\ Queue(serving) /\ Len(serving) = Len(conn)
    /\ \A k \in Conns :
          \/ serving[k] = NoFrame
          \/ /\ k \in Gate
             /\ serving[k].typ = "user" /\ DOMAIN serving[k] = {"typ", "m", "peer", "user", "called"}
             /\ serving[k].called \in BOOLEAN
             /\ serving[k].peer \in Conns \ Gate

IsReq(r, gate) ==
    /\ r.at \in {"call", "wait", "failed", "close", "done"}
    /\ r.b.method \in {"bad", "GetOrder", "CreateOrder"}
    /\ r.lost \in BOOLEAN
    /\ r.at # "done" =>
          /\ DOMAIN r = {"at", "b", "direct", "conn", "old", "try", "lost"}
          /\ r.conn \in gate
          /\ r.try \in {1, 2}
    /\ r.at \in {"call", "wait"} => r.b.method # "bad"
    /\ r.at = "failed" => r.try = 1
    /\ r.at = "close" => r.try = 2 /\ r.old \in gate

ReqTyped ==
    /\ Queue(req) /\ Len(req) <= MaxAsk
    /\ clis \in Gate /\ dcli \in Gate
    /\ \A p \in 1 .. Len(req) : IsReq(req[p], Gate)

(* The user instances: connections of their addresses. *)
PeerAt(k, a) == k \in Conns /\ conn[k].addr = a

Peers ==
    /\ rr \in Nat
    /\ registry \subseteq UserAddrs
    /\ users = [a \in DOMAIN users |-> users[a]] /\ DOMAIN users \subseteq UserAddrs
    /\ \A a \in DOMAIN users : PeerAt(users[a], a) /\ ~conn[users[a]].closed
    /\ early \subseteq UserAddrs
    /\ \/ watch \in {Sleeping, NotRunning}
       \/ watch = [at |-> "apply", addrs |-> watch.addrs] /\ watch.addrs \subseteq UserAddrs
       \/ /\ watch = [at |-> "drop", old |-> watch.old, addrs |-> watch.addrs]
          /\ DOMAIN users \subseteq watch.addrs
          /\ DOMAIN watch.old \subseteq UserAddrs
          /\ \A a \in DOMAIN watch.old : PeerAt(watch.old[a], a)

PathTyped == ConnTyped /\ ServingTyped /\ ReqTyped /\ Peers

(* A connection to a user instance has one call at a time: the frame in    *)
(* it, if there is one, belongs to the handler that holds its mutex.       *)
Busy(c) == Len(c.in) + Len(c.out)

OneCall(h) ==
    /\ Busy(conn[h]) <= 1
    /\ Busy(conn[h]) # 0 => /\ conn[h].holder \in Gate
                      /\ serving[conn[h].holder].typ = "user"
                      /\ serving[conn[h].holder].called /\ serving[conn[h].holder].peer = h
    /\ \A m \in Items(conn[h].out) : m.arg.req = serving[conn[h].holder].m.arg.req
    /\ \A m \in Items(conn[h].in) : m.value.req = serving[conn[h].holder].m.arg.req

OneAtATime == \A h \in Conns \ Gate : ~conn[h].closed => OneCall(h)
CallHolds  == \A k \in Gate : serving[k].typ = "user" /\ serving[k].called => conn[serving[k].peer].holder = k
WaitHolds  == \A p \in 1 .. Len(req) : req[p].at = "wait" => conn[req[p].conn].holder = p

Held == OneAtATime /\ CallHolds /\ WaitHolds

(* A second try to make an order comes only after a first call without     *)
(* an answer.                                                              *)
SecondTries ==
    \A p \in 1 .. Len(req) :
        LET r == req[p]
        IN  r.b.method = "CreateOrder" /\ (r.at = "failed" \/ (r.at \in {"call", "wait", "close"} /\ r.try = 2)) => r.lost

(* The ledger of the calls to the order service: the n-th call of          *)
(* connection k is for request who[k][n], in its turn[k][n]-th try.        *)
Used(who, turn) ==
    \A k \in Gate : \A n \in 1 .. conn[k].seq :
        /\ who[k][n] \in 1 .. Len(req)
        /\ LET r == req[who[k][n]]
           IN  /\ r.at = "done" \/ turn[k][n] < r.try \/ (turn[k][n] = r.try /\ r.at \in {"wait", "failed"})
               /\ turn[k][n] = 2 /\ r.b.method = "CreateOrder" => r.lost

Once(who, turn) ==
    \A k, h \in Gate : \A n \in 1 .. conn[k].seq, m \in 1 .. conn[h].seq :
        /\ who[k][n] = who[h][m] /\ turn[k][n] = turn[h][m] => k = h /\ n = m
        /\ who[k][n] = who[h][m] /\ k = h => n = m

Waiting(who) ==
    \A p \in 1 .. Len(req) :
        /\ req[p].at = "wait" => /\ conn[req[p].conn].seq # 0
                                 /\ who[req[p].conn][conn[req[p].conn].seq] = p
        /\ req[p].at \in {"call", "close"} => \A n \in 1 .. conn[req[p].conn].seq : who[req[p].conn][n] # p

OfCall(who, k, m) ==
    /\ m.seq \in 1 .. conn[k].seq
    /\ m.arg.req = who[k][m.seq]
    /\ m.hdr = NoSpan
    /\ m.method = req[who[k][m.seq]].b.method

ReplyOwn(who, k, m) ==
    /\ m.seq \in 1 .. conn[k].seq
    /\ m.value.req = who[k][m.seq]
    /\ m.typ = "reply" \/ req[who[k][m.seq]].b.method # "CreateOrder"

HandledOwn(who, k, s) == s.typ = "user" => OfCall(who, k, s.m) /\ s.m.method = "GetOrder"

GateFrames(who) ==
    \A k \in Gate :
        /\ \A m \in Items(conn[k].out) : OfCall(who, k, m)
        /\ \A m \in Items(conn[k].in) : ReplyOwn(who, k, m)
        /\ HandledOwn(who, k, serving[k])

(* A header that names the call of an order service's connection. *)
Below(who, hdr, q) ==
    \E k \in Gate : \E n \in 1 .. conn[k].seq : hdr = [trace |-> <<k, n>>, span |-> <<k, n>>] /\ q = who[k][n]

UserCall(who, m) == m.method = "GetUser" /\ Below(who, m.hdr, m.arg.req)

UserFrames(who) == \A h \in Conns \ Gate : \A m \in Items(conn[h].out) : UserCall(who, m)

MadeBy(who, e) ==
    /\ e = <<e[1], e[2], e[3]>>
    /\ e[2] \in Gate /\ e[3] \in 1 .. conn[e[2]].seq
    /\ e[1] = who[e[2]][e[3]]
    /\ req[e[1]].b.method = "CreateOrder"

MadeOwn(who) == \A e \in made : MadeBy(who, e)

SpanOwn(who, s) ==
    LET h == s.span.span[1]
        n == s.span.span[2]
    IN  /\ s.span.span = <<h, n>> /\ h \in Conns
        /\ s.method = "GetUser" =>
              h \notin Gate /\ Below(who, [trace |-> s.span.trace, span |-> s.span.parent], s.req)
        /\ s.method # "GetUser" =>
              h \in Gate /\ n \in 1 .. conn[h].seq /\ s.span.trace = <<h, n>> /\ s.req = who[h][n]

SpansOwn(who) == \A s \in spans : SpanOwn(who, s)

Frames(who) == GateFrames(who) /\ UserFrames(who) /\ MadeOwn(who) /\ SpansOwn(who)

Ledger(who, turn) ==
    /\ Used(who, turn) /\ Once(who, turn) /\ Waiting(who) /\ SecondTries
    /\ Frames(who)

Ledgers(S) == [Nat -> [Nat -> S]]
PathLedger == \E who \in Ledgers(Nat), turn \in Ledgers({1, 2}) : Ledger(who, turn)

(* AnswerIsOwn. *)
AnswersOwn == \A q \in 1 .. Len(req) : req[q].at = "done" /\ req[q].ok => req[q].value.req = q

PathInv == PathTyped /\ Held /\ AnswersOwn /\ PathLedger

-----------------------------------------------------------------------------
(* Sets of addresses in their order. *)

Rank(S, a) == Cardinality({b \in S : b < a})

\* Two elements of a set have not the same number of elements below them.
LEMMA RanksDiffer ==
  ASSUME NEW S \in SUBSET Nat, IsFiniteSet(S), NEW a \in S, NEW b \in S, a < b
  PROVE  Rank(S, a) < Rank(S, b)
<1> DEFINE A == {c \in S : c < a}
           B == {c \in S : c < b}
<1>1. A \subseteq B /\ B \subseteq S /\ a \in B /\ a \notin A
  <2>1. \A c \in A : c \in B
    BY SMT
  <2>2. a \in B /\ a \notin A
    BY SMT
  <2>3. B \subseteq S
    OBVIOUS
  <2> HIDE DEF A, B
  <2> QED
    BY <2>1, <2>2, <2>3
<1>2. IsFiniteSet(B) /\ IsFiniteSet(A) /\ Cardinality(A) <= Cardinality(B)
      /\ (Cardinality(B) = Cardinality(A) => A = B)
  BY <1>1, FS_Subset
<1>3. Cardinality(A) \in Nat /\ Cardinality(B) \in Nat
  BY <1>2, FS_CardinalityType
<1> QED
  BY <1>1, <1>2, <1>3 DEF Rank

LEMMA RankBound ==
  ASSUME NEW S \in SUBSET Nat, IsFiniteSet(S), NEW a \in S
  PROVE  Rank(S, a) \in 0 .. Cardinality(S) - 1 /\ Cardinality(S) \in Nat
<1> DEFINE A == {c \in S : c < a}
<1>1. A \subseteq S /\ A # S
  BY SMT
<1>2. IsFiniteSet(A) /\ Cardinality(A) <= Cardinality(S) /\ (Cardinality(S) = Cardinality(A) => S = A)
  BY <1>1, FS_Subset
<1>3. Cardinality(A) \in Nat /\ Cardinality(S) \in Nat
  BY <1>2, FS_CardinalityType
<1> QED
  BY <1>1, <1>2, <1>3 DEF Rank

\* Nth finds the element of a rank, and every rank below the size has one.
LEMMA NthRank ==
  ASSUME NEW S \in SUBSET Nat, IsFiniteSet(S)
  PROVE  /\ \A a \in S : Nth(S, Rank(S, a)) = a
         /\ \A n \in 0 .. Cardinality(S) - 1 : Nth(S, n) \in S
<1> DEFINE T == 0 .. Cardinality(S) - 1
           f == [a \in S |-> Rank(S, a)]
<1>0. Cardinality(S) \in Nat
  BY FS_CardinalityType
<1>1. ASSUME NEW a \in S, NEW b \in S, Rank(S, a) = Rank(S, b) PROVE a = b
  <2>1. Rank(S, a) \in Nat /\ Rank(S, b) \in Nat /\ a \in Nat /\ b \in Nat
    BY RankBound, SMT
  <2> QED
    BY <1>1, <2>1, RanksDiffer
<1>2. f \in Injection(S, T)
  BY <1>1, RankBound DEF Injection, IsInjective
<1>3. IsFiniteSet(T) /\ Cardinality(T) = Cardinality(S)
  <2>1. 0 \in Int /\ Cardinality(S) - 1 \in Int
    BY <1>0
  <2>2. IsFiniteSet(T) /\ Cardinality(T) = IF 0 > Cardinality(S) - 1 THEN 0 ELSE (Cardinality(S) - 1) - 0 + 1
    BY <2>1, FS_Interval
  <2> QED
    BY <1>0, <2>2
<1>4. f \in Surjection(S, T)
  BY <1>2, <1>3, FS_Injection
<1>5. \A n \in T : \E a \in S : Rank(S, a) = n
  BY <1>4 DEF Surjection
<1>6. ASSUME NEW a \in S PROVE Nth(S, Rank(S, a)) = a
  <2> DEFINE n == Rank(S, a)
  <2>1. \E c \in S : Rank(S, c) = n
    OBVIOUS
  <2> HIDE DEF n
  <2>2. Nth(S, n) \in S /\ Rank(S, Nth(S, n)) = n
    BY <2>1 DEF Nth, Rank
  <2> QED
    BY <1>1, <2>2 DEF n
<1>7. ASSUME NEW n \in T PROVE Nth(S, n) \in S
  <2>1. \E c \in S : Rank(S, c) = n
    BY <1>5
  <2> QED
    BY <2>1 DEF Nth, Rank
<1> QED
  BY <1>6, <1>7
-----------------------------------------------------------------------------
(* Queues: sequences of whatever is in them. *)

LEMMA QueueNil == Queue(<<>>) /\ Items(<<>>) = {} /\ Len(<<>>) = 0
BY DEF Queue, Items

\* What is appended is the one new item.
LEMMA QueueAppend ==
  ASSUME NEW s, NEW x, Queue(s)
  PROVE  /\ Queue(Append(s, x)) /\ Items(Append(s, x)) = Items(s) \cup {x}
         /\ Len(Append(s, x)) = Len(s) + 1 /\ Len(s) \in Nat
<1> DEFINE t == Append(s, x)
           T == Items(s) \cup {x}
<1>1. s \in Seq(T) /\ x \in T /\ Len(s) \in Nat
  <2>1. s \in Seq(Items(s))
    BY DEF Queue
  <2>2. Len(s) \in Nat /\ DOMAIN s = 1 .. Len(s) /\ s \in [1 .. Len(s) -> Items(s)]
    BY <2>1
  <2>3. s \in [1 .. Len(s) -> T]
    BY <2>2
  <2> QED
    BY <2>2, <2>3
<1>2. t \in Seq(T) /\ Len(t) = Len(s) + 1 /\ \A i \in 1 .. Len(t) : t[i] = IF i <= Len(s) THEN s[i] ELSE x
  BY <1>1
<1>3. Items(t) = T
  <2>1. \A i \in 1 .. Len(t) : t[i] \in T
    BY <1>2
  <2>2. \A i \in 1 .. Len(s) : s[i] = t[i] /\ i \in 1 .. Len(t)
    BY <1>1, <1>2
  <2>3. x = t[Len(s) + 1] /\ Len(s) + 1 \in 1 .. Len(t)
    BY <1>1, <1>2
  <2> HIDE DEF t
  <2> QED
    BY <2>1, <2>2, <2>3 DEF Items
<1> QED
  BY <1>1, <1>2, <1>3 DEF Queue

\* What is taken from the front was in the queue.
LEMMA QueueTail ==
  ASSUME NEW s, Queue(s), s # <<>>
  PROVE  /\ Queue(Tail(s)) /\ Items(Tail(s)) \subseteq Items(s) /\ Head(s) \in Items(s)
         /\ Len(Tail(s)) = Len(s) - 1 /\ Len(s) \in Nat /\ Len(s) # 0
<1> DEFINE t == Tail(s)
<1>1. s \in Seq(Items(s)) /\ Len(s) \in Nat
  BY DEF Queue
<1>2. Len(s) # 0
  BY <1>1, EmptySeq
<1>3. t \in Seq(Items(s)) /\ Len(t) = Len(s) - 1 /\ \A i \in 1 .. Len(t) : t[i] = s[i + 1]
  BY <1>1, <1>2
<1>4. Head(s) = s[1] /\ 1 \in 1 .. Len(s)
  BY <1>1, <1>2
<1>5. \A i \in 1 .. Len(t) : i + 1 \in 1 .. Len(s)
  BY <1>1, <1>3
<1>6. Items(t) \subseteq Items(s) /\ Head(s) \in Items(s)
  <2> HIDE DEF t
  <2> QED
    BY <1>3, <1>4, <1>5 DEF Items
<1>7. t \in [1 .. Len(t) -> Items(t)] /\ Len(t) \in Nat
  <2> HIDE DEF t
  <2>1. t \in [1 .. Len(t) -> Items(s)] /\ Len(t) \in Nat
    BY <1>3
  <2> QED
    BY <2>1 DEF Items
<1>8. t \in Seq(Items(t))
  <2> HIDE DEF t
  <2> QED
    BY <1>7
<1> QED
  BY <1>1, <1>2, <1>3, <1>6, <1>8 DEF Queue

\* A function on 1 .. n is a queue.
LEMMA QueueOf ==
  ASSUME NEW n \in Nat, NEW s, s = [i \in 1 .. n |-> s[i]]
  PROVE  Queue(s) /\ Len(s) = n
<1>1. s \in [1 .. n -> {s[i] : i \in 1 .. n}]
  OBVIOUS
<1>2. s \in Seq({s[i] : i \in 1 .. n})
  BY <1>1
<1>3. Len(s) = n
  BY <1>1, <1>2
<1> QED
  BY <1>2, <1>3 DEF Queue, Items

LEMMA QueueShape ==
  ASSUME NEW s, Queue(s)
  PROVE  Len(s) \in Nat /\ DOMAIN s = 1 .. Len(s) /\ s = [i \in 1 .. Len(s) |-> s[i]]
BY DEF Queue

LEMMA QueueConcat ==
  ASSUME NEW s, NEW t, Queue(s), Queue(t)
  PROVE  /\ Queue(s \o t) /\ Len(s \o t) = Len(s) + Len(t)
         /\ \A i \in 1 .. Len(s) : (s \o t)[i] = s[i]
         /\ \A i \in 1 .. Len(t) : (s \o t)[Len(s) + i] = t[i]
<1> DEFINE T == Items(s) \cup Items(t)
           w == s \o t
<1>1. s \in Seq(T) /\ t \in Seq(T) /\ Len(s) \in Nat /\ Len(t) \in Nat
  <2>1. s \in [1 .. Len(s) -> Items(s)] /\ t \in [1 .. Len(t) -> Items(t)] /\ Len(s) \in Nat /\ Len(t) \in Nat
    BY DEF Queue
  <2>2. s \in [1 .. Len(s) -> T] /\ t \in [1 .. Len(t) -> T]
    BY <2>1
  <2> QED
    BY <2>1, <2>2
<1>2. w \in Seq(T) /\ Len(w) = Len(s) + Len(t)
      /\ \A i \in 1 .. Len(w) : w[i] = IF i <= Len(s) THEN s[i] ELSE t[i - Len(s)]
  BY <1>1
<1>3. w = [i \in 1 .. Len(w) |-> w[i]] /\ Len(w) \in Nat
  <2> HIDE DEF w
  <2> QED
    BY <1>2
<1>4. Queue(w)
  BY <1>3, QueueOf
<1>5. ASSUME NEW i \in 1 .. Len(t) PROVE w[Len(s) + i] = t[i]
  <2>1. Len(s) + i \in 1 .. Len(w) /\ ~(Len(s) + i <= Len(s)) /\ Len(s) + i - Len(s) = i
    BY <1>1, <1>2
  <2> QED
    BY <1>2, <2>1
<1>6. ASSUME NEW i \in 1 .. Len(s) PROVE w[i] = s[i]
  <2>1. i \in 1 .. Len(w) /\ i <= Len(s)
    BY <1>1, <1>2
  <2> QED
    BY <1>2, <2>1
<1> QED
  BY <1>2, <1>4, <1>5, <1>6

-----------------------------------------------------------------------------
(* The connections, and what a step does to some of them. *)

LEMMA ConnsShape ==
  ASSUME ConnTyped
  PROVE  /\ Len(conn) \in Nat /\ DOMAIN conn = Conns /\ conn = [k \in Conns |-> conn[k]]
         /\ \A k \in Conns : IsConn(conn[k])
         /\ Gate \subseteq Conns /\ Conns \subseteq Nat
BY QueueShape DEF ConnTyped, Conns, Gate

\* The same connections, some of them in another state.
LEMMA SameConns ==
  ASSUME ConnTyped, conn' = [k \in DOMAIN conn |-> conn'[k]],
         \A k \in Conns : IsConn(conn'[k]) /\ conn'[k].addr = conn[k].addr
  PROVE  ConnTyped' /\ Len(conn') = Len(conn) /\ Conns' = Conns /\ Gate' = Gate
<1>1. Queue(conn') /\ Len(conn') = Len(conn)
  BY ConnsShape, QueueOf DEF Conns
<1> QED
  BY <1>1 DEF ConnTyped, Conns, Gate

\* One connection in another state.
LEMMA OneConn ==
  ASSUME ConnTyped, NEW k \in Conns, NEW d, IsConn(d), d.addr = conn[k].addr, conn' = [conn EXCEPT ![k] = d]
  PROVE  /\ ConnTyped' /\ Len(conn') = Len(conn) /\ Conns' = Conns /\ Gate' = Gate
         /\ conn'[k] = d /\ \A h \in Conns : h # k => conn'[h] = conn[h]
<1>1. conn'[k] = d /\ \A h \in Conns : h # k => conn'[h] = conn[h]
  BY ConnsShape
<1>2. conn' = [h \in DOMAIN conn |-> conn'[h]]
  BY ConnsShape
<1>3. \A h \in Conns : IsConn(conn'[h]) /\ conn'[h].addr = conn[h].addr
  BY <1>1, ConnsShape
<1> QED
  BY <1>1, <1>2, <1>3, SameConns

\* More connections.
LEMMA MoreConns ==
  ASSUME ConnTyped, NEW s, Queue(s), \A i \in 1 .. Len(s) : IsConn(s[i]),
         conn' = conn \o s
  PROVE  /\ ConnTyped' /\ Len(conn') = Len(conn) + Len(s)
         /\ \A k \in Conns : k \in Conns' /\ conn'[k] = conn[k] /\ (k \in Gate' <=> k \in Gate)
         /\ \A i \in 1 .. Len(s) : Len(conn) + i \in Conns' /\ conn'[Len(conn) + i] = s[i]
         /\ \A k \in Conns' : k \in Conns \/ \E i \in 1 .. Len(s) : k = Len(conn) + i
<1>1. Queue(s) /\ Len(s) \in Nat
  BY QueueShape
<1>2. Queue(conn') /\ Len(conn') = Len(conn) + Len(s) /\ Len(conn) \in Nat
      /\ (\A i \in 1 .. Len(conn) : conn'[i] = conn[i]) /\ \A i \in 1 .. Len(s) : conn'[Len(conn) + i] = s[i]
  <2>1. Queue(conn) /\ Len(conn) \in Nat
    BY QueueShape DEF ConnTyped
  <2>2. /\ Queue(conn \o s) /\ Len(conn \o s) = Len(conn) + Len(s)
        /\ \A i \in 1 .. Len(conn) : (conn \o s)[i] = conn[i]
        /\ \A i \in 1 .. Len(s) : (conn \o s)[Len(conn) + i] = s[i]
    BY <1>1, <2>1, QueueConcat
  <2> QED
    BY <1>1, <2>1, <2>2
<1>3. \A k \in Conns' : k \in Conns \/ (k - Len(conn) \in 1 .. Len(s) /\ k = Len(conn) + (k - Len(conn)))
  BY <1>2 DEF Conns
<1>4. (\A k \in Conns : k \in Conns') /\ \A i \in 1 .. Len(s) : Len(conn) + i \in Conns'
  BY <1>2 DEF Conns
<1>5. \A k \in Conns' : IsConn(conn'[k])
  BY <1>2, <1>3 DEF Conns, ConnTyped
<1> QED
  BY <1>2, <1>3, <1>4, <1>5 DEF Conns, ConnTyped, Gate

\* CallWrite: the call is numbered and its frame sent, unless the connection has ended.
LEMMA Writes ==
  ASSUME ConnTyped, NEW k \in Conns, NEW p, NEW method, NEW arg, NEW hdr, conn' = CallWrite(p, k, method, arg, hdr)
  PROVE  /\ ConnTyped' /\ Len(conn') = Len(conn) /\ Conns' = Conns /\ Gate' = Gate
         /\ \A h \in Conns : h # k => conn'[h] = conn[h]
         /\ conn'[k].addr = conn[k].addr /\ conn'[k].closed = conn[k].closed /\ conn'[k].gone = conn[k].gone
         /\ conn'[k].seq = (conn[k].seq + 1) % SeqLimit /\ conn'[k].holder = p
         /\ conn'[k].in = conn[k].in
         /\ conn'[k].out = IF conn[k].closed \/ conn[k].gone THEN conn[k].out
                           ELSE Append(conn[k].out, Frame((conn[k].seq + 1) % SeqLimit, method, arg, hdr))
<1> DEFINE c == conn[k]
           seq == (c.seq + 1) % SeqLimit
           out == IF c.closed \/ c.gone THEN c.out ELSE Append(c.out, Frame(seq, method, arg, hdr))
           d == [c EXCEPT !.seq = seq, !.holder = p, !.out = out]
<1>1. IsConn(c)
  BY ConnsShape
<1>2. seq \in Nat /\ Queue(out)
  BY <1>1, QueueAppend, RpcAssumption DEF IsConn
<1>3. /\ IsConn(d) /\ d.addr = c.addr /\ d.closed = c.closed /\ d.gone = c.gone /\ d.seq = seq /\ d.holder = p
      /\ d.out = out /\ d.in = c.in
  <2>1. out = c.out \/ (~c.closed /\ ~c.gone)
    OBVIOUS
  <2> HIDE DEF seq, out, c
  <2> QED
    BY <1>1, <1>2, <2>1 DEF IsConn
<1>4. conn' = [conn EXCEPT ![k] = d]
  BY DEF CallWrite
<1>5. /\ ConnTyped' /\ Len(conn') = Len(conn) /\ Conns' = Conns /\ Gate' = Gate
      /\ conn'[k] = d /\ \A h \in Conns : h # k => conn'[h] = conn[h]
  <2> HIDE DEF d
  <2> QED
    BY <1>3, <1>4, OneConn
<1> QED
  BY <1>3, <1>5

\* AfterRead: the mutex is free and the frame that was read is gone.
LEMMA Reads ==
  ASSUME ConnTyped, NEW k \in Conns, conn' = AfterRead(k)
  PROVE  /\ ConnTyped' /\ Len(conn') = Len(conn) /\ Conns' = Conns /\ Gate' = Gate
         /\ \A h \in Conns : h # k => conn'[h] = conn[h]
         /\ conn'[k].addr = conn[k].addr /\ conn'[k].closed = conn[k].closed /\ conn'[k].gone = conn[k].gone
         /\ conn'[k].seq = conn[k].seq /\ conn'[k].holder = Nobody /\ conn'[k].out = conn[k].out
         /\ conn'[k].in = IF conn[k].closed \/ conn[k].in = <<>> THEN conn[k].in ELSE Tail(conn[k].in)
<1> DEFINE c == conn[k]
           in == IF c.closed \/ c.in = <<>> THEN c.in ELSE Tail(c.in)
           d == [c EXCEPT !.holder = Nobody, !.in = in]
<1>1. IsConn(c)
  BY ConnsShape
<1>2. Queue(in) /\ (c.closed => in = <<>>)
  BY <1>1, QueueTail DEF IsConn
<1>3. /\ IsConn(d) /\ d.addr = c.addr /\ d.closed = c.closed /\ d.gone = c.gone /\ d.seq = c.seq
      /\ d.holder = Nobody /\ d.out = c.out /\ d.in = in
  <2> HIDE DEF in, c
  <2> QED
    BY <1>1, <1>2 DEF IsConn
<1>4. conn' = [conn EXCEPT ![k] = d]
  BY DEF AfterRead, Rest
<1>5. /\ ConnTyped' /\ Len(conn') = Len(conn) /\ Conns' = Conns /\ Gate' = Gate
      /\ conn'[k] = d /\ \A h \in Conns : h # k => conn'[h] = conn[h]
  <2> HIDE DEF d
  <2> QED
    BY <1>3, <1>4, OneConn
<1> QED
  BY <1>3, <1>5

LEMMA TimesOut ==
  ASSUME ConnTyped, NEW k \in Conns, conn' = AfterTimeout(k)
  PROVE  /\ ConnTyped' /\ Len(conn') = Len(conn) /\ Conns' = Conns /\ Gate' = Gate
         /\ \A h \in Conns : h # k => conn'[h] = conn[h]
         /\ conn'[k].addr = conn[k].addr /\ conn'[k].closed = conn[k].closed /\ conn'[k].gone = conn[k].gone
         /\ conn'[k].seq = conn[k].seq /\ conn'[k].holder = Nobody /\ conn'[k].out = conn[k].out
         /\ conn'[k].in = conn[k].in
<1> DEFINE c == conn[k]
           d == [c EXCEPT !.holder = Nobody]
<1>1. IsConn(c)
  BY ConnsShape
<1>3. /\ IsConn(d) /\ d.addr = c.addr /\ d.closed = c.closed /\ d.gone = c.gone /\ d.seq = c.seq
      /\ d.holder = Nobody /\ d.out = c.out /\ d.in = c.in
  <2> HIDE DEF c
  <2> QED
    BY <1>1 DEF IsConn
<1>4. conn' = [conn EXCEPT ![k] = d]
  BY DEF AfterTimeout
<1>5. /\ ConnTyped' /\ Len(conn') = Len(conn) /\ Conns' = Conns /\ Gate' = Gate
      /\ conn'[k] = d /\ \A h \in Conns : h # k => conn'[h] = conn[h]
  <2> HIDE DEF d
  <2> QED
    BY <1>3, <1>4, OneConn
<1> QED
  BY <1>3, <1>5

\* The server takes a frame ...
LEMMA Takes ==
  ASSUME ConnTyped, NEW k \in Conns, conn[k].out # <<>>, conn' = Taken(k)
  PROVE  /\ ConnTyped' /\ Len(conn') = Len(conn) /\ Conns' = Conns /\ Gate' = Gate
         /\ \A h \in Conns : h # k => conn'[h] = conn[h]
         /\ conn'[k].addr = conn[k].addr /\ conn'[k].closed = conn[k].closed /\ conn'[k].gone = conn[k].gone
         /\ conn'[k].seq = conn[k].seq /\ conn'[k].holder = conn[k].holder /\ conn'[k].out = Tail(conn[k].out)
         /\ conn'[k].in = conn[k].in
<1> DEFINE c == conn[k]
           out == Tail(c.out)
           d == [c EXCEPT !.out = out]
<1>1. IsConn(c)
  BY ConnsShape
<1>2. Queue(out) /\ ~c.gone
  BY <1>1, QueueTail DEF IsConn
<1>3. /\ IsConn(d) /\ d.addr = c.addr /\ d.closed = c.closed /\ d.gone = c.gone /\ d.seq = c.seq
      /\ d.holder = c.holder /\ d.out = out /\ d.in = c.in
  <2> HIDE DEF c, out
  <2> QED
    BY <1>1, <1>2 DEF IsConn
<1>4. conn' = [conn EXCEPT ![k] = d]
  BY DEF Taken
<1>5. /\ ConnTyped' /\ Len(conn') = Len(conn) /\ Conns' = Conns /\ Gate' = Gate
      /\ conn'[k] = d /\ \A h \in Conns : h # k => conn'[h] = conn[h]
  <2> HIDE DEF d
  <2> QED
    BY <1>3, <1>4, OneConn
<1> QED
  BY <1>3, <1>5

Reply(typ, seq, value) == [typ |-> typ, seq |-> seq, value |-> value]

\* ... and may answer it in the same step.
LEMMA Serves ==
  ASSUME ConnTyped, NEW k \in Conns, conn[k].out # <<>>, NEW typ, NEW seq, NEW value,
         conn' = Answered(Taken(k), k, typ, seq, value)
  PROVE  /\ ConnTyped' /\ Len(conn') = Len(conn) /\ Conns' = Conns /\ Gate' = Gate
         /\ \A h \in Conns : h # k => conn'[h] = conn[h]
         /\ conn'[k].addr = conn[k].addr /\ conn'[k].closed = conn[k].closed /\ conn'[k].gone = conn[k].gone
         /\ conn'[k].seq = conn[k].seq /\ conn'[k].holder = conn[k].holder /\ conn'[k].out = Tail(conn[k].out)
         /\ conn'[k].in = IF conn[k].closed THEN conn[k].in ELSE Append(conn[k].in, Reply(typ, seq, value))
<1> DEFINE c == conn[k]
           out == Tail(c.out)
           in == IF c.closed THEN c.in ELSE Append(c.in, Reply(typ, seq, value))
           b == [c EXCEPT !.out = out]
           d == [b EXCEPT !.in = in]
<1>1. IsConn(c)
  BY ConnsShape
<1>2. Queue(out) /\ ~c.gone /\ Queue(in)
  BY <1>1, QueueTail, QueueAppend DEF IsConn
<1>3. /\ IsConn(d) /\ d.addr = c.addr /\ d.closed = c.closed /\ d.gone = c.gone /\ d.seq = c.seq
      /\ d.holder = c.holder /\ d.out = out /\ d.in = in /\ b.closed = c.closed /\ b.in = c.in
  <2>1. c.closed => in = <<>>
    BY <1>1 DEF IsConn
  <2> HIDE DEF c, out, in
  <2> QED
    BY <1>1, <1>2, <2>1 DEF IsConn
<1>4. conn' = [conn EXCEPT ![k] = d]
  <2>1. conn' = [[conn EXCEPT ![k] = b] EXCEPT ![k] = [b EXCEPT !.in = IF b.closed THEN b.in ELSE Append(b.in, Reply(typ, seq, value))]]
    <3>1. [conn EXCEPT ![k] = b][k] = b
      BY ConnsShape
    <3> QED
      BY <3>1 DEF Taken, Answered, Reply
  <2>2. conn' = [[conn EXCEPT ![k] = b] EXCEPT ![k] = d]
    BY <2>1, <1>3
  <2> HIDE DEF b, d
  <2> QED
    BY <2>2, ConnsShape
<1>5. /\ ConnTyped' /\ Len(conn') = Len(conn) /\ Conns' = Conns /\ Gate' = Gate
      /\ conn'[k] = d /\ \A h \in Conns : h # k => conn'[h] = conn[h]
  <2> HIDE DEF d
  <2> QED
    BY <1>3, <1>4, OneConn
<1> QED
  BY <1>3, <1>5

\* A handler reads the answer of its own call, and answers the call it handles.
LEMMA Relays ==
  ASSUME ConnTyped, NEW h \in Conns, NEW k \in Conns, h # k, NEW typ, NEW seq, NEW value,
         conn' = Answered(AfterRead(h), k, typ, seq, value)
  PROVE  /\ ConnTyped' /\ Len(conn') = Len(conn) /\ Conns' = Conns /\ Gate' = Gate
         /\ \A i \in Conns : i # k /\ i # h => conn'[i] = conn[i]
         /\ conn'[k].addr = conn[k].addr /\ conn'[k].closed = conn[k].closed /\ conn'[k].gone = conn[k].gone
         /\ conn'[k].seq = conn[k].seq /\ conn'[k].holder = conn[k].holder /\ conn'[k].out = conn[k].out
         /\ conn'[k].in = IF conn[k].closed THEN conn[k].in ELSE Append(conn[k].in, Reply(typ, seq, value))
         /\ conn'[h].addr = conn[h].addr /\ conn'[h].closed = conn[h].closed /\ conn'[h].gone = conn[h].gone
         /\ conn'[h].seq = conn[h].seq /\ conn'[h].holder = Nobody /\ conn'[h].out = conn[h].out
         /\ conn'[h].in = IF conn[h].closed \/ conn[h].in = <<>> THEN conn[h].in ELSE Tail(conn[h].in)
<1> DEFINE c == conn[k]
           u == conn[h]
           in == IF c.closed THEN c.in ELSE Append(c.in, Reply(typ, seq, value))
           rest == IF u.closed \/ u.in = <<>> THEN u.in ELSE Tail(u.in)
           d == [c EXCEPT !.in = in]
           v == [u EXCEPT !.holder = Nobody, !.in = rest]
<1>1. IsConn(c) /\ IsConn(u)
  BY ConnsShape
<1>2. Queue(rest) /\ (u.closed => rest = <<>>) /\ Queue(in) /\ (c.closed => in = <<>>)
  BY <1>1, QueueTail, QueueAppend DEF IsConn
<1>3. /\ IsConn(v) /\ v.addr = u.addr /\ v.closed = u.closed /\ v.gone = u.gone /\ v.seq = u.seq
      /\ v.holder = Nobody /\ v.out = u.out /\ v.in = rest
  <2> HIDE DEF rest, u
  <2> QED
    BY <1>1, <1>2 DEF IsConn
<1>4. /\ IsConn(d) /\ d.addr = c.addr /\ d.closed = c.closed /\ d.gone = c.gone /\ d.seq = c.seq
      /\ d.holder = c.holder /\ d.out = c.out /\ d.in = in
  <2> HIDE DEF c, in
  <2> QED
    BY <1>1, <1>2 DEF IsConn
<1>5. conn' = [[conn EXCEPT ![h] = v] EXCEPT ![k] = d]
  <2>1. AfterRead(h) = [conn EXCEPT ![h] = v]
    BY DEF AfterRead, Rest
  <2>2. [conn EXCEPT ![h] = v][k] = c
    <3> HIDE DEF v
    <3> QED
      BY ConnsShape
  <2>3. Answered([conn EXCEPT ![h] = v], k, typ, seq, value) = [[conn EXCEPT ![h] = v] EXCEPT ![k] = d]
    <3> HIDE DEF v
    <3> QED
      BY <2>2 DEF Answered, Reply
  <2> QED
    BY <2>1, <2>3
<1>6. /\ conn' = [i \in DOMAIN conn |-> conn'[i]]
      /\ conn'[k] = d /\ conn'[h] = v /\ \A i \in Conns : i # k /\ i # h => conn'[i] = conn[i]
  <2> HIDE DEF d, v
  <2> QED
    BY <1>5, ConnsShape
<1>7. \A i \in Conns : IsConn(conn'[i]) /\ conn'[i].addr = conn[i].addr
  <2> HIDE DEF d, v
  <2> QED
    BY <1>3, <1>4, <1>6, ConnsShape
<1>8. ConnTyped' /\ Len(conn') = Len(conn) /\ Conns' = Conns /\ Gate' = Gate
  BY <1>6, <1>7, SameConns
<1> QED
  BY <1>3, <1>4, <1>6, <1>8

\* Connections are closed.
LEMMA Closes ==
  ASSUME ConnTyped, NEW ks, conn' = Closed(conn, ks)
  PROVE  /\ ConnTyped' /\ Len(conn') = Len(conn) /\ Conns' = Conns /\ Gate' = Gate
         /\ \A k \in Conns :
               /\ conn'[k].addr = conn[k].addr /\ conn'[k].gone = conn[k].gone /\ conn'[k].seq = conn[k].seq
               /\ conn'[k].holder = conn[k].holder /\ conn'[k].out = conn[k].out
         /\ \A k \in Conns : k \in ks => conn'[k].closed /\ conn'[k].in = <<>>
         /\ \A k \in Conns : k \notin ks => conn'[k] = conn[k]
<1>1. conn' = [k \in Conns |-> IF k \in ks THEN [conn[k] EXCEPT !.closed = TRUE, !.in = <<>>] ELSE conn[k]]
  BY ConnsShape DEF Closed
<1>2. ASSUME NEW k \in Conns
      PROVE  /\ IsConn(conn'[k])
             /\ conn'[k].addr = conn[k].addr /\ conn'[k].gone = conn[k].gone /\ conn'[k].seq = conn[k].seq
             /\ conn'[k].holder = conn[k].holder /\ conn'[k].out = conn[k].out
             /\ k \in ks => conn'[k].closed = TRUE /\ conn'[k].in = <<>>
             /\ k \notin ks => conn'[k] = conn[k]
  <2> DEFINE c == conn[k]
             d == [c EXCEPT !.closed = TRUE, !.in = <<>>]
  <2>1. IsConn(c) /\ Queue(<<>>)
    BY ConnsShape, QueueNil
  <2>2. /\ IsConn(d) /\ d.addr = c.addr /\ d.closed = TRUE /\ d.gone = c.gone /\ d.seq = c.seq
        /\ d.holder = c.holder /\ d.out = c.out /\ d.in = <<>>
    <3> HIDE DEF c
    <3> QED
      BY <2>1 DEF IsConn
  <2>3. conn'[k] = IF k \in ks THEN d ELSE c
    BY <1>1
  <2> HIDE DEF c, d
  <2> QED
    BY <2>1, <2>2, <2>3 DEF c
<1>3. conn' = [k \in DOMAIN conn |-> conn'[k]]
  BY <1>1, ConnsShape
<1> QED
  BY <1>2, <1>3, SameConns

\* A server dies with its ends of the connections.
Ends(addr) ==
    \A k \in Conns : conn[k].addr = addr =>
       /\ conn'[k].gone /\ conn'[k].closed = conn[k].closed /\ conn'[k].holder = conn[k].holder
       /\ conn'[k].out = <<>> /\ conn'[k].in = conn[k].in /\ serving'[k] = NoFrame

EndsMine(addr, mine) ==
    \A k \in Conns : conn[k].addr # addr /\ k \in mine =>
       /\ conn'[k].gone = conn[k].gone /\ conn'[k].closed /\ conn'[k].holder = Nobody
       /\ conn'[k].out = conn[k].out /\ conn'[k].in = <<>>

EndsNot(addr, mine) ==
    \A k \in Conns : conn[k].addr # addr => serving'[k] = serving[k] /\ (k \notin mine => conn'[k] = conn[k])

LEMMA Dies ==
  ASSUME ConnTyped, ServingTyped, NEW addr, NEW mine, Die(addr, mine)
  PROVE  /\ ConnTyped' /\ ServingTyped' /\ Len(conn') = Len(conn) /\ Conns' = Conns /\ Gate' = Gate
         /\ \A k \in Conns : conn'[k].addr = conn[k].addr /\ conn'[k].seq = conn[k].seq
         /\ Ends(addr) /\ EndsMine(addr, mine) /\ EndsNot(addr, mine)
<1>1. conn' = [k \in Conns |->
                  IF conn[k].addr = addr THEN [conn[k] EXCEPT !.gone = TRUE, !.out = <<>>]
                  ELSE IF k \in mine THEN [conn[k] EXCEPT !.closed = TRUE, !.holder = Nobody, !.in = <<>>]
                  ELSE conn[k]]
  BY ConnsShape DEF Die
<1>2. ASSUME NEW k \in Conns
      PROVE  /\ IsConn(conn'[k])
             /\ conn'[k].addr = conn[k].addr /\ conn'[k].seq = conn[k].seq
             /\ conn[k].addr = addr =>
                   /\ conn'[k].gone = TRUE /\ conn'[k].closed = conn[k].closed /\ conn'[k].holder = conn[k].holder
                   /\ conn'[k].out = <<>> /\ conn'[k].in = conn[k].in
             /\ conn[k].addr # addr /\ k \in mine =>
                   /\ conn'[k].gone = conn[k].gone /\ conn'[k].closed = TRUE /\ conn'[k].holder = Nobody
                   /\ conn'[k].out = conn[k].out /\ conn'[k].in = <<>>
             /\ conn[k].addr # addr /\ k \notin mine => conn'[k] = conn[k]
  <2> DEFINE c == conn[k]
             d == [c EXCEPT !.gone = TRUE, !.out = <<>>]
             e == [c EXCEPT !.closed = TRUE, !.holder = Nobody, !.in = <<>>]
  <2>1. IsConn(c) /\ Queue(<<>>)
    BY ConnsShape, QueueNil
  <2>2. /\ IsConn(d) /\ d.addr = c.addr /\ d.closed = c.closed /\ d.gone = TRUE /\ d.seq = c.seq
        /\ d.holder = c.holder /\ d.out = <<>> /\ d.in = c.in
    <3> HIDE DEF c
    <3> QED
      BY <2>1 DEF IsConn
  <2>3. /\ IsConn(e) /\ e.addr = c.addr /\ e.closed = TRUE /\ e.gone = c.gone /\ e.seq = c.seq
        /\ e.holder = Nobody /\ e.out = c.out /\ e.in = <<>>
    <3> HIDE DEF c
    <3> QED
      BY <2>1 DEF IsConn
  <2>4. conn'[k] = IF c.addr = addr THEN d ELSE IF k \in mine THEN e ELSE c
    BY <1>1
  <2> HIDE DEF c, d, e
  <2> QED
    BY <2>1, <2>2, <2>3, <2>4 DEF c
<1>3. conn' = [k \in DOMAIN conn |-> conn'[k]]
  BY <1>1, ConnsShape
<1>4. ConnTyped' /\ Len(conn') = Len(conn) /\ Conns' = Conns /\ Gate' = Gate
  BY <1>2, <1>3, SameConns
<1>5. DOMAIN serving = Conns /\ Len(conn) \in Nat
  BY QueueShape, ConnsShape DEF ServingTyped, Conns
<1>6. serving' = [k \in 1 .. Len(conn) |-> serving'[k]]
      /\ \A k \in Conns : serving'[k] = IF conn[k].addr = addr THEN NoFrame ELSE serving[k]
  BY <1>5 DEF Die, Conns
<1>7. Queue(serving') /\ Len(serving') = Len(conn)
  BY <1>5, <1>6, QueueOf
<1>8. ServingTyped'
  BY <1>4, <1>6, <1>7 DEF ServingTyped
<1> QED
  BY <1>2, <1>4, <1>6, <1>8 DEF Ends, EndsMine, EndsNot

-----------------------------------------------------------------------------
(* The shape of the state: PathTyped is an invariant. *)

LEMMA ServingShape ==
  ASSUME ConnTyped, ServingTyped
  PROVE  DOMAIN serving = Conns /\ serving = [k \in Conns |-> serving[k]] /\ Len(serving) \in Nat
BY QueueShape DEF ServingTyped, Conns

Handling(s) ==
    \/ s = NoFrame
    \/ s.typ = "user" /\ DOMAIN s = {"typ", "m", "peer", "user", "called"} /\ s.called \in BOOLEAN /\ s.peer \in Conns \ Gate

\* One handler goes on.
LEMMA OneServing ==
  ASSUME ConnTyped, ServingTyped, Len(conn') = Len(conn), Gate' = Gate, NEW k \in Gate, NEW s, Handling(s),
         serving' = [serving EXCEPT ![k] = s]
  PROVE  ServingTyped' /\ serving'[k] = s /\ \A h \in Conns : h # k => serving'[h] = serving[h]
<1>1. k \in Conns /\ Conns' = Conns
  BY DEF Gate, Conns
<1>2. serving'[k] = s /\ \A h \in Conns : h # k => serving'[h] = serving[h]
  BY <1>1, ServingShape
<1>3. serving' = [h \in 1 .. Len(conn) |-> serving'[h]]
  BY ServingShape DEF Conns
<1>4. Queue(serving') /\ Len(serving') = Len(conn')
  BY <1>3, QueueOf, ConnsShape
<1>5. ASSUME NEW h \in Conns
      PROVE  \/ serving'[h] = NoFrame
             \/ /\ h \in Gate
                /\ serving'[h].typ = "user" /\ DOMAIN serving'[h] = {"typ", "m", "peer", "user", "called"}
                /\ serving'[h].called \in BOOLEAN
                /\ serving'[h].peer \in Conns \ Gate
  <2>1. CASE h = k
    BY <1>2, <2>1 DEF Handling
  <2>2. CASE h # k
    BY <1>2, <2>2 DEF ServingTyped
  <2> QED
    BY <2>1, <2>2
<1> QED
  BY <1>1, <1>2, <1>4, <1>5 DEF ServingTyped

\* Connections are added, and nothing is served on them yet.
LEMMA MoreServing ==
  ASSUME ConnTyped, ServingTyped, NEW n \in Nat, Len(conn') = Len(conn) + n,
         \A k \in Conns : k \in Conns' /\ (k \in Gate' <=> k \in Gate),
         serving' = serving \o [i \in 1 .. n |-> NoFrame]
  PROVE  /\ ServingTyped'
         /\ \A k \in Conns : serving'[k] = serving[k]
         /\ \A k \in Conns' : k \notin Conns => serving'[k] = NoFrame
<1> DEFINE t == [i \in 1 .. n |-> NoFrame]
<1>1. Queue(t) /\ Len(t) = n
  BY QueueOf
<1>2. Queue(serving) /\ Len(serving) = Len(conn) /\ Len(conn) \in Nat
  BY ConnsShape DEF ServingTyped
<1>3. /\ Queue(serving') /\ Len(serving') = Len(conn')
      /\ \A i \in 1 .. Len(conn) : serving'[i] = serving[i]
      /\ \A i \in 1 .. n : serving'[Len(conn) + i] = NoFrame
  <2>0. serving' = serving \o t
    OBVIOUS
  <2>1. \A i \in 1 .. n : t[i] = NoFrame
    OBVIOUS
  <2> HIDE DEF t
  <2> QED
    <3>1. /\ Queue(serving \o t) /\ Len(serving \o t) = Len(serving) + Len(t)
          /\ \A i \in 1 .. Len(serving) : (serving \o t)[i] = serving[i]
          /\ \A i \in 1 .. Len(t) : (serving \o t)[Len(serving) + i] = t[i]
      BY <1>1, <1>2, QueueConcat
    <3> QED
      BY <1>1, <1>2, <2>0, <2>1, <3>1
<1>4. ASSUME NEW k \in Conns', k \notin Conns PROVE serving'[k] = NoFrame
  <2>1. k - Len(conn) \in 1 .. n /\ k = Len(conn) + (k - Len(conn))
    BY <1>2, <1>4 DEF Conns
  <2> QED
    BY <1>3, <2>1
<1>5. \A k \in Conns : serving'[k] = serving[k]
  BY <1>3 DEF Conns
<1>6. ASSUME NEW k \in Conns'
      PROVE  \/ serving'[k] = NoFrame
             \/ /\ k \in Gate'
                /\ serving'[k].typ = "user" /\ DOMAIN serving'[k] = {"typ", "m", "peer", "user", "called"}
                /\ serving'[k].called \in BOOLEAN
                /\ serving'[k].peer \in Conns' \ Gate'
  <2>1. CASE k \notin Conns
    BY <1>4, <2>1
  <2>2. CASE k \in Conns
    BY <1>5, <2>2 DEF ServingTyped
  <2> QED
    BY <2>1, <2>2
<1> QED
  BY <1>3, <1>4, <1>5, <1>6 DEF ServingTyped

\* A request keeps its shape while connections are added.
LEMMA ReqKept ==
  ASSUME Gate \subseteq Gate', NEW r, IsReq(r, Gate)
  PROVE  IsReq(r, Gate')
BY DEF IsReq

LEMMA ReqsKept ==
  ASSUME ReqTyped, Gate \subseteq Gate', UNCHANGED gwVars
  PROVE  ReqTyped'
BY ReqKept DEF ReqTyped, gwVars

LEMMA ReqsShape ==
  ASSUME ReqTyped
  PROVE  /\ Len(req) \in Nat /\ DOMAIN req = 1 .. Len(req) /\ req = [p \in 1 .. Len(req) |-> req[p]]
         /\ \A p \in 1 .. Len(req) : IsReq(req[p], Gate)
BY QueueShape DEF ReqTyped

\* One request goes on.
LEMMA OneReq ==
  ASSUME ReqTyped, Gate \subseteq Gate', NEW p \in DOMAIN req, NEW r, IsReq(r, Gate'), req' = [req EXCEPT ![p] = r],
         clis' \in Gate', dcli' \in Gate'
  PROVE  /\ ReqTyped' /\ Len(req') = Len(req) /\ DOMAIN req' = DOMAIN req
         /\ req'[p] = r /\ \A q \in DOMAIN req : q # p => req'[q] = req[q]
<1>1. req'[p] = r /\ \A q \in DOMAIN req : q # p => req'[q] = req[q]
  BY ReqsShape
<1>2. req' = [q \in 1 .. Len(req) |-> req'[q]]
  BY ReqsShape
<1>3. Queue(req') /\ Len(req') = Len(req)
  BY <1>2, QueueOf, ReqsShape
<1>4. \A q \in 1 .. Len(req) : IsReq(req'[q], Gate')
  <2>1. ASSUME NEW q \in 1 .. Len(req) PROVE IsReq(req'[q], Gate')
    <3>1. CASE q = p
      BY <1>1, <3>1
    <3>2. CASE q # p
      <4>1. req'[q] = req[q] /\ IsReq(req[q], Gate)
        BY <1>1, <3>2, ReqsShape
      <4> QED
        BY <4>1 DEF IsReq
    <3> QED
      BY <3>1, <3>2
  <2> QED
    BY <2>1
<1>5. DOMAIN req' = DOMAIN req
  BY <1>2, ReqsShape
<1> QED
  BY <1>1, <1>3, <1>4, <1>5 DEF ReqTyped

\* The user instances stay where they are as long as none of their connections is closed.
LEMMA PeersKept ==
  ASSUME Peers, UNCHANGED peerVars, rr' \in Nat,
         \A k \in Conns : /\ k \in Conns' /\ conn'[k].addr = conn[k].addr
                          /\ conn[k].addr # OrderAddr => conn'[k].closed = conn[k].closed
  PROVE  Peers'
<1>1. \A k, a : a \in UserAddrs /\ PeerAt(k, a) => PeerAt(k, a)' /\ conn'[k].closed = conn[k].closed
  BY OrderAssumption DEF PeerAt
<1> QED
  BY <1>1 DEF Peers, peerVars

LEMMA GateIsConns == Gate \subseteq Conns /\ \A k \in Conns : k \in Gate <=> conn[k].addr = OrderAddr
BY DEF Gate

LEMMA QueueAppendsOne ==
  ASSUME NEW q, Queue(q), NEW u, Queue(u)
  PROVE  Len(u) = 1 => Append(q, u[1]) = q \o u
<1>1. /\ Queue(q \o u) /\ Len(q \o u) = Len(q) + Len(u)
      /\ \A i \in 1 .. Len(q) : (q \o u)[i] = q[i]
      /\ \A i \in 1 .. Len(u) : (q \o u)[Len(q) + i] = u[i]
  BY QueueConcat
<1> SUFFICES ASSUME Len(u) = 1 PROVE Append(q, u[1]) = q \o u
  OBVIOUS
<1>2. Queue(Append(q, u[1])) /\ Len(Append(q, u[1])) = Len(q) + 1 /\ Len(q) \in Nat
  BY QueueAppend
<1>3. \A i \in 1 .. Len(q) + 1 : Append(q, u[1])[i] = IF i <= Len(q) THEN q[i] ELSE u[1]
  BY <1>2 DEF Queue
<1>4. (q \o u)[Len(q) + 1] = u[1] /\ Len(q \o u) = Len(q) + 1
  BY <1>1
<1>5. \A i \in 1 .. Len(q) + 1 : i \in 1 .. Len(q) \/ i = Len(q) + 1
  BY <1>2
<1>6. \A i \in 1 .. Len(q) + 1 : Append(q, u[1])[i] = (q \o u)[i]
  BY <1>1, <1>2, <1>3, <1>4, <1>5
<1>7. Append(q, u[1]) = [i \in 1 .. Len(q) + 1 |-> Append(q, u[1])[i]]
  BY <1>2, QueueShape
<1>8. q \o u = [i \in 1 .. Len(q) + 1 |-> (q \o u)[i]]
  BY <1>1, <1>4, QueueShape
<1> QED
  BY <1>6, <1>7, <1>8

LEMMA QueueAppendIsConcat ==
  ASSUME NEW s, Queue(s), NEW x
  PROVE  Append(s, x) = s \o [i \in 1 .. 1 |-> x]
<1>1. PICK t : t = [i \in 1 .. 1 |-> x]
  OBVIOUS
<1>2. t[1] = x /\ t = [i \in 1 .. 1 |-> t[i]] /\ 1 \in Nat
  BY <1>1
<1>3. Queue(t) /\ Len(t) = 1
  BY <1>2, QueueOf
<1> QED
  BY <1>1, <1>2, <1>3, QueueAppendsOne

(* The steps of the gateway. *)

LEMMA TypedAsks ==
  ASSUME PathTyped, NEW program, NEW b, b.method \in {"bad", "GetOrder", "CreateOrder"},
         NEW cli \in Gate, Asks(program, b, cli)
  PROVE  PathTyped'
<1> DEFINE r == [at |-> IF b.method = "bad" THEN "failed" ELSE "call", b |-> b, direct |-> program,
                 conn |-> cli, old |-> Nobody, try |-> 1, lost |-> FALSE]
<1>1. IsReq(r, Gate)
  BY DEF IsReq
<1>2. /\ Queue(req') /\ Len(req') = Len(req) + 1 /\ Len(req) \in Nat
      /\ \A p \in 1 .. Len(req) : req'[p] = req[p]
      /\ req'[Len(req) + 1] = r
  <2>1. Queue(req) /\ req' = Append(req, r)
    BY DEF Asks, PathTyped, ReqTyped
  <2> HIDE DEF r
  <2> QED
    BY <2>1, QueueAppend DEF Queue
<1>3. \A p \in 1 .. Len(req') : IsReq(req'[p], Gate)
  <2> HIDE DEF r
  <2>1. \A p \in 1 .. Len(req') : p \in 1 .. Len(req) \/ p = Len(req) + 1
    BY <1>2
  <2> QED
    BY <1>1, <1>2, <2>1 DEF PathTyped, ReqTyped
<1>4. UNCHANGED <<conn, serving, peerVars, clis, dcli>> /\ Len(req) < MaxAsk /\ rr' \in Nat
  BY DEF Asks, rpcVars, orderVars, peerVars, PathTyped, Peers
<1>5. Conns' = Conns /\ Gate' = Gate /\ ConnTyped' /\ ServingTyped'
  BY <1>4 DEF Conns, Gate, ConnTyped, ServingTyped, PathTyped
<1>6. ReqTyped'
  BY <1>2, <1>3, <1>4, <1>5, GatewayAssumption DEF ReqTyped, PathTyped
<1>7. Peers'
  BY <1>4, <1>5, PeersKept DEF PathTyped
<1> QED
  BY <1>5, <1>6, <1>7 DEF PathTyped

\* Bodies have one of three methods.
LEMMA MethodOfBody ==
  ASSUME NEW b \in Bodies
  PROVE  b.method \in {"bad", "GetOrder", "CreateOrder"}
BY DEF Bodies

\* What the four steps of a request that leave the connections in number have in common.
LEMMA TypedReqStep ==
  ASSUME PathTyped, ConnTyped', Len(conn') = Len(conn), Conns' = Conns, Gate' = Gate,
         NEW p \in DOMAIN req, NEW r, IsReq(r, Gate), req' = [req EXCEPT ![p] = r],
         UNCHANGED <<serving, orderVars, clis, dcli>>,
         \A k \in Conns : /\ conn'[k].addr = conn[k].addr
                          /\ conn[k].addr # OrderAddr => conn'[k].closed = conn[k].closed
  PROVE  PathTyped'
<1>1. ServingTyped'
  BY DEF PathTyped, ServingTyped
<1>2. clis' \in Gate' /\ dcli' \in Gate'
  BY DEF PathTyped, ReqTyped
<1>3. ReqTyped'
  BY <1>2, OneReq DEF PathTyped
<1>4. UNCHANGED peerVars /\ rr' \in Nat
  BY DEF orderVars, peerVars, PathTyped, Peers
<1>5. Peers'
  BY <1>4, PeersKept DEF PathTyped
<1> QED
  BY <1>1, <1>3, <1>5 DEF PathTyped

LEMMA TypedCall ==
  ASSUME PathTyped, NEW p \in DOMAIN req, Call(p)
  PROVE  PathTyped'
<1> DEFINE k == req[p].conn
           r == [req[p] EXCEPT !.at = "wait"]
<1>1. IsReq(req[p], Gate) /\ req[p].at = "call"
  BY ReqsShape DEF PathTyped, Call, Goes
<1>2. IsReq(r, Gate) /\ k \in Conns /\ k \in Gate
  BY <1>1 DEF IsReq, Gate
<1>3. conn' = CallWrite(p, k, req[p].b.method, ArgOf(p, req[p].b), NoSpan)
  BY DEF Call
<1>4. /\ ConnTyped' /\ Len(conn') = Len(conn) /\ Conns' = Conns /\ Gate' = Gate
      /\ \A h \in Conns : conn'[h].addr = conn[h].addr /\ conn'[h].closed = conn[h].closed
  BY <1>2, <1>3, Writes DEF PathTyped
<1>5. req' = [req EXCEPT ![p] = r] /\ UNCHANGED <<serving, orderVars, clis, dcli>>
  BY DEF Call, To
<1> HIDE DEF r
<1> QED
  BY <1>2, <1>4, <1>5, TypedReqStep

\* How a request ends, and how its first try fails.
LEMMA TypedOutcome ==
  ASSUME PathTyped, NEW p \in DOMAIN req, Goes(p, "wait"), NEW v, v.lost \in BOOLEAN, v.ok \in BOOLEAN
  PROVE  IsReq(Outcome(p, v), Gate)
<1>1. IsReq(req[p], Gate) /\ req[p].at = "wait"
  BY ReqsShape DEF PathTyped, Goes
<1>2. CASE v.ok \/ req[p].direct \/ req[p].try = 2
  <2>1. Outcome(p, v) = [at |-> "done", b |-> req[p].b, ok |-> v.ok, value |-> v.value, lost |-> req[p].lost \/ v.lost]
    BY <1>2 DEF Outcome, Ended
  <2> QED
    BY <1>1, <2>1 DEF IsReq
<1>3. CASE ~(v.ok \/ req[p].direct \/ req[p].try = 2)
  <2>1. Outcome(p, v) = [req[p] EXCEPT !.at = "failed", !.lost = v.lost]
    BY <1>3 DEF Outcome
  <2>2. req[p].try = 1
    BY <1>1, <1>3 DEF IsReq
  <2> QED
    BY <1>1, <1>3, <2>1, <2>2 DEF IsReq
<1> QED
  BY <1>2, <1>3

\* What a call reads is an answer or an error, and whether the connection is lost.
LEMMA ReadOutcome ==
  ASSUME NEW k
  PROVE  LET v == CallRead(k) IN v.ok \in BOOLEAN /\ v.lost \in BOOLEAN
BY DEF CallRead

LEMMA TypedAnswer ==
  ASSUME PathTyped, NEW p \in DOMAIN req, Answer(p)
  PROVE  PathTyped'
<1> DEFINE k == req[p].conn
           v == CallRead(k)
           r == Outcome(p, v)
<1>1. IsReq(req[p], Gate) /\ req[p].at = "wait"
  BY ReqsShape DEF PathTyped, Answer, Goes
<1>2. IsReq(r, Gate)
  <2>1. v.ok \in BOOLEAN /\ v.lost \in BOOLEAN
    BY ReadOutcome
  <2> HIDE DEF v
  <2> QED
    BY <2>1, TypedOutcome DEF Answer
<1>3. k \in Conns /\ conn' = AfterRead(k)
  BY <1>1 DEF IsReq, Gate, Answer
<1>4. /\ ConnTyped' /\ Len(conn') = Len(conn) /\ Conns' = Conns /\ Gate' = Gate
      /\ \A h \in Conns : conn'[h].addr = conn[h].addr /\ conn'[h].closed = conn[h].closed
  BY <1>3, Reads DEF PathTyped
<1>5. req' = [req EXCEPT ![p] = r] /\ UNCHANGED <<serving, orderVars, clis, dcli>>
  BY DEF Answer, To
<1> HIDE DEF r
<1> QED
  BY <1>2, <1>4, <1>5, TypedReqStep

LEMMA TypedTimeout ==
  ASSUME PathTyped, NEW p \in DOMAIN req, Timeout(p)
  PROVE  PathTyped'
<1> DEFINE k == req[p].conn
           r == Ended(p, FALSE, NoValue, TRUE)
<1>1. IsReq(req[p], Gate) /\ req[p].at = "wait"
  BY ReqsShape DEF PathTyped, Timeout, Goes
<1>2. IsReq(r, Gate)
  BY <1>1 DEF IsReq, Ended
<1>3. k \in Conns /\ conn' = AfterTimeout(k)
  BY <1>1 DEF IsReq, Gate, Timeout
<1>4. /\ ConnTyped' /\ Len(conn') = Len(conn) /\ Conns' = Conns /\ Gate' = Gate
      /\ \A h \in Conns : conn'[h].addr = conn[h].addr /\ conn'[h].closed = conn[h].closed
  BY <1>3, TimesOut DEF PathTyped
<1>5. req' = [req EXCEPT ![p] = r] /\ UNCHANGED <<serving, orderVars, clis, dcli>>
  BY DEF Timeout, To
<1> HIDE DEF r
<1> QED
  BY <1>2, <1>4, <1>5, TypedReqStep

LEMMA TypedCloseOld ==
  ASSUME PathTyped, NEW p \in DOMAIN req, closeOld(p)
  PROVE  PathTyped'
<1> DEFINE k == req[p].old
           r == IF req[p].b.method = "bad" THEN Ended(p, FALSE, NoValue, FALSE) ELSE [req[p] EXCEPT !.at = "call"]
<1>1. IsReq(req[p], Gate) /\ req[p].at = "close"
  BY ReqsShape DEF PathTyped, closeOld, Goes
<1>2. IsReq(r, Gate)
  <2>1. CASE req[p].b.method = "bad"
    <3>1. r = Ended(p, FALSE, NoValue, FALSE)
      BY <2>1
    <3> HIDE DEF r
    <3> QED
      BY <1>1, <3>1 DEF IsReq, Ended
  <2>2. CASE req[p].b.method # "bad"
    <3>1. r = [req[p] EXCEPT !.at = "call"]
      BY <2>2
    <3> HIDE DEF r
    <3> QED
      BY <1>1, <2>2, <3>1 DEF IsReq
  <2> QED
    BY <2>1, <2>2
<1>3. conn[k].addr = OrderAddr /\ conn' = Closed(conn, {k})
  BY <1>1 DEF IsReq, Gate, closeOld
<1>4. ConnTyped
  BY DEF PathTyped
<1>5. /\ ConnTyped' /\ Len(conn') = Len(conn) /\ Conns' = Conns /\ Gate' = Gate
      /\ \A h \in Conns : conn'[h].addr = conn[h].addr
      /\ \A h \in Conns : h \notin {k} => conn'[h] = conn[h]
  <2> HIDE DEF k
  <2> QED
    BY <1>3, <1>4, Closes
<1>6. \A h \in Conns : conn[h].addr # OrderAddr => conn'[h].closed = conn[h].closed
  BY <1>3, <1>5
<1>7. req' = [req EXCEPT ![p] = r] /\ UNCHANGED <<serving, orderVars, clis, dcli>>
  BY DEF closeOld, To
<1> HIDE DEF r
<1> QED
  BY <1>2, <1>5, <1>6, <1>7, TypedReqStep

LEMMA TypedRedialFails ==
  ASSUME PathTyped, NEW p \in DOMAIN req, redialFails(p)
  PROVE  PathTyped'
<1> DEFINE r == Ended(p, FALSE, NoValue, req[p].lost)
<1>1. IsReq(req[p], Gate) /\ req[p].at = "failed"
  BY ReqsShape DEF PathTyped, redialFails, Goes
<1>2. IsReq(r, Gate)
  BY <1>1 DEF IsReq, Ended
<1>3. UNCHANGED <<conn, serving, orderVars, clis, dcli>>
  BY DEF redialFails, rpcVars
<1>4. ConnTyped' /\ Len(conn') = Len(conn) /\ Conns' = Conns /\ Gate' = Gate
  BY <1>3 DEF PathTyped, ConnTyped, Conns, Gate
<1>5. req' = [req EXCEPT ![p] = r]
  BY DEF redialFails, To
<1> HIDE DEF r
<1> QED
  BY <1>2, <1>3, <1>4, <1>5, TypedReqStep

\* A new connection to the order service.
LEMMA Dials ==
  ASSUME ConnTyped, ServingTyped, Dial(OrderAddr)
  PROVE  /\ ConnTyped' /\ ServingTyped' /\ Len(conn') = Len(conn) + 1 /\ Len(conn) \in Nat
         /\ \A k \in Conns : /\ k \in Conns' /\ conn'[k] = conn[k] /\ (k \in Gate' <=> k \in Gate)
                             /\ serving'[k] = serving[k]
         /\ \A k \in Conns' : k \in Conns \/ k = Len(conn')
         /\ Len(conn') \in Gate' /\ Len(conn') \notin Conns
         /\ conn'[Len(conn')] = NewConn(OrderAddr) /\ serving'[Len(conn')] = NoFrame
<1> DEFINE s == [i \in 1 .. 1 |-> NewConn(OrderAddr)]
<1>1. conn' = conn \o s
  BY QueueAppendIsConcat DEF Dial, ConnTyped
<1>2. IsConn(NewConn(OrderAddr)) /\ NewConn(OrderAddr).addr = OrderAddr
  BY QueueNil DEF IsConn, NewConn
<1>3. s[1] = NewConn(OrderAddr) /\ (\A i \in 1 .. 1 : IsConn(s[i])) /\ Queue(s) /\ Len(s) = 1 /\ 1 \in Nat
  <2>1. Queue(s) /\ Len(s) = 1
    BY QueueOf
  <2> QED
    BY <1>2, <2>1
<1>4. /\ ConnTyped' /\ Len(conn') = Len(conn) + 1 /\ Len(conn) \in Nat
      /\ \A k \in Conns : k \in Conns' /\ conn'[k] = conn[k] /\ (k \in Gate' <=> k \in Gate)
      /\ \A i \in 1 .. 1 : Len(conn) + i \in Conns' /\ conn'[Len(conn) + i] = s[i]
      /\ \A k \in Conns' : k \in Conns \/ \E i \in 1 .. 1 : k = Len(conn) + i
  <2> HIDE DEF s
  <2>1. Queue(s) /\ (\A i \in 1 .. Len(s) : IsConn(s[i])) /\ Len(conn) \in Nat
    BY <1>3, ConnsShape
  <2>2. /\ ConnTyped' /\ Len(conn') = Len(conn) + Len(s)
        /\ \A k \in Conns : k \in Conns' /\ conn'[k] = conn[k] /\ (k \in Gate' <=> k \in Gate)
        /\ \A i \in 1 .. Len(s) : Len(conn) + i \in Conns' /\ conn'[Len(conn) + i] = s[i]
        /\ \A k \in Conns' : k \in Conns \/ \E i \in 1 .. Len(s) : k = Len(conn) + i
    BY <1>1, <2>1, MoreConns
  <2> QED
    BY <1>3, <2>1, <2>2
<1>5. Len(conn') \in Conns' /\ conn'[Len(conn')] = NewConn(OrderAddr) /\ \A k \in Conns' : k \in Conns \/ k = Len(conn')
  <2> HIDE DEF s
  <2> QED
    BY <1>3, <1>4
<1>6. Len(conn') \notin Conns
  BY <1>4 DEF Conns
<1>7. serving' = serving \o [i \in 1 .. 1 |-> NoFrame]
  BY QueueAppendIsConcat DEF Dial, ServingTyped
<1>8. ServingTyped' /\ (\A k \in Conns : serving'[k] = serving[k]) /\ serving'[Len(conn')] = NoFrame
  BY <1>3, <1>4, <1>5, <1>6, <1>7, MoreServing
<1>9. Len(conn') \in Gate'
  BY <1>2, <1>5 DEF Gate
<1> QED
  BY <1>4, <1>5, <1>6, <1>8, <1>9

LEMMA TypedRedial ==
  ASSUME PathTyped, NEW p \in DOMAIN req, redial(p)
  PROVE  PathTyped'
<1> DEFINE r == [at |-> "close", b |-> req[p].b, direct |-> FALSE, conn |-> Len(conn'), old |-> clis, try |-> 2,
                 lost |-> req[p].lost]
<1>1. IsReq(req[p], Gate) /\ req[p].at = "failed"
  BY ReqsShape DEF PathTyped, redial, Goes
<1>2. /\ ConnTyped' /\ ServingTyped'
      /\ \A k \in Conns : k \in Conns' /\ conn'[k] = conn[k] /\ (k \in Gate' <=> k \in Gate)
      /\ Len(conn') \in Gate'
  BY Dials DEF PathTyped, redial
<1>3. clis \in Gate /\ dcli \in Gate /\ Gate \subseteq Conns
  BY GateIsConns DEF PathTyped, ReqTyped
<1>4. IsReq(r, Gate')
  BY <1>1, <1>2, <1>3 DEF IsReq
<1>5. req' = [req EXCEPT ![p] = r] /\ clis' = Len(conn') /\ dcli' = dcli /\ UNCHANGED orderVars
  BY DEF redial, To
<1>6. ReqTyped'
  <2>1. Gate \subseteq Gate' /\ clis' \in Gate' /\ dcli' \in Gate'
    BY <1>2, <1>3, <1>5
  <2> HIDE DEF r
  <2> QED
    BY <1>4, <1>5, <2>1, OneReq DEF PathTyped
<1>7. Peers'
  <2>1. UNCHANGED peerVars /\ rr' \in Nat
    BY <1>5 DEF orderVars, peerVars, PathTyped, Peers
  <2> QED
    BY <1>2, <2>1, PeersKept DEF PathTyped
<1> QED
  BY <1>2, <1>6, <1>7 DEF PathTyped

(* The steps of the instances, of the watch loop and of the handlers. *)

LEMMA TypedIdle ==
  ASSUME PathTyped, UNCHANGED <<conn, serving, gwVars>>, Peers'
  PROVE  PathTyped'
BY DEF PathTyped, ConnTyped, ServingTyped, ReqTyped, Conns, Gate, gwVars

LEMMA TypedInstances ==
  ASSUME PathTyped, UNCHANGED gwVars, NEW a \in UserAddrs, announce(a) \/ Expire(a) \/ StartUser(a)
  PROVE  PathTyped'
<1>1. /\ UNCHANGED <<conn, serving, users, watch, rr>>
      /\ registry' \subseteq registry \cup {a} /\ early' \subseteq early \cup {a}
  BY DEF announce, Register, Expire, StartUser, rpcVars
<1>2. Peers'
  BY <1>1 DEF PathTyped, Peers, PeerAt, Conns
<1> QED
  BY <1>1, <1>2, TypedIdle

LEMMA TypedWatch ==
  ASSUME PathTyped, UNCHANGED gwVars, waitAndWatch
  PROVE  PathTyped'
<1>1. UNCHANGED <<conn, serving, registry, users, rr, early>> /\ watch' = [at |-> "apply", addrs |-> registry]
  BY DEF waitAndWatch, LookupPassing, rpcVars
<1>2. Peers'
  BY <1>1 DEF PathTyped, Peers, PeerAt, Conns
<1> QED
  BY <1>1, <1>2, TypedIdle

LEMMA TypedStarts ==
  ASSUME PathTyped, UNCHANGED gwVars, GivesUp \/ StartOrder
  PROVE  PathTyped'
<1>1. UNCHANGED <<conn, serving, registry, users, rr, early>> /\ watch' \in {Sleeping, NotRunning}
  BY DEF GivesUp, StartOrder, rpcVars
<1>2. Peers'
  BY <1>1 DEF PathTyped, Peers, PeerAt, Conns
<1> QED
  BY <1>1, <1>2, TypedIdle

\* A step in which connections keep their number and nobody's request moves.
LEMMA TypedOrderStep ==
  ASSUME PathTyped, UNCHANGED gwVars, ConnTyped', Gate' = Gate, ServingTyped', Peers'
  PROVE  PathTyped'
BY ReqsKept DEF PathTyped

LEMMA TypedUserDies ==
  ASSUME PathTyped, UNCHANGED gwVars, NEW a \in UserAddrs, UserDies(a)
  PROVE  PathTyped'
<1>1. ConnTyped /\ ServingTyped /\ Die(a, {})
  BY DEF PathTyped, UserDies
<1>2. /\ ConnTyped' /\ ServingTyped' /\ Conns' = Conns /\ Gate' = Gate
      /\ \A k \in Conns : conn'[k].addr = conn[k].addr /\ conn'[k].closed = conn[k].closed
  <2>1. /\ ConnTyped' /\ ServingTyped' /\ Conns' = Conns /\ Gate' = Gate
        /\ \A k \in Conns : conn'[k].addr = conn[k].addr
        /\ Ends(a) /\ EndsNot(a, {})
    BY <1>1, Dies
  <2> QED
    BY <2>1 DEF Ends, EndsNot
<1>3. UNCHANGED peerVars /\ rr' \in Nat
  BY DEF UserDies, orderVars, peerVars, PathTyped, Peers
<1>4. Peers'
  BY <1>2, <1>3, PeersKept DEF PathTyped
<1> QED
  BY <1>2, <1>4, TypedOrderStep

LEMMA TypedOrderDies ==
  ASSUME PathTyped, UNCHANGED gwVars, OrderDies
  PROVE  PathTyped'
<1> DEFINE mine == {k \in DOMAIN conn : AddrOf(k) \in UserAddrs}
<1>1. ConnTyped /\ ServingTyped /\ Die(OrderAddr, mine)
  BY DEF PathTyped, OrderDies
<1>2. ConnTyped' /\ ServingTyped' /\ Conns' = Conns /\ Gate' = Gate
  <2> HIDE DEF mine
  <2> QED
    BY <1>1, Dies
<1>3. Peers'
  <2>1. /\ users' = <<>> /\ rr' = 0 /\ watch' = NotRunning /\ early' = {}
        /\ registry' = registry /\ registry \subseteq UserAddrs
    BY DEF OrderDies, PathTyped, Peers
  <2>2. DOMAIN users' = {} /\ users' = [a \in DOMAIN users' |-> users'[a]]
    BY <2>1
  <2> QED
    BY <2>1, <2>2 DEF Peers
<1> QED
  BY <1>2, <1>3, TypedOrderStep

\* The connections that have dropped out are closed, and no other.
LEMMA TypedDropPeers ==
  ASSUME PathTyped, UNCHANGED gwVars, DropPeers
  PROVE  PathTyped'
<1> DEFINE ks == {watch.old[a] : a \in DOMAIN watch.old \ watch.addrs}
<1>1. conn' = Closed(conn, ks) /\ UNCHANGED <<serving, registry, users, rr, early>> /\ watch' = Sleeping
  BY DEF DropPeers
<1>2. ConnTyped /\ Peers /\ watch.at = "drop"
  BY DEF PathTyped, DropPeers
<1>3. /\ ConnTyped' /\ Conns' = Conns /\ Gate' = Gate /\ Len(conn') = Len(conn)
      /\ \A k \in Conns : conn'[k].addr = conn[k].addr
      /\ \A k \in Conns : k \notin ks => conn'[k] = conn[k]
  <2> HIDE DEF ks
  <2> QED
    BY <1>1, <1>2, Closes
<1>4. /\ watch = [at |-> "drop", old |-> watch.old, addrs |-> watch.addrs]
      /\ DOMAIN users \subseteq watch.addrs
      /\ \A a \in DOMAIN watch.old : PeerAt(watch.old[a], a)
  <2>1. watch \notin {Sleeping, NotRunning} /\ watch # [at |-> "apply", addrs |-> watch.addrs]
    BY <1>2 DEF Sleeping, NotRunning
  <2> QED
    BY <1>2, <2>1 DEF Peers
<1>5. ASSUME NEW a \in DOMAIN users PROVE users[a] \notin ks
  <2>1. PeerAt(users[a], a) /\ a \in watch.addrs
    BY <1>2, <1>4 DEF Peers
  <2>2. ASSUME NEW b \in DOMAIN watch.old \ watch.addrs PROVE watch.old[b] # users[a]
    BY <1>4, <2>1 DEF PeerAt
  <2> QED
    BY <2>2
<1>6. Peers'
  <2> HIDE DEF ks
  <2> QED
    BY <1>1, <1>2, <1>3, <1>5 DEF Peers, PeerAt
<1>7. ServingTyped'
  BY <1>1, <1>3 DEF PathTyped, ServingTyped
<1> QED
  BY <1>3, <1>6, <1>7, TypedOrderStep

\* A handler answers the call of its connection, which is not the user instances' affair.
LEMMA TypedHandler ==
  ASSUME PathTyped, UNCHANGED gwVars, ConnTyped', Len(conn') = Len(conn), Conns' = Conns, Gate' = Gate, ServingTyped',
         UNCHANGED peerVars, rr' \in Nat,
         \A k \in Conns : conn'[k].addr = conn[k].addr /\ conn'[k].closed = conn[k].closed
  PROVE  PathTyped'
<1>1. Peers'
  BY PeersKept DEF PathTyped
<1> QED
  BY <1>1, TypedOrderStep

LEMMA TypedGetUser ==
  ASSUME PathTyped, UNCHANGED gwVars, NEW k \in DOMAIN conn, GetUser(k)
  PROVE  PathTyped'
<1> DEFINE m == Head(conn[k].out)
           typ == IF m.arg.user \in KnownUsers THEN "reply" ELSE "exception"
           value == [req |-> m.arg.req, user |-> m.arg.user]
<1>1. ConnTyped /\ ServingTyped /\ Peers /\ k \in Conns
  BY ConnsShape DEF PathTyped
<1>2. conn[k].out # <<>> /\ conn' = Answered(Taken(k), k, typ, m.seq, value) /\ UNCHANGED <<serving, peerVars, rr>>
  BY DEF GetUser, CanServe
<1>3. /\ ConnTyped' /\ Len(conn') = Len(conn) /\ Conns' = Conns /\ Gate' = Gate
      /\ \A h \in Conns : conn'[h].addr = conn[h].addr /\ conn'[h].closed = conn[h].closed
  <2> HIDE DEF m, typ, value
  <2> QED
    BY <1>1, <1>2, Serves
<1>4. ServingTyped'
  BY <1>1, <1>2, <1>3 DEF ServingTyped
<1>5. rr' \in Nat
  BY <1>1, <1>2 DEF Peers
<1> QED
  BY <1>2, <1>3, <1>4, <1>5, TypedHandler

LEMMA TypedCreateOrder ==
  ASSUME PathTyped, UNCHANGED gwVars, NEW k \in DOMAIN conn, CreateOrder(k)
  PROVE  PathTyped'
<1> DEFINE m == Head(conn[k].out)
           value == [req |-> m.arg.req, id |-> nextID]
<1>1. ConnTyped /\ ServingTyped /\ Peers /\ k \in Conns
  BY ConnsShape DEF PathTyped
<1>2. conn[k].out # <<>> /\ conn' = Answered(Taken(k), k, "reply", m.seq, value) /\ UNCHANGED <<serving, peerVars, rr>>
  BY DEF CreateOrder, CanServe
<1>3. /\ ConnTyped' /\ Len(conn') = Len(conn) /\ Conns' = Conns /\ Gate' = Gate
      /\ \A h \in Conns : conn'[h].addr = conn[h].addr /\ conn'[h].closed = conn[h].closed
  <2> HIDE DEF m, value
  <2> QED
    BY <1>1, <1>2, Serves
<1>4. ServingTyped'
  BY <1>1, <1>2, <1>3 DEF ServingTyped
<1>5. rr' \in Nat
  BY <1>1, <1>2 DEF Peers
<1> QED
  BY <1>2, <1>3, <1>4, <1>5, TypedHandler

\* pickUser hands out a connection to a user instance.
LEMMA PickUserTyped ==
  ASSUME ConnTyped, Peers, users # <<>>
  PROVE  pickUser \in Conns \ Gate
<1> DEFINE D == DOMAIN users
           n == Cardinality(D)
<1>1. D \subseteq UserAddrs /\ users = [a \in D |-> users[a]] /\ rr \in Nat
      /\ \A a \in D : PeerAt(users[a], a)
  BY DEF Peers
<1>2. D \in SUBSET Nat /\ IsFiniteSet(D) /\ n \in Nat
  <2>1. UserAddrs \subseteq Nat /\ IsFiniteSet(UserAddrs)
    <3>1. \A a \in 1 .. Cardinality(UserAddrs) : a \in Nat
      OBVIOUS
    <3> QED
      BY <3>1, OrderAssumption
  <2>2. IsFiniteSet(D)
    BY <1>1, <2>1, FS_Subset
  <2> QED
    BY <1>1, <2>1, <2>2, FS_CardinalityType
<1>3. n # 0
  <2>1. SUFFICES ASSUME n = 0 PROVE FALSE
    OBVIOUS
  <2>2. D = {}
    BY <1>2, <2>1, FS_EmptySet
  <2>3. users = [i \in 1 .. 0 |-> users[i]]
    <3>1. 1 .. 0 = {}
      OBVIOUS
    <3> QED
      BY <1>1, <2>2, <3>1
  <2>4. Queue(users) /\ Len(users) = 0
    BY <2>3, QueueOf
  <2> QED
    BY <2>4, QueueTail
<1>4. rr % n \in 0 .. n - 1
  BY <1>1, <1>2, <1>3
<1>5. Nth(D, rr % n) \in D
  <2> HIDE DEF D
  <2> QED
    BY <1>2, <1>4, NthRank
<1>6. pickUser = users[Nth(D, rr % n)]
  BY DEF pickUser
<1>7. PeerAt(pickUser, Nth(D, rr % n)) /\ Nth(D, rr % n) \in UserAddrs
  BY <1>1, <1>5, <1>6
<1> QED
  BY <1>7, OrderAssumption DEF PeerAt, Gate

LEMMA TypedGetOrder ==
  ASSUME PathTyped, UNCHANGED gwVars, NEW k \in DOMAIN conn, GetOrder(k)
  PROVE  PathTyped'
<1> DEFINE m == Head(conn[k].out)
           s == [typ |-> "user", m |-> m, peer |-> pickUser, user |-> orders[m.arg.id], called |-> FALSE]
<1>1. ConnTyped /\ ServingTyped /\ Peers /\ k \in Conns /\ k \in Gate
  BY ConnsShape DEF PathTyped, GetOrder, CanServe, Gate
<1>2. conn[k].out # <<>> /\ UNCHANGED peerVars
  BY DEF GetOrder, CanServe
<1>3. CASE m.arg.id \notin DOMAIN orders \/ users = <<>>
  <2> DEFINE value == [req |-> m.arg.req]
  <2>1. conn' = Answered(Taken(k), k, "exception", m.seq, value) /\ UNCHANGED <<serving, rr>>
    BY <1>3 DEF GetOrder
  <2>2. /\ ConnTyped' /\ Len(conn') = Len(conn) /\ Conns' = Conns /\ Gate' = Gate
        /\ \A h \in Conns : conn'[h].addr = conn[h].addr /\ conn'[h].closed = conn[h].closed
    <3> HIDE DEF m, value
    <3> QED
      BY <1>1, <1>2, <2>1, Serves
  <2>3. ServingTyped' /\ rr' \in Nat
    BY <1>1, <2>1, <2>2 DEF ServingTyped, Peers
  <2> QED
    BY <1>2, <2>2, <2>3, TypedHandler
<1>4. CASE ~(m.arg.id \notin DOMAIN orders \/ users = <<>>)
  <2>1. conn' = Taken(k) /\ serving' = [serving EXCEPT ![k] = s] /\ rr' = (rr + 1) % RrLimit
    BY <1>4 DEF GetOrder
  <2>2. /\ ConnTyped' /\ Len(conn') = Len(conn) /\ Conns' = Conns /\ Gate' = Gate
        /\ \A h \in Conns : conn'[h].addr = conn[h].addr /\ conn'[h].closed = conn[h].closed
    BY <1>1, <1>2, <2>1, Takes
  <2>3. Handling(s)
    <3>1. pickUser \in Conns \ Gate
      BY <1>1, <1>4, PickUserTyped
    <3> QED
      BY <3>1 DEF Handling
  <2>4. ServingTyped'
    <3> HIDE DEF s
    <3> QED
      BY <1>1, <2>1, <2>2, <2>3, OneServing
  <2>5. rr' \in Nat
    BY <1>1, <2>1, OrderAssumption DEF Peers
  <2> QED
    BY <1>2, <2>2, <2>4, <2>5, TypedHandler
<1> QED
  BY <1>3, <1>4

LEMMA TypedCallUser ==
  ASSUME PathTyped, UNCHANGED gwVars, NEW k \in DOMAIN conn, CallUser(k)
  PROVE  PathTyped'
<1> DEFINE s == serving[k]
           t == [s EXCEPT !.called = TRUE]
           arg == [req |-> s.m.arg.req, user |-> s.user]
           hdr == outgoingHdr(startSpan(k, s.m))
<1>1. ConnTyped /\ ServingTyped /\ Peers /\ k \in Conns
  BY ConnsShape DEF PathTyped
<1>2. k \in Gate /\ s.typ = "user" /\ DOMAIN s = {"typ", "m", "peer", "user", "called"} /\ s.peer \in Conns \ Gate
  <2>1. s # NoFrame
    BY DEF CallUser, NoFrame
  <2> QED
    BY <1>1, <2>1 DEF ServingTyped
<1>3. Handling(t)
  <2> HIDE DEF s
  <2> QED
    BY <1>2 DEF Handling
<1>4. /\ conn' = CallWrite(k, s.peer, "GetUser", arg, hdr) /\ serving' = [serving EXCEPT ![k] = t]
      /\ UNCHANGED orderVars
  BY DEF CallUser
<1>5. /\ ConnTyped' /\ Len(conn') = Len(conn) /\ Conns' = Conns /\ Gate' = Gate
      /\ \A h \in Conns : conn'[h].addr = conn[h].addr /\ conn'[h].closed = conn[h].closed
  <2> HIDE DEF s, arg, hdr
  <2> QED
    BY <1>1, <1>2, <1>4, Writes
<1>6. ServingTyped'
  <2> HIDE DEF t
  <2> QED
    BY <1>1, <1>2, <1>3, <1>4, <1>5, OneServing
<1>7. UNCHANGED peerVars /\ rr' \in Nat
  BY <1>1, <1>4 DEF orderVars, peerVars, Peers
<1> QED
  BY <1>5, <1>6, <1>7, TypedHandler

LEMMA TypedUserAnswers ==
  ASSUME PathTyped, UNCHANGED gwVars, NEW k \in DOMAIN conn, UserAnswers(k)
  PROVE  PathTyped'
<1> DEFINE s == serving[k]
           r == CallRead(s.peer)
           typ == IF r.ok THEN "reply" ELSE "exception"
           value == IF r.ok THEN r.value ELSE [req |-> s.m.arg.req]
<1>1. ConnTyped /\ ServingTyped /\ Peers /\ k \in Conns
  BY ConnsShape DEF PathTyped
<1>2. k \in Gate /\ s.peer \in Conns \ Gate
  <2>1. s # NoFrame
    BY DEF UserAnswers, NoFrame
  <2> QED
    BY <1>1, <2>1 DEF ServingTyped
<1>3. /\ conn' = Answered(AfterRead(s.peer), k, typ, s.m.seq, value) /\ serving' = [serving EXCEPT ![k] = NoFrame]
      /\ UNCHANGED <<peerVars, rr>>
  BY DEF UserAnswers
<1>4. /\ ConnTyped' /\ Len(conn') = Len(conn) /\ Conns' = Conns /\ Gate' = Gate
      /\ \A h \in Conns : conn'[h].addr = conn[h].addr /\ conn'[h].closed = conn[h].closed
  <2> HIDE DEF s, typ, value
  <2>1. s.peer # k /\ s.peer \in Conns
    BY <1>2
  <2> QED
    BY <1>1, <1>3, <2>1, Relays
<1>5. ServingTyped'
  BY <1>1, <1>2, <1>3, <1>4, OneServing DEF Handling
<1>6. UNCHANGED peerVars /\ rr' \in Nat
  BY <1>1, <1>3 DEF Peers
<1> QED
  BY <1>4, <1>5, <1>6, TypedHandler

\* applyAddrs dials: the new connections come in the order of the addresses.
LEMMA AddsPeers ==
  ASSUME PathTyped, applyAddrs
  PROVE  /\ ConnTyped' /\ ServingTyped'
         /\ \A k \in Conns : /\ k \in Conns' /\ conn'[k] = conn[k] /\ (k \in Gate' <=> k \in Gate)
                             /\ serving'[k] = serving[k]
         /\ \A k \in Conns' : k \notin Conns => k \notin Gate' /\ conn'[k].out = <<>> /\ conn'[k].in = <<>>
                                               /\ conn'[k].holder = Nobody
         /\ Peers'
<1>1. ConnTyped /\ ServingTyped /\ Peers /\ watch.at = "apply"
  BY DEF PathTyped, applyAddrs
<1>2. watch.addrs \subseteq UserAddrs
  <2>1. watch \notin {Sleeping, NotRunning} /\ watch # [at |-> "drop", old |-> watch.old, addrs |-> watch.addrs]
    BY <1>1 DEF Sleeping, NotRunning
  <2> QED
    BY <1>1, <2>1 DEF Peers
<1>3. PICK dialled \in SUBSET (watch.addrs \ DOMAIN users), stale \in SUBSET early :
        LET n == Cardinality(dialled)
            at(a) == Len(conn) + 1 + Cardinality({b \in dialled : b < a})
        IN  /\ conn' = conn \o [i \in 1..n |-> [NewConn(Nth(dialled, i - 1)) EXCEPT !.gone = Nth(dialled, i - 1) \notin up \ stale]]
            /\ serving' = serving \o [i \in 1..n |-> NoFrame]
            /\ users' = [a \in (watch.addrs \cap DOMAIN users) \cup dialled |->
                            IF a \in dialled THEN at(a) ELSE users[a]]
            /\ early' \subseteq early
  BY DEF applyAddrs
<1> DEFINE n == Cardinality(dialled)
           s == [i \in 1..n |-> [NewConn(Nth(dialled, i - 1)) EXCEPT !.gone = Nth(dialled, i - 1) \notin up \ stale]]
           at(a) == Len(conn) + 1 + Cardinality({b \in dialled : b < a})
<1>4. dialled \in SUBSET Nat /\ IsFiniteSet(dialled) /\ n \in Nat /\ dialled \subseteq UserAddrs
  <2>1. UserAddrs \subseteq Nat /\ IsFiniteSet(UserAddrs)
    <3>1. \A a \in 1 .. Cardinality(UserAddrs) : a \in Nat
      OBVIOUS
    <3> QED
      BY <3>1, OrderAssumption
  <2>2. dialled \subseteq UserAddrs
    BY <1>2
  <2>3. IsFiniteSet(dialled)
    BY <2>1, <2>2, FS_Subset
  <2> QED
    BY <2>1, <2>2, <2>3, FS_CardinalityType
<1>5. ASSUME NEW i \in 1 .. n
      PROVE  /\ IsConn(s[i]) /\ s[i].addr = Nth(dialled, i - 1) /\ s[i].addr \in dialled
             /\ s[i].closed = FALSE /\ s[i].out = <<>> /\ s[i].in = <<>> /\ s[i].holder = Nobody
  <2>1. i - 1 \in 0 .. n - 1
    BY <1>4
  <2>2. Nth(dialled, i - 1) \in dialled
    BY <1>4, <2>1, NthRank
  <2> DEFINE a == Nth(dialled, i - 1)
             c == NewConn(a)
  <2>3. s[i] = [c EXCEPT !.gone = a \notin up \ stale]
    OBVIOUS
  <2>4. a \in UserAddrs
    BY <1>4, <2>2
  <2> HIDE DEF a
  <2>5. IsConn(c) /\ c.addr = a /\ c.closed = FALSE /\ c.out = <<>> /\ c.in = <<>> /\ c.holder = Nobody
    BY <2>4, QueueNil DEF IsConn, NewConn
  <2> HIDE DEF c
  <2>6. /\ IsConn([c EXCEPT !.gone = a \notin up \ stale]) /\ [c EXCEPT !.gone = a \notin up \ stale].addr = a
        /\ [c EXCEPT !.gone = a \notin up \ stale].closed = FALSE /\ [c EXCEPT !.gone = a \notin up \ stale].out = <<>>
        /\ [c EXCEPT !.gone = a \notin up \ stale].in = <<>> /\ [c EXCEPT !.gone = a \notin up \ stale].holder = Nobody
    BY <2>5 DEF IsConn
  <2> HIDE DEF s
  <2> QED
    BY <2>2, <2>3, <2>6 DEF a
<1>6. /\ conn' = conn \o s /\ serving' = serving \o [i \in 1..n |-> NoFrame]
      /\ users' = [a \in (watch.addrs \cap DOMAIN users) \cup dialled |-> IF a \in dialled THEN at(a) ELSE users[a]]
  BY <1>3
<1>7. Queue(s) /\ Len(s) = n
  BY <1>4, QueueOf
<1> HIDE DEF s
<1>8. /\ ConnTyped' /\ Len(conn') = Len(conn) + n
      /\ \A k \in Conns : k \in Conns' /\ conn'[k] = conn[k] /\ (k \in Gate' <=> k \in Gate)
      /\ \A i \in 1 .. n : Len(conn) + i \in Conns' /\ conn'[Len(conn) + i] = s[i]
      /\ \A k \in Conns' : k \in Conns \/ \E i \in 1 .. n : k = Len(conn) + i
  <2>1. Queue(s) /\ (\A i \in 1 .. Len(s) : IsConn(s[i])) /\ Len(conn) \in Nat
    BY <1>1, <1>5, <1>7, ConnsShape
  <2>2. /\ ConnTyped' /\ Len(conn') = Len(conn) + Len(s)
        /\ \A k \in Conns : k \in Conns' /\ conn'[k] = conn[k] /\ (k \in Gate' <=> k \in Gate)
        /\ \A i \in 1 .. Len(s) : Len(conn) + i \in Conns' /\ conn'[Len(conn) + i] = s[i]
        /\ \A k \in Conns' : k \in Conns \/ \E i \in 1 .. Len(s) : k = Len(conn) + i
    BY <1>1, <1>6, <2>1, MoreConns
  <2> QED
    BY <1>7, <2>2
<1>9. ServingTyped' /\ \A k \in Conns : serving'[k] = serving[k]
  BY <1>1, <1>4, <1>6, <1>8, MoreServing
<1>10. ASSUME NEW k \in Conns', k \notin Conns
       PROVE  k \notin Gate' /\ conn'[k].out = <<>> /\ conn'[k].in = <<>> /\ conn'[k].holder = Nobody
  <2>1. PICK i \in 1 .. n : k = Len(conn) + i
    BY <1>8, <1>10
  <2>2. conn'[k] = s[i]
    BY <1>8, <2>1
  <2> QED
    BY <1>4, <1>5, <2>2, OrderAssumption DEF Gate
<1>11. ASSUME NEW a \in dialled
       PROVE  users'[a] \in Conns' /\ conn'[users'[a]].addr = a /\ conn'[users'[a]].closed = FALSE
  <2> DEFINE q == Rank(dialled, a)
  <2>1. q \in 0 .. n - 1 /\ Nth(dialled, q) = a
    BY <1>4, RankBound, NthRank
  <2>2. users'[a] = Len(conn) + 1 + q
    BY <1>6 DEF Rank
  <2> HIDE DEF q
  <2>3. q + 1 \in 1 .. n /\ (q + 1) - 1 = q
    BY <1>4, <2>1
  <2>4. Len(conn) + 1 + q = Len(conn) + (q + 1)
    BY <1>1, <2>1, ConnsShape
  <2>5. conn'[users'[a]] = s[q + 1] /\ users'[a] \in Conns'
    BY <1>8, <2>2, <2>3, <2>4
  <2> QED
    BY <1>5, <2>1, <2>3, <2>5
<1>12. Peers'
  <2>1. /\ rr' \in Nat /\ registry' \subseteq UserAddrs /\ early' \subseteq UserAddrs
        /\ watch' = [at |-> "drop", old |-> users, addrs |-> watch.addrs]
    BY <1>1, <1>3 DEF applyAddrs, Peers
  <2>2. DOMAIN users' = (watch.addrs \cap DOMAIN users) \cup dialled /\ users' = [a \in DOMAIN users' |-> users'[a]]
        /\ \A a \in watch.addrs \cap DOMAIN users : users'[a] = users[a]
    BY <1>6
  <2>3. DOMAIN users' \subseteq watch.addrs
    BY <2>2
  <2>4. ASSUME NEW a \in DOMAIN users PROVE users[a] \in Conns' /\ conn'[users[a]].addr = a /\ conn'[users[a]].closed = FALSE
    <3>1. PeerAt(users[a], a) /\ ~conn[users[a]].closed
      BY <1>1 DEF Peers
    <3>2. conn[users[a]].closed \in BOOLEAN
      BY <1>1, <3>1, ConnsShape DEF PeerAt, IsConn
    <3> QED
      BY <1>8, <3>1, <3>2 DEF PeerAt
  <2>5. ASSUME NEW a \in DOMAIN users' PROVE PeerAt(users[a], a)' /\ ~conn'[users'[a]].closed
    <3>1. CASE a \in dialled
      BY <1>11, <3>1 DEF PeerAt
    <3>2. CASE a \notin dialled
      BY <2>2, <2>4, <3>2 DEF PeerAt
    <3> QED
      BY <3>1, <3>2
  <2>6. DOMAIN users \subseteq UserAddrs
    BY <1>1 DEF Peers
  <2>7. /\ watch'.at = "drop" /\ watch'.old = users /\ watch'.addrs = watch.addrs
    BY <2>1
  <2> QED
    BY <1>2, <2>1, <2>2, <2>3, <2>4, <2>5, <2>6, <2>7 DEF Peers, PeerAt
<1> QED
  BY <1>8, <1>9, <1>10, <1>12

LEMMA TypedApplyAddrs ==
  ASSUME PathTyped, UNCHANGED gwVars, applyAddrs
  PROVE  PathTyped'
<1>1. /\ ConnTyped' /\ ServingTyped' /\ Peers' /\ Gate \subseteq Gate'
  BY AddsPeers, GateIsConns
<1> QED
  BY <1>1, ReqsKept DEF PathTyped

LEMMA TypedInit ==
  ASSUME PathInit
  PROVE  /\ PathTyped /\ req = <<>>
         /\ \A k \in Conns : conn[k].out = <<>> /\ conn[k].in = <<>> /\ conn[k].seq = 0 /\ serving[k] = NoFrame
<1> DEFINE n == Cardinality(UserAddrs)
           addrs == [i \in 1 .. (n + 2) |-> IF i <= n THEN i ELSE OrderAddr]
<1>1. n \in Nat /\ UserAddrs = 1 .. n /\ OrderAddr \notin 1 .. n
  BY OrderAssumption, FS_CardinalityType
<1> HIDE DEF n
<1>2. /\ conn = [i \in 1 .. n + 2 |-> NewConn(addrs[i])] /\ serving = [i \in 1 .. n + 2 |-> NoFrame]
      /\ clis = n + 1 /\ dcli = n + 2 /\ req = <<>>
      /\ registry = UserAddrs /\ users = [a \in UserAddrs |-> a] /\ rr = 0 /\ watch = Sleeping /\ early = {}
  BY DEF PathInit, OrderInit, GatewayInit, RpcInit, n
<1>3. Queue(conn) /\ Len(conn) = n + 2 /\ Queue(serving) /\ Len(serving) = n + 2
  <2>1. n + 2 \in Nat
    BY <1>1
  <2>2. conn = [i \in 1 .. n + 2 |-> conn[i]] /\ serving = [i \in 1 .. n + 2 |-> serving[i]]
    BY <1>2
  <2> QED
    BY <2>1, <2>2, QueueOf
<1>4. ASSUME NEW k \in Conns
      PROVE  /\ IsConn(conn[k]) /\ conn[k].addr = addrs[k] /\ conn[k].closed = FALSE
             /\ conn[k].out = <<>> /\ conn[k].in = <<>> /\ conn[k].seq = 0 /\ serving[k] = NoFrame
  <2>1. k \in 1 .. n + 2 /\ conn[k] = NewConn(addrs[k]) /\ serving[k] = NoFrame
    BY <1>2, <1>3 DEF Conns
  <2>2. addrs[k] \in UserAddrs \cup {OrderAddr}
    BY <1>1, <2>1
  <2> HIDE DEF addrs
  <2> QED
    BY <2>1, <2>2, QueueNil DEF IsConn, NewConn
<1>5. \A k \in Conns : (k \in Gate <=> k \in n + 1 .. n + 2) /\ (k \in UserAddrs <=> k \notin n + 1 .. n + 2)
  <2>1. Conns = 1 .. n + 2
    BY <1>3 DEF Conns
  <2>2. \A k \in Conns : conn[k].addr = IF k <= n THEN k ELSE OrderAddr
    BY <1>4, <2>1
  <2> QED
    BY <1>1, <2>1, <2>2 DEF Gate
<1>6. n + 1 \in Conns /\ n + 2 \in Conns /\ \A a \in UserAddrs : a \in Conns /\ addrs[a] = a
  BY <1>1, <1>3 DEF Conns
<1>7. ConnTyped
  BY <1>3, <1>4 DEF ConnTyped
<1>8. ServingTyped
  BY <1>3, <1>4 DEF ServingTyped
<1>9. ReqTyped
  <2>1. clis \in Gate /\ dcli \in Gate
    BY <1>1, <1>2, <1>5, <1>6
  <2>2. Queue(req) /\ Len(req) = 0
    BY <1>2, QueueNil
  <2> QED
    BY <2>1, <2>2, GatewayAssumption DEF ReqTyped
<1>10. Peers
  <2>1. \A a \in DOMAIN users : a \in UserAddrs /\ users[a] = a
    BY <1>2
  <2> HIDE DEF addrs
  <2>2. \A a \in DOMAIN users : PeerAt(users[a], a) /\ ~conn[users[a]].closed
    BY <1>4, <1>6, <2>1 DEF PeerAt
  <2> QED
    BY <1>2, <2>2 DEF Peers
<1> QED
  BY <1>2, <1>4, <1>7, <1>8, <1>9, <1>10 DEF PathTyped

\* Every step of the path is one of these.
LEMMA TypedNext ==
  ASSUME PathTyped, PathNext
  PROVE  PathTyped'
<1>1. CASE \E b \in Bodies : handle(b)
  <2>1. clis \in Gate
    BY DEF PathTyped, ReqTyped
  <2> DEFINE program == FALSE
  <2>2. PICK b \in Bodies : Asks(program, b, clis)
    BY <1>1 DEF handle
  <2>3. b.method \in {"bad", "GetOrder", "CreateOrder"}
    BY MethodOfBody
  <2> HIDE DEF program
  <2> QED
    BY <2>1, <2>2, <2>3, TypedAsks
<1>2. CASE direct
  <2>1. dcli \in Gate
    BY DEF PathTyped, ReqTyped
  <2> DEFINE b == [method |-> "GetOrder", id |-> FirstOrder]
             program == TRUE
  <2>2. b.method \in {"bad", "GetOrder", "CreateOrder"} /\ Asks(program, b, dcli)
    BY <1>2 DEF direct
  <2> HIDE DEF b, program
  <2> QED
    BY <2>1, <2>2, TypedAsks
<1>3. ASSUME NEW p \in DOMAIN req, Call(p) \/ Answer(p) \/ Timeout(p) \/ redial(p) \/ redialFails(p) \/ closeOld(p)
      PROVE  PathTyped'
  BY <1>3, TypedCall, TypedAnswer, TypedTimeout, TypedRedial, TypedRedialFails, TypedCloseOld
<1>4. CASE OrderNext /\ UNCHANGED gwVars
  <2>1. CASE Instances
    <3>1. PICK a \in UserAddrs : announce(a) \/ Expire(a) \/ StartUser(a) \/ UserDies(a)
      BY <2>1 DEF Instances
    <3> QED
      BY <1>4, <3>1, TypedInstances, TypedUserDies
  <2>2. CASE Watching
    BY <1>4, <2>2, TypedWatch, TypedApplyAddrs, TypedDropPeers DEF Watching
  <2>3. CASE Handlers
    BY <1>4, <2>3, TypedGetUser, TypedCreateOrder, TypedGetOrder, TypedCallUser, TypedUserAnswers DEF Handlers
  <2>4. CASE OrderDies
    BY <1>4, <2>4, TypedOrderDies
  <2>5. CASE GivesUp \/ StartOrder
    BY <1>4, <2>5, TypedStarts
  <2> QED
    BY <1>4, <2>1, <2>2, <2>3, <2>4, <2>5 DEF OrderNext
<1> QED
  BY <1>1, <1>2, <1>3, <1>4 DEF PathNext, GatewayNext

LEMMA TypedStutters ==
  ASSUME PathTyped, UNCHANGED pathVars
  PROVE  PathTyped'
<1>1. UNCHANGED <<conn, serving, gwVars, peerVars, rr>>
  BY DEF pathVars, rpcVars, orderVars, gwVars, peerVars
<1>2. Peers'
  BY <1>1 DEF PathTyped, Peers, PeerAt, Conns, peerVars
<1> QED
  BY <1>1, <1>2, TypedIdle

\* The connections, the requests and the list of instances have their shape in every state: among
\* them, a connection that waitAndWatch is about to close is not in the list that calls go to.
THEOREM PathShape == PathSpec => []PathTyped
<1>1. PathInit => PathTyped
  BY TypedInit
<1>2. PathTyped /\ [PathNext]_pathVars => PathTyped'
  BY TypedNext, TypedStutters
<1> QED
  BY <1>1, <1>2, PTL DEF PathSpec

\* applyAddrs puts the new list in place before it closes the connections that dropped out:
\* pickUser never hands out a closed one.
THEOREM HandedOutIsOpen == PathSpec => []PeersOpen
<1>1. PathTyped => PeersOpen
  BY DEF PathTyped, Peers, PeersOpen
<1> QED
  BY <1>1, PathShape, PTL

-----------------------------------------------------------------------------
(* Who holds a connection's mutex, and whose frame is in it. *)

LEMMA BusyNat ==
  ASSUME NEW c, IsConn(c)
  PROVE  /\ Len(c.in) \in Nat /\ Len(c.out) \in Nat /\ Busy(c) \in Nat
         /\ Busy(c) = 0 => Items(c.out) = {} /\ Items(c.in) = {}
         /\ c.out = <<>> /\ c.in = <<>> => Busy(c) = 0
<1>1. Queue(c.in) /\ Queue(c.out)
  BY DEF IsConn
<1>2. Len(c.in) \in Nat /\ Len(c.out) \in Nat
  BY <1>1, QueueShape
<1>3. Len(c.out) = 0 => Items(c.out) = {}
  BY DEF Items
<1>4. Len(c.in) = 0 => Items(c.in) = {}
  BY DEF Items
<1>5. ASSUME c.out = <<>>, c.in = <<>> PROVE Busy(c) = 0
  <2>1. Len(c.in) = 0 /\ Len(c.out) = 0
    BY <1>5
  <2> QED
    BY <2>1 DEF Busy
<1>6. Busy(c) \in Nat /\ (Busy(c) = 0 => Len(c.out) = 0 /\ Len(c.in) = 0)
  <2> DEFINE a == Len(c.in)
             b == Len(c.out)
  <2>1. Busy(c) = a + b /\ a \in Nat /\ b \in Nat
    BY <1>2 DEF Busy
  <2> HIDE DEF a, b
  <2>2. Busy(c) \in Nat /\ (Busy(c) = 0 => b = 0 /\ a = 0)
    BY <2>1
  <2> QED
    BY <2>2 DEF a, b
<1> QED
  BY <1>2, <1>3, <1>4, <1>5, <1>6

\* Steps that do not touch what is under way at the user instances, but may close or add connections to them.
LEMMA OneAtATimeKept ==
  ASSUME ConnTyped, ConnTyped', OneAtATime,
         \A h \in Conns : h \in Gate' <=> h \in Gate,
         \A h \in Conns \ Gate : ~conn'[h].closed =>
             ~conn[h].closed /\ conn'[h].in = conn[h].in /\ conn'[h].out \in {conn[h].out, <<>>} /\ conn'[h].holder = conn[h].holder,
         \A h \in Conns' : h \notin Conns /\ h \notin Gate' => conn'[h].out = <<>> /\ conn'[h].in = <<>>,
         \A k \in Gate : k \in Gate' /\ serving'[k] = serving[k]
  PROVE  OneAtATime'
<1>0. \A h \in Conns' : IsConn(conn'[h])
  BY DEF ConnTyped
<1>1. ASSUME NEW h \in Conns' \ Gate', ~conn'[h].closed PROVE OneCall(h)'
  <2> DEFINE c == conn[h]
             d == conn'[h]
  <2>1. CASE h \in Conns
    <3>1. OneCall(h) /\ d.in = c.in /\ d.out \in {c.out, <<>>} /\ d.holder = c.holder /\ IsConn(c) /\ IsConn(d)
      BY <1>0, <1>1, <2>1, ConnsShape DEF OneAtATime
    <3>2. CASE Busy(d) # 0
      <4>1. Busy(c) # 0 /\ Busy(d) <= 1 /\ Items(d.out) \subseteq Items(c.out) /\ Items(d.in) = Items(c.in)
        <5>1. Busy(c) <= 1
          BY <3>1 DEF OneCall
        <5> HIDE DEF c, d
        <5>2. CASE d.out = c.out
          BY <3>1, <3>2, <5>1, <5>2 DEF Busy
        <5>3. CASE d.out = <<>>
          <6>1. Len(d.out) = 0 /\ Items(d.out) = {}
            BY <5>3, QueueNil
          <6>2. Len(d.in) = Len(c.in) /\ Len(c.in) \in Nat /\ Len(c.out) \in Nat
            BY <3>1, BusyNat
          <6> DEFINE x == Len(c.in)
                     y == Len(c.out)
          <6>3. Busy(d) = x + 0 /\ Busy(c) = x + y /\ x \in Nat /\ y \in Nat
            BY <6>1, <6>2 DEF Busy
          <6> HIDE DEF x, y
          <6>4. Busy(c) # 0 /\ Busy(d) <= 1
            BY <3>2, <5>1, <6>3
          <6> QED
            BY <3>1, <6>1, <6>4
        <5> QED
          BY <3>1, <5>2, <5>3
      <4> QED
        BY <3>1, <4>1 DEF OneCall
    <3>3. CASE Busy(d) = 0
      <4>1. Items(d.out) = {} /\ Items(d.in) = {}
        <5> HIDE DEF c, d
        <5> QED
          BY <3>1, <3>3, BusyNat
      <4> QED
        BY <3>3, <4>1 DEF OneCall
    <3> QED
      BY <3>2, <3>3
  <2>2. CASE h \notin Conns
    <3>1. d.out = <<>> /\ d.in = <<>> /\ IsConn(d)
      BY <1>0, <1>1, <2>2
    <3>2. Busy(d) = 0 /\ Items(d.out) = {} /\ Items(d.in) = {}
      <4> HIDE DEF d
      <4> QED
        BY <3>1, BusyNat
    <3> QED
      BY <3>2 DEF OneCall
  <2> QED
    BY <2>1, <2>2
<1> QED
  BY <1>1 DEF OneAtATime

\* What handlers and requests hold, they go on holding while others' connections change.
LEMMA CallHoldsKept ==
  ASSUME ServingTyped, CallHolds,
         \A k \in Gate' : (k \in Gate /\ serving'[k] = serving[k]) \/ serving'[k] = NoFrame,
         \A h \in Conns \ Gate : conn'[h].holder = conn[h].holder
  PROVE  CallHolds'
<1>1. ASSUME NEW k \in Gate', serving'[k].typ = "user", serving'[k].called
      PROVE  conn'[serving'[k].peer].holder = k
  <2>1. serving'[k] # NoFrame
    BY <1>1 DEF NoFrame
  <2>2. k \in Gate /\ serving'[k] = serving[k]
    BY <2>1
  <2>3. serving[k].peer \in Conns \ Gate /\ conn[serving[k].peer].holder = k
    BY <1>1, <2>2, GateIsConns DEF ServingTyped, NoFrame, CallHolds
  <2> QED
    BY <2>2, <2>3
<1> QED
  BY <1>1 DEF CallHolds

LEMMA WaitHoldsKept ==
  ASSUME ReqTyped, WaitHolds,
         \A p \in 1 .. Len(req') : req'[p].at = "wait" => p \in 1 .. Len(req) /\ req[p].at = "wait" /\ req'[p].conn = req[p].conn
                                                          /\ conn'[req[p].conn].holder = conn[req[p].conn].holder
  PROVE  WaitHolds'
BY DEF WaitHolds

\* A step of one request, on a connection to the order service.
LEMMA HeldReqStep ==
  ASSUME PathTyped, Held, ConnTyped', Conns' = Conns, Gate' = Gate, serving' = serving, NEW k \in Gate,
         \A h \in Conns : h # k => conn'[h] = conn[h]
  PROVE  OneAtATime' /\ CallHolds'
<1>1. \A h \in Conns \ Gate : conn'[h] = conn[h]
  OBVIOUS
<1>2. OneAtATime'
  BY <1>1, OneAtATimeKept DEF Held, PathTyped
<1>3. CallHolds'
  BY <1>1, CallHoldsKept DEF Held, PathTyped
<1> QED
  BY <1>2, <1>3

LEMMA HeldAsks ==
  ASSUME PathTyped, Held, NEW program, NEW b, b.method \in {"bad", "GetOrder", "CreateOrder"},
         NEW cli \in Gate, Asks(program, b, cli)
  PROVE  Held' 
<1> DEFINE r == [at |-> IF b.method = "bad" THEN "failed" ELSE "call", b |-> b, direct |-> program,
                 conn |-> cli, old |-> Nobody, try |-> 1, lost |-> FALSE]
<1>1. UNCHANGED <<conn, serving>> /\ req' = Append(req, r)
  BY DEF Asks, rpcVars
<1>2. Queue(req) /\ Len(req) \in Nat
  BY QueueShape DEF PathTyped, ReqTyped
<1>3. r.at # "wait"
  OBVIOUS
<1>4. Len(req') = Len(req) + 1 /\ (\A p \in 1 .. Len(req) : req'[p] = req[p]) /\ req'[Len(req) + 1] = r
  <2> HIDE DEF r
  <2> QED
    BY <1>1, <1>2, QueueAppend DEF Queue
<1>5. \A p \in 1 .. Len(req') : req'[p].at = "wait" => p \in 1 .. Len(req) /\ req'[p] = req[p]
  <2>1. \A p \in 1 .. Len(req') : p \in 1 .. Len(req) \/ p = Len(req) + 1
    BY <1>2, <1>4
  <2> HIDE DEF r
  <2> QED
    BY <1>3, <1>4, <2>1
<1>6. WaitHolds'
  BY <1>1, <1>5 DEF WaitHolds, Held
<1>7. OneAtATime' /\ CallHolds'
  BY <1>1 DEF OneAtATime, OneCall, CallHolds, Held, Conns, Gate
<1> QED
  BY <1>6, <1>7 DEF Held

LEMMA HeldCall ==
  ASSUME PathTyped, PathTyped', Held, NEW p \in DOMAIN req, Call(p)
  PROVE  Held'
<1> DEFINE k == req[p].conn
           r == [req[p] EXCEPT !.at = "wait"]
<1>1. IsReq(req[p], Gate) /\ req[p].at = "call" /\ DOMAIN req = 1 .. Len(req) /\ \A q \in DOMAIN req : IsReq(req[q], Gate)
  BY ReqsShape DEF PathTyped, Call, Goes
<1>2. k \in Gate /\ k \in Conns /\ r.conn = k /\ conn[k].holder = Nobody /\ p \in Nat /\ Len(req) \in Nat
  BY <1>1, ReqsShape DEF IsReq, Gate, Call, CanCall, PathTyped
<1>3. conn' = CallWrite(p, k, req[p].b.method, ArgOf(p, req[p].b), NoSpan) /\ req' = [req EXCEPT ![p] = r] /\ serving' = serving
  BY DEF Call, To
<1>4. /\ ConnTyped' /\ Len(conn') = Len(conn) /\ Conns' = Conns /\ Gate' = Gate
      /\ conn'[k].holder = p /\ \A h \in Conns : h # k => conn'[h] = conn[h]
  <2> HIDE DEF k
  <2> QED
    BY <1>2, <1>3, Writes DEF PathTyped
<1>5. OneAtATime' /\ CallHolds'
  <2> HIDE DEF k
  <2> QED
    BY <1>2, <1>3, <1>4, HeldReqStep
<1>6. Len(req') = Len(req) /\ req'[p] = r /\ \A q \in DOMAIN req : q # p => req'[q] = req[q]
  <2> HIDE DEF r
  <2>1. DOMAIN req' = DOMAIN req
    BY <1>3
  <2>2. DOMAIN req' = 1 .. Len(req') /\ Len(req') \in Nat
    BY QueueShape DEF PathTyped, ReqTyped
  <2> QED
    BY <1>1, <1>2, <1>3, <2>1, <2>2
<1>7. ASSUME NEW q \in 1 .. Len(req'), req'[q].at = "wait" PROVE conn'[req'[q].conn].holder = q
  <2>1. CASE q = p
    BY <1>2, <1>4, <1>6, <2>1
  <2>2. CASE q # p
    <3>1. q \in DOMAIN req /\ req'[q] = req[q] /\ conn[req[q].conn].holder = q /\ req[q].conn \in Gate /\ q \in Nat
      BY <1>1, <1>2, <1>6, <1>7, <2>2 DEF Held, WaitHolds, IsReq
    <3>2. req[q].conn # k /\ req[q].conn \in Conns
      BY <1>2, <3>1, RpcAssumption, GateIsConns
    <3> QED
      BY <1>4, <3>1, <3>2
  <2> QED
    BY <2>1, <2>2
<1> QED
  BY <1>5, <1>7 DEF Held, WaitHolds

\* A request that has waited stops waiting and frees the connection.
LEMMA HeldEnds ==
  ASSUME PathTyped, PathTyped', Held, NEW p \in DOMAIN req, req[p].at = "wait", NEW r, r.at # "wait",
         req' = [req EXCEPT ![p] = r], serving' = serving,
         Conns' = Conns, Gate' = Gate, \A h \in Conns : h # req[p].conn => conn'[h] = conn[h]
  PROVE  Held'
<1> DEFINE k == req[p].conn
<1>1. DOMAIN req = 1 .. Len(req) /\ \A q \in DOMAIN req : IsReq(req[q], Gate)
  BY ReqsShape DEF PathTyped
<1>2. k \in Gate /\ k \in Conns /\ conn[k].holder = p
  BY <1>1, GateIsConns DEF IsReq, Held, WaitHolds
<1>3. OneAtATime' /\ CallHolds'
  <2> HIDE DEF k
  <2>1. \A h \in Conns : h # k => conn'[h] = conn[h]
    BY DEF k
  <2> QED
    BY <1>2, <2>1, HeldReqStep DEF PathTyped
<1>4. Len(req') = Len(req) /\ req'[p] = r /\ \A q \in DOMAIN req : q # p => req'[q] = req[q]
  <2>1. DOMAIN req' = DOMAIN req
    OBVIOUS
  <2>2. DOMAIN req' = 1 .. Len(req') /\ Len(req') \in Nat /\ Len(req) \in Nat
    BY QueueShape DEF PathTyped, ReqTyped
  <2> QED
    BY <1>1, <2>1, <2>2
<1>5. ASSUME NEW q \in 1 .. Len(req'), req'[q].at = "wait" PROVE conn'[req'[q].conn].holder = q
  <2>1. q # p
    BY <1>4, <1>5
  <2>2. q \in DOMAIN req /\ req'[q] = req[q] /\ conn[req[q].conn].holder = q /\ req[q].conn \in Gate
    BY <1>1, <1>4, <1>5, <2>1 DEF Held, WaitHolds, IsReq
  <2>3. req[q].conn # k /\ req[q].conn \in Conns
    BY <1>2, <2>1, <2>2, GateIsConns
  <2> QED
    BY <2>2, <2>3
<1> QED
  BY <1>3, <1>5 DEF Held, WaitHolds

LEMMA HeldAnswer ==
  ASSUME PathTyped, PathTyped', Held, NEW p \in DOMAIN req, Answer(p)
  PROVE  Held'
<1> DEFINE k == req[p].conn
           r == Outcome(p, CallRead(k))
<1>1. IsReq(req[p], Gate) /\ req[p].at = "wait"
  BY ReqsShape DEF PathTyped, Answer, Goes
<1>2. k \in Conns /\ conn' = AfterRead(k) /\ req' = [req EXCEPT ![p] = r] /\ serving' = serving
  BY <1>1 DEF IsReq, Gate, Answer, To
<1>3. r.at # "wait"
  <2>1. ASSUME NEW v PROVE Outcome(p, v).at # "wait"
    <3>1. CASE v.ok \/ req[p].direct \/ req[p].try = 2
      BY <3>1 DEF Outcome, Ended
    <3>2. CASE ~(v.ok \/ req[p].direct \/ req[p].try = 2)
      <4>1. Outcome(p, v) = [req[p] EXCEPT !.at = "failed", !.lost = v.lost]
        BY <3>2 DEF Outcome
      <4> QED
        BY <1>1, <4>1 DEF IsReq
    <3> QED
      BY <3>1, <3>2
  <2> QED
    BY <2>1
<1>4. Conns' = Conns /\ Gate' = Gate /\ \A h \in Conns : h # k => conn'[h] = conn[h]
  <2> HIDE DEF k
  <2> QED
    BY <1>2, Reads DEF PathTyped
<1> HIDE DEF r
<1> QED
  BY <1>1, <1>2, <1>3, <1>4, HeldEnds

LEMMA HeldTimeout ==
  ASSUME PathTyped, PathTyped', Held, NEW p \in DOMAIN req, Timeout(p)
  PROVE  Held'
<1> DEFINE k == req[p].conn
           r == Ended(p, FALSE, NoValue, TRUE)
<1>1. IsReq(req[p], Gate) /\ req[p].at = "wait"
  BY ReqsShape DEF PathTyped, Timeout, Goes
<1>2. k \in Conns /\ conn' = AfterTimeout(k) /\ req' = [req EXCEPT ![p] = r] /\ serving' = serving
  BY <1>1 DEF IsReq, Gate, Timeout, To
<1>3. r.at # "wait"
  BY DEF Ended
<1>4. Conns' = Conns /\ Gate' = Gate /\ \A h \in Conns : h # k => conn'[h] = conn[h]
  <2> HIDE DEF k
  <2> QED
    BY <1>2, TimesOut DEF PathTyped
<1> HIDE DEF r
<1> QED
  BY <1>1, <1>2, <1>3, <1>4, HeldEnds

\* Steps that leave every mutex as it is: a request may stop failing, connections may be added or closed.
LEMMA HeldKept ==
  ASSUME PathTyped, PathTyped', Held,
         \A h \in Conns : (h \in Gate' <=> h \in Gate) /\ conn'[h].holder = conn[h].holder,
         \A h \in Conns \ Gate : ~conn'[h].closed =>
             ~conn[h].closed /\ conn'[h].in = conn[h].in /\ conn'[h].out \in {conn[h].out, <<>>},
         \A h \in Conns' : h \notin Conns => conn'[h].out = <<>> /\ conn'[h].in = <<>> /\ serving'[h] = NoFrame,
         \A k \in Gate : serving'[k] = serving[k],
         Len(req') = Len(req),
         \A p \in 1 .. Len(req) : req'[p].at = "wait" => req'[p] = req[p]
  PROVE  Held'
<1>1. ConnTyped /\ ConnTyped' /\ ServingTyped /\ ReqTyped
  BY DEF PathTyped
<1>2. Gate \subseteq Conns
  BY GateIsConns
<1>3. \A k \in Gate : k \in Gate' /\ serving'[k] = serving[k]
  BY <1>2
<1>4. OneAtATime'
  BY <1>1, <1>3, OneAtATimeKept DEF Held
<1>5. \A k \in Gate' : (k \in Gate /\ serving'[k] = serving[k]) \/ serving'[k] = NoFrame
  <2>1. Gate' \subseteq Conns'
    BY DEF Gate
  <2> QED
    BY <2>1
<1>6. CallHolds'
  BY <1>1, <1>5, CallHoldsKept DEF Held
<1>7. WaitHolds'
  <2>1. \A p \in 1 .. Len(req) : req[p].at = "wait" => req[p].conn \in Conns
    BY <1>2, ReqsShape DEF PathTyped, IsReq
  <2> QED
    BY <1>1, <2>1, WaitHoldsKept DEF Held
<1> QED
  BY <1>4, <1>6, <1>7 DEF Held

LEMMA HeldRedialFails ==
  ASSUME PathTyped, PathTyped', Held, NEW p \in DOMAIN req, redialFails(p)
  PROVE  Held'
<1> DEFINE r == Ended(p, FALSE, NoValue, req[p].lost)
<1>1. req' = [req EXCEPT ![p] = r] /\ UNCHANGED <<conn, serving>> /\ r.at # "wait"
  BY DEF redialFails, To, rpcVars, Ended
<1>2. Conns' = Conns /\ Gate' = Gate
  BY <1>1 DEF Conns, Gate
<1>3. Len(req') = Len(req) /\ \A q \in 1 .. Len(req) : req'[q].at = "wait" => req'[q] = req[q]
  <2>1. DOMAIN req' = 1 .. Len(req') /\ Len(req') \in Nat /\ DOMAIN req = 1 .. Len(req) /\ Len(req) \in Nat
    BY QueueShape DEF PathTyped, ReqTyped
  <2> HIDE DEF r
  <2>2. DOMAIN req' = DOMAIN req /\ req'[p] = r /\ \A q \in DOMAIN req : q # p => req'[q] = req[q]
    BY <1>1
  <2> QED
    BY <1>1, <2>1, <2>2
<1> QED
  BY <1>1, <1>2, <1>3, HeldKept

LEMMA HeldRedial ==
  ASSUME PathTyped, PathTyped', Held, NEW p \in DOMAIN req, redial(p)
  PROVE  Held'
<1> DEFINE r == [at |-> "close", b |-> req[p].b, direct |-> FALSE, conn |-> Len(conn'), old |-> clis, try |-> 2,
                 lost |-> req[p].lost]
<1>1. req' = [req EXCEPT ![p] = r] /\ r.at # "wait"
  BY DEF redial, To
<1>2. /\ \A k \in Conns : k \in Conns' /\ conn'[k] = conn[k] /\ (k \in Gate' <=> k \in Gate) /\ serving'[k] = serving[k]
      /\ \A k \in Conns' : k \in Conns \/ k = Len(conn')
      /\ conn'[Len(conn')] = NewConn(OrderAddr) /\ serving'[Len(conn')] = NoFrame
  BY Dials DEF PathTyped, redial
<1>3. Len(req') = Len(req) /\ \A q \in 1 .. Len(req) : req'[q].at = "wait" => req'[q] = req[q]
  <2>1. DOMAIN req' = 1 .. Len(req') /\ Len(req') \in Nat /\ DOMAIN req = 1 .. Len(req) /\ Len(req) \in Nat
    BY QueueShape DEF PathTyped, ReqTyped
  <2> HIDE DEF r
  <2>2. DOMAIN req' = DOMAIN req /\ req'[p] = r /\ \A q \in DOMAIN req : q # p => req'[q] = req[q]
    BY <1>1
  <2> QED
    BY <1>1, <2>1, <2>2
<1>4. NewConn(OrderAddr).out = <<>> /\ NewConn(OrderAddr).in = <<>>
  BY DEF NewConn
<1>5. \A h \in Conns' : h \notin Conns => conn'[h].out = <<>> /\ conn'[h].in = <<>> /\ serving'[h] = NoFrame
  BY <1>2, <1>4
<1>6. Gate \subseteq Conns
  BY GateIsConns
<1> QED
  BY <1>2, <1>3, <1>5, <1>6, HeldKept

LEMMA HeldCloseOld ==
  ASSUME PathTyped, PathTyped', Held, NEW p \in DOMAIN req, closeOld(p)
  PROVE  Held'
<1> DEFINE k == req[p].old
           r == IF req[p].b.method = "bad" THEN Ended(p, FALSE, NoValue, FALSE) ELSE [req[p] EXCEPT !.at = "call"]
           ks == {k}
<1>1. IsReq(req[p], Gate) /\ req[p].at = "close"
  BY ReqsShape DEF PathTyped, closeOld, Goes
<1>2. k \in Gate /\ conn' = Closed(conn, ks) /\ serving' = serving /\ req' = [req EXCEPT ![p] = r]
  BY <1>1 DEF IsReq, closeOld, To
<1>3. r.at # "wait"
  <2>1. Ended(p, FALSE, NoValue, FALSE).at # "wait"
    BY DEF Ended
  <2>2. [req[p] EXCEPT !.at = "call"].at = "call"
    BY <1>1 DEF IsReq
  <2> QED
    BY <2>1, <2>2
<1>4. /\ Conns' = Conns /\ Gate' = Gate
      /\ \A h \in Conns : conn'[h].holder = conn[h].holder
      /\ \A h \in Conns : h \notin ks => conn'[h] = conn[h]
  <2> HIDE DEF ks
  <2> QED
    BY <1>2, Closes DEF PathTyped
<1>5. \A h \in Conns \ Gate : ~conn'[h].closed => ~conn[h].closed /\ conn'[h].in = conn[h].in /\ conn'[h].out = conn[h].out
  <2>1. \A h \in Conns \ Gate : h \notin ks
    BY <1>2
  <2> HIDE DEF ks
  <2> QED
    BY <1>4, <2>1
<1>6. Len(req') = Len(req) /\ \A q \in 1 .. Len(req) : req'[q].at = "wait" => req'[q] = req[q]
  <2>1. DOMAIN req' = 1 .. Len(req') /\ Len(req') \in Nat /\ DOMAIN req = 1 .. Len(req) /\ Len(req) \in Nat
    BY QueueShape DEF PathTyped, ReqTyped
  <2> HIDE DEF r
  <2>2. DOMAIN req' = DOMAIN req /\ req'[p] = r /\ \A q \in DOMAIN req : q # p => req'[q] = req[q]
    BY <1>2
  <2> QED
    BY <1>2, <1>3, <2>1, <2>2
<1>7. \A k1 \in Gate : serving'[k1] = serving[k1]
  BY <1>2
<1> QED
  BY <1>4, <1>5, <1>6, <1>7, HeldKept

\* What only moves Consul, the list or the watch loop.
LEMMA HeldIdle ==
  ASSUME Held, UNCHANGED <<conn, serving, req>>
  PROVE  Held'
BY DEF Held, OneAtATime, OneCall, CallHolds, WaitHolds, Conns, Gate

LEMMA HeldUserDies ==
  ASSUME PathTyped, PathTyped', Held, UNCHANGED gwVars, NEW a \in UserAddrs, UserDies(a)
  PROVE  Held'
<1> DEFINE none == {}
<1>1. ConnTyped /\ ServingTyped /\ Die(a, none) /\ req' = req
  BY DEF PathTyped, UserDies, gwVars
<1>2. /\ Conns' = Conns /\ Gate' = Gate
      /\ Ends(a) /\ EndsNot(a, none)
  <2> HIDE DEF none
  <2> QED
    BY <1>1, Dies
<1>3. \A h \in Conns : conn'[h].holder = conn[h].holder
  BY <1>2 DEF Ends, EndsNot
<1>4. \A h \in Conns \ Gate : ~conn'[h].closed =>
         ~conn[h].closed /\ conn'[h].in = conn[h].in /\ conn'[h].out \in {conn[h].out, <<>>}
  BY <1>2 DEF Ends, EndsNot
<1>5. \A k \in Gate : serving'[k] = serving[k]
  BY <1>2, OrderAssumption DEF EndsNot, Gate
<1> QED
  BY <1>1, <1>2, <1>3, <1>4, <1>5, HeldKept

LEMMA HeldApplyAddrs ==
  ASSUME PathTyped, PathTyped', Held, UNCHANGED gwVars, applyAddrs
  PROVE  Held'
<1>1. /\ \A k \in Conns : /\ k \in Conns' /\ conn'[k] = conn[k] /\ (k \in Gate' <=> k \in Gate)
                          /\ serving'[k] = serving[k]
      /\ \A k \in Conns' : k \notin Conns => k \notin Gate' /\ conn'[k].out = <<>> /\ conn'[k].in = <<>>
  BY AddsPeers
<1>2. \A k \in Conns' : k \notin Conns => serving'[k] = NoFrame
  BY <1>1 DEF PathTyped, ServingTyped
<1>3. req' = req /\ Gate \subseteq Conns
  BY GateIsConns DEF gwVars
<1> QED
  BY <1>1, <1>2, <1>3, HeldKept

LEMMA HeldDropPeers ==
  ASSUME PathTyped, PathTyped', Held, UNCHANGED gwVars, DropPeers
  PROVE  Held'
<1> DEFINE ks == {watch.old[a] : a \in DOMAIN watch.old \ watch.addrs}
<1>1. conn' = Closed(conn, ks) /\ serving' = serving /\ req' = req
  BY DEF DropPeers, gwVars
<1>2. /\ Conns' = Conns /\ Gate' = Gate
      /\ \A h \in Conns : conn'[h].holder = conn[h].holder
      /\ \A h \in Conns : h \in ks => conn'[h].closed
      /\ \A h \in Conns : h \notin ks => conn'[h] = conn[h]
  <2> HIDE DEF ks
  <2> QED
    BY <1>1, Closes DEF PathTyped
<1> HIDE DEF ks
<1>3. \A h \in Conns \ Gate : ~conn'[h].closed =>
         ~conn[h].closed /\ conn'[h].in = conn[h].in /\ conn'[h].out \in {conn[h].out, <<>>}
  BY <1>2
<1> QED
  BY <1>1, <1>2, <1>3, HeldKept

\* All connections of the service that dies are closed, and nothing is under way in it.
LEMMA HeldOrderDies ==
  ASSUME PathTyped, PathTyped', Held, UNCHANGED gwVars, OrderDies
  PROVE  Held'
<1> DEFINE mine == {k \in DOMAIN conn : AddrOf(k) \in UserAddrs}
<1>1. ConnTyped /\ ServingTyped /\ Die(OrderAddr, mine) /\ req' = req
  BY DEF PathTyped, OrderDies, gwVars
<1>2. \A k \in Conns \ Gate : k \in mine /\ conn[k].addr # OrderAddr
  BY <1>1, ConnsShape DEF IsConn, AddrOf, Gate
<1>3. Conns' = Conns /\ Gate' = Gate /\ Ends(OrderAddr) /\ EndsMine(OrderAddr, mine)
  <2> HIDE DEF mine
  <2> QED
    BY <1>1, Dies
<1> HIDE DEF mine
<1>4. OneAtATime'
  BY <1>2, <1>3 DEF OneAtATime, EndsMine
<1>5. CallHolds'
  BY <1>3 DEF CallHolds, Ends, Gate, NoFrame
<1>6. WaitHolds'
  <2>1. \A h \in Gate : conn'[h].holder = conn[h].holder
    BY <1>3 DEF Ends, Gate
  <2>2. \A p \in 1 .. Len(req) : req[p].at = "wait" => req[p].conn \in Gate
    BY ReqsShape DEF PathTyped, IsReq
  <2> QED
    BY <1>1, <2>1, <2>2 DEF Held, WaitHolds
<1> QED
  BY <1>4, <1>5, <1>6 DEF Held

LEMMA HeldCreateOrder ==
  ASSUME PathTyped, PathTyped', Held, UNCHANGED gwVars, NEW k \in DOMAIN conn, CreateOrder(k)
  PROVE  Held'
<1> DEFINE m == Head(conn[k].out)
           value == [req |-> m.arg.req, id |-> nextID]
<1>1. k \in Conns /\ k \in Gate /\ serving' = serving /\ req' = req
  BY ConnsShape DEF PathTyped, CreateOrder, CanServe, Gate, gwVars
<1>2. conn[k].out # <<>> /\ conn' = Answered(Taken(k), k, "reply", m.seq, value)
  BY DEF CreateOrder, CanServe
<1>3. /\ Conns' = Conns /\ Gate' = Gate
      /\ conn'[k].holder = conn[k].holder /\ \A h \in Conns : h # k => conn'[h] = conn[h]
  <2> HIDE DEF m, value
  <2> QED
    BY <1>1, <1>2, Serves DEF PathTyped
<1>4. \A h \in Conns \ Gate : conn'[h] = conn[h]
  BY <1>1, <1>3
<1> QED
  BY <1>1, <1>3, <1>4, HeldKept

\* Handlers go on, and no frame under way belongs to one that does.
LEMMA OneAtATimeServing ==
  ASSUME PathTyped, PathTyped', OneAtATime, Conns' = Conns, Gate' = Gate, NEW k \in Gate,
         \A h \in Conns : h # k => serving'[h] = serving[h],
         NEW S, \A h \in Conns \ Gate : h \notin S => conn'[h] = conn[h] /\ (~conn[h].closed /\ Busy(conn[h]) # 0 => conn[h].holder # k),
         \A h \in Conns \ Gate : h \in S /\ ~conn'[h].closed => OneCall(h)'
  PROVE  OneAtATime'
<1>1. ASSUME NEW h \in Conns \ Gate, h \notin S, ~conn'[h].closed PROVE OneCall(h)'
  <2>1. OneCall(h) /\ conn'[h] = conn[h] /\ IsConn(conn[h])
    BY <1>1, ConnsShape DEF PathTyped, OneAtATime
  <2>2. CASE Busy(conn[h]) = 0
    <3>1. Items(conn'[h].out) = {} /\ Items(conn'[h].in) = {} /\ Busy(conn'[h]) = 0
      BY <2>1, <2>2, BusyNat
    <3> QED
      BY <3>1 DEF OneCall
  <2>3. CASE Busy(conn[h]) # 0
    <3>1. conn[h].holder \in Gate /\ conn[h].holder # k
      BY <1>1, <2>1, <2>3 DEF OneCall
    <3>2. serving'[conn[h].holder] = serving[conn[h].holder]
      BY <3>1, GateIsConns
    <3> QED
      BY <2>1, <3>1, <3>2 DEF OneCall
  <2> QED
    BY <2>2, <2>3
<1> QED
  BY <1>1 DEF OneAtATime

\* An answer takes the place of the call it is for.
LEMMA HeldGetUser ==
  ASSUME PathTyped, PathTyped', Held, UNCHANGED gwVars, NEW k \in DOMAIN conn, GetUser(k)
  PROVE  Held'
<1> DEFINE c == conn[k]
           d == conn'[k]
           m == Head(c.out)
           typ == IF m.arg.user \in KnownUsers THEN "reply" ELSE "exception"
           value == [req |-> m.arg.req, user |-> m.arg.user]
           reply == Reply(typ, m.seq, value)
<1>1. /\ k \in Conns /\ k \notin Gate /\ serving' = serving /\ req' = req /\ ConnTyped /\ IsConn(c)
      /\ c.out # <<>> /\ conn' = Answered(Taken(k), k, typ, m.seq, value)
  BY ConnsShape, OrderAssumption DEF PathTyped, GetUser, CanServe, Gate, gwVars, AddrOf
<1>2. /\ Conns' = Conns /\ Gate' = Gate
      /\ \A h \in Conns : h # k => conn'[h] = conn[h]
      /\ d.holder = c.holder /\ d.closed = c.closed /\ d.out = Tail(c.out)
      /\ d.in = IF c.closed THEN c.in ELSE Append(c.in, reply)
  <2> HIDE DEF m, typ, value
  <2> QED
    BY <1>1, Serves
<1>3. reply.value.req = m.arg.req
  BY DEF Reply
<1>0. c.closed \in BOOLEAN
  BY <1>1 DEF IsConn
<1> HIDE DEF m, typ, value, reply
<1>4. ASSUME ~d.closed PROVE OneCall(k)'
  <2>1. OneCall(k) /\ ~c.closed
    <3>1. ~c.closed
      <4> HIDE DEF c, d
      <4> QED
        BY <1>0, <1>2, <1>4
    <3> QED
      BY <1>1, <3>1 DEF Held, OneAtATime
  <2>2. /\ Len(c.out) \in Nat /\ Len(c.out) # 0 /\ Len(d.out) = Len(c.out) - 1 /\ Items(d.out) \subseteq Items(c.out)
        /\ m \in Items(c.out)
    <3>1. Queue(c.out) /\ c.out # <<>> /\ d.out = Tail(c.out)
      BY <1>1, <1>2 DEF IsConn
    <3> HIDE DEF c, d
    <3> QED
      BY <3>1, QueueTail DEF m
  <2>3. Len(d.in) = Len(c.in) + 1 /\ Items(d.in) = Items(c.in) \cup {reply} /\ Len(c.in) \in Nat
    <3>1. Queue(c.in)
      BY <1>1 DEF IsConn
    <3>2. d.in = Append(c.in, reply)
      <4> HIDE DEF c, d
      <4> QED
        BY <1>2, <2>1
    <3> HIDE DEF c, d
    <3> QED
      BY <3>1, <3>2, QueueAppend
  <2>4. Busy(c) <= 1 /\ Busy(c) # 0 /\ Busy(d) = 1
    <3>1. Busy(c) <= 1
      BY <2>1 DEF OneCall
    <3> DEFINE x == Len(c.in)
               y == Len(c.out)
    <3>2. Busy(c) = x + y /\ Busy(d) = (x + 1) + (y - 1) /\ x \in Nat /\ y \in Nat /\ y # 0
      BY <2>2, <2>3 DEF Busy
    <3> HIDE DEF x, y, c, d
    <3> QED
      BY <3>1, <3>2
  <2>5. \A i \in Items(d.in) : i \in Items(c.in) \/ i = reply
    BY <2>3
  <2> QED
    BY <1>1, <1>2, <1>3, <2>1, <2>2, <2>4, <2>5 DEF OneCall
<1>5. OneAtATime'
  <2>1. ASSUME NEW h \in Conns \ Gate, h # k, ~conn'[h].closed PROVE OneCall(h)'
    <3>1. OneCall(h) /\ conn'[h] = conn[h]
      BY <1>2, <2>1 DEF Held, OneAtATime
    <3> QED
      BY <1>1, <1>2, <3>1 DEF OneCall
  <2> QED
    BY <1>2, <1>4, <2>1 DEF OneAtATime
<1>6. CallHolds'
  <2>1. \A h \in Gate' : h \in Gate /\ serving'[h] = serving[h]
    BY <1>1, <1>2
  <2>2. \A h \in Conns \ Gate : conn'[h].holder = conn[h].holder
    BY <1>2
  <2> QED
    BY <2>1, <2>2, CallHoldsKept DEF Held, PathTyped
<1>7. WaitHolds'
  <2>1. \A p \in 1 .. Len(req) : req[p].at = "wait" => req[p].conn \in Conns
    BY GateIsConns, ReqsShape DEF PathTyped, IsReq
  <2> QED
    BY <1>1, <1>2, <2>1 DEF Held, WaitHolds
<1> QED
  BY <1>5, <1>6, <1>7 DEF Held

\* What a handler is about to do is nobody's call yet.
LEMMA HeldGetOrder ==
  ASSUME PathTyped, PathTyped', Held, UNCHANGED gwVars, NEW k \in DOMAIN conn, GetOrder(k)
  PROVE  Held'
<1> DEFINE m == Head(conn[k].out)
           s == [typ |-> "user", m |-> m, peer |-> pickUser, user |-> orders[m.arg.id], called |-> FALSE]
<1>1. k \in Conns /\ k \in Gate /\ req' = req /\ conn[k].out # <<>> /\ serving[k] = NoFrame
  BY ConnsShape DEF PathTyped, GetOrder, CanServe, Gate, gwVars
<1>2. CASE m.arg.id \notin DOMAIN orders \/ users = <<>>
  <2> DEFINE value == [req |-> m.arg.req]
  <2>1. conn' = Answered(Taken(k), k, "exception", m.seq, value) /\ serving' = serving
    BY <1>2 DEF GetOrder
  <2>2. /\ Conns' = Conns /\ Gate' = Gate
        /\ conn'[k].holder = conn[k].holder /\ \A h \in Conns : h # k => conn'[h] = conn[h]
    <3> HIDE DEF m, value
    <3> QED
      BY <1>1, <2>1, Serves DEF PathTyped
  <2>3. \A h \in Conns \ Gate : conn'[h] = conn[h]
    BY <1>1, <2>2
  <2> QED
    BY <1>1, <2>1, <2>2, <2>3, HeldKept
<1>3. CASE ~(m.arg.id \notin DOMAIN orders \/ users = <<>>)
  <2>1. conn' = Taken(k) /\ serving' = [serving EXCEPT ![k] = s]
    BY <1>3 DEF GetOrder
  <2>2. /\ Conns' = Conns /\ Gate' = Gate
        /\ conn'[k].holder = conn[k].holder /\ \A h \in Conns : h # k => conn'[h] = conn[h]
    BY <1>1, <2>1, Takes DEF PathTyped
  <2>3. \A h \in Conns \ Gate : conn'[h] = conn[h]
    BY <1>1, <2>2
  <2>4. serving'[k].called = FALSE /\ \A h \in Conns : h # k => serving'[h] = serving[h]
    <3>1. s.called = FALSE
      OBVIOUS
    <3> HIDE DEF s
    <3> QED
      BY <1>1, <2>1, <3>1, ServingShape DEF PathTyped
  <2>5. \A h \in Conns \ Gate : ~conn[h].closed /\ Busy(conn[h]) # 0 => conn[h].holder # k
    BY <1>1 DEF Held, OneAtATime, OneCall, NoFrame
  <2>6. OneAtATime'
    <3> DEFINE S == {}
    <3>1. \A h \in Conns \ Gate : h \notin S
      OBVIOUS
    <3> HIDE DEF S
    <3> QED
      BY <1>1, <2>2, <2>3, <2>4, <2>5, <3>1, OneAtATimeServing DEF Held
  <2>7. ASSUME NEW g \in Gate, serving'[g].typ = "user", serving'[g].called PROVE conn'[serving'[g].peer].holder = g
    <3>1. g # k /\ serving'[g] = serving[g] /\ g \in Conns
      BY <2>4, <2>7, GateIsConns
    <3>2. serving[g].peer \in Conns \ Gate /\ conn[serving[g].peer].holder = g
      BY <2>7, <3>1 DEF Held, CallHolds, PathTyped, ServingTyped, NoFrame
    <3> QED
      BY <2>3, <3>1, <3>2
  <2>8. WaitHolds'
    <3>1. \A p \in 1 .. Len(req) : req[p].at = "wait" => req[p].conn \in Conns
      BY GateIsConns, ReqsShape DEF PathTyped, IsReq
    <3> QED
      BY <1>1, <2>2, <3>1 DEF Held, WaitHolds
  <2> QED
    BY <2>2, <2>6, <2>7, <2>8 DEF Held, CallHolds
<1> QED
  BY <1>2, <1>3

\* A handler that calls finds the connection empty, and holds it from then on.
LEMMA HeldCallUser ==
  ASSUME PathTyped, PathTyped', Held, UNCHANGED gwVars, NEW k \in DOMAIN conn, CallUser(k)
  PROVE  Held'
<1>h. PICK h : h = serving[k].peer
  OBVIOUS
<1> DEFINE s == serving[k]
           t == [s EXCEPT !.called = TRUE]
           c == conn[h]
           d == conn'[h]
           seq == (c.seq + 1) % SeqLimit
           arg == [req |-> s.m.arg.req, user |-> s.user]
           hdr == outgoingHdr(startSpan(k, s.m))
           f == Frame(seq, "GetUser", arg, hdr)
<1>1. /\ k \in Gate /\ k \in Conns /\ k \in Nat /\ h \in Conns /\ h \notin Gate /\ req' = req
      /\ s.typ = "user" /\ ~s.called /\ DOMAIN s = {"typ", "m", "peer", "user", "called"} /\ c.holder = Nobody
      /\ ConnTyped /\ IsConn(c)
  <2>1. k \in Conns /\ s # NoFrame
    BY ConnsShape DEF PathTyped, CallUser, NoFrame
  <2>2. k \in Gate /\ h \in Conns \ Gate /\ s.typ = "user" /\ DOMAIN s = {"typ", "m", "peer", "user", "called"}
    BY <1>h, <2>1 DEF PathTyped, ServingTyped
  <2> QED
    BY <1>h, <2>1, <2>2, ConnsShape DEF PathTyped, CallUser, CanCall, gwVars
<1>2. conn' = CallWrite(k, h, "GetUser", arg, hdr) /\ serving' = [serving EXCEPT ![k] = t]
  BY <1>h DEF CallUser
<1>3. t.typ = "user" /\ t.called = TRUE /\ t.peer = h /\ t.m = s.m
  BY <1>h, <1>1
<1>4. f.arg.req = s.m.arg.req
  BY DEF Frame
<1>5. /\ Conns' = Conns /\ Gate' = Gate
      /\ \A i \in Conns : i # h => conn'[i] = conn[i]
      /\ d.closed = c.closed /\ d.holder = k /\ d.in = c.in
      /\ d.out = IF c.closed \/ c.gone THEN c.out ELSE Append(c.out, f)
  <2> HIDE DEF s, arg, hdr
  <2> QED
    BY <1>1, <1>2, Writes
<1>6. serving'[k] = t /\ \A i \in Conns : i # k => serving'[i] = serving[i]
  <2> HIDE DEF t
  <2> QED
    BY <1>1, <1>2, ServingShape DEF PathTyped
<1>0. Nobody \notin Gate
  BY RpcAssumption, GateIsConns, ConnsShape DEF PathTyped
<1> HIDE DEF t, arg, hdr, f, seq
<1>7. ASSUME ~d.closed PROVE OneCall(h)'
  <2>1. ~c.closed
    <3>1. c.closed \in BOOLEAN
      BY <1>1 DEF IsConn
    <3> HIDE DEF c, d
    <3> QED
      BY <1>5, <1>7, <3>1
  <2>2. Busy(c) = 0
    BY <1>0, <1>1, <2>1 DEF Held, OneAtATime, OneCall
  <2>3. Len(c.in) = 0 /\ Len(c.out) = 0 /\ Items(c.out) = {} /\ Items(c.in) = {} /\ Queue(c.out)
    <3>1. IsConn(c) /\ Queue(c.out)
      BY <1>1 DEF IsConn
    <3>2. Items(c.out) = {} /\ Items(c.in) = {} /\ Len(c.in) \in Nat /\ Len(c.out) \in Nat
      BY <2>2, <3>1, BusyNat
    <3> DEFINE x == Len(c.in)
               y == Len(c.out)
    <3>3. x + y = 0 /\ x \in Nat /\ y \in Nat
      BY <2>2, <3>2 DEF Busy
    <3> HIDE DEF x, y
    <3>4. x = 0 /\ y = 0
      BY <3>3
    <3> QED
      BY <3>1, <3>2, <3>4 DEF x, y
  <2>4. Busy(d) <= 1 /\ Items(d.in) = {} /\ Items(d.out) \subseteq {f}
    <3> HIDE DEF c, d
    <3>1. CASE d.out = c.out
      BY <1>5, <2>2, <2>3, <3>1 DEF Busy
    <3>2. CASE d.out = Append(c.out, f)
      <4>1. Len(d.out) = 1 /\ Items(d.out) = {f}
        BY <2>3, <3>2, QueueAppend
      <4> QED
        BY <1>5, <2>3, <4>1 DEF Busy
    <3> QED
      BY <1>5, <3>1, <3>2
  <2>5. Busy(conn'[h]) <= 1 /\ conn'[h].holder = k /\ Items(conn'[h].in) = {} /\ Items(conn'[h].out) \subseteq {f}
    BY <1>5, <2>4
  <2>6. serving'[k].typ = "user" /\ serving'[k].called /\ serving'[k].peer = h /\ serving'[k].m = s.m
    BY <1>3, <1>6
  <2> HIDE DEF s
  <2>7. \A m \in Items(conn'[h].out) : m.arg.req = serving'[k].m.arg.req
    BY <1>4, <2>5, <2>6
  <2> QED
    BY <1>1, <1>5, <2>5, <2>6, <2>7 DEF OneCall
<1>8. ASSUME NEW i \in Conns \ Gate, i # h PROVE conn'[i] = conn[i] /\ (~conn[i].closed /\ Busy(conn[i]) # 0 => conn[i].holder # k)
  BY <1>h, <1>1, <1>5, <1>8 DEF Held, OneAtATime, OneCall
<1>9. OneAtATime'
  <2> DEFINE S == {h}
  <2>1. \A i \in Conns \ Gate : (i \notin S <=> i # h)
    OBVIOUS
  <2>2. \A i \in Conns \ Gate : i \in S /\ ~conn'[i].closed => OneCall(i)'
    <3> HIDE DEF s
    <3>1. ASSUME NEW i \in Conns \ Gate, i = h, ~conn'[i].closed PROVE OneCall(i)'
      <4>1. OneCall(h)'
        BY <1>7, <3>1
      <4> QED
        BY <3>1, <4>1 DEF OneCall
    <3> QED
      BY <3>1
  <2> HIDE DEF S, s, c, d
  <2> QED
    BY <1>1, <1>5, <1>6, <1>8, <2>1, <2>2, OneAtATimeServing DEF Held
<1>10. ASSUME NEW g \in Gate, serving'[g].typ = "user", serving'[g].called PROVE conn'[serving'[g].peer].holder = g
  <2>1. CASE g = k
    BY <1>3, <1>5, <1>6, <2>1
  <2>2. CASE g # k
    <3>1. serving'[g] = serving[g] /\ g \in Conns /\ g # Nobody
      BY <1>0, <1>6, <2>2, GateIsConns
    <3>2. serving[g].peer \in Conns \ Gate /\ conn[serving[g].peer].holder = g
      BY <1>10, <3>1 DEF Held, CallHolds, PathTyped, ServingTyped, NoFrame
    <3> QED
      BY <1>1, <1>5, <3>1, <3>2
  <2> QED
    BY <2>1, <2>2
<1>11. WaitHolds'
  <2>1. \A p \in 1 .. Len(req) : req[p].at = "wait" => req[p].conn \in Conns /\ req[p].conn \in Gate
    BY GateIsConns, ReqsShape DEF PathTyped, IsReq
  <2> QED
    BY <1>1, <1>5, <2>1 DEF Held, WaitHolds
<1> QED
  BY <1>5, <1>9, <1>10, <1>11 DEF Held, CallHolds

\* The call that a handler made is over: nothing is left in the connection.
LEMMA HeldUserAnswers ==
  ASSUME PathTyped, PathTyped', Held, UNCHANGED gwVars, NEW k \in DOMAIN conn, UserAnswers(k)
  PROVE  Held'
<1>h. PICK h : h = serving[k].peer
  OBVIOUS
<1> DEFINE s == serving[k]
           c == conn[h]
           d == conn'[h]
           r == CallRead(h)
           typ == IF r.ok THEN "reply" ELSE "exception"
           value == IF r.ok THEN r.value ELSE [req |-> s.m.arg.req]
<1>1. /\ k \in Gate /\ k \in Conns /\ k \in Nat /\ h \in Conns /\ h \notin Gate /\ req' = req
      /\ s.typ = "user" /\ s.called /\ c.holder = k
      /\ ConnTyped /\ IsConn(c) /\ (c.closed \/ c.in # <<>> \/ c.gone)
  <2>1. k \in Conns /\ s # NoFrame /\ s.called /\ s.typ = "user" /\ (c.closed \/ c.in # <<>> \/ c.gone)
    BY <1>h, ConnsShape DEF PathTyped, UserAnswers, NoFrame, CanRead
  <2>2. k \in Gate /\ h \in Conns \ Gate
    BY <1>h, <2>1 DEF PathTyped, ServingTyped
  <2>3. c.holder = k
    BY <1>h, <2>1, <2>2 DEF Held, CallHolds
  <2> QED
    BY <2>1, <2>2, <2>3, ConnsShape DEF PathTyped, gwVars
<1>2. conn' = Answered(AfterRead(h), k, typ, s.m.seq, value) /\ serving' = [serving EXCEPT ![k] = NoFrame]
  BY <1>h DEF UserAnswers
<1>3. /\ Conns' = Conns /\ Gate' = Gate
      /\ \A i \in Conns : i # k /\ i # h => conn'[i] = conn[i]
      /\ conn'[k].holder = conn[k].holder
      /\ d.closed = c.closed /\ d.holder = Nobody /\ d.out = c.out
      /\ d.in = IF c.closed \/ c.in = <<>> THEN c.in ELSE Tail(c.in)
  <2> HIDE DEF s, typ, value
  <2>1. h # k
    BY <1>1
  <2> QED
    BY <1>1, <1>2, <2>1, Relays
<1>4. serving'[k] = NoFrame /\ \A i \in Conns : i # k => serving'[i] = serving[i]
  BY <1>1, <1>2, ServingShape DEF PathTyped
<1> HIDE DEF typ, value, r
<1>5. ASSUME ~d.closed PROVE Busy(d) = 0 /\ Items(d.out) = {} /\ Items(d.in) = {}
  <2>1. ~c.closed
    <3>1. c.closed \in BOOLEAN
      BY <1>1 DEF IsConn
    <3> HIDE DEF c, d
    <3> QED
      BY <1>3, <1>5, <3>1
  <2>2. Busy(c) <= 1
    BY <1>1, <2>1 DEF Held, OneAtATime, OneCall
  <2>3. IsConn(d)
    BY <1>1, <1>3, ConnsShape DEF PathTyped, ConnTyped
  <2>4. Queue(c.in) /\ Len(c.in) \in Nat /\ Len(c.out) \in Nat
    BY <1>1, BusyNat DEF IsConn
  <2>5. Busy(d) = 0
    <3>0. (c.in = <<>> => c.out = <<>>) /\ d.out = c.out /\ d.in = IF c.in = <<>> THEN c.in ELSE Tail(c.in)
      <4>1. c.gone => c.out = <<>>
        BY <1>1 DEF IsConn
      <4> HIDE DEF c, d
      <4> QED
        BY <1>1, <1>3, <2>1, <4>1
    <3> HIDE DEF c, d
    <3>1. CASE c.in = <<>>
      BY <2>3, <3>0, <3>1, BusyNat
    <3>2. CASE c.in # <<>>
      <4>1. Len(d.in) = Len(c.in) - 1 /\ Len(c.in) # 0
        BY <2>4, <3>0, <3>2, QueueTail
      <4> DEFINE x == Len(c.in)
                 y == Len(c.out)
      <4>2. x + y <= 1 /\ Busy(d) = (x - 1) + y /\ x # 0 /\ x \in Nat /\ y \in Nat
        BY <2>2, <2>4, <3>0, <4>1 DEF Busy
      <4> HIDE DEF x, y
      <4> QED
        BY <4>2
    <3> QED
      BY <3>1, <3>2
  <2> HIDE DEF c, d
  <2> QED
    BY <2>3, <2>5, BusyNat
<1>6. ASSUME NEW i \in Conns \ Gate, i # h PROVE conn'[i] = conn[i] /\ (~conn[i].closed /\ Busy(conn[i]) # 0 => conn[i].holder # k)
  BY <1>h, <1>1, <1>3, <1>6 DEF Held, OneAtATime, OneCall
<1>7. OneAtATime'
  <2> DEFINE S == {h}
  <2>1. \A i \in Conns \ Gate : (i \notin S <=> i # h)
    OBVIOUS
  <2>2. \A i \in Conns \ Gate : i \in S /\ ~conn'[i].closed => OneCall(i)'
    BY <1>5 DEF OneCall
  <2>3. k \in Gate /\ Conns' = Conns /\ Gate' = Gate
    BY <1>1, <1>3
  <2>4. \A i \in Conns \ Gate : i \notin S => conn'[i] = conn[i] /\ (~conn[i].closed /\ Busy(conn[i]) # 0 => conn[i].holder # k)
    BY <1>6
  <2>5. \A i \in Conns : i # k => serving'[i] = serving[i]
    BY <1>4
  <2> HIDE DEF S, s, c, d
  <2> QED
    BY <2>2, <2>3, <2>4, <2>5, OneAtATimeServing DEF Held
<1>8. ASSUME NEW g \in Gate, serving'[g].typ = "user", serving'[g].called PROVE conn'[serving'[g].peer].holder = g
  <2>1. g # k
    BY <1>4, <1>8 DEF NoFrame
  <2>2. serving'[g] = serving[g] /\ g \in Conns
    BY <1>4, <2>1, GateIsConns
  <2>3. serving[g].peer \in Conns \ Gate /\ conn[serving[g].peer].holder = g
    BY <1>8, <2>2 DEF Held, CallHolds, PathTyped, ServingTyped, NoFrame
  <2> QED
    BY <1>1, <1>3, <2>1, <2>2, <2>3
<1>9. WaitHolds'
  <2>1. \A p \in 1 .. Len(req) : req[p].at = "wait" => req[p].conn \in Conns /\ req[p].conn \in Gate
    BY GateIsConns, ReqsShape DEF PathTyped, IsReq
  <2>2. \A i \in Gate : conn'[i].holder = conn[i].holder
    BY <1>1, <1>3, GateIsConns
  <2> QED
    BY <1>1, <2>1, <2>2 DEF Held, WaitHolds
<1> QED
  BY <1>3, <1>7, <1>8, <1>9 DEF Held, CallHolds

-----------------------------------------------------------------------------
(* The ledger. *)

\* More calls, more requests: what was in the ledger is still there.
Grows(who, w2) ==
    /\ \A k \in Conns : k \in Conns' /\ (k \in Gate' <=> k \in Gate)
    /\ \A k \in Gate : conn[k].seq <= conn'[k].seq /\ \A n \in 1 .. conn[k].seq : w2[k][n] = who[k][n]
    /\ Len(req) <= Len(req')
    /\ \A p \in 1 .. Len(req) : req'[p].b.method = req[p].b.method

LEMMA GateSeq ==
  ASSUME ConnTyped
  PROVE  \A k \in Gate : k \in Conns /\ k \in Nat /\ conn[k].seq \in Nat
BY ConnsShape DEF IsConn

LEMMA GrowsAt ==
  ASSUME ConnTyped, ConnTyped', ReqTyped, NEW who, NEW turn, NEW w2, Used(who, turn), Grows(who, w2),
         NEW k \in Gate, NEW n \in 1 .. conn[k].seq
  PROVE  /\ k \in Gate' /\ n \in 1 .. conn'[k].seq /\ w2[k][n] = who[k][n] /\ who[k][n] \in 1 .. Len(req)
         /\ req'[w2[k][n]].b.method = req[who[k][n]].b.method
<1>1. k \in Conns /\ k \in Gate' /\ conn[k].seq \in Nat /\ conn'[k].seq \in Nat /\ conn[k].seq <= conn'[k].seq
  <2>1. k \in Gate'
    BY GateSeq DEF Grows
  <2>2. conn'[k].seq \in Nat
    BY <2>1 DEF ConnTyped, IsConn, Gate
  <2> QED
    BY <2>1, <2>2, GateSeq DEF Grows
<1>2. n \in 1 .. conn'[k].seq
  BY <1>1
<1>3. w2[k][n] = who[k][n] /\ who[k][n] \in 1 .. Len(req)
  BY DEF Grows, Used
<1> QED
  BY <1>1, <1>2, <1>3 DEF Grows

LEMMA OfCallKept ==
  ASSUME ConnTyped, ConnTyped', ReqTyped, NEW who, NEW turn, NEW w2, Used(who, turn), Grows(who, w2),
         NEW k \in Gate, NEW m, OfCall(who, k, m)
  PROVE  OfCall(w2, k, m)'
<1>1. m.seq \in 1 .. conn[k].seq
  BY DEF OfCall
<1> QED
  BY <1>1, GrowsAt DEF OfCall

LEMMA BelowKept ==
  ASSUME ConnTyped, ConnTyped', ReqTyped, NEW who, NEW turn, NEW w2, Used(who, turn), Grows(who, w2),
         NEW hdr, NEW q, Below(who, hdr, q)
  PROVE  Below(w2, hdr, q)'
<1>1. PICK k \in Gate : \E n \in 1 .. conn[k].seq : hdr = [trace |-> <<k, n>>, span |-> <<k, n>>] /\ q = who[k][n]
  BY DEF Below
<1>2. PICK n \in 1 .. conn[k].seq : hdr = [trace |-> <<k, n>>, span |-> <<k, n>>] /\ q = who[k][n]
  BY <1>1
<1>3. k \in Gate' /\ n \in 1 .. conn'[k].seq /\ w2[k][n] = who[k][n]
  BY GrowsAt
<1> QED
  BY <1>2, <1>3 DEF Below

LEMMA MadeKept ==
  ASSUME ConnTyped, ConnTyped', ReqTyped, NEW who, NEW turn, NEW w2, Used(who, turn), Grows(who, w2),
         NEW e, MadeBy(who, e)
  PROVE  MadeBy(w2, e)'
<1> DEFINE h == e[2]
           n == e[3]
<1>1. h \in Gate /\ n \in 1 .. conn[h].seq
  BY DEF MadeBy
<1>2. /\ h \in Gate' /\ n \in 1 .. conn'[h].seq /\ w2[h][n] = who[h][n]
      /\ req'[w2[h][n]].b.method = req[who[h][n]].b.method
  <2> HIDE DEF h, n
  <2> QED
    BY <1>1, GrowsAt
<1> QED
  BY <1>2 DEF MadeBy

LEMMA SpanKept ==
  ASSUME ConnTyped, ConnTyped', ReqTyped, NEW who, NEW turn, NEW w2, Used(who, turn), Grows(who, w2),
         NEW s, SpanOwn(who, s)
  PROVE  SpanOwn(w2, s)'
<1> DEFINE h == s.span.span[1]
           n == s.span.span[2]
           hdr == [trace |-> s.span.trace, span |-> s.span.parent]
<1>1. s.span.span = <<h, n>> /\ h \in Conns /\ h \in Conns' /\ (h \in Gate' <=> h \in Gate)
  BY DEF SpanOwn, Grows
<1>2. CASE s.method = "GetUser"
  <2>1. h \notin Gate /\ Below(who, hdr, s.req)
    BY <1>2 DEF SpanOwn
  <2> HIDE DEF hdr
  <2>2. Below(w2, hdr, s.req)'
    BY <2>1, BelowKept
  <2> QED
    BY <1>1, <1>2, <2>1, <2>2 DEF SpanOwn, hdr
<1>3. CASE s.method # "GetUser"
  <2>1. h \in Gate /\ n \in 1 .. conn[h].seq /\ s.span.trace = <<h, n>> /\ s.req = who[h][n]
    BY <1>3 DEF SpanOwn
  <2>2. h \in Gate' /\ n \in 1 .. conn'[h].seq /\ w2[h][n] = who[h][n]
    <3> HIDE DEF h, n
    <3> QED
      BY <2>1, GrowsAt
  <2> QED
    BY <1>1, <1>3, <2>1, <2>2 DEF SpanOwn
<1> QED
  BY <1>2, <1>3

LEMMA FrameKept ==
  ASSUME ConnTyped, ConnTyped', ReqTyped, NEW who, NEW turn, NEW w2, Used(who, turn), Grows(who, w2), NEW k \in Gate, NEW m
  PROVE  /\ ReplyOwn(who, k, m) => ReplyOwn(w2, k, m)'
         /\ HandledOwn(who, k, m) => HandledOwn(w2, k, m)'
         /\ UserCall(who, m) => UserCall(w2, m)'
<1>1. ReplyOwn(who, k, m) => ReplyOwn(w2, k, m)'
  BY GrowsAt DEF ReplyOwn
<1>2. HandledOwn(who, k, m) => HandledOwn(w2, k, m)'
  BY OfCallKept DEF HandledOwn
<1>3. UserCall(who, m) => UserCall(w2, m)'
  BY BelowKept DEF UserCall
<1> QED
  BY <1>1, <1>2, <1>3

\* A step leaves the frames that it finds in the ledger; those it writes must be in it too.
LEMMA FramesKept ==
  ASSUME ConnTyped, ConnTyped', ReqTyped, NEW who, NEW turn, NEW w2, Used(who, turn), Frames(who), Grows(who, w2),
         \A k \in Gate' : \A m \in Items(conn'[k].out) : (k \in Gate /\ m \in Items(conn[k].out)) \/ OfCall(w2, k, m)',
         \A k \in Gate' : \A m \in Items(conn'[k].in) : (k \in Gate /\ m \in Items(conn[k].in)) \/ ReplyOwn(w2, k, m)',
         \A k \in Gate' : (k \in Gate /\ serving'[k] = serving[k]) \/ HandledOwn(w2, k, serving[k])',
         \A h \in Conns' \ Gate' : \A m \in Items(conn'[h].out) : (h \in Conns \ Gate /\ m \in Items(conn[h].out)) \/ UserCall(w2, m)',
         \A e \in made' : e \in made \/ MadeBy(w2, e)',
         \A s \in spans' : s \in spans \/ SpanOwn(w2, s)'
  PROVE  Frames(w2)'
<1>1. ASSUME NEW k \in Gate', NEW m \in Items(conn'[k].out) PROVE OfCall(w2, k, m)'
  BY <1>1, OfCallKept DEF Frames, GateFrames
<1>2. ASSUME NEW k \in Gate', NEW m \in Items(conn'[k].in) PROVE ReplyOwn(w2, k, m)'
  BY <1>2, FrameKept DEF Frames, GateFrames
<1>3. ASSUME NEW k \in Gate' PROVE HandledOwn(w2, k, serving[k])'
  <2>1. PICK s : s = serving[k]
    OBVIOUS
  <2>2. CASE k \in Gate /\ serving'[k] = serving[k]
    <3>1. HandledOwn(who, k, s)
      BY <2>1, <2>2 DEF Frames, GateFrames
    <3>2. HandledOwn(w2, k, s)'
      BY <2>2, <3>1, FrameKept
    <3> QED
      BY <2>1, <2>2, <3>2 DEF HandledOwn
  <2> QED
    BY <2>2
<1>4. ASSUME NEW h \in Conns' \ Gate', NEW m \in Items(conn'[h].out) PROVE UserCall(w2, m)'
  <2>1. CASE h \in Conns \ Gate /\ m \in Items(conn[h].out)
    <3>1. UserCall(who, m)
      BY <2>1 DEF Frames, UserFrames
    <3> QED
      BY <3>1, BelowKept DEF UserCall
  <2> QED
    BY <1>4, <2>1
<1>5. ASSUME NEW e \in made' PROVE MadeBy(w2, e)'
  BY <1>5, MadeKept DEF Frames, MadeOwn
<1>6. ASSUME NEW s \in spans' PROVE SpanOwn(w2, s)'
  BY <1>6, SpanKept DEF Frames, SpansOwn
<1> QED
  BY <1>1, <1>2, <1>3, <1>4, <1>5, <1>6 DEF Frames, GateFrames, UserFrames, MadeOwn, SpansOwn

\* How a request goes on, other than by its call being sent, and how one begins.
GoesOn(r, v, gate) ==
    /\ v.b.method = r.b.method
    /\ \/ v.at = "done" /\ r.at # "done" /\ (r.lost /\ r.b.method = "CreateOrder" => v.lost)
       \/ r.at = "wait" /\ v.at = "failed" /\ r.try = 1 /\ v.try = 1 /\ (r.b.method = "CreateOrder" => v.lost)
       \/ r.at = "failed" /\ v.at = "close" /\ r.try = 1 /\ v.try = 2 /\ v.lost = r.lost /\ v.conn \notin gate
       \/ r.at = "close" /\ v.at = "call" /\ v.try = r.try /\ v.conn = r.conn /\ v.lost = r.lost

Begins(v, gate) ==
    /\ v.try = 1
    /\ \/ v.at = "failed" /\ v.b.method # "CreateOrder"
       \/ v.at = "call" /\ v.conn \in gate

Numbers(who, turn) == Used(who, turn) /\ Once(who, turn) /\ Waiting(who) /\ SecondTries

LEMMA NumbersKept ==
  ASSUME PathTyped, PathTyped', NEW who, NEW turn \in Ledgers({1, 2}), Numbers(who, turn),
         \A k \in Gate : k \in Gate' /\ conn'[k].seq = conn[k].seq,
         \A k \in Gate' : k \notin Gate => conn'[k].seq = 0,
         Len(req) <= Len(req'),
         \A q \in 1 .. Len(req) : req'[q] = req[q] \/ GoesOn(req[q], req'[q], Gate),
         \A q \in 1 .. Len(req') : q \in 1 .. Len(req) \/ Begins(req'[q], Gate)
  PROVE  Numbers(who, turn)'
<1>1. /\ Len(req) \in Nat /\ Len(req') \in Nat
      /\ \A q \in 1 .. Len(req) : IsReq(req[q], Gate)
      /\ \A q \in 1 .. Len(req') : IsReq(req'[q], Gate')
  BY QueueShape DEF PathTyped, ReqTyped
<1>2. \A k \in Gate' : k \in Gate \/ 1 .. conn'[k].seq = {}
  <2>1. 1 .. 0 = {}
    OBVIOUS
  <2> QED
    BY <2>1
<1>3. ASSUME NEW k \in Gate, NEW n \in 1 .. conn[k].seq
      PROVE  who[k][n] \in 1 .. Len(req) /\ turn[k][n] \in {1, 2}
  <2>1. k \in Nat /\ n \in Nat
    BY <1>3, GateSeq DEF PathTyped
  <2> QED
    BY <1>3, <2>1 DEF Numbers, Used, Ledgers
<1>4. ASSUME NEW k \in Gate, NEW n \in 1 .. conn[k].seq
      PROVE  /\ who[k][n] \in 1 .. Len(req')
             /\ LET r == req'[who[k][n]]
                IN  /\ r.at = "done" \/ turn[k][n] < r.try \/ (turn[k][n] = r.try /\ r.at \in {"wait", "failed"})
                    /\ turn[k][n] = 2 /\ r.b.method = "CreateOrder" => r.lost
  <2> DEFINE q == who[k][n]
             t == turn[k][n]
             r == req[q]
             v == req'[q]
  <2>1. q \in 1 .. Len(req) /\ q \in 1 .. Len(req') /\ t \in {1, 2}
    BY <1>1, <1>3
  <2>2. /\ r.at = "done" \/ t < r.try \/ (t = r.try /\ r.at \in {"wait", "failed"})
        /\ t = 2 /\ r.b.method = "CreateOrder" => r.lost
    BY <1>4 DEF Numbers, Used
  <2>3. IsReq(r, Gate) /\ (v = r \/ GoesOn(r, v, Gate))
    BY <1>1, <2>1
  <2> HIDE DEF q, t, r, v
  <2>4. CASE v = r
    BY <2>1, <2>2, <2>4 DEF q, t, r, v
  <2>5. CASE GoesOn(r, v, Gate)
    <3>1. /\ v.at = "done" \/ t < v.try \/ (t = v.try /\ v.at \in {"wait", "failed"})
          /\ t = 2 /\ v.b.method = "CreateOrder" => v.lost
      <4>1. CASE v.at = "done" /\ r.at # "done" /\ (r.lost /\ r.b.method = "CreateOrder" => v.lost)
        BY <2>2, <2>5, <4>1 DEF GoesOn
      <4>2. CASE r.at = "wait" /\ v.at = "failed" /\ r.try = 1 /\ v.try = 1
        BY <2>1, <2>2, <2>5, <4>2 DEF GoesOn
      <4>3. CASE r.at = "failed" /\ v.at = "close" /\ r.try = 1 /\ v.try = 2
        BY <2>1, <2>2, <4>3
      <4>4. CASE r.at = "close" /\ v.at = "call" /\ v.try = r.try /\ v.lost = r.lost
        BY <2>2, <2>5, <4>4 DEF GoesOn
      <4> QED
        BY <2>5, <4>1, <4>2, <4>3, <4>4 DEF GoesOn
    <3> QED
      BY <2>1, <3>1 DEF q, t, v
  <2> QED
    BY <2>3, <2>4, <2>5
<1>5. Used(who, turn)'
  BY <1>2, <1>4 DEF Used
<1>6. Once(who, turn)'
  BY <1>2 DEF Numbers, Once
<1>7. ASSUME NEW p \in 1 .. Len(req')
      PROVE  /\ req'[p].at = "wait" => /\ conn'[req'[p].conn].seq # 0
                                       /\ who[req'[p].conn][conn'[req'[p].conn].seq] = p
             /\ req'[p].at \in {"call", "close"} => \A n \in 1 .. conn'[req'[p].conn].seq : who[req'[p].conn][n] # p
  <2> DEFINE r == req[p]
             v == req'[p]
             w == v.conn
  <2>1. CASE p \notin 1 .. Len(req)
    <3>1. Begins(v, Gate) /\ \A k \in Gate : \A n \in 1 .. conn[k].seq : who[k][n] # p
      BY <1>3, <2>1
    <3> QED
      BY <3>1 DEF Begins
  <2>2. CASE p \in 1 .. Len(req) /\ v = r
    <3>1. v.at \in {"wait", "call", "close"} => w \in Gate
      BY <1>1, <2>2 DEF IsReq
    <3>2. /\ r.at = "wait" => conn[r.conn].seq # 0 /\ who[r.conn][conn[r.conn].seq] = p
          /\ r.at \in {"call", "close"} => \A n \in 1 .. conn[r.conn].seq : who[r.conn][n] # p
      BY <2>2 DEF Numbers, Waiting
    <3> QED
      BY <2>2, <3>1, <3>2
  <2>3. CASE p \in 1 .. Len(req) /\ GoesOn(r, v, Gate)
    <3>1. CASE v.at = "close"
      <4>1. w \in Gate' /\ w \notin Gate
        BY <1>1, <2>3, <3>1 DEF GoesOn, IsReq
      <4> QED
        BY <1>2, <3>1, <4>1
    <3>2. CASE v.at = "call"
      <4>1. r.at = "close" /\ w = r.conn
        BY <2>3, <3>2 DEF GoesOn
      <4>2. r.conn \in Gate
        BY <1>1, <2>3, <4>1 DEF IsReq
      <4>3. \A n \in 1 .. conn[r.conn].seq : who[r.conn][n] # p
        BY <2>3, <4>1 DEF Numbers, Waiting
      <4> QED
        BY <3>2, <4>1, <4>2, <4>3
    <3>3. v.at # "wait"
      BY <2>3 DEF GoesOn
    <3> QED
      BY <3>1, <3>2, <3>3
  <2> QED
    BY <1>7, <2>1, <2>2, <2>3
<1>8. Waiting(who)'
  BY <1>7 DEF Waiting
<1>9. ASSUME NEW p \in 1 .. Len(req'), req'[p].b.method = "CreateOrder",
             req'[p].at = "failed" \/ (req'[p].at \in {"call", "wait", "close"} /\ req'[p].try = 2)
      PROVE  req'[p].lost
  <2> DEFINE r == req[p]
             v == req'[p]
  <2>1. CASE p \notin 1 .. Len(req)
    BY <1>9, <2>1 DEF Begins
  <2>2. CASE p \in 1 .. Len(req) /\ v = r
    BY <1>9, <2>2 DEF Numbers, SecondTries
  <2>3. CASE p \in 1 .. Len(req) /\ GoesOn(r, v, Gate)
    <3>1. r.b.method = "CreateOrder"
      BY <1>9, <2>3 DEF GoesOn
    <3>2. r.at = "failed" \/ r.at = "close" => r.lost
      BY <1>1, <2>3, <3>1 DEF Numbers, SecondTries, IsReq
    <3> QED
      BY <1>9, <2>3, <3>1, <3>2 DEF GoesOn
  <2> QED
    BY <2>1, <2>2, <2>3
<1>10. SecondTries'
  BY <1>9 DEF SecondTries
<1> QED
  BY <1>5, <1>6, <1>8, <1>10 DEF Numbers

\* Steps that send no call.  The connections and their numbers stay ...
SameCalls ==
    /\ \A k \in Conns : k \in Conns' /\ (k \in Gate' <=> k \in Gate)
    /\ \A k \in Gate : conn'[k].seq = conn[k].seq
    /\ \A k \in Gate' : k \notin Gate => conn'[k].seq = 0

\* ... requests begin and go on ...
ReqsGoOn ==
    /\ Len(req) <= Len(req')
    /\ \A q \in 1 .. Len(req) : req'[q] = req[q] \/ GoesOn(req[q], req'[q], Gate)
    /\ \A q \in 1 .. Len(req') : q \in 1 .. Len(req) \/ Begins(req'[q], Gate)

\* ... and what is written belongs to a call in the ledger.
NewOwn(w2) ==
    /\ \A k \in Gate' : \A m \in Items(conn'[k].out) : (k \in Gate /\ m \in Items(conn[k].out)) \/ OfCall(w2, k, m)'
    /\ \A k \in Gate' : \A m \in Items(conn'[k].in) : (k \in Gate /\ m \in Items(conn[k].in)) \/ ReplyOwn(w2, k, m)'
    /\ \A k \in Gate' : (k \in Gate /\ serving'[k] = serving[k]) \/ HandledOwn(w2, k, serving[k])'
    /\ \A h \in Conns' \ Gate' : \A m \in Items(conn'[h].out) : (h \in Conns \ Gate /\ m \in Items(conn[h].out)) \/ UserCall(w2, m)'
    /\ \A e \in made' : e \in made \/ MadeBy(w2, e)'
    /\ \A s \in spans' : s \in spans \/ SpanOwn(w2, s)'

\* Nothing is written.
Silent ==
    /\ \A k \in Conns : /\ Items(conn'[k].out) \subseteq Items(conn[k].out)
                        /\ Items(conn'[k].in) \subseteq Items(conn[k].in)
                        /\ serving'[k] \in {serving[k], NoFrame}
    /\ \A k \in Conns' : k \notin Conns => Items(conn'[k].out) = {} /\ Items(conn'[k].in) = {} /\ serving'[k] = NoFrame
    /\ UNCHANGED <<made, spans>>

LEMMA SilentOwn ==
  ASSUME SameCalls, Silent, NEW who
  PROVE  NewOwn(who)
<1>1. Gate \subseteq Conns /\ Gate' \subseteq Conns'
  BY DEF Gate
<1>2. \A k \in Gate' : k \in Gate \/ k \notin Conns
  BY DEF SameCalls
<1>3. \A k \in Conns' \ Gate' : k \in Conns \ Gate \/ k \notin Conns
  BY DEF SameCalls
<1>4. ASSUME NEW k \in Gate' PROVE (k \in Gate /\ serving'[k] = serving[k]) \/ serving'[k] = NoFrame
  BY <1>1, <1>2 DEF Silent
<1>5. ASSUME NEW k \in Gate', serving'[k] = NoFrame PROVE HandledOwn(who, k, serving[k])'
  BY <1>5 DEF HandledOwn, NoFrame
<1>6. ASSUME NEW k \in Gate'
      PROVE  /\ \A m \in Items(conn'[k].out) : k \in Gate /\ m \in Items(conn[k].out)
             /\ \A m \in Items(conn'[k].in) : k \in Gate /\ m \in Items(conn[k].in)
  BY <1>1, <1>2 DEF Silent
<1>7. ASSUME NEW h \in Conns' \ Gate' PROVE \A m \in Items(conn'[h].out) : h \in Conns \ Gate /\ m \in Items(conn[h].out)
  BY <1>3 DEF Silent
<1>8. made' = made /\ spans' = spans
  BY DEF Silent
<1> QED
  BY <1>4, <1>5, <1>6, <1>7, <1>8 DEF NewOwn

LEMMA LedgerKept ==
  ASSUME PathTyped, PathTyped', NEW who, NEW turn \in Ledgers({1, 2}), Ledger(who, turn),
         SameCalls, ReqsGoOn, NewOwn(who)
  PROVE  Ledger(who, turn)'
<1>1. Numbers(who, turn)'
  <2>1. Numbers(who, turn)
    BY DEF Ledger, Numbers
  <2>2. \A k \in Gate : k \in Gate' /\ conn'[k].seq = conn[k].seq
    BY GateIsConns DEF SameCalls
  <2> QED
    BY <2>1, <2>2, NumbersKept DEF SameCalls, ReqsGoOn
<1>2. Grows(who, who)
  <2>1. \A k \in Gate : conn[k].seq <= conn'[k].seq
    BY GateSeq DEF SameCalls, PathTyped
  <2>2. \A p \in 1 .. Len(req) : req'[p].b.method = req[p].b.method
    BY DEF ReqsGoOn, GoesOn
  <2> QED
    BY <2>1, <2>2 DEF Grows, SameCalls, ReqsGoOn
<1>3. Frames(who)'
  BY <1>2, FramesKept DEF Ledger, PathTyped, NewOwn
<1> QED
  BY <1>1, <1>3 DEF Ledger, Numbers

\* The steps of one request that send no call.
LEMMA OneGoesOn ==
  ASSUME PathTyped, PathTyped', AnswersOwn, NEW p \in DOMAIN req, NEW v, req' = [req EXCEPT ![p] = v],
         GoesOn(req[p], v, Gate), v.at = "done" /\ v.ok => v.value.req = p
  PROVE  ReqsGoOn /\ AnswersOwn'
<1>1. DOMAIN req = 1 .. Len(req) /\ Len(req) \in Nat /\ DOMAIN req' = 1 .. Len(req') /\ Len(req') \in Nat
  BY QueueShape DEF PathTyped, ReqTyped
<1>2. DOMAIN req' = DOMAIN req /\ req'[p] = v /\ \A q \in DOMAIN req : q # p => req'[q] = req[q]
  OBVIOUS
<1>3. Len(req') = Len(req)
  BY <1>1, <1>2
<1>4. \A q \in 1 .. Len(req) : (q # p /\ req'[q] = req[q]) \/ (q = p /\ req'[q] = v)
  BY <1>1, <1>2
<1>5. ReqsGoOn
  BY <1>1, <1>3, <1>4 DEF ReqsGoOn
<1>6. AnswersOwn'
  BY <1>3, <1>4 DEF AnswersOwn
<1> QED
  BY <1>5, <1>6

LEMMA NothingElse ==
  ASSUME ReqTyped, AnswersOwn, req' = req
  PROVE  ReqsGoOn /\ AnswersOwn'
<1>1. Len(req) \in Nat
  BY QueueShape DEF ReqTyped
<1> QED
  BY <1>1 DEF ReqsGoOn, AnswersOwn

\* A step that sends no call and keeps the ledger right.
Keeps(who) == SameCalls /\ ReqsGoOn /\ NewOwn(who) /\ AnswersOwn'

LEMMA SameConnsKeep ==
  ASSUME ConnTyped, ServingTyped, UNCHANGED <<conn, serving, made, spans>>
  PROVE  SameCalls /\ Silent
BY DEF SameCalls, Silent, Conns, Gate

LEMMA KeepsAsks ==
  ASSUME PathTyped, PathTyped', AnswersOwn, NEW who, NEW program, NEW b, NEW cli \in Gate, Asks(program, b, cli)
  PROVE  Keeps(who)
<1> DEFINE v == [at |-> IF b.method = "bad" THEN "failed" ELSE "call", b |-> b, direct |-> program,
                 conn |-> cli, old |-> Nobody, try |-> 1, lost |-> FALSE]
<1>1. UNCHANGED <<conn, serving, made, spans>> /\ req' = Append(req, v)
  BY DEF Asks, rpcVars, orderVars
<1>2. Begins(v, Gate) /\ v.at # "done"
  BY DEF Begins
<1>3. Queue(req) /\ Len(req) \in Nat
  BY QueueShape DEF PathTyped, ReqTyped
<1>4. Len(req') = Len(req) + 1 /\ (\A q \in 1 .. Len(req) : req'[q] = req[q]) /\ req'[Len(req) + 1] = v
  <2> HIDE DEF v
  <2> QED
    BY <1>1, <1>3, QueueAppend DEF Queue
<1>5. \A q \in 1 .. Len(req') : q \in 1 .. Len(req) \/ q = Len(req) + 1
  BY <1>3, <1>4
<1> HIDE DEF v
<1>6. ReqsGoOn
  BY <1>2, <1>3, <1>4, <1>5 DEF ReqsGoOn
<1>7. AnswersOwn'
  BY <1>2, <1>4, <1>5 DEF AnswersOwn
<1> QED
  BY <1>1, <1>6, <1>7, SameConnsKeep, SilentOwn DEF Keeps, PathTyped

\* What is read with the call's own number is the answer to it; and a call to make an order that gets no
\* answer has lost its connection.
LEMMA ReadIsOwn ==
  ASSUME PathTyped, NEW who, NEW turn, Ledger(who, turn), NEW p \in 1 .. Len(req), req[p].at = "wait"
  PROVE  LET v == CallRead(req[p].conn)
         IN  /\ v.ok \in BOOLEAN /\ v.lost \in BOOLEAN
             /\ v.ok => v.value.req = p
             /\ ~v.ok /\ req[p].b.method = "CreateOrder" => v.lost
<1> DEFINE k == req[p].conn
           c == conn[k]
           v == CallRead(k)
           m == Head(c.in)
<1>1. k \in Gate /\ IsConn(c)
  BY ReqsShape, ConnsShape, GateIsConns DEF PathTyped, IsReq
<1>2. c.seq # 0 /\ who[k][c.seq] = p
  BY DEF Ledger, Waiting
<1>3. CASE c.closed \/ c.in = <<>>
  BY <1>3 DEF CallRead
<1>4. CASE ~(c.closed \/ c.in = <<>>) /\ (m.seq # c.seq \/ m.typ # "reply")
  <2>1. v = [ok |-> FALSE, lost |-> m.seq # c.seq, value |-> NoValue]
    BY <1>4 DEF CallRead
  <2>2. ReplyOwn(who, k, m)
    <3>1. m \in Items(c.in)
      <4>1. Queue(c.in) /\ c.in # <<>>
        BY <1>1, <1>4 DEF IsConn
      <4> HIDE DEF c
      <4> QED
        BY <4>1, QueueTail
    <3> QED
      BY <1>1, <3>1 DEF Ledger, Frames, GateFrames
  <2>3. m.seq = c.seq => m.typ = "reply" \/ req[p].b.method # "CreateOrder"
    <3> HIDE DEF m, c, k
    <3> QED
      BY <1>2, <2>2 DEF ReplyOwn
  <2> HIDE DEF m, c
  <2>4. v.ok = FALSE /\ v.lost = (m.seq # c.seq)
    BY <2>1
  <2> HIDE DEF v
  <2> QED
    BY <1>4, <2>3, <2>4 DEF v, k
<1>5. CASE ~(c.closed \/ c.in = <<>>) /\ m.seq = c.seq /\ m.typ = "reply"
  <2>1. v = [ok |-> TRUE, lost |-> FALSE, value |-> m.value]
    BY <1>5 DEF CallRead
  <2>2. ReplyOwn(who, k, m)
    <3>1. m \in Items(c.in)
      <4>1. Queue(c.in) /\ c.in # <<>>
        BY <1>1, <1>5 DEF IsConn
      <4> HIDE DEF c
      <4> QED
        BY <4>1, QueueTail
    <3> QED
      BY <1>1, <3>1 DEF Ledger, Frames, GateFrames
  <2>3. m.value.req = p
    <3> HIDE DEF m, c, k
    <3> QED
      BY <1>2, <1>5, <2>2 DEF ReplyOwn
  <2> QED
    BY <2>1, <2>3
<1> QED
  BY <1>3, <1>4, <1>5

LEMMA KeepsAnswer ==
  ASSUME PathTyped, PathTyped', AnswersOwn, NEW who, NEW turn, Ledger(who, turn), NEW p \in DOMAIN req, Answer(p)
  PROVE  Keeps(who)
<1> DEFINE k == req[p].conn
           u == CallRead(k)
           v == Outcome(p, u)
<1>1. IsReq(req[p], Gate) /\ req[p].at = "wait" /\ p \in 1 .. Len(req)
  BY ReqsShape DEF PathTyped, Answer, Goes
<1>2. k \in Gate /\ k \in Conns /\ conn' = AfterRead(k) /\ req' = [req EXCEPT ![p] = v] /\ UNCHANGED <<serving, made, spans>>
  BY <1>1 DEF IsReq, Gate, Answer, To, orderVars
<1>3. /\ u.ok \in BOOLEAN /\ u.lost \in BOOLEAN /\ (u.ok => u.value.req = p)
      /\ ~u.ok /\ req[p].b.method = "CreateOrder" => u.lost
  BY <1>1, ReadIsOwn
<1>4. GoesOn(req[p], v, Gate) /\ (v.at = "done" /\ v.ok => v.value.req = p)
  <2> HIDE DEF u
  <2>1. CASE u.ok \/ req[p].direct \/ req[p].try = 2
    <3>1. v = [at |-> "done", b |-> req[p].b, ok |-> u.ok, value |-> u.value, lost |-> req[p].lost \/ u.lost]
      BY <2>1 DEF Outcome, Ended
    <3>2. v.at = "done" /\ v.b = req[p].b /\ v.ok = u.ok /\ v.value = u.value /\ (req[p].lost => v.lost)
      <4>1. CASE req[p].lost
        <5>1. (req[p].lost \/ u.lost) = TRUE
          BY <4>1
        <5>2. v = [at |-> "done", b |-> req[p].b, ok |-> u.ok, value |-> u.value, lost |-> TRUE]
          BY <3>1, <5>1
        <5> HIDE DEF v
        <5> QED
          BY <5>2
      <4>2. CASE ~req[p].lost
        <5> HIDE DEF v
        <5> QED
          BY <3>1, <4>2
      <4> QED
        BY <4>1, <4>2
    <3> HIDE DEF v
    <3> QED
      BY <1>1, <1>3, <3>2 DEF GoesOn
  <2>2. CASE ~(u.ok \/ req[p].direct \/ req[p].try = 2)
    <3>1. v = [req[p] EXCEPT !.at = "failed", !.lost = u.lost]
      BY <2>2 DEF Outcome
    <3>2. v.at = "failed" /\ v.b = req[p].b /\ v.lost = u.lost /\ v.try = req[p].try /\ req[p].try = 1
      BY <1>1, <2>2, <3>1 DEF IsReq
    <3> HIDE DEF v
    <3> QED
      BY <1>1, <1>3, <2>2, <3>2 DEF GoesOn
  <2> QED
    BY <2>1, <2>2
<1>5. ReqsGoOn /\ AnswersOwn'
  <2> HIDE DEF v
  <2> QED
    BY <1>2, <1>4, OneGoesOn
<1>6. /\ Conns' = Conns /\ Gate' = Gate /\ \A h \in Conns : h # k => conn'[h] = conn[h]
      /\ conn'[k].seq = conn[k].seq /\ conn'[k].out = conn[k].out
      /\ conn'[k].in = IF conn[k].closed \/ conn[k].in = <<>> THEN conn[k].in ELSE Tail(conn[k].in)
  <2> HIDE DEF k
  <2> QED
    BY <1>2, Reads DEF PathTyped
<1>7. Items(conn'[k].in) \subseteq Items(conn[k].in)
  <2>1. Queue(conn[k].in)
    BY <1>2, ConnsShape DEF PathTyped, IsConn
  <2> HIDE DEF k
  <2> QED
    BY <1>6, <2>1, QueueTail
<1>8. SameCalls
  BY <1>6, GateIsConns DEF SameCalls
<1>9. Silent
  <2>1. \A h \in Conns : /\ Items(conn'[h].out) \subseteq Items(conn[h].out)
                         /\ Items(conn'[h].in) \subseteq Items(conn[h].in)
    BY <1>6, <1>7
  <2> QED
    BY <1>2, <1>6, <2>1 DEF Silent
<1> QED
  BY <1>5, <1>8, <1>9, SilentOwn DEF Keeps

LEMMA KeepsTimeout ==
  ASSUME PathTyped, PathTyped', AnswersOwn, NEW who, NEW p \in DOMAIN req, Timeout(p)
  PROVE  Keeps(who)
<1> DEFINE k == req[p].conn
           v == Ended(p, FALSE, NoValue, TRUE)
<1>1. IsReq(req[p], Gate) /\ req[p].at = "wait"
  BY ReqsShape DEF PathTyped, Timeout, Goes
<1>2. k \in Conns /\ conn' = AfterTimeout(k) /\ req' = [req EXCEPT ![p] = v] /\ UNCHANGED <<serving, made, spans>>
  BY <1>1 DEF IsReq, Gate, Timeout, To, orderVars
<1>3. v.at = "done" /\ v.b = req[p].b /\ v.ok = FALSE /\ v.lost = TRUE
  BY DEF Ended
<1> HIDE DEF v
<1>4. GoesOn(req[p], v, Gate)
  BY <1>1, <1>3 DEF GoesOn
<1>5. ReqsGoOn /\ AnswersOwn'
  BY <1>2, <1>3, <1>4, OneGoesOn
<1>6. /\ Conns' = Conns /\ Gate' = Gate
      /\ \A h \in Conns : conn'[h].seq = conn[h].seq /\ conn'[h].out = conn[h].out /\ conn'[h].in = conn[h].in
  <2> HIDE DEF k
  <2> QED
    BY <1>2, TimesOut DEF PathTyped
<1>7. SameCalls /\ Silent
  BY <1>2, <1>6, GateIsConns DEF SameCalls, Silent
<1> QED
  BY <1>5, <1>7, SilentOwn DEF Keeps

LEMMA KeepsRedialFails ==
  ASSUME PathTyped, PathTyped', AnswersOwn, NEW who, NEW p \in DOMAIN req, redialFails(p)
  PROVE  Keeps(who)
<1> DEFINE v == Ended(p, FALSE, NoValue, req[p].lost)
<1>1. IsReq(req[p], Gate) /\ req[p].at = "failed"
  BY ReqsShape DEF PathTyped, redialFails, Goes
<1>2. req' = [req EXCEPT ![p] = v] /\ UNCHANGED <<conn, serving, made, spans>>
  BY DEF redialFails, To, orderVars, rpcVars
<1>3. v.at = "done" /\ v.b = req[p].b /\ v.ok = FALSE /\ v.lost = req[p].lost
  BY DEF Ended
<1> HIDE DEF v
<1>4. GoesOn(req[p], v, Gate)
  BY <1>1, <1>3 DEF GoesOn
<1>5. ReqsGoOn /\ AnswersOwn'
  BY <1>2, <1>3, <1>4, OneGoesOn
<1> QED
  BY <1>2, <1>5, SameConnsKeep, SilentOwn DEF Keeps, PathTyped

LEMMA KeepsRedial ==
  ASSUME PathTyped, PathTyped', AnswersOwn, NEW who, NEW p \in DOMAIN req, redial(p)
  PROVE  Keeps(who)
<1>n. PICK n : n = Len(conn')
  OBVIOUS
<1> DEFINE v == [at |-> "close", b |-> req[p].b, direct |-> FALSE, conn |-> n, old |-> clis, try |-> 2,
                 lost |-> req[p].lost]
<1>1. IsReq(req[p], Gate) /\ req[p].at = "failed"
  BY ReqsShape DEF PathTyped, redial, Goes
<1>2. req' = [req EXCEPT ![p] = v] /\ UNCHANGED <<made, spans>>
  BY <1>n DEF redial, To, orderVars
<1>3. /\ \A k \in Conns : k \in Conns' /\ conn'[k] = conn[k] /\ (k \in Gate' <=> k \in Gate) /\ serving'[k] = serving[k]
      /\ \A k \in Conns' : k \in Conns \/ k = n
      /\ n \notin Conns
      /\ conn'[n] = NewConn(OrderAddr) /\ serving'[n] = NoFrame
  BY <1>n, Dials DEF PathTyped, redial
<1>4. NewConn(OrderAddr).out = <<>> /\ NewConn(OrderAddr).in = <<>> /\ NewConn(OrderAddr).seq = 0
  BY DEF NewConn
<1>5. v.at = "close" /\ v.b = req[p].b /\ v.try = 2 /\ v.lost = req[p].lost /\ v.conn \notin Gate
  BY <1>3, GateIsConns
<1> HIDE DEF v
<1>6. GoesOn(req[p], v, Gate)
  BY <1>1, <1>5 DEF GoesOn, IsReq
<1>7. ReqsGoOn /\ AnswersOwn'
  BY <1>2, <1>5, <1>6, OneGoesOn
<1>8. SameCalls
  <2>1. Gate' \subseteq Conns' /\ Gate \subseteq Conns
    BY DEF Gate
  <2> QED
    BY <1>3, <1>4, <2>1 DEF SameCalls
<1>9. Silent
  BY <1>2, <1>3, <1>4, QueueNil DEF Silent
<1> QED
  BY <1>7, <1>8, <1>9, SilentOwn DEF Keeps

LEMMA KeepsCloseOld ==
  ASSUME PathTyped, PathTyped', AnswersOwn, NEW who, NEW p \in DOMAIN req, closeOld(p)
  PROVE  Keeps(who)
<1> DEFINE v == IF req[p].b.method = "bad" THEN Ended(p, FALSE, NoValue, FALSE) ELSE [req[p] EXCEPT !.at = "call"]
           ks == {req[p].old}
<1>1. IsReq(req[p], Gate) /\ req[p].at = "close"
  BY ReqsShape DEF PathTyped, closeOld, Goes
<1>2. conn' = Closed(conn, ks) /\ UNCHANGED <<serving, made, spans>> /\ req' = [req EXCEPT ![p] = v]
  BY DEF closeOld, To, orderVars
<1>3. GoesOn(req[p], v, Gate) /\ (v.at = "done" => v.ok = FALSE)
  <2>1. CASE req[p].b.method = "bad"
    <3>1. v = Ended(p, FALSE, NoValue, FALSE)
      BY <2>1
    <3> HIDE DEF v
    <3>2. v.at = "done" /\ v.b = req[p].b /\ v.ok = FALSE
      BY <3>1 DEF Ended
    <3> QED
      BY <1>1, <2>1, <3>2 DEF GoesOn
  <2>2. CASE req[p].b.method # "bad"
    <3>1. v = [req[p] EXCEPT !.at = "call"]
      BY <2>2
    <3> HIDE DEF v
    <3>2. v.at = "call" /\ v.b = req[p].b /\ v.try = req[p].try /\ v.conn = req[p].conn /\ v.lost = req[p].lost
      BY <1>1, <3>1 DEF IsReq
    <3> QED
      BY <1>1, <3>2 DEF GoesOn
  <2> QED
    BY <2>1, <2>2
<1> HIDE DEF v
<1>4. ReqsGoOn /\ AnswersOwn'
  BY <1>2, <1>3, OneGoesOn
<1>5. /\ Conns' = Conns /\ Gate' = Gate
      /\ \A h \in Conns : conn'[h].seq = conn[h].seq /\ conn'[h].out = conn[h].out
      /\ \A h \in Conns : h \in ks => conn'[h].in = <<>>
      /\ \A h \in Conns : h \notin ks => conn'[h] = conn[h]
  <2> HIDE DEF ks
  <2> QED
    BY <1>2, Closes DEF PathTyped
<1> HIDE DEF ks
<1>6. SameCalls
  BY <1>5, GateIsConns DEF SameCalls
<1>7. Silent
  <2>1. \A h \in Conns : Items(conn'[h].in) \subseteq Items(conn[h].in)
    BY <1>5, QueueNil
  <2> QED
    BY <1>2, <1>5, <2>1 DEF Silent
<1> QED
  BY <1>4, <1>6, <1>7, SilentOwn DEF Keeps

\* The instances, the watch loop and deaths write nothing.
LEMMA KeepsSilent ==
  ASSUME PathTyped, AnswersOwn, NEW who, UNCHANGED gwVars, SameCalls, Silent
  PROVE  Keeps(who)
BY NothingElse, SilentOwn DEF Keeps, PathTyped, gwVars

LEMMA KeepsIdle ==
  ASSUME PathTyped, AnswersOwn, NEW who, UNCHANGED gwVars, UNCHANGED <<conn, serving, made, spans>>
  PROVE  Keeps(who)
BY KeepsSilent, SameConnsKeep DEF PathTyped

LEMMA KeepsDeath ==
  ASSUME PathTyped, AnswersOwn, NEW who, UNCHANGED gwVars, NEW addr, NEW mine, Die(addr, mine), UNCHANGED <<made, spans>>
  PROVE  Keeps(who)
<1>1. /\ ConnTyped' /\ ServingTyped' /\ Len(conn') = Len(conn) /\ Conns' = Conns /\ Gate' = Gate
      /\ \A k \in Conns : conn'[k].addr = conn[k].addr /\ conn'[k].seq = conn[k].seq
      /\ Ends(addr) /\ EndsMine(addr, mine) /\ EndsNot(addr, mine)
  BY Dies DEF PathTyped
<1>2. SameCalls
  BY <1>1, GateIsConns DEF SameCalls
<1>3. \A k \in Conns : /\ Items(conn'[k].out) \subseteq Items(conn[k].out)
                       /\ Items(conn'[k].in) \subseteq Items(conn[k].in)
                       /\ serving'[k] \in {serving[k], NoFrame}
  <2>1. ASSUME NEW k \in Conns, conn[k].addr = addr
        PROVE  conn'[k].out = <<>> /\ conn'[k].in = conn[k].in /\ serving'[k] = NoFrame
    BY <1>1, <2>1 DEF Ends
  <2>2. ASSUME NEW k \in Conns, conn[k].addr # addr, k \in mine
        PROVE  conn'[k].out = conn[k].out /\ conn'[k].in = <<>> /\ serving'[k] = serving[k]
    BY <1>1, <2>2 DEF EndsMine, EndsNot
  <2>3. ASSUME NEW k \in Conns, conn[k].addr # addr, k \notin mine
        PROVE  conn'[k] = conn[k] /\ serving'[k] = serving[k]
    BY <1>1, <2>3 DEF EndsNot
  <2> QED
    BY <2>1, <2>2, <2>3, QueueNil
<1>4. Silent
  BY <1>1, <1>3 DEF Silent
<1> QED
  BY <1>2, <1>4, KeepsSilent

LEMMA KeepsApplyAddrs ==
  ASSUME PathTyped, PathTyped', AnswersOwn, NEW who, UNCHANGED gwVars, applyAddrs
  PROVE  Keeps(who)
<1>1. /\ \A k \in Conns : /\ k \in Conns' /\ conn'[k] = conn[k] /\ (k \in Gate' <=> k \in Gate)
                          /\ serving'[k] = serving[k]
      /\ \A k \in Conns' : k \notin Conns => k \notin Gate' /\ conn'[k].out = <<>> /\ conn'[k].in = <<>>
  BY AddsPeers
<1>2. Gate \subseteq Conns /\ Gate' \subseteq Conns'
  BY DEF Gate
<1>3. \A k \in Conns' : k \notin Conns => serving'[k] = NoFrame
  BY <1>1 DEF PathTyped, ServingTyped
<1>4. SameCalls
  BY <1>1, <1>2 DEF SameCalls
<1>5. Silent
  BY <1>1, <1>3, QueueNil DEF Silent, applyAddrs, storeVars
<1> QED
  BY <1>4, <1>5, KeepsSilent

LEMMA KeepsDropPeers ==
  ASSUME PathTyped, AnswersOwn, NEW who, UNCHANGED gwVars, DropPeers
  PROVE  Keeps(who)
<1> DEFINE ks == {watch.old[a] : a \in DOMAIN watch.old \ watch.addrs}
<1>1. conn' = Closed(conn, ks) /\ UNCHANGED <<serving, made, spans>>
  BY DEF DropPeers, storeVars
<1>2. /\ Conns' = Conns /\ Gate' = Gate
      /\ \A h \in Conns : conn'[h].seq = conn[h].seq /\ conn'[h].out = conn[h].out
      /\ \A h \in Conns : h \in ks => conn'[h].in = <<>>
      /\ \A h \in Conns : h \notin ks => conn'[h] = conn[h]
  <2> HIDE DEF ks
  <2> QED
    BY <1>1, Closes DEF PathTyped
<1> HIDE DEF ks
<1>3. SameCalls
  BY <1>2, GateIsConns DEF SameCalls
<1>4. Silent
  <2>1. \A h \in Conns : Items(conn'[h].in) \subseteq Items(conn[h].in)
    BY <1>2, QueueNil
  <2> QED
    BY <1>1, <1>2, <2>1 DEF Silent
<1> QED
  BY <1>3, <1>4, KeepsSilent

\* The span of a call, and the header of the call that its handler makes.
LEMMA SpanOfCall ==
  ASSUME NEW k, NEW m
  PROVE  \A s \in Trace(k, m) :
            /\ s.span.span = <<k, m.seq>> /\ s.span.span[1] = k /\ s.span.span[2] = m.seq
            /\ s.method = m.method /\ s.req = m.arg.req
            /\ m.hdr = NoSpan => s.span.trace = <<k, m.seq>>
            /\ m.hdr # NoSpan => s.span.trace = m.hdr.trace /\ s.span.parent = m.hdr.span
BY DEF Trace, finish, startSpan

\* The order service traces a call that is in the ledger.
LEMMA GateSpan ==
  ASSUME ConnTyped, NEW who, NEW k \in Gate, NEW m, OfCall(who, k, m), m.method # "GetUser",
         NEW s \in Trace(k, m)
  PROVE  SpanOwn(who, s)
<1>1. /\ s.span.span = <<k, m.seq>> /\ s.span.span[1] = k /\ s.span.span[2] = m.seq
      /\ s.method = m.method /\ s.req = m.arg.req
      /\ m.hdr = NoSpan => s.span.trace = <<k, m.seq>>
  BY SpanOfCall
<1>2. k \in Conns /\ m.seq \in 1 .. conn[k].seq /\ m.arg.req = who[k][m.seq] /\ m.hdr = NoSpan
  BY GateIsConns DEF OfCall
<1> QED
  BY <1>1, <1>2 DEF SpanOwn

LEMMA UserSpan ==
  ASSUME ConnTyped, NEW who, NEW k \in Conns \ Gate, NEW m, UserCall(who, m), NEW s \in Trace(k, m)
  PROVE  SpanOwn(who, s)
<1>1. /\ s.span.span = <<k, m.seq>> /\ s.span.span[1] = k /\ s.span.span[2] = m.seq
      /\ s.method = m.method /\ s.req = m.arg.req
      /\ m.hdr # NoSpan => s.span.trace = m.hdr.trace /\ s.span.parent = m.hdr.span
  BY SpanOfCall
<1>2. m.method = "GetUser" /\ Below(who, m.hdr, m.arg.req)
  BY DEF UserCall
<1>3. PICK g \in Gate : \E n \in 1 .. conn[g].seq : m.hdr = [trace |-> <<g, n>>, span |-> <<g, n>>] /\ m.arg.req = who[g][n]
  BY <1>2 DEF Below
<1>4. PICK n \in 1 .. conn[g].seq : m.hdr = [trace |-> <<g, n>>, span |-> <<g, n>>] /\ m.arg.req = who[g][n]
  BY <1>3
<1>5. m.hdr # NoSpan
  <2>1. DOMAIN m.hdr = {"trace", "span"} /\ DOMAIN <<>> = {}
    BY <1>4
  <2> QED
    BY <2>1 DEF NoSpan
<1>6. [trace |-> s.span.trace, span |-> s.span.parent] = m.hdr
  BY <1>1, <1>4, <1>5
<1>7. Below(who, [trace |-> s.span.trace, span |-> s.span.parent], s.req)
  BY <1>1, <1>2, <1>6
<1> QED
  BY <1>1, <1>2, <1>7 DEF SpanOwn

\* A handler's step: what it writes belongs to a call of the ledger as it is.
LEMMA HandlerKeeps ==
  ASSUME PathTyped, PathTyped', AnswersOwn, NEW who, NEW turn, Ledger(who, turn), UNCHANGED gwVars,
         Conns' = Conns, Gate' = Gate, \A k \in Gate : conn'[k].seq = conn[k].seq,
         \A k \in Gate : Items(conn'[k].out) \subseteq Items(conn[k].out),
         \A k \in Gate : \A m \in Items(conn'[k].in) : m \in Items(conn[k].in) \/ ReplyOwn(who, k, m),
         \A k \in Gate : serving'[k] = serving[k] \/ HandledOwn(who, k, serving'[k]),
         \A h \in Conns \ Gate : \A m \in Items(conn'[h].out) : m \in Items(conn[h].out) \/ UserCall(who, m),
         \A e \in made' : e \in made \/ MadeBy(who, e),
         \A s \in spans' : s \in spans \/ SpanOwn(who, s)
  PROVE  Keeps(who)
<1>1. ConnTyped /\ ConnTyped' /\ ReqTyped /\ Used(who, turn)
  BY DEF PathTyped, Ledger
<1>2. SameCalls
  BY DEF SameCalls
<1>3. ReqsGoOn /\ AnswersOwn'
  BY <1>1, NothingElse DEF gwVars
<1>4. Grows(who, who)
  <2>1. \A k \in Gate : conn[k].seq <= conn'[k].seq
    BY <1>1, GateSeq
  <2> QED
    BY <1>3, <2>1 DEF Grows, ReqsGoOn, gwVars
<1>5. ASSUME NEW k \in Gate, NEW m \in Items(conn'[k].in) PROVE m \in Items(conn[k].in) \/ ReplyOwn(who, k, m)'
  BY <1>1, <1>4, <1>5, FrameKept
<1>6. ASSUME NEW k \in Gate PROVE serving'[k] = serving[k] \/ HandledOwn(who, k, serving[k])'
  <2>1. PICK s : s = serving'[k]
    OBVIOUS
  <2>2. CASE HandledOwn(who, k, s)
    <3>1. HandledOwn(who, k, s)'
      BY <1>1, <1>4, <2>2, FrameKept
    <3> QED
      BY <2>1, <3>1 DEF HandledOwn
  <2>3. CASE ~HandledOwn(who, k, s)
    BY <2>1, <2>3
  <2> QED
    BY <2>2, <2>3
<1>7. ASSUME NEW h \in Conns \ Gate, NEW m \in Items(conn'[h].out) PROVE m \in Items(conn[h].out) \/ UserCall(who, m)'
  BY <1>1, <1>4, <1>7, BelowKept DEF UserCall
<1>8. ASSUME NEW e \in made' PROVE e \in made \/ MadeBy(who, e)'
  BY <1>1, <1>4, <1>8, MadeKept
<1>9. ASSUME NEW s \in spans' PROVE s \in spans \/ SpanOwn(who, s)'
  BY <1>1, <1>4, <1>9, SpanKept
<1>10. NewOwn(who)
  BY <1>5, <1>6, <1>7, <1>8, <1>9 DEF NewOwn
<1> QED
  BY <1>2, <1>3, <1>10 DEF Keeps

\* An instance answers, and traces, the call that a handler of the order service has made.
LEMMA KeepsGetUser ==
  ASSUME PathTyped, PathTyped', AnswersOwn, NEW who, NEW turn, Ledger(who, turn), UNCHANGED gwVars,
         NEW k \in DOMAIN conn, GetUser(k)
  PROVE  Keeps(who)
<1>m. PICK m : m = Head(conn[k].out)
  OBVIOUS
<1> DEFINE typ == IF m.arg.user \in KnownUsers THEN "reply" ELSE "exception"
           value == [req |-> m.arg.req, user |-> m.arg.user]
<1>1. /\ k \in Conns /\ k \notin Gate /\ ConnTyped /\ IsConn(conn[k]) /\ conn[k].out # <<>>
      /\ UNCHANGED <<serving, made>> /\ conn' = Answered(Taken(k), k, typ, m.seq, value)
      /\ spans' = spans \cup Trace(k, m)
  BY <1>m, ConnsShape, OrderAssumption DEF PathTyped, GetUser, CanServe, Gate, AddrOf, storeVars
<1>2. /\ Conns' = Conns /\ Gate' = Gate
      /\ \A h \in Conns : h # k => conn'[h] = conn[h]
      /\ conn'[k].out = Tail(conn[k].out)
  <2> HIDE DEF typ, value
  <2> QED
    BY <1>1, Serves
<1>3. Items(conn'[k].out) \subseteq Items(conn[k].out) /\ m \in Items(conn[k].out)
  <2>1. Queue(conn[k].out) /\ conn[k].out # <<>> /\ conn'[k].out = Tail(conn[k].out)
    BY <1>1, <1>2 DEF IsConn
  <2> QED
    BY <1>m, <2>1, QueueTail
<1>4. UserCall(who, m)
  BY <1>1, <1>3 DEF Ledger, Frames, UserFrames
<1>5. \A s \in spans' : s \in spans \/ SpanOwn(who, s)
  BY <1>1, <1>4, UserSpan
<1>6. \A h \in Gate : conn'[h] = conn[h] /\ serving'[h] = serving[h]
  BY <1>1, <1>2, GateIsConns
<1>7. \A h \in Conns \ Gate : Items(conn'[h].out) \subseteq Items(conn[h].out)
  BY <1>2, <1>3
<1> QED
  BY <1>1, <1>2, <1>5, <1>6, <1>7, HandlerKeeps

\* The order service answers a call in the ledger, exceptions being for GetOrder only.
LEMMA GateAnswers ==
  ASSUME PathTyped, PathTyped', AnswersOwn, NEW who, NEW turn, Ledger(who, turn), UNCHANGED gwVars,
         NEW k \in Gate, NEW m, OfCall(who, k, m), m.method \in {"CreateOrder", "GetOrder"},
         Conns' = Conns, Gate' = Gate, conn'[k].seq = conn[k].seq,
         Items(conn'[k].out) \subseteq Items(conn[k].out),
         NEW typ, NEW value, value.req = m.arg.req, typ = "reply" \/ m.method = "GetOrder",
         Items(conn'[k].in) \subseteq Items(conn[k].in) \cup {Reply(typ, m.seq, value)},
         \A h \in Gate : h # k => conn'[h] = conn[h],
         \A h \in Conns \ Gate : conn'[h].out = conn[h].out,
         \A h \in Gate : serving'[h] \in {serving[h], NoFrame},
         \A e \in made' : e \in made \/ MadeBy(who, e),
         spans' = spans \cup Trace(k, m)
  PROVE  Keeps(who)
<1>1. ReplyOwn(who, k, Reply(typ, m.seq, value))
  BY DEF ReplyOwn, OfCall, Reply
<1>2. \A s \in spans' : s \in spans \/ SpanOwn(who, s)
  <2>1. ConnTyped /\ m.method # "GetUser"
    BY DEF PathTyped
  <2> QED
    BY <2>1, GateSpan
<1>3. \A h \in Gate : \A i \in Items(conn'[h].in) : i \in Items(conn[h].in) \/ ReplyOwn(who, h, i)
  BY <1>1
<1>4. \A h \in Gate : conn'[h].seq = conn[h].seq /\ Items(conn'[h].out) \subseteq Items(conn[h].out)
  OBVIOUS
<1>5. \A h \in Gate : serving'[h] = serving[h] \/ HandledOwn(who, h, serving'[h])
  BY DEF HandledOwn, NoFrame
<1> QED
  BY <1>2, <1>3, <1>4, <1>5, HandlerKeeps

\* The frame that a server takes, and what is left.
LEMMA TakenFrame ==
  ASSUME ConnTyped, NEW k \in Conns, conn[k].out # <<>>, conn'[k].out = Tail(conn[k].out)
  PROVE  Items(conn'[k].out) \subseteq Items(conn[k].out) /\ Head(conn[k].out) \in Items(conn[k].out)
<1>1. Queue(conn[k].out)
  BY ConnsShape DEF IsConn
<1> QED
  BY <1>1, QueueTail

\* The answer that a server writes, unless the client has gone.
LEMMA WrittenAnswer ==
  ASSUME ConnTyped, NEW k \in Conns, NEW f,
         conn'[k].in = IF conn[k].closed THEN conn[k].in ELSE Append(conn[k].in, f)
  PROVE  Items(conn'[k].in) \subseteq Items(conn[k].in) \cup {f}
<1>1. Queue(conn[k].in)
  BY ConnsShape DEF IsConn
<1>2. Items(Append(conn[k].in, f)) = Items(conn[k].in) \cup {f}
  BY <1>1, QueueAppend
<1>3. CASE conn'[k].in = conn[k].in
  BY <1>3
<1>4. CASE conn'[k].in = Append(conn[k].in, f)
  BY <1>2, <1>4
<1> QED
  BY <1>3, <1>4

LEMMA KeepsCreateOrder ==
  ASSUME PathTyped, PathTyped', AnswersOwn, NEW who, NEW turn, Ledger(who, turn), UNCHANGED gwVars,
         NEW k \in DOMAIN conn, CreateOrder(k)
  PROVE  Keeps(who)
<1>m. PICK m : m = Head(conn[k].out)
  OBVIOUS
<1>v. PICK value : value = [req |-> m.arg.req, id |-> nextID]
  OBVIOUS
<1>1. /\ k \in Conns /\ k \in Gate /\ ConnTyped /\ conn[k].out # <<>> /\ m.method = "CreateOrder"
      /\ serving' = serving /\ conn' = Answered(Taken(k), k, "reply", m.seq, value)
      /\ made' = made \cup {<<m.arg.req, k, m.seq>>}
      /\ spans' = spans \cup Trace(k, m)
  BY <1>m, <1>v, ConnsShape DEF PathTyped, CreateOrder, CanServe, Gate
<1>2. /\ Conns' = Conns /\ Gate' = Gate
      /\ \A h \in Conns : h # k => conn'[h] = conn[h]
      /\ conn'[k].seq = conn[k].seq /\ conn'[k].out = Tail(conn[k].out)
      /\ conn'[k].in = IF conn[k].closed THEN conn[k].in ELSE Append(conn[k].in, Reply("reply", m.seq, value))
  BY <1>1, Serves
<1>3. Items(conn'[k].out) \subseteq Items(conn[k].out) /\ m \in Items(conn[k].out)
  BY <1>m, <1>1, <1>2, TakenFrame
<1>4. Items(conn'[k].in) \subseteq Items(conn[k].in) \cup {Reply("reply", m.seq, value)}
  BY <1>1, <1>2, WrittenAnswer
<1>5. OfCall(who, k, m)
  BY <1>1, <1>3 DEF Ledger, Frames, GateFrames
<1>6. MadeBy(who, <<m.arg.req, k, m.seq>>)
  BY <1>1, <1>5 DEF MadeBy, OfCall
<1>7. value.req = m.arg.req
  BY <1>v
<1>8. /\ \A h \in Gate : h # k => conn'[h] = conn[h]
      /\ \A h \in Conns \ Gate : conn'[h].out = conn[h].out
      /\ \A e \in made' : e \in made \/ MadeBy(who, e)
  BY <1>1, <1>2, <1>6, GateIsConns
<1> DEFINE typ == "reply"
<1>9. /\ m.method \in {"CreateOrder", "GetOrder"} /\ (typ = "reply" \/ m.method = "GetOrder")
      /\ Items(conn'[k].in) \subseteq Items(conn[k].in) \cup {Reply(typ, m.seq, value)}
      /\ k \in Gate /\ conn'[k].seq = conn[k].seq /\ \A h \in Gate : serving'[h] \in {serving[h], NoFrame}
  BY <1>1, <1>2, <1>4
<1>10. spans' = spans \cup Trace(k, m) /\ Conns' = Conns /\ Gate' = Gate
  BY <1>1, <1>2
<1> HIDE DEF typ
<1> QED
  BY <1>3, <1>5, <1>7, <1>8, <1>9, <1>10, GateAnswers

LEMMA KeepsGetOrder ==
  ASSUME PathTyped, PathTyped', AnswersOwn, NEW who, NEW turn, Ledger(who, turn), UNCHANGED gwVars,
         NEW k \in DOMAIN conn, GetOrder(k)
  PROVE  Keeps(who)
<1>m. PICK m : m = Head(conn[k].out)
  OBVIOUS
<1>v. PICK value : value = [req |-> m.arg.req]
  OBVIOUS
<1>s. PICK s : s = [typ |-> "user", m |-> m, peer |-> pickUser, user |-> orders[m.arg.id], called |-> FALSE]
  OBVIOUS
<1>1. /\ k \in Conns /\ k \in Gate /\ ConnTyped /\ conn[k].out # <<>> /\ m.method = "GetOrder" /\ made' = made
      /\ \/ /\ conn' = Answered(Taken(k), k, "exception", m.seq, value)
            /\ spans' = spans \cup Trace(k, m) /\ serving' = serving
         \/ /\ conn' = Taken(k) /\ serving' = [serving EXCEPT ![k] = s] /\ spans' = spans
  BY <1>m, <1>v, <1>s, ConnsShape DEF PathTyped, GetOrder, CanServe, Gate, storeVars
<1>2. m \in Items(conn[k].out)
  <2>1. Queue(conn[k].out)
    BY <1>1, ConnsShape DEF IsConn
  <2> QED
    BY <1>m, <1>1, <2>1, QueueTail
<1>3. OfCall(who, k, m)
  BY <1>1, <1>2 DEF Ledger, Frames, GateFrames
<1>4. CASE conn' = Answered(Taken(k), k, "exception", m.seq, value) /\ spans' = spans \cup Trace(k, m) /\ serving' = serving
  <2>2. /\ Conns' = Conns /\ Gate' = Gate
        /\ \A h \in Conns : h # k => conn'[h] = conn[h]
        /\ conn'[k].seq = conn[k].seq /\ conn'[k].out = Tail(conn[k].out)
        /\ conn'[k].in = IF conn[k].closed THEN conn[k].in ELSE Append(conn[k].in, Reply("exception", m.seq, value))
    BY <1>1, <1>4, Serves
  <2>3. Items(conn'[k].out) \subseteq Items(conn[k].out)
    BY <1>1, <2>2, TakenFrame
  <2>4. Items(conn'[k].in) \subseteq Items(conn[k].in) \cup {Reply("exception", m.seq, value)}
    BY <1>1, <2>2, WrittenAnswer
  <2>7. value.req = m.arg.req
    BY <1>v
  <2>8. /\ \A h \in Gate : h # k => conn'[h] = conn[h]
        /\ \A h \in Conns \ Gate : conn'[h].out = conn[h].out
    BY <1>1, <2>2, GateIsConns
  <2> DEFINE typ == "exception"
  <2>9. /\ m.method \in {"CreateOrder", "GetOrder"} /\ (typ = "reply" \/ m.method = "GetOrder")
        /\ Items(conn'[k].in) \subseteq Items(conn[k].in) \cup {Reply(typ, m.seq, value)}
        /\ k \in Gate /\ conn'[k].seq = conn[k].seq /\ \A h \in Gate : serving'[h] \in {serving[h], NoFrame}
        /\ \A e \in made' : e \in made \/ MadeBy(who, e)
    BY <1>1, <1>4, <2>2, <2>4
  <2>10. spans' = spans \cup Trace(k, m) /\ Conns' = Conns /\ Gate' = Gate
    BY <1>4, <2>2
  <2> HIDE DEF typ
  <2> QED
    BY <1>3, <2>3, <2>7, <2>8, <2>9, <2>10, GateAnswers
<1>5. CASE conn' = Taken(k) /\ serving' = [serving EXCEPT ![k] = s] /\ spans' = spans
  <2>1. /\ Conns' = Conns /\ Gate' = Gate
        /\ \A h \in Conns : h # k => conn'[h] = conn[h]
        /\ conn'[k].seq = conn[k].seq /\ conn'[k].out = Tail(conn[k].out) /\ conn'[k].in = conn[k].in
    BY <1>1, <1>5, Takes
  <2>2. Items(conn'[k].out) \subseteq Items(conn[k].out)
    BY <1>1, <2>1, TakenFrame
  <2>3. HandledOwn(who, k, s)
    BY <1>s, <1>1, <1>3 DEF HandledOwn
  <2>4. serving'[k] = s /\ \A h \in Conns : h # k => serving'[h] = serving[h]
    BY <1>1, <1>5, ServingShape DEF PathTyped
  <2>5. \A h \in Gate : serving'[h] = serving[h] \/ HandledOwn(who, h, serving'[h])
    BY <2>3, <2>4, GateIsConns
  <2>6. \A h \in Gate : conn'[h].seq = conn[h].seq /\ conn'[h].in = conn[h].in /\ Items(conn'[h].out) \subseteq Items(conn[h].out)
    BY <2>1, <2>2, GateIsConns
  <2>7. \A h \in Conns \ Gate : conn'[h] = conn[h]
    BY <1>1, <2>1
  <2> QED
    BY <1>1, <1>5, <2>1, <2>5, <2>6, <2>7, HandlerKeeps
<1> QED
  BY <1>1, <1>4, <1>5

\* The call to an instance carries the span of the call that is handled.
LEMMA HeaderBelow ==
  ASSUME NEW who, NEW k \in Gate, NEW m, OfCall(who, k, m)
  PROVE  Below(who, outgoingHdr(startSpan(k, m)), m.arg.req)
<1> DEFINE n == m.seq
<1>1. n \in 1 .. conn[k].seq /\ m.arg.req = who[k][n] /\ m.hdr = NoSpan
  BY DEF OfCall
<1>2. outgoingHdr(startSpan(k, m)) = [trace |-> <<k, n>>, span |-> <<k, n>>]
  BY <1>1 DEF outgoingHdr, startSpan
<1> HIDE DEF n
<1> QED
  BY <1>1, <1>2 DEF Below

LEMMA KeepsCallUser ==
  ASSUME PathTyped, PathTyped', AnswersOwn, NEW who, NEW turn, Ledger(who, turn), UNCHANGED gwVars,
         NEW k \in DOMAIN conn, CallUser(k)
  PROVE  Keeps(who)
<1>s. PICK s : s = serving[k]
  OBVIOUS
<1>h. PICK h : h = s.peer
  OBVIOUS
<1>a. PICK arg : arg = [req |-> s.m.arg.req, user |-> s.user]
  OBVIOUS
<1>d. PICK hdr : hdr = outgoingHdr(startSpan(k, s.m))
  OBVIOUS
<1>q. PICK seq : seq = (conn[h].seq + 1) % SeqLimit
  OBVIOUS
<1>t. PICK t : t = [s EXCEPT !.called = TRUE]
  OBVIOUS
<1> DEFINE f == Frame(seq, "GetUser", arg, hdr)
<1>1. /\ k \in Gate /\ k \in Conns /\ h \in Conns /\ h \notin Gate /\ ConnTyped /\ IsConn(conn[h])
      /\ s.typ = "user" /\ DOMAIN s = {"typ", "m", "peer", "user", "called"}
  <2>1. k \in Conns /\ s # NoFrame
    BY <1>s, ConnsShape DEF PathTyped, CallUser, NoFrame
  <2>2. k \in Gate /\ h \in Conns \ Gate /\ s.typ = "user" /\ DOMAIN s = {"typ", "m", "peer", "user", "called"}
    BY <1>s, <1>h, <2>1 DEF PathTyped, ServingTyped
  <2> QED
    BY <2>1, <2>2, ConnsShape DEF PathTyped
<1>2. conn' = CallWrite(k, h, "GetUser", arg, hdr) /\ serving' = [serving EXCEPT ![k] = t] /\ UNCHANGED <<made, spans>>
  BY <1>s, <1>h, <1>a, <1>d, <1>t DEF CallUser, orderVars
<1>3. /\ Conns' = Conns /\ Gate' = Gate
      /\ \A i \in Conns : i # h => conn'[i] = conn[i]
      /\ conn'[h].out = IF conn[h].closed \/ conn[h].gone THEN conn[h].out ELSE Append(conn[h].out, f)
  BY <1>q, <1>1, <1>2, Writes
<1>4. serving'[k] = t /\ \A i \in Conns : i # k => serving'[i] = serving[i]
  BY <1>1, <1>2, ServingShape DEF PathTyped
<1>5. HandledOwn(who, k, s)
  BY <1>s, <1>1 DEF Ledger, Frames, GateFrames
<1>6. t.typ = "user" /\ t.m = s.m
  BY <1>t, <1>1
<1>7. HandledOwn(who, k, t)
  BY <1>1, <1>5, <1>6 DEF HandledOwn
<1>8. OfCall(who, k, s.m)
  BY <1>1, <1>5 DEF HandledOwn
<1>9. Below(who, hdr, s.m.arg.req)
  BY <1>d, <1>1, <1>8, HeaderBelow
<1>10. f.method = "GetUser" /\ f.hdr = hdr /\ f.arg.req = s.m.arg.req
  BY <1>a DEF Frame
<1> HIDE DEF f
<1>11. UserCall(who, f)
  BY <1>9, <1>10 DEF UserCall
<1>12. Items(conn'[h].out) \subseteq Items(conn[h].out) \cup {f}
  <2>1. Queue(conn[h].out)
    BY <1>1 DEF IsConn
  <2>2. Items(Append(conn[h].out, f)) = Items(conn[h].out) \cup {f}
    BY <2>1, QueueAppend
  <2>3. conn'[h].out = conn[h].out \/ conn'[h].out = Append(conn[h].out, f)
    BY <1>3
  <2> QED
    BY <2>2, <2>3
<1>13. \A i \in Gate : conn'[i] = conn[i]
  BY <1>1, <1>3, GateIsConns
<1>14. \A i \in Conns \ Gate : \A m \in Items(conn'[i].out) : m \in Items(conn[i].out) \/ UserCall(who, m)
  BY <1>3, <1>11, <1>12
<1>15. \A i \in Gate : serving'[i] = serving[i] \/ HandledOwn(who, i, serving'[i])
  BY <1>4, <1>7, GateIsConns
<1>16. /\ \A i \in Gate : conn'[i].seq = conn[i].seq
       /\ \A i \in Gate : Items(conn'[i].out) \subseteq Items(conn[i].out)
       /\ \A i \in Gate : \A m \in Items(conn'[i].in) : m \in Items(conn[i].in)
  BY <1>13
<1> QED
  BY <1>2, <1>3, <1>14, <1>15, <1>16, HandlerKeeps

\* The answer that a handler relays is the one to its own call: nobody else had a call in that connection.
LEMMA RelayedIsOwn ==
  ASSUME PathTyped, Held, NEW k \in Gate, serving[k].typ = "user", serving[k].called, NEW h, h = serving[k].peer
  PROVE  CallRead(h).ok => CallRead(h).value.req = serving[k].m.arg.req
<1> DEFINE c == conn[h]
           m == Head(c.in)
<1>1. k \in Conns /\ h \in Conns \ Gate /\ c.holder = k /\ IsConn(c)
  <2>1. k \in Conns /\ serving[k] # NoFrame
    BY GateIsConns DEF NoFrame
  <2>2. h \in Conns \ Gate
    BY <2>1 DEF PathTyped, ServingTyped
  <2>3. IsConn(c)
    BY <2>2, ConnsShape DEF PathTyped
  <2> QED
    BY <2>1, <2>2, <2>3 DEF Held, CallHolds
<1>2. SUFFICES ASSUME CallRead(h).ok PROVE CallRead(h).value.req = serving[k].m.arg.req
  OBVIOUS
<1>3. ~c.closed /\ c.in # <<>> /\ CallRead(h).value = m.value
  <2>1. CASE c.closed \/ c.in = <<>>
    <3>1. CallRead(h) = [ok |-> FALSE, lost |-> TRUE, value |-> NoValue]
      BY <2>1 DEF CallRead
    <3> QED
      BY <1>2, <3>1
  <2>2. CASE ~(c.closed \/ c.in = <<>>) /\ (m.seq # c.seq \/ m.typ # "reply")
    <3>1. CallRead(h) = [ok |-> FALSE, lost |-> m.seq # c.seq, value |-> NoValue]
      BY <2>2 DEF CallRead
    <3> QED
      BY <1>2, <3>1
  <2>3. CASE ~(c.closed \/ c.in = <<>>) /\ m.seq = c.seq /\ m.typ = "reply"
    <3>1. CallRead(h) = [ok |-> TRUE, lost |-> FALSE, value |-> m.value]
      BY <2>3 DEF CallRead
    <3> QED
      BY <2>3, <3>1
  <2> QED
    BY <2>1, <2>2, <2>3
<1>4. m \in Items(c.in)
  <2>1. Queue(c.in) /\ c.in # <<>>
    BY <1>1, <1>3 DEF IsConn
  <2> HIDE DEF c
  <2> QED
    BY <2>1, QueueTail
<1>5. OneCall(h)
  BY <1>1, <1>3 DEF Held, OneAtATime
<1>6. m.value.req = serving[k].m.arg.req
  BY <1>1, <1>4, <1>5 DEF OneCall
<1> QED
  BY <1>3, <1>6

LEMMA KeepsUserAnswers ==
  ASSUME PathTyped, PathTyped', Held, AnswersOwn, NEW who, NEW turn, Ledger(who, turn), UNCHANGED gwVars,
         NEW k \in DOMAIN conn, UserAnswers(k)
  PROVE  Keeps(who)
<1>s. PICK s : s = serving[k]
  OBVIOUS
<1>h. PICK h : h = s.peer
  OBVIOUS
<1>m. PICK m : m = s.m
  OBVIOUS
<1>y. PICK typ : typ = IF CallRead(h).ok THEN "reply" ELSE "exception"
  OBVIOUS
<1>v. PICK value : value = IF CallRead(h).ok THEN CallRead(h).value ELSE [req |-> m.arg.req]
  OBVIOUS
<1>1. /\ k \in Gate /\ k \in Conns /\ h \in Conns /\ h \notin Gate /\ ConnTyped /\ s.typ = "user" /\ s.called
  <2>1. k \in Conns /\ s # NoFrame /\ s.called /\ s.typ = "user"
    BY <1>s, ConnsShape DEF PathTyped, UserAnswers, NoFrame
  <2>2. k \in Gate /\ h \in Conns \ Gate
    BY <1>s, <1>h, <2>1 DEF PathTyped, ServingTyped
  <2> QED
    BY <2>1, <2>2 DEF PathTyped
<1>2. /\ conn' = Answered(AfterRead(h), k, typ, m.seq, value) /\ serving' = [serving EXCEPT ![k] = NoFrame]
      /\ made' = made /\ spans' = spans \cup Trace(k, m)
  BY <1>s, <1>h, <1>m, <1>y, <1>v DEF UserAnswers, storeVars
<1>3. /\ Conns' = Conns /\ Gate' = Gate
      /\ \A i \in Conns : i # k /\ i # h => conn'[i] = conn[i]
      /\ conn'[k].seq = conn[k].seq /\ conn'[k].out = conn[k].out /\ conn'[h].out = conn[h].out
      /\ conn'[k].in = IF conn[k].closed THEN conn[k].in ELSE Append(conn[k].in, Reply(typ, m.seq, value))
  <2>1. h # k
    BY <1>1
  <2> QED
    BY <1>1, <1>2, <2>1, Relays
<1>4. serving'[k] = NoFrame /\ \A i \in Conns : i # k => serving'[i] = serving[i]
  BY <1>1, <1>2, ServingShape DEF PathTyped
<1>5. OfCall(who, k, m) /\ m.method = "GetOrder"
  BY <1>s, <1>m, <1>1 DEF Ledger, Frames, GateFrames, HandledOwn
<1>6. value.req = m.arg.req
  <2>1. CallRead(h).ok => CallRead(h).value.req = m.arg.req
    BY <1>s, <1>h, <1>m, <1>1, RelayedIsOwn
  <2>2. CASE CallRead(h).ok
    BY <1>v, <2>1, <2>2
  <2>3. CASE ~CallRead(h).ok
    BY <1>v, <2>3
  <2> QED
    BY <2>2, <2>3
<1>7. Items(conn'[k].in) \subseteq Items(conn[k].in) \cup {Reply(typ, m.seq, value)}
  BY <1>1, <1>3, WrittenAnswer
<1>8. /\ \A i \in Gate : i # k => conn'[i] = conn[i]
      /\ \A i \in Conns \ Gate : conn'[i].out = conn[i].out
      /\ \A i \in Gate : serving'[i] \in {serving[i], NoFrame}
      /\ \A e \in made' : e \in made \/ MadeBy(who, e)
      /\ Items(conn'[k].out) \subseteq Items(conn[k].out)
      /\ conn'[k].seq = conn[k].seq /\ Conns' = Conns /\ Gate' = Gate
  BY <1>1, <1>2, <1>3, <1>4, GateIsConns
<1>9. spans' = spans \cup Trace(k, m) /\ k \in Gate /\ m.method \in {"CreateOrder", "GetOrder"}
  BY <1>1, <1>2, <1>5
<1> QED
  BY <1>5, <1>6, <1>7, <1>8, <1>9, GateAnswers

\* A call has a number of its own: a connection has not had more calls than there are requests, and there
\* are fewer of those than sequence numbers.
LEMMA NumberFree ==
  ASSUME PathTyped, NEW who, NEW turn, Used(who, turn), Once(who, turn), NEW k \in Gate, NEW p \in 1 .. Len(req),
         \A n \in 1 .. conn[k].seq : who[k][n] # p
  PROVE  (conn[k].seq + 1) % SeqLimit = conn[k].seq + 1 /\ conn[k].seq \in Nat
<1>0. PICK s : s = conn[k].seq
  OBVIOUS
<1>1. s \in Nat /\ Len(req) \in Nat /\ Len(req) <= MaxAsk /\ k \in Gate
  BY <1>0, GateSeq, QueueShape DEF PathTyped, ReqTyped
<1> DEFINE S == 1 .. s + 1
           T == 1 .. Len(req)
           f == [i \in S |-> IF i <= s THEN who[k][i] ELSE p]
<1>2. \A i \in S : i \in 1 .. s \/ i = s + 1
  BY <1>1
<1>3. f \in [S -> T]
  <2>1. \A i \in 1 .. s : who[k][i] \in T
    BY <1>0 DEF Used
  <2>2. \A i \in S : i <= s => i \in 1 .. s
    BY <1>1
  <2> QED
    BY <2>1, <2>2
<1>4. ASSUME NEW i \in S, NEW j \in S, f[i] = f[j] PROVE i = j
  <2>1. CASE i \in 1 .. s /\ j \in 1 .. s
    <3>1. who[k][i] = who[k][j]
      BY <1>1, <1>4, <2>1
    <3> QED
      BY <1>0, <2>1, <3>1 DEF Once
  <2>2. CASE i \in 1 .. s /\ j = s + 1
    <3>1. f[i] = who[k][i] /\ f[j] = p
      BY <1>1, <2>2
    <3> QED
      BY <1>0, <1>4, <2>2, <3>1
  <2>3. CASE i = s + 1 /\ j \in 1 .. s
    <3>1. f[j] = who[k][j] /\ f[i] = p
      BY <1>1, <2>3
    <3> QED
      BY <1>0, <1>4, <2>3, <3>1
  <2> QED
    BY <1>2, <2>1, <2>2, <2>3
<1>5. IsFiniteSet(S) /\ Cardinality(S) = s + 1 /\ IsFiniteSet(T) /\ Cardinality(T) = Len(req)
  <2>1. 1 \in Int /\ s + 1 \in Int /\ Len(req) \in Int
    BY <1>1
  <2>2. IsFiniteSet(S) /\ Cardinality(S) = IF 1 > s + 1 THEN 0 ELSE (s + 1) - 1 + 1
    BY <2>1, FS_Interval
  <2>3. IsFiniteSet(T) /\ Cardinality(T) = IF 1 > Len(req) THEN 0 ELSE Len(req) - 1 + 1
    BY <2>1, FS_Interval
  <2>4. (IF 1 > s + 1 THEN 0 ELSE (s + 1) - 1 + 1) = s + 1
    BY <1>1
  <2>5. (IF 1 > Len(req) THEN 0 ELSE Len(req) - 1 + 1) = Len(req)
    BY <1>1
  <2> QED
    BY <2>2, <2>3, <2>4, <2>5
<1>6. ~(Len(req) < s + 1)
  <2> HIDE DEF S, T, f
  <2> QED
    BY <1>3, <1>4, <1>5, FS_PigeonHole
<1>7. s + 1 < SeqLimit /\ SeqLimit \in Nat
  BY <1>1, <1>6, GatewayAssumption, RpcAssumption
<1>8. (s + 1) % SeqLimit = s + 1
  BY <1>1, <1>7
<1> QED
  BY <1>0, <1>1, <1>8

\* The entry of a call that is sent.
Enters(f, g, k, n, x) == g[k][n] = x /\ \A j, m \in Nat : j # k \/ m # n => g[j][m] = f[j][m]

LEMMA CanEnter ==
  ASSUME NEW S, NEW f \in Ledgers(S), NEW k \in Nat, NEW n \in Nat, NEW x \in S
  PROVE  \E g \in Ledgers(S) : Enters(f, g, k, n, x)
<1> DEFINE g == [f EXCEPT ![k] = [f[k] EXCEPT ![n] = x]]
<1>1. g \in Ledgers(S) /\ Enters(f, g, k, n, x)
  BY DEF Ledgers, Enters
<1> QED
  BY <1>1, Zenon

LEMMA LedgerCall ==
  ASSUME PathTyped, PathTyped', Held, AnswersOwn, PathLedger, NEW p \in DOMAIN req, Call(p)
  PROVE  PathLedger' /\ AnswersOwn'
<1>0. PICK who \in Ledgers(Nat), turn \in Ledgers({1, 2}) : Ledger(who, turn)
  BY DEF PathLedger
<1>k. PICK k : k = req[p].conn
  OBVIOUS
<1>n. PICK n : n = conn[k].seq + 1
  OBVIOUS
<1>r. PICK r : r = req[p]
  OBVIOUS
<1>v. PICK v : v = [r EXCEPT !.at = "wait"]
  OBVIOUS
<1>a. PICK arg : arg = ArgOf(p, r.b)
  OBVIOUS
<1>1. /\ DOMAIN req = 1 .. Len(req) /\ Len(req) \in Nat /\ p \in Nat /\ p \in 1 .. Len(req)
      /\ IsReq(r, Gate) /\ r.at = "call" /\ k \in Gate /\ k \in Conns /\ k \in Nat /\ conn[k].holder = Nobody
      /\ ConnTyped /\ ConnTyped' /\ ReqTyped /\ conn[k].seq \in Nat
  <2>1. DOMAIN req = 1 .. Len(req) /\ Len(req) \in Nat /\ ReqTyped /\ ConnTyped /\ ConnTyped'
    BY ReqsShape DEF PathTyped
  <2>2. p \in Nat /\ IsReq(r, Gate) /\ r.at = "call"
    BY <1>r, <2>1, ReqsShape DEF Call, Goes
  <2>3. k \in Gate
    BY <1>k, <1>r, <2>2 DEF IsReq
  <2>4. k \in Conns /\ k \in Nat /\ conn[k].seq \in Nat
    BY <2>1, <2>3, GateSeq
  <2> QED
    BY <1>k, <2>1, <2>2, <2>3, <2>4 DEF Call, CanCall
<1>2. \A m \in 1 .. conn[k].seq : who[k][m] # p
  BY <1>0, <1>k, <1>r, <1>1 DEF Ledger, Waiting
<1>3. (conn[k].seq + 1) % SeqLimit = n /\ n \in Nat /\ n # 0 /\ n \notin 1 .. conn[k].seq
  <2>1. (conn[k].seq + 1) % SeqLimit = conn[k].seq + 1
    BY <1>0, <1>1, <1>2, NumberFree DEF Ledger
  <2> QED
    BY <1>n, <1>1, <2>1
<1>4. v.at = "wait" /\ v.b = r.b /\ v.try = r.try /\ v.lost = r.lost /\ v.conn = k /\ r.try \in {1, 2}
  BY <1>k, <1>r, <1>v, <1>1 DEF IsReq
<1>5. conn' = CallWrite(p, k, r.b.method, arg, NoSpan) /\ req' = [req EXCEPT ![p] = v] /\ UNCHANGED <<serving, made, spans>>
  BY <1>k, <1>r, <1>v, <1>a DEF Call, To, orderVars
<1> DEFINE f == Frame(n, r.b.method, arg, NoSpan)
<1>6. /\ Conns' = Conns /\ Gate' = Gate
      /\ \A h \in Conns : h # k => conn'[h] = conn[h]
      /\ conn'[k].seq = n /\ conn'[k].in = conn[k].in
      /\ conn'[k].out = IF conn[k].closed \/ conn[k].gone THEN conn[k].out ELSE Append(conn[k].out, f)
  BY <1>1, <1>3, <1>5, Writes
<1>7. f.seq = n /\ f.method = r.b.method /\ f.hdr = NoSpan /\ f.arg.req = p
  <2>1. arg.req = p
    BY <1>a DEF ArgOf
  <2> QED
    BY <2>1 DEF Frame
<1> HIDE DEF f
<1>8. Len(req') = Len(req) /\ req'[p] = v /\ \A q \in 1 .. Len(req) : q # p => req'[q] = req[q]
  <2>0. DOMAIN req = 1 .. Len(req) /\ Len(req) \in Nat
    BY <1>1
  <2>1. DOMAIN req' = 1 .. Len(req') /\ Len(req') \in Nat
    BY QueueShape DEF PathTyped, ReqTyped
  <2>2. DOMAIN req' = DOMAIN req /\ req'[p] = v /\ \A q \in DOMAIN req : q # p => req'[q] = req[q]
    BY <1>5
  <2>3. Len(req') = Len(req)
    <3>i. PICK i : i = Len(req)
      OBVIOUS
    <3>j. PICK j : j = Len(req')
      OBVIOUS
    <3>1. DOMAIN req = 1 .. i /\ DOMAIN req' = 1 .. j /\ DOMAIN req' = DOMAIN req
      BY <2>0, <2>1, <2>2, <3>i, <3>j, Zenon
    <3>2. 1 .. j = 1 .. i
      BY <3>1, Zenon
    <3>3. i \in Nat /\ j \in Nat
      BY <2>0, <2>1, <3>i, <3>j, Zenon
    <3>4. i = j
      BY <3>2, <3>3
    <3> QED
      BY <3>i, <3>j, <3>4
  <2> QED
    BY <2>0, <2>2, <2>3
<1>w. PICK w2 \in Ledgers(Nat) : Enters(who, w2, k, n, p)
  <2>1. k \in Nat /\ n \in Nat /\ p \in Nat /\ who \in Ledgers(Nat)
    BY <1>0, <1>1, <1>3
  <2> QED
    BY <2>1, CanEnter
<1>t. PICK t2 \in Ledgers({1, 2}) : Enters(turn, t2, k, n, r.try)
  <2>1. k \in Nat /\ n \in Nat /\ r.try \in {1, 2} /\ turn \in Ledgers({1, 2})
    BY <1>0, <1>1, <1>3, <1>4
  <2> QED
    BY <2>1, CanEnter
<1>e. w2[k][n] = p /\ t2[k][n] = r.try
  BY <1>w, <1>t DEF Enters
  \* The entries there were.
<1>9. ASSUME NEW j \in Gate, NEW m \in 1 .. conn[j].seq
      PROVE  /\ m \in Nat /\ j \in Nat /\ (j # k \/ m # n)
             /\ w2[j][m] = who[j][m] /\ t2[j][m] = turn[j][m]
             /\ who[j][m] \in 1 .. Len(req) /\ turn[j][m] \in {1, 2}
             /\ j = k => who[j][m] # p
             /\ who[j][m] = p => turn[j][m] < r.try
  <2>1. j \in Nat /\ m \in Nat
    <3>1. j \in Nat /\ conn[j].seq \in Nat
      BY <1>1, GateSeq
    <3>2. m \in 1 .. conn[j].seq
      OBVIOUS
    <3> QED
      BY <3>1, <3>2
  <2>2. j # k \/ m # n
    BY <1>3, <1>9
  <2>3. w2[j][m] = who[j][m] /\ t2[j][m] = turn[j][m]
    BY <1>w, <1>t, <2>1, <2>2 DEF Enters
  <2>4. who[j][m] \in 1 .. Len(req) /\ turn[j][m] \in {1, 2}
    BY <1>0, <1>9, <2>1 DEF Ledger, Used, Ledgers
  <2>5. who[j][m] = p => turn[j][m] < r.try
    BY <1>0, <1>r, <1>1, <1>9 DEF Ledger, Used
  <2> QED
    BY <1>2, <1>9, <2>1, <2>2, <2>3, <2>4, <2>5
  \* The entries there are now.
<1>10. ASSUME NEW j \in Gate, NEW m \in 1 .. conn'[j].seq
       PROVE  (j = k /\ m = n) \/ m \in 1 .. conn[j].seq
  <2>1. CASE j = k
    BY <1>n, <1>1, <1>6, <1>10, <2>1
  <2>2. CASE j # k
    BY <1>6, <1>10, <2>2, GateIsConns
  <2> QED
    BY <2>1, <2>2
<1>11. Used(w2, t2)'
  <2>1. SUFFICES ASSUME NEW j \in Gate, NEW m \in 1 .. conn'[j].seq
                 PROVE  /\ w2[j][m] \in 1 .. Len(req')
                        /\ LET x == req'[w2[j][m]]
                           IN  /\ x.at = "done" \/ t2[j][m] < x.try \/ (t2[j][m] = x.try /\ x.at \in {"wait", "failed"})
                               /\ t2[j][m] = 2 /\ x.b.method = "CreateOrder" => x.lost
    BY <1>6 DEF Used
  <2>2. CASE j = k /\ m = n
    <3>1. w2[j][m] = p /\ t2[j][m] = r.try /\ req'[p] = v /\ p \in 1 .. Len(req')
      BY <1>1, <1>8, <1>e, <2>2
    <3>2. r.try = 2 /\ r.b.method = "CreateOrder" => r.lost
      BY <1>0, <1>r, <1>1 DEF Ledger, SecondTries
    <3> QED
      BY <1>4, <3>1, <3>2
  <2>3. CASE m \in 1 .. conn[j].seq
    <3>q. PICK q : q = who[j][m]
      OBVIOUS
    <3>1. w2[j][m] = q /\ t2[j][m] = turn[j][m] /\ q \in 1 .. Len(req) /\ (q = p => turn[j][m] < r.try)
      BY <1>9, <2>3, <3>q
    <3>2. /\ req[q].at = "done" \/ turn[j][m] < req[q].try \/ (turn[j][m] = req[q].try /\ req[q].at \in {"wait", "failed"})
          /\ turn[j][m] = 2 /\ req[q].b.method = "CreateOrder" => req[q].lost
      BY <1>0, <2>3, <3>q DEF Ledger, Used
    <3>3. CASE q = p
      BY <1>r, <1>4, <1>8, <3>1, <3>2, <3>3
    <3>4. CASE q # p
      BY <1>8, <3>1, <3>2, <3>4
    <3> QED
      BY <3>3, <3>4
  <2> QED
    BY <1>10, <2>2, <2>3
<1>12. ASSUME NEW j \in Gate, NEW h \in Gate, NEW m \in 1 .. conn'[j].seq, NEW l \in 1 .. conn'[h].seq, w2[j][m] = w2[h][l]
       PROVE  /\ t2[j][m] = t2[h][l] => j = h /\ m = l
              /\ j = h => m = l
  <2>1. CASE j = k /\ m = n /\ h = k /\ l = n
    BY <2>1
  <2>2. CASE j = k /\ m = n /\ l \in 1 .. conn[h].seq
    <3>1. w2[j][m] = p /\ t2[j][m] = r.try
      BY <1>e, <2>2
    <3>2. w2[h][l] = who[h][l] /\ t2[h][l] = turn[h][l] /\ (h = k => who[h][l] # p) /\ (who[h][l] = p => turn[h][l] < r.try)
          /\ turn[h][l] \in {1, 2}
      BY <1>9, <2>2
    <3> QED
      BY <1>4, <1>12, <2>2, <3>1, <3>2
  <2>3. CASE h = k /\ l = n /\ m \in 1 .. conn[j].seq
    <3>1. w2[h][l] = p /\ t2[h][l] = r.try
      BY <1>e, <2>3
    <3>2. w2[j][m] = who[j][m] /\ t2[j][m] = turn[j][m] /\ (j = k => who[j][m] # p) /\ (who[j][m] = p => turn[j][m] < r.try)
          /\ turn[j][m] \in {1, 2}
      BY <1>9, <2>3
    <3> QED
      BY <1>4, <1>12, <2>3, <3>1, <3>2
  <2>4. CASE m \in 1 .. conn[j].seq /\ l \in 1 .. conn[h].seq
    <3>1. w2[j][m] = who[j][m] /\ t2[j][m] = turn[j][m] /\ w2[h][l] = who[h][l] /\ t2[h][l] = turn[h][l]
      BY <1>9, <2>4
    <3>2. who[j][m] = who[h][l]
      BY <1>12, <3>1
    <3>3. /\ turn[j][m] = turn[h][l] => j = h /\ m = l
          /\ j = h => m = l
      BY <1>0, <2>4, <3>2 DEF Ledger, Once
    <3> QED
      BY <3>1, <3>3
  <2> QED
    BY <1>10, <2>1, <2>2, <2>3, <2>4
<1>13. Once(w2, t2)'
  BY <1>6, <1>12 DEF Once
<1>14. ASSUME NEW q \in 1 .. Len(req')
       PROVE  /\ req'[q].at = "wait" => /\ conn'[req'[q].conn].seq # 0
                                        /\ w2[req'[q].conn][conn'[req'[q].conn].seq] = q
              /\ req'[q].at \in {"call", "close"} => \A m \in 1 .. conn'[req'[q].conn].seq : w2[req'[q].conn][m] # q
  <2>1. CASE q = p
    BY <1>3, <1>4, <1>6, <1>8, <1>e, <2>1
  <2>2. CASE q # p
    <3>c. PICK c : c = req[q].conn
      OBVIOUS
    <3>1. q \in 1 .. Len(req) /\ q \in Nat /\ req'[q] = req[q] /\ IsReq(req[q], Gate)
      BY <1>1, <1>8, <1>14, <2>2 DEF ReqTyped
    <3>2. ASSUME req[q].at = "wait" PROVE conn'[c].seq # 0 /\ w2[c][conn'[c].seq] = q
      <4>1. c \in Gate /\ c \in Conns /\ conn[c].holder = q /\ conn[c].seq # 0 /\ who[c][conn[c].seq] = q /\ conn[c].seq \in Nat
        BY <1>0, <1>1, <3>c, <3>1, <3>2, GateSeq DEF IsReq, Held, WaitHolds, Ledger, Waiting
      <4>2. c # k
        BY <1>1, <3>1, <4>1, RpcAssumption
      <4>3. conn'[c] = conn[c] /\ conn[c].seq \in 1 .. conn[c].seq
        BY <1>6, <4>1, <4>2
      <4> QED
        BY <1>9, <4>1, <4>3
    <3>3. ASSUME req[q].at \in {"call", "close"}, NEW m \in 1 .. conn'[c].seq PROVE w2[c][m] # q
      <4>1. c \in Gate /\ \A l \in 1 .. conn[c].seq : who[c][l] # q
        BY <1>0, <3>c, <3>1, <3>3 DEF IsReq, Ledger, Waiting
      <4>2. CASE c = k /\ m = n
        BY <1>e, <2>2, <4>2
      <4>3. CASE m \in 1 .. conn[c].seq
        BY <1>9, <4>1, <4>3
      <4> QED
        BY <1>10, <3>3, <4>1, <4>2, <4>3
    <3> QED
      BY <3>c, <3>1, <3>2, <3>3
  <2> QED
    BY <2>1, <2>2
<1>15. Waiting(w2)'
  BY <1>14 DEF Waiting
<1>16. SecondTries'
  <2>1. SUFFICES ASSUME NEW q \in 1 .. Len(req'), req'[q].b.method = "CreateOrder",
                        req'[q].at = "failed" \/ (req'[q].at \in {"call", "wait", "close"} /\ req'[q].try = 2)
                 PROVE  req'[q].lost
    BY DEF SecondTries
  <2>2. CASE q = p
    BY <1>0, <1>r, <1>1, <1>4, <1>8, <2>1, <2>2 DEF Ledger, SecondTries
  <2>3. CASE q # p
    BY <1>0, <1>8, <2>1, <2>3 DEF Ledger, SecondTries
  <2> QED
    BY <2>2, <2>3
<1>17. Grows(who, w2)
  <2>1. ASSUME NEW j \in Gate PROVE conn[j].seq <= conn'[j].seq /\ \A m \in 1 .. conn[j].seq : w2[j][m] = who[j][m]
    <3>1. CASE j = k
      BY <1>n, <1>1, <1>6, <1>9, <3>1
    <3>2. CASE j # k
      <4>1. conn'[j] = conn[j] /\ conn[j].seq \in Nat
        BY <1>1, <1>6, <3>2, GateSeq
      <4> QED
        BY <1>9, <4>1
    <3> QED
      BY <3>1, <3>2
  <2>2. \A q \in 1 .. Len(req) : req'[q].b.method = req[q].b.method
    BY <1>r, <1>4, <1>8
  <2>3. Len(req) <= Len(req')
    BY <1>1, <1>8
  <2> QED
    BY <1>6, <2>1, <2>2, <2>3 DEF Grows
<1>18. OfCall(w2, k, f)'
  <2>1. n \in 1 .. conn'[k].seq
    BY <1>3, <1>6
  <2>2. req'[p].b.method = f.method
    BY <1>4, <1>7, <1>8
  <2> QED
    BY <1>7, <1>e, <2>1, <2>2 DEF OfCall
<1>19. Frames(w2)'
  <2>1. ASSUME NEW j \in Gate', NEW m \in Items(conn'[j].out) PROVE (j \in Gate /\ m \in Items(conn[j].out)) \/ OfCall(w2, j, m)'
    <3>1. j \in Gate /\ j \in Conns
      BY <1>6, GateIsConns
    <3>2. CASE j = k
      <4>1. Queue(conn[k].out)
        BY <1>1, ConnsShape DEF IsConn
      <4>2. Items(Append(conn[k].out, f)) = Items(conn[k].out) \cup {f}
        BY <4>1, QueueAppend
      <4>3. m \in Items(conn[k].out) \/ m = f
        BY <1>6, <2>1, <3>2, <4>2
      <4> QED
        BY <1>18, <3>1, <3>2, <4>3
    <3>3. CASE j # k
      BY <1>6, <2>1, <3>1, <3>3
    <3> QED
      BY <3>2, <3>3
  <2>2. ASSUME NEW j \in Gate' PROVE j \in Gate /\ conn'[j].in = conn[j].in /\ serving'[j] = serving[j]
    BY <1>5, <1>6, GateIsConns
  <2>3. ASSUME NEW j \in Conns' \ Gate' PROVE j \in Conns \ Gate /\ conn'[j] = conn[j]
    BY <1>1, <1>6
  <2>4. Used(who, turn) /\ Frames(who) /\ ConnTyped /\ ConnTyped' /\ ReqTyped /\ made' = made /\ spans' = spans
    BY <1>0, <1>1, <1>5 DEF Ledger
  <2> QED
    BY <1>17, <2>1, <2>2, <2>3, <2>4, FramesKept
<1>20. AnswersOwn'
  BY <1>4, <1>8 DEF AnswersOwn
<1>21. Ledger(w2, t2)'
  BY <1>11, <1>13, <1>15, <1>16, <1>19 DEF Ledger
<1> QED
  BY <1>20, <1>21 DEF PathLedger

-----------------------------------------------------------------------------
(* The invariant, from the start and by every step. *)

LEMMA HeldInit ==
  ASSUME PathInit
  PROVE  Held
<1>1. /\ PathTyped /\ req = <<>>
      /\ \A k \in Conns : conn[k].out = <<>> /\ conn[k].in = <<>> /\ serving[k] = NoFrame
  BY TypedInit
<1>2. OneAtATime
  <2>1. ASSUME NEW h \in Conns \ Gate PROVE Busy(conn[h]) = 0 /\ Items(conn[h].out) = {} /\ Items(conn[h].in) = {}
    <3>1. IsConn(conn[h])
      BY <1>1, ConnsShape DEF PathTyped
    <3> QED
      BY <1>1, <3>1, BusyNat
  <2> QED
    BY <2>1 DEF OneAtATime, OneCall
<1>3. CallHolds
  BY <1>1, GateIsConns DEF CallHolds, NoFrame
<1>4. WaitHolds
  BY <1>1, QueueNil DEF WaitHolds
<1> QED
  BY <1>2, <1>3, <1>4 DEF Held

LEMMA LedgerInit ==
  ASSUME PathInit
  PROVE  PathLedger /\ AnswersOwn
<1> DEFINE who == [k \in Nat |-> [n \in Nat |-> 0]]
           turn == [k \in Nat |-> [n \in Nat |-> 1]]
<1>1. /\ PathTyped /\ 1 .. Len(req) = {} /\ made = {} /\ spans = {}
      /\ \A k \in Conns : Items(conn[k].out) = {} /\ Items(conn[k].in) = {} /\ 1 .. conn[k].seq = {} /\ serving[k] = NoFrame
  <2>1. 1 .. 0 = {}
    OBVIOUS
  <2>2. made = {} /\ spans = {}
    BY DEF PathInit, OrderInit
  <2> QED
    BY <2>1, <2>2, TypedInit, QueueNil
<1>2. who \in Ledgers(Nat) /\ turn \in Ledgers({1, 2})
  BY DEF Ledgers
<1> HIDE DEF who, turn
<1>3. Used(who, turn) /\ Once(who, turn) /\ Waiting(who) /\ SecondTries /\ AnswersOwn
  BY <1>1, GateIsConns DEF Used, Once, Waiting, SecondTries, AnswersOwn
<1>4. Frames(who)
  <2>1. NoFrame.typ # "user"
    BY DEF NoFrame
  <2>2. GateFrames(who)
    BY <1>1, <2>1, GateIsConns DEF GateFrames, HandledOwn
  <2>3. UserFrames(who)
    BY <1>1 DEF UserFrames
  <2>4. MadeOwn(who) /\ SpansOwn(who)
    BY <1>1 DEF MadeOwn, SpansOwn
  <2> QED
    BY <2>2, <2>3, <2>4 DEF Frames
<1> QED
  BY <1>2, <1>3, <1>4 DEF PathLedger, Ledger

LEMMA IdleSteps ==
  ASSUME NEW a, announce(a) \/ Expire(a) \/ StartUser(a) \/ waitAndWatch \/ GivesUp \/ StartOrder
  PROVE  UNCHANGED <<conn, serving, made, spans>>
BY DEF announce, Expire, StartUser, waitAndWatch, GivesUp, StartOrder, rpcVars, storeVars

LEMMA HeldNext ==
  ASSUME PathTyped, PathTyped', Held, PathNext
  PROVE  Held'
<1>1. CASE \E b \in Bodies : handle(b)
  <2> DEFINE program == FALSE
  <2>1. PICK b \in Bodies : Asks(program, b, clis)
    BY <1>1 DEF handle
  <2>2. b.method \in {"bad", "GetOrder", "CreateOrder"} /\ clis \in Gate
    BY MethodOfBody DEF PathTyped, ReqTyped
  <2> HIDE DEF program
  <2> QED
    BY <2>1, <2>2, HeldAsks
<1>2. CASE direct
  <2> DEFINE b == [method |-> "GetOrder", id |-> FirstOrder]
             program == TRUE
  <2>1. b.method \in {"bad", "GetOrder", "CreateOrder"} /\ Asks(program, b, dcli) /\ dcli \in Gate
    BY <1>2 DEF direct, PathTyped, ReqTyped
  <2> HIDE DEF b, program
  <2> QED
    BY <2>1, HeldAsks
<1>3. ASSUME NEW p \in DOMAIN req, Call(p) \/ Answer(p) \/ Timeout(p) \/ redial(p) \/ redialFails(p) \/ closeOld(p)
      PROVE  Held'
  BY <1>3, HeldCall, HeldAnswer, HeldTimeout, HeldRedial, HeldRedialFails, HeldCloseOld
<1>4. CASE OrderNext /\ UNCHANGED gwVars
  <2>0. UNCHANGED gwVars /\ req' = req
    BY <1>4 DEF gwVars
  <2>1. CASE Instances
    <3>1. PICK a \in UserAddrs : announce(a) \/ Expire(a) \/ StartUser(a) \/ UserDies(a)
      BY <2>1 DEF Instances
    <3>2. CASE UserDies(a)
      BY <2>0, <3>2, HeldUserDies
    <3>3. CASE announce(a) \/ Expire(a) \/ StartUser(a)
      BY <2>0, <3>3, IdleSteps, HeldIdle
    <3> QED
      BY <3>1, <3>2, <3>3
  <2>2. CASE waitAndWatch \/ GivesUp \/ StartOrder
    BY <2>0, <2>2, IdleSteps, HeldIdle
  <2>3. CASE applyAddrs \/ DropPeers \/ OrderDies
    BY <2>0, <2>3, HeldApplyAddrs, HeldDropPeers, HeldOrderDies
  <2>4. CASE Handlers
    <3>1. PICK k \in DOMAIN conn : GetUser(k) \/ CreateOrder(k) \/ GetOrder(k) \/ CallUser(k) \/ UserAnswers(k)
      BY <2>4 DEF Handlers
    <3> QED
      BY <2>0, <3>1, HeldGetUser, HeldCreateOrder, HeldGetOrder, HeldCallUser, HeldUserAnswers
  <2> QED
    BY <1>4, <2>1, <2>2, <2>3, <2>4 DEF OrderNext, Watching
<1> QED
  BY <1>1, <1>2, <1>3, <1>4 DEF PathNext, GatewayNext

\* Every step but that of a call that is sent keeps the ledger as it is.
LEMMA KeepsNext ==
  ASSUME PathTyped, PathTyped', Held, AnswersOwn, NEW who, NEW turn, Ledger(who, turn), PathNext
  PROVE  Keeps(who) \/ \E p \in DOMAIN req : Call(p)
<1>1. CASE \E b \in Bodies : handle(b)
  <2> DEFINE program == FALSE
  <2>1. PICK b \in Bodies : Asks(program, b, clis)
    BY <1>1 DEF handle
  <2>2. clis \in Gate
    BY DEF PathTyped, ReqTyped
  <2> HIDE DEF program
  <2> QED
    BY <2>1, <2>2, KeepsAsks
<1>2. CASE direct
  <2> DEFINE b == [method |-> "GetOrder", id |-> FirstOrder]
             program == TRUE
  <2>1. Asks(program, b, dcli) /\ dcli \in Gate
    BY <1>2 DEF direct, PathTyped, ReqTyped
  <2> HIDE DEF b, program
  <2> QED
    BY <2>1, KeepsAsks
<1>3. ASSUME NEW p \in DOMAIN req, Answer(p) \/ Timeout(p) \/ redial(p) \/ redialFails(p) \/ closeOld(p)
      PROVE  Keeps(who)
  BY <1>3, KeepsAnswer, KeepsTimeout, KeepsRedial, KeepsRedialFails, KeepsCloseOld
<1>4. CASE OrderNext /\ UNCHANGED gwVars
  <2>0. UNCHANGED gwVars
    BY <1>4
  <2>1. CASE Instances
    <3>1. PICK a \in UserAddrs : announce(a) \/ Expire(a) \/ StartUser(a) \/ UserDies(a)
      BY <2>1 DEF Instances
    <3>2. CASE UserDies(a)
      <4> DEFINE mine == {}
      <4>1. Die(a, mine) /\ UNCHANGED <<made, spans>>
        BY <3>2 DEF UserDies, orderVars
      <4> HIDE DEF mine
      <4> QED
        BY <2>0, <4>1, KeepsDeath
    <3>3. CASE announce(a) \/ Expire(a) \/ StartUser(a)
      BY <2>0, <3>3, IdleSteps, KeepsIdle
    <3> QED
      BY <3>1, <3>2, <3>3
  <2>2. CASE waitAndWatch \/ GivesUp \/ StartOrder
    BY <2>0, <2>2, IdleSteps, KeepsIdle
  <2>3. CASE applyAddrs \/ DropPeers
    BY <2>0, <2>3, KeepsApplyAddrs, KeepsDropPeers
  <2>4. CASE OrderDies
    <3> DEFINE mine == {k \in DOMAIN conn : AddrOf(k) \in UserAddrs}
    <3>1. Die(OrderAddr, mine) /\ UNCHANGED <<made, spans>>
      BY <2>4 DEF OrderDies
    <3> HIDE DEF mine
    <3> QED
      BY <2>0, <3>1, KeepsDeath
  <2>5. CASE Handlers
    <3>1. PICK k \in DOMAIN conn : GetUser(k) \/ CreateOrder(k) \/ GetOrder(k) \/ CallUser(k) \/ UserAnswers(k)
      BY <2>5 DEF Handlers
    <3> QED
      BY <2>0, <3>1, KeepsGetUser, KeepsCreateOrder, KeepsGetOrder, KeepsCallUser, KeepsUserAnswers
  <2> QED
    BY <1>4, <2>1, <2>2, <2>3, <2>4, <2>5 DEF OrderNext, Watching
<1> QED
  BY <1>1, <1>2, <1>3, <1>4 DEF PathNext, GatewayNext

LEMMA InvNext ==
  ASSUME PathInv, PathNext
  PROVE  PathInv'
<1>1. PathTyped /\ Held /\ AnswersOwn /\ PathLedger /\ PathTyped'
  BY TypedNext DEF PathInv
<1>2. Held'
  BY <1>1, HeldNext
<1>3. CASE \E p \in DOMAIN req : Call(p)
  BY <1>1, <1>2, <1>3, LedgerCall DEF PathInv
<1>4. CASE ~\E p \in DOMAIN req : Call(p)
  <2>1. PICK who \in Ledgers(Nat), turn \in Ledgers({1, 2}) : Ledger(who, turn)
    BY <1>1 DEF PathLedger
  <2>2. Keeps(who)
    BY <1>1, <1>4, <2>1, KeepsNext
  <2>3. Ledger(who, turn)'
    BY <1>1, <2>1, <2>2, LedgerKept DEF Keeps
  <2>4. PathLedger'
    BY <2>1, <2>3 DEF PathLedger
  <2> QED
    BY <1>1, <1>2, <2>2, <2>4 DEF PathInv, Keeps
<1> QED
  BY <1>3, <1>4

LEMMA InvStutters ==
  ASSUME PathInv, UNCHANGED pathVars
  PROVE  PathInv'
<1>1. PathTyped /\ Held /\ AnswersOwn /\ PathLedger /\ UNCHANGED gwVars /\ UNCHANGED <<conn, serving, made, spans, req>>
  BY DEF PathInv, pathVars, rpcVars, orderVars, gwVars
<1>2. PathTyped' /\ Held'
  BY <1>1, TypedStutters, HeldIdle
<1>3. PICK who \in Ledgers(Nat), turn \in Ledgers({1, 2}) : Ledger(who, turn)
  BY <1>1 DEF PathLedger
<1>4. Keeps(who)
  BY <1>1, KeepsIdle
<1>5. Ledger(who, turn)'
  BY <1>1, <1>2, <1>3, <1>4, LedgerKept DEF Keeps
<1>6. PathLedger'
  BY <1>3, <1>5 DEF PathLedger
<1> QED
  BY <1>2, <1>4, <1>6 DEF PathInv, Keeps

\* The calls are accounted for in every state.
LEMMA InvHolds == PathSpec => []PathInv
<1>1. PathInit => PathInv
  BY TypedInit, HeldInit, LedgerInit DEF PathInv
<1>2. PathInv /\ [PathNext]_pathVars => PathInv'
  BY InvNext, InvStutters
<1> QED
  BY <1>1, <1>2, PTL DEF PathSpec

-----------------------------------------------------------------------------
(* What the runs check. *)

\* Whoever gets an answer gets the one to its own call: Client.Call compares the number of the answer with
\* that of the call, and a number is not used again as long as the connection has had fewer calls than there
\* are numbers (MaxAsk < SeqLimit).
THEOREM AnswersAreOwn == PathSpec => []AnswerIsOwn
<1>1. PathInv => AnswerIsOwn
  BY ReqsShape DEF PathInv, PathTyped, AnswersOwn, AnswerIsOwn, Done
<1> QED
  BY <1>1, InvHolds, PTL

\* The span of a GetUser hangs below that of the GetOrder that caused it, in its trace: outgoingHdr sends the
\* span of the call that is handled, and no other call has that span.
THEOREM TracesFollow == PathSpec => []TraceFollows
<1>1. ASSUME PathInv, NEW s \in spans, s.method = "GetUser"
      PROVE  /\ s.span.parent # NoSpan
             /\ \A o \in spans : o.span.span = s.span.parent => o.span.trace = s.span.trace /\ o.req = s.req
  <2>1. PICK who \in Ledgers(Nat), turn \in Ledgers({1, 2}) : Ledger(who, turn)
    BY <1>1 DEF PathInv, PathLedger
  <2>2. \A o \in spans : SpanOwn(who, o)
    BY <2>1 DEF Ledger, Frames, SpansOwn
  <2> DEFINE hdr == [trace |-> s.span.trace, span |-> s.span.parent]
  <2>3. Below(who, hdr, s.req)
    BY <1>1, <2>2 DEF SpanOwn
  <2>4. PICK k \in Gate : \E n \in 1 .. conn[k].seq : hdr = [trace |-> <<k, n>>, span |-> <<k, n>>] /\ s.req = who[k][n]
    BY <2>3 DEF Below
  <2>5. PICK n \in 1 .. conn[k].seq : hdr = [trace |-> <<k, n>>, span |-> <<k, n>>] /\ s.req = who[k][n]
    BY <2>4
  <2>6. s.span.trace = <<k, n>> /\ s.span.parent = <<k, n>>
    BY <2>5
  <2> HIDE DEF hdr
  <2>7. s.span.parent # NoSpan
    BY <2>6 DEF NoSpan
  <2>8. ASSUME NEW o \in spans, o.span.span = <<k, n>> PROVE o.span.trace = <<k, n>> /\ o.req = who[k][n]
    <3>1. o.span.span[1] = k /\ o.span.span[2] = n
      BY <2>8
    <3>2. o.method # "GetUser"
      BY <2>2, <3>1 DEF SpanOwn
    <3> QED
      BY <2>2, <3>1, <3>2 DEF SpanOwn
  <2> QED
    BY <2>5, <2>6, <2>7, <2>8
<1>2. PathInv => TraceFollows
  BY <1>1 DEF TraceFollows
<1> QED
  BY <1>2, InvHolds, PTL

\* No more elements than there are names for them.
LEMMA NoMoreThanNames ==
  ASSUME NEW S, NEW T, IsFiniteSet(T), NEW f \in [S -> T], \A x, y \in S : f[x] = f[y] => x = y
  PROVE  Cardinality(S) <= Cardinality(T)
<1> DEFINE R == {f[x] : x \in S}
           g == [y \in R |-> CHOOSE x \in S : f[x] = y]
<1>1. IsFiniteSet(R) /\ Cardinality(R) <= Cardinality(T) /\ Cardinality(R) \in Nat /\ Cardinality(T) \in Nat
  <2>1. R \subseteq T
    OBVIOUS
  <2> HIDE DEF R
  <2> QED
    BY <2>1, FS_Subset, FS_CardinalityType
<1>2. \A x \in S : f[x] \in R /\ g[f[x]] = x
  OBVIOUS
<1>3. g \in [R -> S]
  OBVIOUS
<1>4. g \in Surjection(R, S)
  <2> HIDE DEF g, R
  <2> QED
    BY <1>2, <1>3 DEF Surjection
<1>5. IsFiniteSet(S) /\ Cardinality(S) <= Cardinality(R)
  <2> HIDE DEF g, R
  <2> QED
    BY <1>1, <1>4, FS_Surjection
<1>6. Cardinality(S) \in Nat
  BY <1>5, FS_CardinalityType
<1> QED
  BY <1>1, <1>5, <1>6

\* An order is made at most twice for a request, once in each try, and a second time only if the first call
\* ended without an answer.
THEOREM MadeOnce == PathSpec => []MadeTwiceOnlyIfLost
<1>1. ASSUME PathInv, NEW p \in DOMAIN req
      PROVE  Cardinality({m \in made : m[1] = p}) <= IF req[p].lost THEN 2 ELSE 1
  <2>1. PICK who \in Ledgers(Nat), turn \in Ledgers({1, 2}) : Ledger(who, turn)
    BY <1>1 DEF PathInv, PathLedger
  <2> DEFINE S == {m \in made : m[1] = p}
             f == [m \in S |-> turn[m[2]][m[3]]]
  <2>2. ASSUME NEW m \in S
        PROVE  /\ m = <<p, m[2], m[3]>> /\ m[2] \in Gate /\ m[3] \in 1 .. conn[m[2]].seq
               /\ who[m[2]][m[3]] = p /\ req[p].b.method = "CreateOrder"
    BY <2>1 DEF Ledger, Frames, MadeOwn, MadeBy
  <2>3. ASSUME NEW m \in S PROVE f[m] \in {1, 2} /\ (f[m] = 2 => req[p].lost)
    <3>k. PICK k : k = m[2]
      OBVIOUS
    <3>n. PICK n : n = m[3]
      OBVIOUS
    <3>1. k \in Gate /\ n \in 1 .. conn[k].seq /\ who[k][n] = p /\ req[p].b.method = "CreateOrder" /\ f[m] = turn[k][n]
      BY <2>2, <3>k, <3>n
    <3>2. k \in Nat /\ n \in Nat
      BY <1>1, <3>1, GateSeq DEF PathInv, PathTyped
    <3>3. turn[k][n] \in {1, 2}
      BY <2>1, <3>2 DEF Ledgers
    <3>4. turn[k][n] = 2 => req[p].lost
      BY <2>1, <3>1 DEF Ledger, Used
    <3> QED
      BY <3>1, <3>3, <3>4
  <2>4. ASSUME NEW m \in S, NEW e \in S, f[m] = f[e] PROVE m = e
    <3>1. /\ m = <<p, m[2], m[3]>> /\ m[2] \in Gate /\ m[3] \in 1 .. conn[m[2]].seq /\ who[m[2]][m[3]] = p
          /\ e = <<p, e[2], e[3]>> /\ e[2] \in Gate /\ e[3] \in 1 .. conn[e[2]].seq /\ who[e[2]][e[3]] = p
          /\ turn[m[2]][m[3]] = turn[e[2]][e[3]]
      BY <2>2, <2>4
    <3>2. m[2] = e[2] /\ m[3] = e[3]
      BY <2>1, <3>1 DEF Ledger, Once
    <3> QED
      BY <3>1, <3>2
  <2>5. IsFiniteSet({1, 2}) /\ Cardinality({1, 2}) = 2 /\ IsFiniteSet({1}) /\ Cardinality({1}) = 1
    <3>1. IsFiniteSet({1}) /\ Cardinality({1}) = 1
      BY FS_Singleton
    <3>2. IsFiniteSet({1} \cup {2}) /\ Cardinality({1} \cup {2}) = 2
      BY <3>1, FS_AddElement
    <3>3. {1} \cup {2} = {1, 2}
      OBVIOUS
    <3> QED
      BY <3>1, <3>2, <3>3
  <2>6. f = [m \in S |-> f[m]] /\ \A x, y \in S : f[x] = f[y] => x = y
    BY <2>4
  <2> DEFINE T == {1, 2}
             U == {1}
  <2>7. f \in [S -> T]
    BY <2>3
  <2>8. ~req[p].lost => f \in [S -> U]
    BY <2>3
  <2>9. IsFiniteSet(T) /\ Cardinality(T) = 2 /\ IsFiniteSet(U) /\ Cardinality(U) = 1
    BY <2>5
  <2> HIDE DEF f, S, T, U
  <2>10. CASE req[p].lost
    <3>1. Cardinality(S) <= Cardinality(T)
      BY <2>6, <2>7, <2>9, NoMoreThanNames
    <3> QED
      BY <2>9, <2>10, <3>1 DEF S
  <2>11. CASE ~req[p].lost
    <3>1. Cardinality(S) <= Cardinality(U)
      BY <2>6, <2>8, <2>9, <2>11, NoMoreThanNames
    <3> QED
      BY <2>9, <2>11, <3>1 DEF S
  <2> QED
    BY <2>10, <2>11
<1>2. PathInv => MadeTwiceOnlyIfLost
  BY <1>1 DEF MadeTwiceOnlyIfLost
<1> QED
  BY <1>2, InvHolds, PTL
=============================================================================
