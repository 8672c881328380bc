-------------------------------- MODULE Rpc --------------------------------
(***************************************************************************)
(* The RPC runtime (runtime/client.go, server.go, frame.go, trace.go): a   *)
(* client is one TCP connection under a mutex, a call is a frame written   *)
(* and a frame read, and the server answers the calls of a connection one  *)
(* after the other.  A frame arrives whole and in order or not at all.     *)
(*                                                                         *)
(* A process is whoever calls: a request of the gateway, or the goroutine  *)
(* of a server that handles the call of a connection (the connection's     *)
(* number).  A span is named by the connection and the number of the call  *)
(* it is for, which no other call has; the code draws it at random.        *)
(***************************************************************************)
EXTENDS Integers, Sequences

CONSTANTS
    Nobody,        \* no process, no connection
    SeqLimit,      \* 2^32: seq is a uint32
    MaxConn,       \* bound: connections
    MaxDown        \* bound: servers that die

ASSUME RpcAssumption ==
    Nobody \notin Nat /\ SeqLimit \in Nat \ {0} /\ MaxConn \in Nat /\ MaxDown \in Nat

VARIABLES
    conn,    \* the connections, in the order they were dialled
    up,      \* the addresses where a server listens
    serving, \* per connection: the frame its server handles, or NoFrame
    downs

rpcVars == <<conn, up, serving, downs>>

NoFrame == [typ |-> "none"]
NoSpan  == <<>>
NoValue == [req |-> Nobody]

(* A call, and the span of the caller if it has one. *)
Frame(seq, method, arg, hdr) == [typ |-> "call", seq |-> seq, method |-> method, arg |-> arg, hdr |-> hdr]

NewConn(addr) == [addr |-> addr, closed |-> FALSE, gone |-> FALSE, seq |-> 0, holder |-> Nobody,
                  out |-> <<>>, in |-> <<>>]

(* The connections there are at the start. *)
RpcInit(addrs) ==
    /\ conn = [i \in DOMAIN addrs |-> NewConn(addrs[i])]
    /\ serving = [i \in DOMAIN addrs |-> NoFrame]
    /\ downs = 0

(* net.Dial, to a server that listens. *)
Dial(addr) ==
    /\ Len(conn) < MaxConn
    /\ addr \in up
    /\ conn' = Append(conn, NewConn(addr))
    /\ serving' = Append(serving, NoFrame)

Closed(cs, ks) == [k \in DOMAIN cs |-> IF k \in ks THEN [cs[k] EXCEPT !.closed = TRUE, !.in = <<>>] ELSE cs[k]]

-----------------------------------------------------------------------------
(* Client.Call as operators on the connection.  It locks, numbers the call *)
(* and writes ...                                                          *)
CanCall(k) == conn[k].holder = Nobody

CallWrite(p, k, method, arg, hdr) ==
    LET c == conn[k]
        seq == (c.seq + 1) % SeqLimit
    IN  [conn EXCEPT ![k] =
            [c EXCEPT !.seq = seq,
                      !.holder = p,
                      !.out = IF c.closed \/ c.gone THEN @ ELSE Append(@, Frame(seq, method, arg, hdr))]]

CallReadUnchecked(k) ==
    LET c == conn[k] IN
    IF c.closed \/ c.in = <<>> THEN [ok |-> FALSE, lost |-> TRUE, value |-> NoValue]
    ELSE LET m == Head(c.in) IN
         IF m.typ # "reply" THEN [ok |-> FALSE, lost |-> FALSE, value |-> NoValue]
         ELSE [ok |-> TRUE, lost |-> FALSE, value |-> m.value]

(* ... reads the next frame, which must have the call's number ... *)
CallRead(k) ==
    LET c == conn[k] IN
    IF c.closed \/ c.in = <<>> THEN [ok |-> FALSE, lost |-> TRUE, value |-> NoValue]
    ELSE LET m == Head(c.in) IN
         IF m.seq # c.seq \/ m.typ # "reply" THEN [ok |-> FALSE, lost |-> m.seq # c.seq, value |-> NoValue]
         ELSE [ok |-> TRUE, lost |-> FALSE, value |-> m.value]

(* ... and fails without one when the connection ends or the deadline,     *)
(* if the caller has one, is over.  The connection stays as it is.         *)
CanRead(k, deadline) ==
    LET c == conn[k] IN c.closed \/ c.in # <<>> \/ c.gone \/ deadline

Rest(c) == IF c.closed \/ c.in = <<>> THEN c.in ELSE Tail(c.in)

AfterReadLocked(k) ==
    LET c == conn[k]
    IN  [conn EXCEPT ![k] = [c EXCEPT !.holder = IF c.closed \/ c.in = <<>> THEN @ ELSE Nobody, !.in = Rest(c)]]

AfterRead(k) == LET c == conn[k] IN [conn EXCEPT ![k] = [c EXCEPT !.holder = Nobody, !.in = Rest(c)]]

(* The deadline passes although an answer may be on its way. *)
AfterTimeout(k) == [conn EXCEPT ![k].holder = Nobody]

-----------------------------------------------------------------------------
(* Server.serve reads a frame.  What the client wrote before it closed is  *)
(* still read.                                                             *)
CanServe(k, addr) ==
    /\ conn[k].addr = addr
    /\ ~conn[k].gone
    /\ serving[k] = NoFrame
    /\ conn[k].out # <<>>

Taken(k) == [conn EXCEPT ![k].out = Tail(@)]

(* writeMsg of a reply or an exception. *)
Answered(cs, k, typ, seq, value) ==
    [cs EXCEPT ![k].in = IF cs[k].closed THEN @ ELSE Append(@, [typ |-> typ, seq |-> seq, value |-> value])]

(* The handler's span continues the caller's trace, if there is one.         *)
startSpan(k, m) ==
    [span |-> <<k, m.seq>>,
     trace |-> IF m.hdr = NoSpan THEN <<k, m.seq>> ELSE m.hdr.trace,
     parent |-> IF m.hdr = NoSpan THEN NoSpan ELSE m.hdr.span]

outgoingHdrNone(sp) == NoSpan

outgoingHdr(sp) == [trace |-> sp.trace, span |-> sp.span]

(* Trace, the outermost of a server's middlewares, reports the span of a   *)
(* call it has handled; the others count and log.                          *)
finish(sp, m) == {[span |-> sp, method |-> m.method, req |-> m.arg.req]}
Trace(k, m)   == finish(startSpan(k, m), m)

(* A server dies: the calls it handles are gone and so are its ends of the *)
(* connections, also of those it dialled itself (mine).  An answer that it *)
(* has written may still be read.                                          *)
Die(addr, mine) ==
    /\ addr \in up
    /\ downs < MaxDown
    /\ downs' = downs + 1
    /\ up' = up \ {addr}
    /\ serving' = [k \in DOMAIN serving |-> IF conn[k].addr = addr THEN NoFrame ELSE serving[k]]
    /\ conn' = [k \in DOMAIN conn |->
                  IF conn[k].addr = addr THEN [conn[k] EXCEPT !.gone = TRUE, !.out = <<>>]
                  ELSE IF k \in mine THEN [conn[k] EXCEPT !.closed = TRUE, !.holder = Nobody, !.in = <<>>]
                  ELSE conn[k]]
=============================================================================
