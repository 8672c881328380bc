---------------------------- MODULE WatchProofs -----------------------------
(***************************************************************************)
(* Proofs about what follows something for its readers: ConfigVar, for any *)
(* number of instances, and LiveLog, for any runs that share an id, any    *)
(* streams and any capacity of their channels.                             *)
(***************************************************************************)
EXTENDS ConfigVar, LiveLog, SequenceTheorems, TLAPS

-----------------------------------------------------------------------------
(* The configuration variable. *)

\* The stream an instance has asked for begins right after what it has taken into
\* account, which etcd has, and nowhere before that when the etcd it read is gone.
InStep ==
    \A i \in Instances :
        /\ at[i] <= Len(hist)
        /\ pc[i] # "get" => next[i] = at[i] + 1 \/ (i \in missing /\ next[i] > at[i])

Inv == TypeOK /\ InStep

LEMMA KeyIsAValue == ASSUME TypeOK PROVE Key # None => Key \in Values
  BY DEF Key, KeyAt, TypeOK

LEMMA WriteKeeps ==
  ASSUME Inv, NEW x \in Values \cup {None}, Write(x) PROVE Inv'
<1>1. hist' \in Seq(Values \cup {None}) /\ Len(hist') = Len(hist) + 1 /\ Len(hist) \in Nat
  BY DEF Inv, TypeOK, Write
<1> HIDE DEF Inv
<1>2. TypeOK'
  BY <1>1, ConfigAssumption DEF Inv, TypeOK, Write, ConfigAssumption
<1>3. InStep'
  BY <1>1 DEF Inv, TypeOK, InStep, Write
<1> QED
  BY <1>2, <1>3 DEF Inv

(* Inv is inductive: no step of an instance, of a writer or of an outage   *)
(* disturbs it.                                                            *)
LEMMA NextKeeps == Inv /\ [Next]_vars => Inv'
<1> SUFFICES ASSUME Inv, [Next]_vars PROVE Inv'
  OBVIOUS
<1> USE ConfigAssumption DEF ConfigAssumption
<1>1. ASSUME NEW x \in Values, Put(x) PROVE Inv'
  BY <1>1, WriteKeeps DEF Put
<1>2. CASE Delete
  BY <1>2, WriteKeeps DEF Delete
<1>31. CASE EtcdDies
  <2>1. /\ hist' = << >> /\ up' = FALSE /\ losses' \in 0..MaxLoss /\ UNCHANGED <<downs, breaks, v, next>>
        /\ pc' = [i \in Instances |-> IF pc[i] = "watch" THEN "get" ELSE pc[i]]
        /\ at' = [i \in Instances |-> 0]
        /\ missing' = {i \in Instances : pc[i] = "dial" /\ next[i] # 1}
    BY <1>31 DEF EtcdDies, Inv, TypeOK
  <2>2. hist' \in Seq(Values \cup {None}) /\ Len(hist') = 0 /\ up' \in BOOLEAN
    <3>1. hist' \in Seq(Values \cup {None}) /\ Len(hist') = 0
      BY <2>1, EmptySeq
    <3>2. up' \in BOOLEAN
      BY <2>1
    <3> QED
      BY <3>1, <3>2
  <2>3. TypeOK'
    BY <2>1, <2>2 DEF Inv, TypeOK
  <2>4. InStep'
    BY <2>1, <2>2 DEF Inv, TypeOK, InStep
  <2> QED
    BY <2>3, <2>4 DEF Inv
<1>3. CASE EtcdDown \/ EtcdUp
  <2>1. up' \in BOOLEAN
    <3>1. CASE EtcdDown
      <4>1. up' = FALSE
        BY <3>1 DEF EtcdDown
      <4> QED
        BY <4>1
    <3>2. CASE EtcdUp
      <4>1. up' = TRUE
        BY <3>2 DEF EtcdUp
      <4> QED
        BY <4>1
    <3> QED
      BY <1>3, <3>1, <3>2
  <2>2. downs' \in 0..MaxDown
    <3>1. downs' = downs \/ (downs < MaxDown /\ downs' = downs + 1)
      BY <1>3 DEF EtcdDown, EtcdUp
    <3> QED
      BY <3>1 DEF Inv, TypeOK
  <2>3. TypeOK'
    BY <1>3, <2>1, <2>2 DEF Inv, TypeOK, EtcdDown, EtcdUp
  <2>4. InStep'
    BY <1>3 DEF Inv, InStep, EtcdDown, EtcdUp
  <2> QED
    BY <2>3, <2>4 DEF Inv
<1>4. ASSUME NEW i \in Instances, Get(i) PROVE Inv'
  <2>1. v' \in [Instances -> Values]
    BY <1>4, KeyIsAValue DEF Get, Inv, TypeOK
  <2>2. Len(hist) \in Nat /\ hist' = hist
    BY <1>4 DEF Get, etcd, Inv, TypeOK
  <2>3. TypeOK'
    BY <1>4, <2>1, <2>2 DEF Get, etcd, Inv, TypeOK
  <2>4. InStep'
    BY <1>4, <2>2 DEF Get, Inv, TypeOK, InStep
  <2> QED
    BY <2>3, <2>4 DEF Inv
<1>5. ASSUME NEW i \in Instances, Event(i) PROVE Inv'
  <2>1. next[i] \in Nat /\ next[i] >= 1 /\ next[i] <= Len(hist) /\ Len(hist) \in Nat
        /\ Len(hist) <= MaxWrite
    BY <1>5 DEF Event, Inv, TypeOK
  <2>2. hist[next[i]] \in Values \cup {None}
    BY <2>1 DEF Inv, TypeOK
  <2>3. TypeOK'
    BY <1>5, <2>1, <2>2 DEF Event, etcd, Inv, TypeOK
  <2>4. InStep'
    BY <1>5, <2>1 DEF Event, etcd, Inv, TypeOK, InStep
  <2> QED
    BY <2>3, <2>4 DEF Inv
<1>6. ASSUME NEW i \in Instances, OpenWatch(i) \/ WatchLost(i) \/ WatchBreaks(i) PROVE Inv'
  <2>0. /\ pc' \in [Instances -> {"get", "dial", "watch"}] /\ breaks' \in 0..MaxBreak
        /\ UNCHANGED <<hist, up, downs, losses, v, next, at, missing>>
    <3>1. CASE OpenWatch(i)
      BY <3>1 DEF OpenWatch, etcd, Inv, TypeOK
    <3>2. CASE WatchLost(i)
      BY <3>2 DEF WatchLost, etcd, Inv, TypeOK
    <3>3. CASE WatchBreaks(i)
      BY <3>3 DEF WatchBreaks, etcd, Inv, TypeOK
    <3> QED
      BY <1>6, <3>1, <3>2, <3>3
  <2>1. TypeOK'
    BY <2>0 DEF Inv, TypeOK
  <2>2. InStep'
    BY <1>6, <2>0 DEF OpenWatch, WatchLost, WatchBreaks, Inv, TypeOK, InStep
  <2> QED
    BY <2>1, <2>2 DEF Inv
<1>7. CASE UNCHANGED vars
  BY <1>7 DEF vars, etcd, Inv, TypeOK, InStep
<1> QED
  BY <1>1, <1>2, <1>3, <1>31, <1>4, <1>5, <1>6, <1>7 DEF Next, Sync

LEMMA Invariant == Spec => []Inv
<1>1. Init => Inv
  BY ConfigAssumption DEF Init, Inv, TypeOK, InStep, ConfigAssumption
<1> QED
  BY <1>1, NextKeeps, PTL DEF Spec

(* Every variable keeps its type, whatever etcd loses.                     *)
THEOREM TypeCorrect == Spec => []TypeOK
<1>1. Inv => TypeOK
  BY DEF Inv
<1> QED
  BY <1>1, Invariant, PTL

(* No reconnection of Var.Watch to one etcd takes an instance back to an   *)
(* older state of the key; after a loss it begins with the new etcd's.     *)
THEOREM ConfigNeverGoesBack == Spec => NeverBackwards
<1> DEFINE Keeps(i) == at'[i] >= at[i]
           Onward == \A i \in Instances : Keeps(i) \/ Len(hist') < Len(hist)
<1>1. Inv /\ [Next]_vars => [Onward]_vars
  <2> SUFFICES ASSUME Inv, Next PROVE Onward
    BY DEF vars
  <2>0. at \in [Instances -> Nat] /\ next \in [Instances -> Nat] /\ Len(hist) \in Nat
    BY ConfigAssumption DEF Inv, TypeOK, ConfigAssumption
  <2>1. ASSUME UNCHANGED at PROVE Onward
    BY <2>0, <2>1
  <2>2. ASSUME NEW k \in Instances, Get(k) PROVE Onward
    BY <2>0, <2>2 DEF Get, Inv, InStep
  <2>3. ASSUME NEW k \in Instances, Event(k) PROVE Onward
    <3>1. pc[k] # "get" /\ at' = [at EXCEPT ![k] = next[k]]
      BY <2>3 DEF Event
    <3>2. next[k] > at[k]
      BY <2>0, <3>1 DEF Inv, InStep
    <3> QED
      BY <2>0, <3>1, <3>2
  <2>4. ASSUME NEW k \in Instances, OpenWatch(k) \/ WatchLost(k) \/ WatchBreaks(k)
        PROVE  UNCHANGED at
    BY <2>4 DEF OpenWatch, WatchLost, WatchBreaks
  <2>5. (\E x \in Values : Put(x)) \/ Delete \/ EtcdDown \/ EtcdUp => UNCHANGED at
    BY DEF Put, Delete, Write, EtcdDown, EtcdUp
  <2>6. CASE EtcdDies
    <3>1. hist' = << >> /\ Len(hist') = 0 /\ \A i \in Instances : at'[i] = 0
      BY <2>6 DEF EtcdDies
    <3>2. ASSUME NEW i \in Instances PROVE Keeps(i) \/ Len(hist') < Len(hist)
      BY <2>0, <3>1 DEF Inv, InStep
    <3> QED
      BY <3>2
  <2> QED
    BY <2>1, <2>2, <2>3, <2>4, <2>5, <2>6 DEF Next, Sync
<1> QED
  BY <1>1, Invariant, PTL DEF Spec, NeverBackwards

-----------------------------------------------------------------------------
(* The live log: sequences. *)

\* A prefix, place by place.
LEMMA PrefixPlaces ==
  ASSUME NEW p \in Text, NEW s \in Text
  PROVE  IsPrefix(p, s) <=> Len(p) <= Len(s) /\ \A i \in 1..Len(p) : p[i] = s[i]
<1>1. Len(p) \in Nat /\ Len(s) \in Nat /\ SubSeq(p, 1, Len(p)) = p
  BY SubSeqFull, LenProperties DEF Text
<1>2. ASSUME Len(p) <= Len(s)
      PROVE  /\ SubSeq(s, 1, Len(p)) \in Seq(Nat) /\ Len(SubSeq(s, 1, Len(p))) = Len(p)
             /\ \A i \in 1..Len(p) : SubSeq(s, 1, Len(p))[i] = s[i]
  <2>1. \A i \in 1..Len(p) : s[i] \in Nat
    BY <1>1, <1>2, LenProperties DEF Text
  <2> QED
    BY <1>1, <2>1, SubSeqProperties
<1>3. ASSUME Len(p) <= Len(s), \A i \in 1..Len(p) : p[i] = s[i] PROVE SubSeq(s, 1, Len(p)) = p
  BY <1>1, <1>2, <1>3, SeqEqual DEF Text
<1> QED
  BY <1>1, <1>2, <1>3 DEF IsPrefix

LEMMA PrefixOfItself ==
  ASSUME NEW s \in Text PROVE IsPrefix(s, s) /\ IsPrefix(<< >>, s)
<1>1. << >> \in Text /\ Len(<< >>) = 0 /\ Len(s) \in Nat
  BY EmptySeq, LenProperties DEF Text
<1> QED
  BY <1>1, PrefixPlaces

LEMMA PrefixOfAppend ==
  ASSUME NEW p \in Text, NEW s \in Text, NEW e \in Nat, IsPrefix(p, s)
  PROVE  IsPrefix(p, Append(s, e))
<1> DEFINE t == Append(s, e)
<1>1. /\ t \in Text /\ Len(t) = Len(s) + 1 /\ Len(p) \in Nat /\ Len(s) \in Nat
      /\ \A i \in 1..Len(s) : t[i] = s[i]
  BY AppendProperties, LenProperties DEF Text
<1>2. Len(p) <= Len(s) /\ \A i \in 1..Len(p) : p[i] = s[i]
  BY PrefixPlaces
<1> HIDE DEF t
<1>3. Len(p) <= Len(t) /\ \A i \in 1..Len(p) : p[i] = t[i]
  BY <1>1, <1>2
<1>4. IsPrefix(p, t)
  BY <1>1, <1>3, PrefixPlaces
<1> QED
  BY <1>4 DEF t

LEMMA PrefixesOfOne ==
  ASSUME NEW p \in Text, NEW q \in Text, NEW s \in Text, IsPrefix(p, s), IsPrefix(q, s)
  PROVE  IsPrefix(p, q) \/ IsPrefix(q, p)
<1>1. Len(p) \in Nat /\ Len(q) \in Nat
  BY LenProperties DEF Text
<1> QED
  BY <1>1, PrefixPlaces

\* What TrimPrefix takes off is what it was given to take off.
LEMMA TrimmedPrefix ==
  ASSUME NEW p \in Text, NEW s \in Text
  PROVE  /\ TrimPrefix(s, p) \in Text
         /\ IsPrefix(p, s) => p \o TrimPrefix(s, p) = s
<1>1. Len(p) \in Nat /\ Len(s) \in Nat
  BY LenProperties DEF Text
<1>2. SubSeq(s, Len(p) + 1, Len(s)) \in Seq(Nat)
  <2>1. \A i \in Len(p) + 1 .. Len(s) : s[i] \in Nat
    BY <1>1, LenProperties DEF Text
  <2> QED
    BY <1>1, <2>1, SubSeqProperties
<1>3. ASSUME IsPrefix(p, s) PROVE p \o SubSeq(s, Len(p) + 1, Len(s)) = s
  <2>1. Len(p) <= Len(s) /\ SubSeq(s, 1, Len(p)) = p
    BY <1>3, SubSeqFull DEF IsPrefix, Text
  <2>2. SubSeq(s, 1, Len(p)) \o SubSeq(s, Len(p) + 1, Len(s)) = SubSeq(s, 1, Len(s))
    <3>1. /\ s \in Seq(Nat) /\ 1 \in 1..Len(s) + 1 /\ Len(p) \in 1 - 1 .. Len(s)
          /\ Len(s) \in Len(p)..Len(s)
      BY <1>1, <2>1 DEF Text
    <3> QED
      BY <3>1, ConcatAdjacentSubSeq
  <2> QED
    BY <2>1, <2>2, SubSeqFull DEF Text
<1> QED
  BY <1>2, <1>3 DEF TrimPrefix, Text

\* A piece of a text is the same piece once the text has grown.
LEMMA PieceOfAppend ==
  ASSUME NEW s \in Text, NEW e \in Nat, NEW i \in Nat, NEW j \in 0..Len(s)
  PROVE  SubSeq(Append(s, e), i + 1, j) = SubSeq(s, i + 1, j)
<1>1. /\ Append(s, e) \in Seq(Nat) /\ Len(Append(s, e)) = Len(s) + 1 /\ Len(s) \in Nat
      /\ \A k \in 1..Len(s) : Append(s, e)[k] = s[k] /\ s[k] \in Nat
  BY AppendProperties, LenProperties DEF Text
<1>2. /\ SubSeq(s, i + 1, j) \in Seq(Nat)
      /\ Len(SubSeq(s, i + 1, j)) = IF i + 1 <= j THEN j - (i + 1) + 1 ELSE 0
      /\ \A k \in 1..j - (i + 1) + 1 : SubSeq(s, i + 1, j)[k] = s[(i + 1) + k - 1]
  <2>1. \A k \in i + 1 .. j : s[k] \in Nat
    BY <1>1
  <2> QED
    BY <1>1, <2>1, SubSeqProperties
<1>3. /\ SubSeq(Append(s, e), i + 1, j) \in Seq(Nat)
      /\ Len(SubSeq(Append(s, e), i + 1, j)) = IF i + 1 <= j THEN j - (i + 1) + 1 ELSE 0
      /\ \A k \in 1..j - (i + 1) + 1 : SubSeq(Append(s, e), i + 1, j)[k] = Append(s, e)[(i + 1) + k - 1]
  <2>1. \A k \in i + 1 .. j : Append(s, e)[k] \in Nat
    BY <1>1
  <2> QED
    BY <1>1, <2>1, SubSeqProperties
<1>4. \A k \in 1..Len(SubSeq(s, i + 1, j)) : SubSeq(Append(s, e), i + 1, j)[k] = SubSeq(s, i + 1, j)[k]
  BY <1>1, <1>2, <1>3
<1> QED
  BY <1>2, <1>3, <1>4, SeqEqual

-----------------------------------------------------------------------------
(* The live log: types. *)

RunRow  == [st : {"none", "running", "final", "gone"}, log : Text]
LiveRun == [lines : Text, cur : Text, sent : Nat, n : 0..MaxPiece, subs : SUBSET Watchers,
            closed : BOOLEAN]
RunPcs  == {"none", "inserted", "writing", "recorded", "finished", "again", "ended"}
Channel == [buf : Seq(Text), open : BOOLEAN]
Stream  == [pc : {"idle", "lookup", "select", "overlay", "subscribe", "follow", "final",
                  "done", "failed", "left"},
            run : Runs \cup {NoEntry}, live : Runs \cup {NoEntry}, polled : BOOLEAN,
            st : {"none", "running", "final"}, log : Text, prev : Text]
Marks   == [dropped : SUBSET Watchers, crossed : SUBSET Watchers, torn : SUBSET Watchers,
            returned : SUBSET Runs, lost : SUBSET Runs, late : SUBSET Runs]

\* LogTypeOK, a set to a variable.
LogTyped ==
    /\ row \in [Runs -> RunRow] /\ live \in [Runs -> LiveRun]
    /\ reg \in Runs \cup {NoEntry} /\ run \in [Runs -> RunPcs] /\ quiet \subseteq Builds
    /\ ch \in [Watchers -> Channel] /\ \A w \in Watchers : Len(ch[w].buf) <= Cap
    /\ watch \in [Watchers -> Stream] /\ rcv \in [Watchers -> Text]
    /\ faults \in 0..MaxFault /\ deletes \in 0..MaxDelete /\ marred \in Marks

LEMMA LogTypedIsType == LogTyped <=> LogTypeOK
  BY DEF LogTyped, LogTypeOK, RunRow, LiveRun, RunPcs, Channel, Stream, Marks

\* A stream that is not idle has a row it was asked for, and one that subscribes
\* has found an entry.
Asked == \A w \in Watchers :
    /\ watch[w].pc # "idle" => watch[w].run \in Runs
    /\ watch[w].pc \in {"subscribe", "follow", "final"} => watch[w].live \in Runs

LEMMA FullText ==
  ASSUME NEW l \in LiveRun PROVE Full(l) \in Text /\ Len(Full(l)) \in Nat
  BY ConcatProperties, LenProperties DEF Full, LiveRun, Text

\* The text only grows, unless a carriage return discards a part of the line.
LEMMA AbsorbGrows ==
  ASSUME NEW l \in LiveRun, l.n < MaxPiece, NEW kind \in Kinds
  PROVE  /\ Absorb(l, kind) \in LiveRun
         /\ Absorb(l, kind).sent = l.sent
         /\ Absorb(l, kind).subs = l.subs
         /\ Absorb(l, kind).closed = l.closed
         /\ \/ kind = "return" /\ l.cur # << >>
            \/ Full(Absorb(l, kind)) = Append(Full(l), l.n + 1)
<1> DEFINE e == l.n + 1
<1>1. l.lines \in Text /\ l.cur \in Text /\ e \in Nat /\ e \in 0..MaxPiece
  BY LiveAssumption DEF LiveRun, LiveAssumption
<1> HIDE DEF e
<1> DEFINE a == l.lines
           b == l.cur
<1>2. a \in Seq(Nat) /\ b \in Seq(Nat) /\ <<e>> \in Seq(Nat) /\ << >> \in Seq(Nat)
  BY <1>1, EmptySeq DEF Text
<1> HIDE DEF a, b
<1>31. a \o b \in Seq(Nat)
  BY <1>2, ConcatProperties
<1>32. Append(b, e) \in Seq(Nat) /\ Append(a \o b, e) \in Seq(Nat)
  BY <1>1, <1>2, <1>31, AppendProperties
<1>33. Append(b, e) = b \o <<e>> /\ Append(a \o b, e) = (a \o b) \o <<e>>
  BY <1>1, <1>2, <1>31, AppendIsConcat
<1>34. a \o (b \o <<e>>) = (a \o b) \o <<e>>
  BY <1>2, ConcatAssociative
<1>35. Append(a \o b, e) \o << >> = Append(a \o b, e) /\ a \o << >> = a
  BY <1>2, <1>32, ConcatEmptySeq
<1>3. /\ Append(l.cur, e) \in Text /\ Append(l.lines \o l.cur, e) \in Text
      /\ <<e>> \in Text /\ << >> \in Text
      /\ l.lines \o Append(l.cur, e) = Append(l.lines \o l.cur, e)
      /\ Append(l.lines \o l.cur, e) \o << >> = Append(l.lines \o l.cur, e)
      /\ l.cur = << >> => l.lines \o <<e>> = Append(l.lines \o l.cur, e)
  BY <1>2, <1>32, <1>33, <1>34, <1>35 DEF a, b, Text
<1>4. CASE kind = "part"
  <2>1. Absorb(l, kind) = [l EXCEPT !.n = e, !.cur = Append(@, e)]
    BY <1>4 DEF Absorb, e
  <2> QED
    BY <1>1, <1>3, <2>1 DEF LiveRun, Full, e
<1>5. CASE kind = "line"
  <2>1. Absorb(l, kind) = [l EXCEPT !.n = e, !.lines = Append(@ \o l.cur, e), !.cur = << >>]
    BY <1>5 DEF Absorb, e
  <2> QED
    BY <1>1, <1>3, <2>1 DEF LiveRun, Full, e
<1>6. CASE kind = "return"
  <2>1. Absorb(l, kind) = [l EXCEPT !.n = e, !.cur = <<e>>]
    BY <1>6 DEF Absorb, e
  <2> QED
    BY <1>1, <1>3, <1>6, <2>1 DEF LiveRun, Full, e
<1> QED
  BY <1>4, <1>5, <1>6 DEF Kinds

\* What a write does to its own run and to the channels.
LEMMA WriteEffect ==
  ASSUME LogTyped, NEW r \in Runs, NEW kind \in Kinds, WriteLog(r, kind)
  PROVE  /\ live'[r] \in LiveRun
         /\ live' = [live EXCEPT ![r] = live'[r]]
         /\ live'[r].subs = live[r].subs /\ live'[r].closed = live[r].closed
         /\ \A w \in Watchers :
              \/ ch'[w] = ch[w]
              \/ w \in live[r].subs /\ ch'[w] = Offer(ch[w], SubSeq(Full(live'[r]), live[r].sent + 1, Len(Full(live'[r]))))
         /\ live[r].sent = Len(Full(live[r])) /\ r \notin marred'.returned =>
              /\ Full(live'[r]) = Append(Full(live[r]), live[r].n + 1)
              /\ live'[r].sent = Len(Full(live'[r]))
              /\ \A w \in live[r].subs :
                   /\ ch'[w] = Offer(ch[w], SubSeq(Full(live'[r]), live[r].sent + 1, Len(Full(live'[r]))))
                   /\ w \notin marred'.dropped => Len(ch[w].buf) < Cap
<1> DEFINE l == Absorb(live[r], kind)
           full == Full(l)
           delta == SubSeq(full, l.sent + 1, Len(full))
           to == IF Len(full) > l.sent THEN l.subs ELSE {}
<1>1. live[r] \in LiveRun /\ live[r].n < MaxPiece /\ live \in [Runs -> LiveRun]
  BY DEF LogTyped, WriteLog
<1>2. /\ l \in LiveRun /\ l.sent = live[r].sent /\ l.subs = live[r].subs
      /\ l.closed = live[r].closed
      /\ \/ kind = "return" /\ live[r].cur # << >>
         \/ full = Append(Full(live[r]), live[r].n + 1)
  BY <1>1, AbsorbGrows
<1>3. /\ live' = [live EXCEPT ![r] = IF Len(full) > l.sent THEN [l EXCEPT !.sent = Len(full)] ELSE l]
      /\ ch' = [w \in Watchers |-> IF w \in to THEN Offer(ch[w], delta) ELSE ch[w]]
      /\ marred'.dropped = marred.dropped \cup {w \in to : Len(ch[w].buf) >= Cap}
      /\ r \notin marred'.returned => ~(kind = "return" /\ live[r].cur # << >>)
  BY DEF WriteLog, LogTyped, Marks
<1>4. full \in Text /\ Len(full) \in Nat /\ Full(live[r]) \in Text /\ Len(Full(live[r])) \in Nat
  BY <1>1, <1>2, FullText
<1> HIDE DEF l
<1>5. /\ live'[r] = IF Len(full) > l.sent THEN [l EXCEPT !.sent = Len(full)] ELSE l
      /\ live'[r].lines = l.lines /\ live'[r].cur = l.cur
      /\ live'[r].subs = l.subs /\ live'[r].closed = l.closed /\ live'[r] \in LiveRun
      /\ Len(full) > l.sent => live'[r].sent = Len(full)
  BY <1>1, <1>2, <1>3, <1>4 DEF LiveRun
<1>6. Full(live'[r]) = full
  BY <1>5 DEF Full
<1>7. ASSUME live[r].sent = Len(Full(live[r])), r \notin marred'.returned
      PROVE  /\ full = Append(Full(live[r]), live[r].n + 1)
             /\ Len(full) > l.sent
  <2>1. full = Append(Full(live[r]), live[r].n + 1) /\ live[r].n + 1 \in Nat
    BY <1>1, <1>2, <1>3, <1>7 DEF LiveRun
  <2>2. Len(full) = Len(Full(live[r])) + 1
    BY <1>4, <2>1, AppendProperties DEF Text
  <2> QED
    BY <1>2, <1>4, <1>7, <2>1, <2>2
<1>8. \A w \in to : w \notin marred'.dropped => Len(ch[w].buf) < Cap
  <2>1. \A w \in to : Len(ch[w].buf) \in Nat /\ Cap \in Nat
    BY <1>2, LenProperties, LiveAssumption DEF LogTyped, LiveAssumption, LiveRun, Channel
  <2> QED
    BY <1>3, <2>1
<1>9. l.subs \subseteq Watchers
  BY <1>2 DEF LiveRun
<1>10. live' = [live EXCEPT ![r] = live'[r]]
  BY <1>1, <1>3
<1>11. \A w \in Watchers :
         ch'[w] = IF w \in to
                  THEN Offer(ch[w], SubSeq(Full(live'[r]), live[r].sent + 1, Len(Full(live'[r]))))
                  ELSE ch[w]
  BY <1>2, <1>3, <1>6
<1>12. /\ \A w \in to : w \in live[r].subs
       /\ Len(full) > l.sent => \A w \in live[r].subs : w \in to
  BY <1>2
<1> HIDE DEF full, to
<1>13. \A w \in Watchers :
         \/ ch'[w] = ch[w]
         \/ w \in live[r].subs
            /\ ch'[w] = Offer(ch[w], SubSeq(Full(live'[r]), live[r].sent + 1, Len(Full(live'[r]))))
  BY <1>11, <1>12
<1>14. ASSUME live[r].sent = Len(Full(live[r])), r \notin marred'.returned
       PROVE  /\ Full(live'[r]) = Append(Full(live[r]), live[r].n + 1)
              /\ live'[r].sent = Len(Full(live'[r]))
              /\ \A w \in live[r].subs :
                   /\ ch'[w] = Offer(ch[w], SubSeq(Full(live'[r]), live[r].sent + 1,
                                                   Len(Full(live'[r]))))
                   /\ w \notin marred'.dropped => Len(ch[w].buf) < Cap
  BY <1>2, <1>5, <1>6, <1>7, <1>8, <1>9, <1>11, <1>12, <1>14
<1> QED
  BY <1>2, <1>5, <1>10, <1>13, <1>14

LEMMA EntryValues ==
  ASSUME NEW l \in LiveRun, NEW S \in SUBSET Watchers
  PROVE  /\ [l EXCEPT !.subs = S] \in LiveRun
         /\ [l EXCEPT !.closed = TRUE, !.subs = S] \in LiveRun
         /\ Full([l EXCEPT !.subs = S]) = Full(l)
         /\ Full([l EXCEPT !.closed = TRUE, !.subs = S]) = Full(l)
  BY DEF LiveRun, Full

LEMMA ChannelValues ==
  ASSUME NEW c \in Channel, NEW b \in Seq(Text)
  PROVE  /\ [c EXCEPT !.open = FALSE] \in Channel /\ [c EXCEPT !.open = FALSE].buf = c.buf
         /\ [c EXCEPT !.buf = b] \in Channel /\ [c EXCEPT !.buf = b].buf = b
  BY DEF Channel

LEMMA WriteTyped ==
  ASSUME LogTyped, NEW r \in Runs, NEW kind \in Kinds, WriteLog(r, kind) PROVE LogTyped'
<1>1. /\ live'[r] \in LiveRun /\ live' = [live EXCEPT ![r] = live'[r]]
      /\ \A w \in Watchers :
           \/ ch'[w] = ch[w]
           \/ ch'[w] = Offer(ch[w], SubSeq(Full(live'[r]), live[r].sent + 1, Len(Full(live'[r]))))
  BY WriteEffect
<1> DEFINE delta == SubSeq(Full(live'[r]), live[r].sent + 1, Len(Full(live'[r])))
<1>2. delta \in Text
  <2>1. Full(live'[r]) \in Text /\ Len(Full(live'[r])) \in Nat /\ live[r].sent \in Nat
    BY <1>1, FullText DEF LogTyped, LiveRun
  <2>2. \A i \in live[r].sent + 1 .. Len(Full(live'[r])) : Full(live'[r])[i] \in Nat
    BY <2>1, LenProperties DEF Text
  <2> QED
    BY <2>1, <2>2, SubSeqProperties DEF Text
<1> HIDE DEF delta
<1>3. ASSUME NEW w \in Watchers
      PROVE  Offer(ch[w], delta) \in Channel /\ Len(Offer(ch[w], delta).buf) <= Cap
  <2>1. /\ ch[w] \in Channel /\ Len(ch[w].buf) <= Cap
        /\ Len(ch[w].buf) \in Nat /\ Cap \in Nat
    BY LenProperties, LiveAssumption DEF LogTyped, LiveAssumption, Channel
  <2>2. /\ Append(ch[w].buf, delta) \in Seq(Text)
        /\ Len(Append(ch[w].buf, delta)) = Len(ch[w].buf) + 1
    BY <1>2, <2>1, AppendProperties DEF Channel
  <2> QED
    BY <2>1, <2>2 DEF Offer, Channel
<1>4. ch' = [w \in Watchers |-> ch'[w]]
  BY DEF WriteLog
<1>5. \A w \in Watchers : ch'[w] \in Channel /\ Len(ch'[w].buf) <= Cap
  BY <1>1, <1>3 DEF LogTyped, delta
<1>6. ch' \in [Watchers -> Channel]
  BY <1>4, <1>5
<1>7. live' \in [Runs -> LiveRun]
  BY <1>1 DEF LogTyped
<1>8. UNCHANGED <<row, reg, run, watch, rcv, faults, deletes, quiet>>
  BY DEF WriteLog
<1>9. marred' \in Marks
  <2>1. live[r].subs \subseteq Watchers /\ Absorb(live[r], kind).subs = live[r].subs
    BY AbsorbGrows DEF LogTyped, LiveRun, WriteLog
  <2> QED
    BY <2>1 DEF WriteLog, LogTyped, Marks
<1> QED
  BY <1>5, <1>6, <1>7, <1>8, <1>9 DEF LogTyped

LEMMA RunTyped ==
  ASSUME LogTyped, NEW r \in Runs, Insert(r) \/ RunStep(r) \/ DeleteRow(r) PROVE LogTyped'
<1>1. live[r] \in LiveRun /\ Full(live[r]) \in Text /\ << >> \in Text
  BY FullText, EmptySeq DEF LogTyped, Text
<1>2. CASE Insert(r)
  <2>1. row' \in [Runs -> RunRow] /\ run' \in [Runs -> RunPcs] /\ quiet' \subseteq Builds
    BY <1>2 DEF Insert, LogTyped, RunRow, RunPcs
  <2> QED
    BY <1>2, <2>1 DEF Insert, LogTyped
<1>3. CASE Store(r) \/ Deregister(r)
  <2>1. run' \in [Runs -> RunPcs] /\ reg' \in Runs \cup {NoEntry}
    BY <1>3 DEF Store, Deregister, LogTyped, RunPcs
  <2> QED
    BY <1>3, <2>1 DEF Store, Deregister, LogTyped
<1>4. CASE Record(r) \/ RecordAgain(r)
  <2>1. row' \in [Runs -> RunRow]
    <3>1. Recorded(r) \in RunRow
      BY <1>1 DEF Recorded, LogTyped, RunRow
    <3> QED
      BY <1>4, <3>1 DEF Record, RecordAgain, LogTyped
  <2>2. run' \in [Runs -> RunPcs]
    BY <1>4 DEF Record, RecordAgain, LogTyped, RunPcs
  <2> QED
    BY <1>4, <2>1, <2>2 DEF Record, RecordAgain, LogTyped
<1>5. CASE RecordLost(r)
  <2>1. run' \in [Runs -> RunPcs] /\ marred' \in Marks /\ faults' \in 0..MaxFault
    BY <1>5, LiveAssumption DEF RecordLost, LogTyped, LiveAssumption, RunPcs, Marks
  <2> QED
    BY <1>5, <2>1 DEF RecordLost, LogTyped
<1>6. CASE Finish(r)
  <2>1. ch' \in [Watchers -> Channel] /\ \A w \in Watchers : ch'[w].buf = ch[w].buf
    BY <1>6 DEF Finish, Close, LogTyped, Channel
  <2>2. live' \in [Runs -> LiveRun]
    BY <1>6 DEF Finish, LogTyped, LiveRun
  <2>3. run' \in [Runs -> RunPcs]
    BY <1>6 DEF Finish, LogTyped, RunPcs
  <2> QED
    BY <1>6, <2>1, <2>2, <2>3 DEF Finish, LogTyped
<1>7. CASE DeleteRow(r)
  <2>1. row' \in [Runs -> RunRow] /\ deletes' \in 0..MaxDelete
    BY <1>1, <1>7, LiveAssumption DEF DeleteRow, LogTyped, LiveAssumption, RunRow
  <2> QED
    BY <1>7, <2>1 DEF DeleteRow, LogTyped
<1> QED
  BY <1>2, <1>3, <1>4, <1>5, <1>6, <1>7 DEF RunStep

\* A step of a stream changes the state of no other.
LEMMA StreamMoves ==
  ASSUME watch \in [Watchers -> Stream], Asked, NEW w \in Watchers,
         watch'[w] \in Stream, watch' = [watch EXCEPT ![w] = watch'[w]],
         watch'[w].pc # "idle" => watch'[w].run \in Runs,
         watch'[w].pc \in {"subscribe", "follow", "final"} => watch'[w].live \in Runs
  PROVE  watch' \in [Watchers -> Stream] /\ Asked'
  BY DEF Asked

LEMMA StreamTyped ==
  ASSUME LogTyped, Asked, NEW w \in Watchers,
         StreamStep(w) \/ Leave(w) \/ (\E r \in Runs : Watch(w, r))
  PROVE  LogTyped' /\ Asked'
<1>1. /\ watch \in [Watchers -> Stream] /\ watch[w] \in Stream
      /\ \A r \in Runs : Full(live[r]) \in Text
      /\ << >> \in Text /\ rcv[w] \in Text /\ watch[w].prev \in Text
  BY FullText, EmptySeq DEF LogTyped, Text, Stream
<1>2. CASE \E r \in Runs : Watch(w, r)
  <2>1. PICK r \in Runs : Watch(w, r)
    BY <1>2
  <2>2. watch' = [watch EXCEPT ![w] = watch'[w]] /\ watch'[w] \in Stream
        /\ watch'[w].pc = "lookup" /\ watch'[w].run = r
    BY <1>1, <2>1 DEF Watch, Stream
  <2>3. watch' \in [Watchers -> Stream] /\ Asked'
    BY <1>1, <2>2, StreamMoves
  <2> QED
    BY <2>1, <2>3 DEF Watch, LogTyped
<1>3. CASE Lookup(w)
  <2>1. /\ watch' = [watch EXCEPT ![w] = watch'[w]] /\ watch'[w] \in Stream
        /\ watch'[w].run = watch[w].run
        /\ watch'[w].pc = "select" \/ (watch'[w].pc = "subscribe" /\ watch'[w].live \in Runs)
        /\ watch[w].pc = "lookup"
    BY <1>1, <1>3 DEF Lookup, Stream, LogTyped
  <2>2. watch' \in [Watchers -> Stream] /\ Asked'
    BY <1>1, <2>1, StreamMoves DEF Asked
  <2>3. marred' \in Marks
    BY <1>3 DEF Lookup, LogTyped, Marks
  <2> QED
    BY <1>3, <2>2, <2>3 DEF Lookup, LogTyped
<1>4. CASE Select(w)
  <2>1. watch[w].run \in Runs /\ row[watch[w].run] \in RunRow
    BY <1>4 DEF Select, Asked, LogTyped
  <2>2. CASE row[watch[w].run].st = "gone"
    <3>1. /\ watch' = [watch EXCEPT ![w] = watch'[w]] /\ watch'[w] \in Stream
          /\ watch'[w].run = watch[w].run /\ watch'[w].pc = "failed"
      BY <1>1, <1>4, <2>2 DEF Select, Stream
    <3> QED
      BY <1>1, <1>4, <2>1, <3>1, StreamMoves DEF Select, LogTyped
  <2>3. CASE row[watch[w].run].st # "gone"
    <3>1. watch' = [watch EXCEPT ![w] = [watch[w] EXCEPT !.pc = "overlay",
                                            !.st = row[watch[w].run].st, !.log = row[watch[w].run].log]]
      BY <1>1, <1>4, <2>3 DEF Select
    <3>2. /\ watch' = [watch EXCEPT ![w] = watch'[w]] /\ watch'[w] \in Stream
          /\ watch'[w].run = watch[w].run /\ watch'[w].pc = "overlay"
      BY <1>1, <2>1, <2>3, <3>1 DEF Stream, RunRow
    <3> QED
      BY <1>1, <1>4, <2>1, <3>2, StreamMoves DEF Select, LogTyped
  <2> QED
    BY <2>2, <2>3
<1>5. CASE Overlay(w)
  <2> DEFINE log == IF reg # NoEntry THEN Full(live[reg]) ELSE watch[w].log
  <2>1. log \in Text
    BY <1>1 DEF LogTyped, Stream
  <2>2. /\ rcv' = [rcv EXCEPT ![w] = IF log # watch[w].prev
                                     THEN @ \o TrimPrefix(log, watch[w].prev) ELSE @]
        /\ watch' = [watch EXCEPT ![w].prev = log, ![w].polled = TRUE, ![w].log = << >>,
                              ![w].pc = IF watch[w].st # "running" THEN "done"
                                        ELSE IF watch[w].polled THEN "lookup" ELSE "select"]
        /\ watch[w].pc = "overlay" /\ UNCHANGED <<row, live, reg, run, ch, faults, deletes, quiet>>
    BY <1>5 DEF Overlay
  <2>3. marred' \in Marks
    BY <1>5 DEF Overlay, LogTyped, Marks
  <2> HIDE DEF log
  <2>4. TrimPrefix(log, watch[w].prev) \in Text
    BY <1>1, <2>1, TrimmedPrefix
  <2>5. rcv[w] \o TrimPrefix(log, watch[w].prev) \in Text
    BY <1>1, <2>4, ConcatProperties DEF Text
  <2>6. rcv' \in [Watchers -> Text]
    BY <2>2, <2>5 DEF LogTyped
  <2>7. /\ watch' = [watch EXCEPT ![w] = watch'[w]] /\ watch'[w] \in Stream
        /\ watch'[w].run = watch[w].run /\ watch'[w].pc \in {"done", "lookup", "select"}
    BY <1>1, <2>1, <2>2 DEF Stream
  <2>8. watch' \in [Watchers -> Stream] /\ Asked'
    BY <1>1, <2>2, <2>7, StreamMoves DEF Asked
  <2> QED
    BY <2>2, <2>3, <2>6, <2>8 DEF LogTyped
<1>6. CASE Subscribe(w)
  <2>1. watch[w].live \in Runs /\ watch[w].pc = "subscribe"
    BY <1>6 DEF Subscribe, Asked
  <2>2. TrimPrefix(Full(live[watch[w].live]), watch[w].prev) \in Text
    BY <1>1, <2>1, TrimmedPrefix
  <2>3. rcv[w] \o TrimPrefix(Full(live[watch[w].live]), watch[w].prev) \in Text
    BY <1>1, <2>2, ConcatProperties DEF Text
  <2>4. /\ rcv' = [rcv EXCEPT ![w] = @ \o TrimPrefix(Full(live[watch[w].live]), watch[w].prev)]
        /\ watch' = [watch EXCEPT ![w].pc = "follow"]
        /\ UNCHANGED <<row, reg, run, faults, deletes, marred, quiet>>
        /\ \/ UNCHANGED live /\ ch' = [ch EXCEPT ![w].open = FALSE]
           \/ UNCHANGED ch /\ live' = [live EXCEPT ![watch[w].live].subs = @ \cup {w}]
    BY <1>6 DEF Subscribe, Goes
  <2>5. rcv' \in [Watchers -> Text] /\ live' \in [Runs -> LiveRun]
    <3> DEFINE l == watch[w].live
    <3>1. live[l] \in LiveRun /\ l \in Runs
      BY <2>1 DEF LogTyped
    <3>2. live[l].subs \cup {w} \in SUBSET Watchers
      BY <3>1 DEF LiveRun
    <3>3. [live[l] EXCEPT !.subs = live[l].subs \cup {w}] \in LiveRun
      BY <3>1, <3>2, EntryValues
    <3>4. live' = live \/ live' = [live EXCEPT ![l] = [live[l] EXCEPT !.subs = live[l].subs \cup {w}]]
      BY <2>4
    <3> HIDE DEF l
    <3>5. live' \in [Runs -> LiveRun]
      BY <3>1, <3>3, <3>4 DEF LogTyped
    <3> QED
      BY <2>3, <2>4, <3>5 DEF LogTyped
  <2>6. ch' \in [Watchers -> Channel] /\ \A x \in Watchers : ch'[x].buf = ch[x].buf
    <3>1. [ch[w] EXCEPT !.open = FALSE] \in Channel /\ [ch[w] EXCEPT !.open = FALSE].buf = ch[w].buf
      BY ChannelValues, EmptySeq DEF LogTyped
    <3>2. ch' = ch \/ ch' = [ch EXCEPT ![w] = [ch[w] EXCEPT !.open = FALSE]]
      BY <2>4
    <3> QED
      BY <3>1, <3>2 DEF LogTyped
  <2>7. /\ watch' = [watch EXCEPT ![w] = watch'[w]] /\ watch'[w] \in Stream
        /\ watch'[w].run = watch[w].run /\ watch'[w].live = watch[w].live
    BY <1>1, <2>4 DEF Stream
  <2>8. watch' \in [Watchers -> Stream] /\ Asked'
    BY <1>1, <2>1, <2>7, StreamMoves DEF Asked
  <2> QED
    BY <2>4, <2>5, <2>6, <2>8 DEF LogTyped
<1>7. CASE Receive(w)
  <2>1. /\ ch[w].buf \in Seq(Text) /\ ch[w].buf # << >> /\ Len(ch[w].buf) \in Nat
        /\ Len(ch[w].buf) <= Cap /\ Cap \in Nat
    BY <1>7, LenProperties, LiveAssumption DEF Receive, LogTyped, Channel, LiveAssumption
  <2>2. /\ Head(ch[w].buf) \in Text /\ Tail(ch[w].buf) \in Seq(Text)
        /\ Len(Tail(ch[w].buf)) = Len(ch[w].buf) - 1
    BY <2>1, HeadTailProperties
  <2>3. rcv[w] \o Head(ch[w].buf) \in Text
    BY <1>1, <2>2, ConcatProperties DEF Text
  <2>4. /\ rcv' = [rcv EXCEPT ![w] = @ \o Head(ch[w].buf)]
        /\ watch[w].pc = "follow" /\ watch' = [watch EXCEPT ![w].pc = "follow"]
        /\ ch' = [ch EXCEPT ![w].buf = Tail(@)]
        /\ UNCHANGED <<row, live, reg, run, faults, deletes, marred, quiet>>
    BY <1>7 DEF Receive, Goes
  <2>5. rcv' \in [Watchers -> Text]
    BY <2>3, <2>4 DEF LogTyped
  <2>6. ch' \in [Watchers -> Channel] /\ \A x \in Watchers : Len(ch'[x].buf) <= Cap
    <3>1. [ch[w] EXCEPT !.buf = Tail(ch[w].buf)] \in Channel
          /\ [ch[w] EXCEPT !.buf = Tail(ch[w].buf)].buf = Tail(ch[w].buf)
      BY <2>2, ChannelValues DEF LogTyped
    <3>2. ch' = [ch EXCEPT ![w] = [ch[w] EXCEPT !.buf = Tail(ch[w].buf)]]
      BY <2>4
    <3> QED
      BY <2>1, <2>2, <3>1, <3>2 DEF LogTyped
  <2>7. UNCHANGED watch
    BY <1>1, <2>4 DEF Stream
  <2> QED
    BY <2>4, <2>5, <2>6, <2>7 DEF LogTyped, Asked
<1>8. CASE Closed(w) \/ Leave(w)
  <2>1. rcv[w] \o << >> = rcv[w]
    BY <1>1, ConcatEmptySeq DEF Text
  <2>2. /\ rcv' = [rcv EXCEPT ![w] = @ \o << >>]
        /\ UNCHANGED <<row, reg, run, ch, faults, deletes, marred, quiet>>
        /\ \/ watch[w].pc = "follow" /\ watch' = [watch EXCEPT ![w].pc = "final"] /\ UNCHANGED live
           \/ /\ watch[w].pc # "idle" /\ watch' = [watch EXCEPT ![w].pc = "left"]
              /\ live' = [r \in Runs |-> [live[r] EXCEPT !.subs = @ \ {w}]]
    BY <1>8 DEF Closed, Leave, Goes
  <2>3. rcv' \in [Watchers -> Text] /\ live' \in [Runs -> LiveRun]
    <3>1. ASSUME NEW r \in Runs PROVE [live[r] EXCEPT !.subs = @ \ {w}] \in LiveRun
      <4>1. live[r] \in LiveRun /\ live[r].subs \ {w} \in SUBSET Watchers
        BY DEF LogTyped, LiveRun
      <4>2. [live[r] EXCEPT !.subs = live[r].subs \ {w}] \in LiveRun
        BY <4>1, EntryValues
      <4> QED
        BY <4>2
    <3> QED
      BY <2>1, <2>2, <3>1 DEF LogTyped
  <2>4. /\ watch' = [watch EXCEPT ![w] = watch'[w]] /\ watch'[w] \in Stream
        /\ watch'[w].run = watch[w].run /\ watch'[w].live = watch[w].live
        /\ watch'[w].pc = "left" \/ (watch'[w].pc = "final" /\ watch[w].pc = "follow")
    BY <1>1, <2>2 DEF Stream
  <2>5. watch' \in [Watchers -> Stream] /\ Asked'
    BY <1>1, <2>2, <2>4, StreamMoves DEF Asked
  <2> QED
    BY <2>2, <2>3, <2>5 DEF LogTyped
<1>9. CASE Done(w)
  <2>1. watch[w].run \in Runs /\ row[watch[w].run] \in RunRow
    BY <1>9 DEF Done, Asked, LogTyped
  <2>2. /\ watch' = [watch EXCEPT ![w] = watch'[w]] /\ watch'[w] \in Stream
        /\ watch'[w].run = watch[w].run /\ watch'[w].pc \in {"failed", "done"}
    BY <1>1, <1>9, <2>1 DEF Done, Stream, RunRow
  <2>3. watch' \in [Watchers -> Stream] /\ Asked'
    BY <1>1, <2>1, <2>2, StreamMoves
  <2> QED
    BY <1>9, <2>3 DEF Done, LogTyped
<1> QED
  BY <1>2, <1>3, <1>4, <1>5, <1>6, <1>7, <1>8, <1>9 DEF StreamStep

-----------------------------------------------------------------------------
(* The live log: a text that is on its way. *)

\* What got and the deltas in buf make, one after the other, is the text: the cuts
\* are where each delta begins.
Pieces(text, buf, got) ==
    \E p \in [0..Len(buf) -> 0..Len(text)] :
        /\ got = SubSeq(text, 1, p[0])
        /\ \A i \in 1..Len(buf) :
             p[i - 1] <= p[i] /\ buf[i] = SubSeq(text, p[i - 1] + 1, p[i])
        /\ p[Len(buf)] = Len(text)

LEMMA PiecesOfAll ==
  ASSUME NEW text \in Text PROVE Pieces(text, << >>, text)
<1> DEFINE p == [i \in 0..0 |-> Len(text)]
<1>1. Len(text) \in Nat /\ Len(<< >>) = 0 /\ SubSeq(text, 1, Len(text)) = text
  BY LenProperties, SubSeqFull, EmptySeq DEF Text
<1>2. p \in [0..Len(<< >>) -> 0..Len(text)] /\ p[0] = Len(text)
  BY <1>1
<1> HIDE DEF p
<1> QED
  BY <1>1, <1>2 DEF Pieces

LEMMA PiecesOfNone ==
  ASSUME NEW text \in Text, NEW got, Pieces(text, << >>, got) PROVE got = text
<1>1. Len(<< >>) = 0 /\ SubSeq(text, 1, Len(text)) = text
  BY SubSeqFull, EmptySeq DEF Text
<1> QED
  BY <1>1 DEF Pieces

LEMMA PiecesOfTail ==
  ASSUME NEW text \in Text, NEW buf \in Seq(Text), buf # << >>, NEW got, Pieces(text, buf, got)
  PROVE  Pieces(text, Tail(buf), got \o Head(buf))
<1>1. PICK p \in [0..Len(buf) -> 0..Len(text)] :
        /\ got = SubSeq(text, 1, p[0])
        /\ \A i \in 1..Len(buf) :
             p[i - 1] <= p[i] /\ buf[i] = SubSeq(text, p[i - 1] + 1, p[i])
        /\ p[Len(buf)] = Len(text)
  BY DEF Pieces
<1>2. /\ Len(buf) \in Nat \ {0} /\ Len(text) \in Nat /\ Head(buf) = buf[1]
      /\ Len(Tail(buf)) = Len(buf) - 1
      /\ \A i \in 1..Len(Tail(buf)) : Tail(buf)[i] = buf[i + 1]
  BY HeadTailProperties, LenProperties, EmptySeq DEF Text
<1> DEFINE q == [i \in 0..Len(Tail(buf)) |-> p[i + 1]]
<1>3. q \in [0..Len(Tail(buf)) -> 0..Len(text)] /\ \A i \in 0..Len(Tail(buf)) : q[i] = p[i + 1]
  BY <1>2
<1> HIDE DEF q
<1>4. got \o Head(buf) = SubSeq(text, 1, q[0])
  <2>1. p[0] \in 0..Len(text) /\ p[1] \in p[0]..Len(text) /\ p[0] \in Nat /\ q[0] = p[1]
        /\ buf[1] = SubSeq(text, p[0] + 1, p[1])
    <3>1. 0 \in 0..Len(buf) /\ 1 \in 0..Len(buf) /\ 1 \in 1..Len(buf) /\ 1 - 1 = 0
          /\ 0 \in 0..Len(Tail(buf)) /\ 0 + 1 = 1
      BY <1>2
    <3>2. p[1 - 1] <= p[1] /\ buf[1] = SubSeq(text, p[1 - 1] + 1, p[1])
      BY <1>1, <3>1
    <3>3. p[0] \in 0..Len(text) /\ p[1] \in 0..Len(text) /\ q[0] = p[1]
      BY <1>1, <1>3, <3>1
    <3> QED
      BY <1>2, <3>1, <3>2, <3>3
  <2>2. 1 \in 1..Len(text) + 1 /\ p[0] \in 1 - 1 .. Len(text) /\ text \in Seq(Nat)
    BY <1>2, <2>1 DEF Text
  <2>3. SubSeq(text, 1, p[0]) \o SubSeq(text, p[0] + 1, p[1]) = SubSeq(text, 1, p[1])
    BY <2>1, <2>2, ConcatAdjacentSubSeq
  <2> QED
    BY <1>1, <1>2, <2>1, <2>3
<1>5. ASSUME NEW i \in 1..Len(Tail(buf))
      PROVE  q[i - 1] <= q[i] /\ Tail(buf)[i] = SubSeq(text, q[i - 1] + 1, q[i])
  <2>1. i + 1 \in 1..Len(buf) /\ q[i - 1] = p[(i + 1) - 1] /\ q[i] = p[i + 1]
    BY <1>2, <1>3
  <2> QED
    BY <1>1, <1>2, <2>1
<1>6. q[Len(Tail(buf))] = Len(text)
  BY <1>1, <1>2, <1>3
<1> QED
  BY <1>3, <1>4, <1>5, <1>6 DEF Pieces

LEMMA PiecesOfMore ==
  ASSUME NEW text \in Text, NEW buf \in Seq(Text), NEW got, NEW e \in Nat, Pieces(text, buf, got)
  PROVE  LET all == Append(text, e) IN
         Pieces(all, Append(buf, SubSeq(all, Len(text) + 1, Len(all))), got)
<1> DEFINE all == Append(text, e)
           more == Append(buf, SubSeq(all, Len(text) + 1, Len(all)))
<1>1. PICK p \in [0..Len(buf) -> 0..Len(text)] :
        /\ got = SubSeq(text, 1, p[0])
        /\ \A i \in 1..Len(buf) :
             p[i - 1] <= p[i] /\ buf[i] = SubSeq(text, p[i - 1] + 1, p[i])
        /\ p[Len(buf)] = Len(text)
  BY DEF Pieces
<1>2. all \in Text /\ Len(all) = Len(text) + 1 /\ Len(text) \in Nat /\ Len(buf) \in Nat
  BY AppendProperties, LenProperties DEF Text
<1>3. \A i \in Nat, j \in 0..Len(text) : SubSeq(all, i + 1, j) = SubSeq(text, i + 1, j)
  BY PieceOfAppend
<1>4. SubSeq(all, Len(text) + 1, Len(all)) \in Text
  <2>1. \A i \in Len(text) + 1 .. Len(all) : all[i] \in Nat
    BY <1>2, LenProperties DEF Text
  <2> HIDE DEF all
  <2> QED
    BY <1>2, <2>1, SubSeqProperties DEF Text
<1> HIDE DEF all
<1>5. /\ Len(more) = Len(buf) + 1 /\ more[Len(buf) + 1] = SubSeq(all, Len(text) + 1, Len(all))
      /\ \A i \in 1..Len(buf) : more[i] = buf[i]
  BY <1>4, AppendProperties
<1> HIDE DEF more
<1> DEFINE q == [i \in 0..Len(more) |-> IF i <= Len(buf) THEN p[i] ELSE Len(all)]
<1>6. /\ q \in [0..Len(more) -> 0..Len(all)]
      /\ \A i \in 0..Len(buf) : q[i] = p[i]
      /\ q[Len(buf) + 1] = Len(all)
  BY <1>1, <1>2, <1>5
<1> HIDE DEF q
<1>7. got = SubSeq(all, 1, q[0])
  <2>1. p[0] \in 0..Len(text) /\ q[0] = p[0] /\ 0 \in Nat /\ 0 + 1 = 1
    BY <1>2, <1>6
  <2>2. SubSeq(all, 0 + 1, p[0]) = SubSeq(text, 0 + 1, p[0])
    BY <1>3, <2>1
  <2> QED
    BY <1>1, <2>1, <2>2
<1>8. ASSUME NEW i \in 1..Len(more)
      PROVE  q[i - 1] <= q[i] /\ more[i] = SubSeq(all, q[i - 1] + 1, q[i])
  <2>1. CASE i \in 1..Len(buf)
    <3>0. i \in 0..Len(buf) /\ i - 1 \in 0..Len(buf)
      BY <1>2, <2>1
    <3>1. /\ q[i - 1] = p[i - 1] /\ q[i] = p[i] /\ p[i - 1] \in 0..Len(text) /\ p[i] \in 0..Len(text)
          /\ p[i - 1] <= p[i] /\ buf[i] = SubSeq(text, p[i - 1] + 1, p[i]) /\ more[i] = buf[i]
      BY <1>1, <1>5, <1>6, <2>1, <3>0
    <3>2. p[i - 1] \in Nat
      BY <1>2, <3>1
    <3>3. SubSeq(all, p[i - 1] + 1, p[i]) = SubSeq(text, p[i - 1] + 1, p[i])
      BY <1>3, <3>1, <3>2
    <3> QED
      BY <3>1, <3>3
  <2>2. CASE i = Len(buf) + 1
    <3>1. q[i - 1] = Len(text) /\ q[i] = Len(all)
      BY <1>1, <1>2, <1>6, <2>2
    <3> QED
      BY <1>2, <1>5, <2>2, <3>1
  <2> QED
    BY <1>2, <1>5, <2>1, <2>2
<1>9. Pieces(all, more, got)
  BY <1>2, <1>5, <1>6, <1>7, <1>8 DEF Pieces
<1> QED
  BY <1>9 DEF all, more

-----------------------------------------------------------------------------
(* The live log: the invariants. *)

Past == {"recorded", "finished", "again", "ended"}
Over == {"finished", "again", "ended"}
Polling == {"lookup", "select", "overlay", "subscribe"}

\* The row of a run, what the run has written, and how far it is.
RowTells(r) ==
    /\ live[r].closed <=> run[r] \in Over
    /\ row[r].st = "none" <=> run[r] = "none"
    /\ row[r].st = "final" => run[r] \in Past
    /\ run[r] \in Past /\ r \notin marred.lost => row[r].st \in {"final", "gone"}
    /\ row[r].st # "final" => row[r].log = << >>
    /\ row[r].st = "final" /\ r \notin marred.late => row[r].log = Full(live[r])
    /\ r \notin marred.returned =>
         live[r].sent = Len(Full(live[r])) /\ IsPrefix(row[r].log, Full(live[r]))

\* Who may still be sent to: a channel is open until the run it follows is over.
Channels ==
    /\ \A r \in Runs : live[r].closed => live[r].subs = {}
    /\ \A r \in Runs : \A w \in live[r].subs :
         watch[w].pc = "follow" /\ watch[w].live = r /\ ch[w].open
    /\ \A w \in Watchers :
         /\ watch[w].pc \in {"idle"} \cup Polling => ch[w] = [buf |-> << >>, open |-> TRUE]
         /\ watch[w].pc = "follow" =>
              IF ch[w].open THEN w \in live[watch[w].live].subs ELSE live[watch[w].live].closed
         /\ watch[w].pc = "final" => live[watch[w].live].closed

\* What a stream has delivered of the text of its run.
Delivered(w) ==
    LET r == watch[w].run
        text == Full(live[r]) IN
    /\ watch[w].pc \in Polling => rcv[w] = watch[w].prev /\ IsPrefix(rcv[w], text)
    /\ r \notin marred.late =>
         /\ watch[w].pc = "follow" => Pieces(text, ch[w].buf, rcv[w])
         /\ watch[w].pc \in {"final", "done"} => rcv[w] = text

\* A stream that no other run has crossed.
StreamTells(w) ==
    LET r == watch[w].run
        s == watch[w] IN
    w \notin marred.crossed /\ s.pc # "idle" =>
        /\ row[r].st # "none"
        /\ s.pc \in {"subscribe", "follow", "final"} => s.live = r
        /\ s.pc = "overlay" =>
             /\ s.st \in {"running", "final"}
             /\ s.st = "final" => run[r] \in Past /\ (r \notin marred.late => s.log = Full(live[r]))
             /\ r \notin marred.returned => IsPrefix(s.log, Full(live[r]))
        /\ s.pc = "done" => run[r] \in Past /\ (r \notin marred.lost => s.st = "final")
        /\ w \notin marred.dropped \cup marred.torn /\ r \notin marred.returned => Delivered(w)

Rows == \A r \in Runs : RowTells(r)
Streams == \A w \in Watchers : StreamTells(w)
Fresh == \A w \in Watchers : watch[w].pc = "idle" => watch[w].prev = << >> /\ rcv[w] = << >>
LogInv == LogTyped /\ Asked /\ Fresh /\ Rows /\ Channels /\ Streams

MarksGrow ==
    /\ marred.dropped \subseteq marred'.dropped /\ marred.crossed \subseteq marred'.crossed
    /\ marred.torn \subseteq marred'.torn /\ marred.returned \subseteq marred'.returned
    /\ marred.lost \subseteq marred'.lost /\ marred.late \subseteq marred'.late

\* A run whose text and whose end stay.
SameText(r) ==
    /\ live'[r].lines = live[r].lines /\ live'[r].cur = live[r].cur
    /\ live'[r].sent = live[r].sent

\* What a step of stream w leaves alone.
OnlyStream(w) ==
    /\ UNCHANGED <<row, reg, run>> /\ MarksGrow
    /\ \A r \in Runs : SameText(r) /\ live'[r].closed = live[r].closed
    /\ \A x \in Watchers \ {w} : watch'[x] = watch[x] /\ rcv'[x] = rcv[x] /\ ch'[x] = ch[x]

LEMMA StreamStepsOnly ==
  ASSUME LogTyped, Asked, NEW w \in Watchers,
         StreamStep(w) \/ Leave(w) \/ (\E r \in Runs : Watch(w, r))
  PROVE  OnlyStream(w)
<1> DEFINE others == \A x \in Watchers \ {w} : watch'[x] = watch[x] /\ rcv'[x] = rcv[x] /\ ch'[x] = ch[x]
           texts == \A r \in Runs : SameText(r) /\ live'[r].closed = live[r].closed
<1>0. /\ watch \in [Watchers -> Stream] /\ rcv \in [Watchers -> Text]
      /\ ch \in [Watchers -> Channel] /\ live \in [Runs -> LiveRun]
  BY DEF LogTyped
<1>1. UNCHANGED <<row, reg, run>>
  BY DEF StreamStep, Leave, Watch, Lookup, Select, Overlay, Done, Subscribe, Receive, Closed
<1>2. MarksGrow
  <2>1. marred \in Marks
    BY DEF LogTyped
  <2>2. CASE Lookup(w)
    <3>1. \E S : marred' = [marred EXCEPT !.crossed = S] /\ marred.crossed \subseteq S
      BY <2>2 DEF Lookup
    <3> QED
      BY <2>1, <3>1 DEF Marks, MarksGrow
  <2>3. CASE Overlay(w)
    <3> DEFINE log == IF reg # NoEntry THEN Full(live[reg]) ELSE watch[w].log
               S == IF Crosses(w) THEN marred.crossed \cup {w} ELSE marred.crossed
               T == IF IsStrictPrefix(log, watch[w].prev) THEN marred.torn \cup {w} ELSE marred.torn
    <3>1. marred' = [marred EXCEPT !.crossed = S, !.torn = T]
      BY <2>3, Zenon DEF Overlay
    <3>2. marred.crossed \subseteq S /\ marred.torn \subseteq T
      OBVIOUS
    <3> HIDE DEF S, T
    <3> QED
      BY <2>1, <3>1, <3>2 DEF Marks, MarksGrow
  <2>4. CASE UNCHANGED marred
    BY <2>4 DEF MarksGrow
  <2> QED
    BY <2>2, <2>3, <2>4 DEF StreamStep, Leave, Watch, Select, Done, Subscribe, Receive, Closed
<1>3. texts
  <2>1. CASE UNCHANGED live
    BY <2>1 DEF SameText
  <2>2. CASE Subscribe(w)
    <3>1. watch[w].live \in Runs
      BY <2>2 DEF Subscribe, Asked
    <3>2. live' = live \/ live' = [live EXCEPT ![watch[w].live].subs = @ \cup {w}]
      BY <2>2 DEF Subscribe
    <3> QED
      BY <1>0, <3>1, <3>2 DEF SameText, LiveRun
  <2>3. CASE Leave(w)
    BY <1>0, <2>3 DEF Leave, SameText, LiveRun
  <2> QED
    BY <2>1, <2>2, <2>3 DEF StreamStep, Watch, Lookup, Select, Overlay, Done, Receive, Closed
<1>4. others
  <2>1. CASE (\E r \in Runs : Watch(w, r)) \/ Lookup(w) \/ Select(w) \/ Done(w)
    BY <1>0, <2>1 DEF Watch, Lookup, Select, Done
  <2>2. CASE Overlay(w)
    BY <1>0, <2>2 DEF Overlay
  <2>3. CASE Subscribe(w) \/ Receive(w)
    BY <1>0, <2>3 DEF Subscribe, Receive, Goes
  <2>4. CASE Closed(w) \/ Leave(w)
    BY <1>0, <2>4 DEF Closed, Leave, Goes
  <2> QED
    BY <2>1, <2>2, <2>3, <2>4 DEF StreamStep
<1> QED
  BY <1>1, <1>2, <1>3, <1>4 DEF OnlyStream

\* The rows of the runs that a step has nothing to do with.
LEMMA RowStays ==
  ASSUME NEW r \in Runs, RowTells(r), MarksGrow, SameText(r), live'[r].closed = live[r].closed,
         row'[r] = row[r], run'[r] = run[r]
  PROVE  RowTells(r)'
<1>1. Full(live'[r]) = Full(live[r])
  BY DEF Full, SameText
<1> QED
  BY <1>1 DEF RowTells, MarksGrow, SameText

LEMMA RunRows ==
  ASSUME LogTyped, Rows, NEW r \in Runs, Insert(r) \/ RunStep(r) \/ DeleteRow(r) PROVE Rows'
<1>1. /\ live[r] \in LiveRun /\ row[r] \in RunRow /\ run[r] \in RunPcs /\ RowTells(r)
      /\ Full(live[r]) \in Text /\ IsPrefix(Full(live[r]), Full(live[r]))
      /\ IsPrefix(<< >>, Full(live[r]))
  BY FullText, PrefixOfItself DEF LogTyped, Rows
<1>2. /\ \A x \in Runs \ {r} : row'[x] = row[x] /\ run'[x] = run[x] /\ live'[x] = live[x]
      /\ MarksGrow
  BY DEF Insert, RunStep, DeleteRow, Store, Record, RecordLost, Finish, RecordAgain, Deregister,
     LogTyped, Marks, MarksGrow
<1>3. \A x \in Runs \ {r} : RowTells(x)'
  BY <1>2, RowStays DEF Rows, SameText
<1> USE DEF RowTells, Past, Over, RunRow, LogTyped
<1>4. CASE Insert(r)
  BY <1>1, <1>3, <1>4 DEF Insert, Rows
<1>5. CASE Store(r)
  BY <1>1, <1>3, <1>5 DEF Store, Rows
<1>6. CASE Record(r)
  <2>1. /\ run[r] = "writing" /\ run'[r] = "recorded" /\ UNCHANGED <<live, marred>>
        /\ row'[r] = IF row[r].st = "gone" THEN row[r] ELSE [st |-> "final", log |-> Full(live[r])]
    BY <1>6 DEF Record, Recorded
  <2> QED
    BY <1>1, <1>3, <2>1 DEF Rows
<1>7. CASE RecordAgain(r)
  <2>1. /\ run[r] = "finished" /\ run'[r] = "again" /\ UNCHANGED <<live, marred>>
        /\ row'[r] = IF row[r].st = "gone" THEN row[r] ELSE [st |-> "final", log |-> Full(live[r])]
    BY <1>7 DEF RecordAgain, Recorded
  <2> QED
    BY <1>1, <1>3, <2>1 DEF Rows
<1>8. CASE RecordLost(r)
  <2>1. /\ run[r] = "writing" /\ run'[r] = "recorded" /\ UNCHANGED <<live, row>>
        /\ marred'.lost = marred.lost \cup {r} /\ marred'.late = marred.late
        /\ marred'.returned = marred.returned
    BY <1>8 DEF RecordLost, Marks
  <2> QED
    BY <1>1, <1>3, <2>1 DEF Rows
<1>9. CASE Finish(r)
  <2>1. /\ run[r] = "recorded" /\ run'[r] = "finished" /\ UNCHANGED <<row, marred>>
        /\ live'[r].closed /\ live'[r].sent = live[r].sent
        /\ Full(live'[r]) = Full(live[r])
    BY <1>1, <1>9 DEF Finish, LiveRun, Full
  <2> QED
    BY <1>1, <1>3, <2>1 DEF Rows
<1>10. CASE Deregister(r)
  BY <1>1, <1>3, <1>10 DEF Deregister, Rows
<1>11. CASE DeleteRow(r)
  <2>1. /\ row[r].st # "none" /\ row'[r] = [st |-> "gone", log |-> << >>]
        /\ UNCHANGED <<live, run, marred>>
    BY <1>1, <1>11 DEF DeleteRow
  <2> QED
    BY <1>1, <1>3, <2>1 DEF Rows
<1> QED
  BY <1>4, <1>5, <1>6, <1>7, <1>8, <1>9, <1>10, <1>11 DEF RunStep

LEMMA WriteRows ==
  ASSUME LogTyped, Rows, NEW r \in Runs, NEW kind \in Kinds, WriteLog(r, kind) PROVE Rows'
<1>1. /\ live[r] \in LiveRun /\ row[r] \in RunRow /\ RowTells(r)
      /\ Full(live[r]) \in Text /\ live[r].n + 1 \in Nat
  BY FullText DEF LogTyped, Rows, LiveRun
<1>2. /\ live' = [live EXCEPT ![r] = live'[r]] /\ live'[r].closed = live[r].closed
      /\ r \notin marred'.returned /\ live[r].sent = Len(Full(live[r])) =>
           /\ Full(live'[r]) = Append(Full(live[r]), live[r].n + 1)
           /\ live'[r].sent = Len(Full(live'[r]))
  BY WriteEffect
<1>3. MarksGrow /\ UNCHANGED <<row, run>>
  BY DEF WriteLog, LogTyped, Marks, MarksGrow
<1>4. \A x \in Runs \ {r} : RowTells(x)'
  <2>1. live \in [Runs -> LiveRun] /\ \E l : live' = [live EXCEPT ![r] = l]
    BY <1>2 DEF LogTyped
  <2>2. \A x \in Runs \ {r} : live'[x] = live[x]
    BY <2>1
  <2> QED
    BY <1>3, <2>2, RowStays DEF Rows, SameText
<1>5. row[r].st = "final" => r \in marred'.late
  BY <1>1 DEF WriteLog, LogTyped, Marks, RowTells, Past
<1>6. r \notin marred'.returned =>
        live'[r].sent = Len(Full(live'[r])) /\ IsPrefix(row[r].log, Full(live'[r]))
  <2>1. r \notin marred'.returned => r \notin marred.returned
    BY <1>3 DEF MarksGrow
  <2>2. row[r].log \in Text
    BY <1>1 DEF RunRow
  <2>3. IsPrefix(row[r].log, Full(live[r])) =>
          IsPrefix(row[r].log, Append(Full(live[r]), live[r].n + 1))
    BY <1>1, <2>2, PrefixOfAppend
  <2> QED
    BY <1>1, <1>2, <2>1, <2>3 DEF RowTells
<1>7. RowTells(r)'
  BY <1>1, <1>2, <1>3, <1>5, <1>6 DEF RowTells, MarksGrow
<1> QED
  BY <1>4, <1>7 DEF Rows

\* A poll: what it sends is what the log has more than the log before it.
LEMMA OverlayEffect ==
  ASSUME LogTyped, NEW w \in Watchers, Overlay(w)
  PROVE  LET log == IF reg # NoEntry THEN Full(live[reg]) ELSE watch[w].log IN
         /\ watch[w].pc = "overlay"
         /\ watch'[w].pc \in {"done", "lookup", "select"}
         /\ watch'[w].pc = "done" <=> watch[w].st # "running"
         /\ watch'[w].run = watch[w].run /\ watch'[w].st = watch[w].st
         /\ watch'[w].prev = log
         /\ rcv'[w] = IF log # watch[w].prev THEN rcv[w] \o TrimPrefix(log, watch[w].prev) ELSE rcv[w]
         /\ Crosses(w) => w \in marred'.crossed
         /\ IsStrictPrefix(log, watch[w].prev) => w \in marred'.torn
<1> DEFINE log == IF reg # NoEntry THEN Full(live[reg]) ELSE watch[w].log
           goes == IF watch[w].st # "running" THEN "done" ELSE IF watch[w].polled THEN "lookup" ELSE "select"
           S == IF Crosses(w) THEN marred.crossed \cup {w} ELSE marred.crossed
           T == IF IsStrictPrefix(log, watch[w].prev) THEN marred.torn \cup {w} ELSE marred.torn
<1>1. /\ watch[w].pc = "overlay"
      /\ rcv' = [rcv EXCEPT ![w] = IF log # watch[w].prev
                                   THEN rcv[w] \o TrimPrefix(log, watch[w].prev) ELSE rcv[w]]
      /\ watch' = [watch EXCEPT ![w].prev = log, ![w].polled = TRUE, ![w].log = << >>, ![w].pc = goes]
      /\ marred' = [marred EXCEPT !.crossed = S, !.torn = T]
  BY Zenon DEF Overlay
<1>2. /\ Crosses(w) => w \in S
      /\ IsStrictPrefix(log, watch[w].prev) => w \in T
      /\ goes \in {"done", "lookup", "select"} /\ (goes = "done" <=> watch[w].st # "running")
  OBVIOUS
<1> HIDE DEF log, goes, S, T
<1>3. watch \in [Watchers -> Stream] /\ rcv \in [Watchers -> Text] /\ marred \in Marks
  BY DEF LogTyped
<1>4. marred'.crossed = S /\ marred'.torn = T
  BY <1>1, <1>3 DEF Marks
<1>5. /\ watch'[w].pc = goes /\ watch'[w].prev = log /\ watch'[w].run = watch[w].run
      /\ watch'[w].st = watch[w].st
      /\ rcv'[w] = IF log # watch[w].prev THEN rcv[w] \o TrimPrefix(log, watch[w].prev) ELSE rcv[w]
  BY <1>1, <1>3 DEF Stream
<1> QED
  BY <1>1, <1>2, <1>4, <1>5 DEF log

\* The channels through the steps of a run: finish takes out and closes together.
LEMMA RunChannels ==
  ASSUME LogTyped, Asked, Channels, NEW r \in Runs, Insert(r) \/ RunStep(r) \/ DeleteRow(r)
  PROVE  Channels'
<1>1. CASE UNCHANGED <<live, ch, watch>>
  BY <1>1 DEF Channels
<1>2. CASE Finish(r)
  <2>1. /\ watch' = watch
        /\ live'[r].closed /\ live'[r].subs = {}
        /\ \A x \in Runs \ {r} : live'[x] = live[x]
        /\ \A w \in Watchers : ch'[w].buf = ch[w].buf
        /\ \A w \in Watchers \ live[r].subs : ch'[w] = ch[w]
        /\ \A w \in live[r].subs : ~ch'[w].open
    <3>1. live \in [Runs -> LiveRun] /\ live[r] \in LiveRun /\ ch \in [Watchers -> Channel]
      BY DEF LogTyped
    <3> QED
      BY <1>2, <3>1 DEF Finish, Close, LiveRun, Channel
  <2>2. \A x \in Runs : live[x].subs \subseteq Watchers
    BY DEF LogTyped, LiveRun
  <2>3. \A x \in Runs : live'[x].closed => live'[x].subs = {}
    BY <2>1 DEF Channels
  <2>4. ASSUME NEW x \in Runs, NEW w \in live'[x].subs
        PROVE  watch'[w].pc = "follow" /\ watch'[w].live = x /\ ch'[w].open
    <3>1. x # r /\ w \in live[x].subs /\ w \in Watchers
      BY <2>1, <2>2, <2>4
    <3>2. w \notin live[r].subs
      BY <3>1 DEF Channels
    <3> QED
      BY <2>1, <3>1, <3>2 DEF Channels
  <2>5. ASSUME NEW w \in Watchers
        PROVE  /\ watch'[w].pc \in {"idle"} \cup Polling => ch'[w] = [buf |-> << >>, open |-> TRUE]
               /\ watch'[w].pc = "follow" =>
                    IF ch'[w].open THEN w \in live'[watch'[w].live].subs
                    ELSE live'[watch'[w].live].closed
               /\ watch'[w].pc = "final" => live'[watch'[w].live].closed
    <3>1. watch[w].pc \in {"idle"} \cup Polling => w \notin live[r].subs
      BY DEF Channels, Polling
    <3>2. watch[w].pc \in {"follow", "final"} => watch[w].live \in Runs
      BY DEF Asked
    <3>3. w \in live[r].subs => watch[w].live = r
      BY DEF Channels
    <3> QED
      BY <2>1, <3>1, <3>2, <3>3 DEF Channels
  <2> QED
    BY <2>3, <2>4, <2>5 DEF Channels
<1> QED
  BY <1>1, <1>2 DEF Insert, RunStep, DeleteRow, Store, Record, RecordLost, RecordAgain, Deregister

\* ... and of a write, which only offers.
LEMMA WriteChannels ==
  ASSUME LogTyped, Asked, Channels, NEW r \in Runs, NEW kind \in Kinds, WriteLog(r, kind)
  PROVE  Channels'
<1>1. /\ live \in [Runs -> LiveRun] /\ live'[r] \in LiveRun /\ live' = [live EXCEPT ![r] = live'[r]]
      /\ live'[r].subs = live[r].subs /\ live'[r].closed = live[r].closed
      /\ \A w \in Watchers :
           \/ ch'[w] = ch[w]
           \/ /\ w \in live[r].subs
              /\ ch'[w] = Offer(ch[w], SubSeq(Full(live'[r]), live[r].sent + 1, Len(Full(live'[r]))))
  BY WriteEffect DEF LogTyped
<1>2. \A x \in Runs : live'[x].subs = live[x].subs /\ live'[x].closed = live[x].closed
  <2>1. \E l : live' = [live EXCEPT ![r] = l] /\ l.subs = live[r].subs /\ l.closed = live[r].closed
    BY <1>1
  <2> QED
    BY <1>1, <2>1
<1>3. \A w \in Watchers : ch'[w].open = ch[w].open /\ (w \notin live[r].subs => ch'[w] = ch[w])
  <2>1. \A w \in Watchers : \A d : Offer(ch[w], d).open = ch[w].open
    BY DEF Offer, LogTyped, Channel
  <2> QED
    BY <1>1, <2>1
<1>4. watch' = watch
  BY DEF WriteLog
<1>5. \A w \in Watchers : watch[w].pc \in {"idle"} \cup Polling => w \notin live[r].subs
  BY DEF Channels, Polling
<1>6. \A x \in Runs : live[x].subs \subseteq Watchers
  BY DEF LogTyped, LiveRun
<1>7. \A w \in Watchers : watch[w].pc \in {"follow", "final"} => watch[w].live \in Runs
  BY DEF Asked
<1> QED
  BY <1>2, <1>3, <1>4, <1>5, <1>6, <1>7 DEF Channels

\* ... and of a stream: subscribe looks at closed and registers under one lock.
LEMMA StreamChannels ==
  ASSUME LogTyped, Asked, Channels, NEW w \in Watchers,
         StreamStep(w) \/ Leave(w) \/ (\E r \in Runs : Watch(w, r))
  PROVE  Channels'
<1>0. /\ watch \in [Watchers -> Stream] /\ ch \in [Watchers -> Channel]
      /\ live \in [Runs -> LiveRun] /\ watch[w] \in Stream
  BY DEF LogTyped
<1>1. OnlyStream(w)
  BY StreamStepsOnly
<1>2. \A x \in Runs : live[x].subs \subseteq Watchers
  BY DEF LogTyped, LiveRun
<1>3. \A x \in Watchers : watch[x].pc \in {"follow", "final"} => watch[x].live \in Runs
  BY DEF Asked
<1>4. watch[w].pc # "follow" => \A x \in Runs : w \notin live[x].subs
  BY DEF Channels
<1>5. CASE /\ UNCHANGED <<live, ch>> /\ watch[w].pc # "follow"
           /\ watch'[w].pc \in Polling \cup {"idle", "done", "failed"}
           /\ watch'[w].pc \in {"idle"} \cup Polling => watch[w].pc \in {"idle"} \cup Polling
  BY <1>1, <1>2, <1>3, <1>4, <1>5 DEF Channels, OnlyStream, Polling
<1>6. CASE \/ \E r \in Runs : Watch(w, r)
           \/ Lookup(w) \/ Select(w) \/ Overlay(w) \/ Done(w)
  <2>1. UNCHANGED <<live, ch>> /\ watch[w].pc # "follow"
    BY <1>6 DEF Watch, Lookup, Select, Overlay, Done
  <2>2. CASE \/ \E r \in Runs : Watch(w, r)
             \/ Lookup(w) \/ Select(w) \/ Done(w)
    <3>1. /\ watch'[w].pc \in Polling \cup {"idle", "done", "failed"}
          /\ watch'[w].pc \in {"idle"} \cup Polling => watch[w].pc \in {"idle"} \cup Polling
      BY <1>0, <2>2 DEF Watch, Lookup, Select, Done, Polling, Stream
    <3> QED
      BY <1>5, <2>1, <3>1
  <2>3. CASE Overlay(w)
    <3>1. watch'[w].pc \in {"done", "lookup", "select"} /\ watch[w].pc = "overlay"
      BY <2>3, OverlayEffect
    <3> QED
      BY <1>5, <2>1, <3>1 DEF Polling
  <2> QED
    BY <1>6, <2>2, <2>3
<1>7. CASE Subscribe(w)
  <2> DEFINE l == watch[w].live
  <2>1. /\ l \in Runs /\ watch[w].pc = "subscribe" /\ ch[w].open
        /\ watch'[w].pc = "follow" /\ watch'[w].live = l
    BY <1>0, <1>7 DEF Subscribe, Asked, Goes, Channels, Polling, Stream
  <2>2. CASE live[l].closed
    <3>1. live' = live /\ ~ch'[w].open
      BY <1>0, <1>7, <2>2 DEF Subscribe, Channel
    <3> QED
      BY <1>1, <1>2, <1>3, <1>4, <2>1, <2>2, <3>1 DEF Channels, OnlyStream, Polling
  <2>3. CASE ~live[l].closed
    <3>1. ch' = ch /\ live' = [live EXCEPT ![l].subs = live[l].subs \cup {w}]
      BY <1>7, <2>3 DEF Subscribe
    <3>2. /\ live'[l].subs = live[l].subs \cup {w} /\ live'[l].closed = live[l].closed
          /\ \A x \in Runs \ {l} : live'[x] = live[x]
      BY <1>0, <2>1, <3>1 DEF LiveRun
    <3> HIDE DEF l
    <3>3. \A x \in Runs : live'[x].closed => live'[x].subs = {}
      BY <2>3, <3>2 DEF Channels
    <3>4. ASSUME NEW x \in Runs, NEW y \in live'[x].subs
          PROVE  watch'[y].pc = "follow" /\ watch'[y].live = x /\ ch'[y].open
      <4>1. CASE y = w
        BY <1>4, <2>1, <3>1, <3>2, <3>4, <4>1
      <4>2. CASE y # w
        BY <1>1, <1>2, <3>1, <3>2, <3>4, <4>2 DEF Channels, OnlyStream
      <4> QED
        BY <4>1, <4>2
    <3>5. ASSUME NEW y \in Watchers
          PROVE  /\ watch'[y].pc \in {"idle"} \cup Polling => ch'[y] = [buf |-> << >>, open |-> TRUE]
                 /\ watch'[y].pc = "follow" =>
                      IF ch'[y].open THEN y \in live'[watch'[y].live].subs
                      ELSE live'[watch'[y].live].closed
                 /\ watch'[y].pc = "final" => live'[watch'[y].live].closed
      <4>1. CASE y = w
        BY <2>1, <3>1, <3>2, <4>1 DEF Polling
      <4>2. CASE y # w
        BY <1>1, <1>3, <3>1, <3>2, <4>2 DEF Channels, OnlyStream
      <4> QED
        BY <4>1, <4>2
    <3> QED
      BY <3>3, <3>4, <3>5 DEF Channels
  <2> QED
    BY <2>2, <2>3
<1>8. CASE Receive(w) \/ Closed(w)
  <2>1. /\ live' = live /\ ch'[w].open = ch[w].open /\ watch[w].pc = "follow"
        /\ watch'[w].live = watch[w].live
        /\ watch'[w].pc \in {"follow", "final"}
        /\ watch'[w].pc = "final" => ~ch[w].open
    <3>1. CASE Receive(w)
      <4>1. /\ live' = live /\ watch[w].pc = "follow" /\ watch' = [watch EXCEPT ![w].pc = "follow"]
            /\ \E b : ch' = [ch EXCEPT ![w].buf = b]
        BY <3>1 DEF Receive, Goes
      <4> QED
        BY <1>0, <4>1 DEF Channel, Stream
    <3>2. CASE Closed(w)
      <4>1. /\ live' = live /\ watch[w].pc = "follow" /\ watch' = [watch EXCEPT ![w].pc = "final"]
            /\ ch' = ch /\ ~ch[w].open
        BY <3>2 DEF Closed, Goes
      <4> QED
        BY <1>0, <4>1 DEF Stream
    <3> QED
      BY <1>8, <3>1, <3>2
  <2>2. watch'[w].pc # "follow" => \A x \in Runs : w \notin live[x].subs
    BY <2>1 DEF Channels
  <2> QED
    BY <1>1, <1>2, <1>3, <2>1, <2>2 DEF Channels, OnlyStream, Polling
<1>9. CASE Leave(w)
  <2>1. /\ ch' = ch /\ watch'[w].pc = "left"
        /\ \A x \in Runs : live'[x].subs = live[x].subs \ {w} /\ live'[x].closed = live[x].closed
    BY <1>0, <1>9 DEF Leave, Goes, LiveRun, Stream
  <2> QED
    BY <1>1, <1>2, <1>3, <2>1 DEF Channels, OnlyStream, Polling
<1> QED
  BY <1>6, <1>7, <1>8, <1>9 DEF StreamStep

-----------------------------------------------------------------------------
(* The live log: what streams deliver. *)

\* A stream through a step that changes neither it nor the text of its run.
LEMMA StreamStays ==
  ASSUME NEW w \in Watchers, StreamTells(w), MarksGrow,
         watch'[w] = watch[w], rcv'[w] = rcv[w], ch'[w].buf = ch[w].buf,
         watch[w].pc # "idle" /\ w \notin marred.crossed =>
           LET r == watch[w].run IN
           /\ Full(live'[r]) = Full(live[r])
           /\ row[r].st # "none" => row'[r].st # "none"
           /\ run[r] \in Past => run'[r] \in Past
  PROVE  StreamTells(w)'
<1>1. CASE w \in marred'.crossed \/ watch'[w].pc = "idle"
  BY <1>1 DEF StreamTells
<1>2. CASE w \notin marred'.crossed /\ watch'[w].pc # "idle"
  <2> DEFINE r == watch[w].run
  <2>1. /\ w \notin marred.crossed /\ watch[w].pc # "idle"
        /\ Full(live'[r]) = Full(live[r]) /\ row'[r].st # "none"
        /\ run[r] \in Past => run'[r] \in Past
        /\ watch'[w].run = r
    BY <1>2 DEF MarksGrow, StreamTells
  <2>2. /\ r \notin marred'.late => r \notin marred.late
        /\ r \notin marred'.lost => r \notin marred.lost
        /\ r \notin marred'.returned => r \notin marred.returned
        /\ w \notin marred'.dropped \cup marred'.torn => w \notin marred.dropped \cup marred.torn
    BY DEF MarksGrow
  <2>3. Delivered(w) => Delivered(w)'
    BY <2>1, <2>2 DEF Delivered
  <2> QED
    BY <2>1, <2>2, <2>3 DEF StreamTells
<1> QED
  BY <1>1, <1>2

LEMMA RunStreams ==
  ASSUME LogTyped, Asked, Streams, NEW r \in Runs, Insert(r) \/ RunStep(r) \/ DeleteRow(r)
  PROVE  Streams'
<1>1. /\ UNCHANGED <<watch, rcv>> /\ MarksGrow
      /\ \A w \in Watchers : ch'[w].buf = ch[w].buf
      /\ \A x \in Runs : Full(live'[x]) = Full(live[x])
  <2>1. CASE Finish(r)
    <3>1. /\ \A w \in Watchers : ch'[w].buf = ch[w].buf
          /\ \A x \in Runs : live'[x].lines = live[x].lines /\ live'[x].cur = live[x].cur
      BY <2>1 DEF Finish, Close, LogTyped, LiveRun, Channel
    <3> QED
      BY <2>1, <3>1 DEF Finish, Full, MarksGrow
  <2>2. CASE Insert(r) \/ Store(r) \/ Record(r) \/ RecordAgain(r) \/ Deregister(r) \/ DeleteRow(r)
    BY <2>2 DEF Insert, Store, Record, RecordAgain, Deregister, DeleteRow, MarksGrow
  <2>3. CASE RecordLost(r)
    BY <2>3 DEF RecordLost, MarksGrow, LogTyped, Marks
  <2> QED
    BY <2>1, <2>2, <2>3 DEF RunStep
<1>2. \A x \in Runs : /\ row[x].st # "none" => row'[x].st # "none"
                      /\ run[x] \in Past => run'[x] \in Past
  BY DEF Insert, RunStep, DeleteRow, Store, Record, RecordLost, Finish, RecordAgain, Deregister,
     Recorded, Past, LogTyped, RunRow
<1>3. \A w \in Watchers : watch[w].pc # "idle" => watch[w].run \in Runs
  BY DEF Asked
<1> QED
  BY <1>1, <1>2, <1>3, StreamStays DEF Streams

LEMMA WriteStreams ==
  ASSUME LogTyped, Asked, Rows, Channels, Streams, NEW r \in Runs, NEW kind \in Kinds,
         WriteLog(r, kind)
  PROVE  Streams'
<1> DEFINE text == Full(live[r])
           more == Full(live'[r])
<1>1. /\ live \in [Runs -> LiveRun] /\ live[r] \in LiveRun /\ RowTells(r)
      /\ text \in Text /\ live[r].n + 1 \in Nat
  BY FullText DEF LogTyped, Rows, LiveRun
<1>2. /\ live' = [live EXCEPT ![r] = live'[r]]
      /\ \A w \in Watchers :
           \/ ch'[w] = ch[w]
           \/ w \in live[r].subs /\ ch'[w] = Offer(ch[w], SubSeq(more, live[r].sent + 1, Len(more)))
      /\ live[r].sent = Len(text) /\ r \notin marred'.returned =>
           /\ more = Append(text, live[r].n + 1)
           /\ \A w \in live[r].subs :
                /\ ch'[w] = Offer(ch[w], SubSeq(more, live[r].sent + 1, Len(more)))
                /\ w \notin marred'.dropped => Len(ch[w].buf) < Cap
  BY WriteEffect
<1>3. /\ MarksGrow /\ UNCHANGED <<row, run, watch, rcv>> /\ marred'.crossed = marred.crossed
      /\ run[r] = "writing" \/ r \in marred'.late
  BY DEF WriteLog, LogTyped, Marks, MarksGrow
<1>4. \A x \in Runs \ {r} : live'[x] = live[x]
  <2>1. \E l : live' = [live EXCEPT ![r] = l]
    BY <1>2
  <2> QED
    BY <1>1, <2>1
<1>5. ASSUME NEW w \in Watchers PROVE StreamTells(w)'
  <2>1. CASE w \in marred.crossed \/ watch[w].pc = "idle"
    BY <1>3, <2>1 DEF StreamTells
  <2>2. CASE w \notin marred.crossed /\ watch[w].pc # "idle" /\ watch[w].run # r
    <3>1. watch[w].run \in Runs \ {r}
      BY <2>2 DEF Asked
    <3>2. w \notin live[r].subs
      BY <2>2 DEF Channels, Streams, StreamTells
    <3>3. ch'[w] = ch[w] /\ Full(live'[watch[w].run]) = Full(live[watch[w].run])
      BY <1>2, <1>4, <3>1, <3>2
    <3> QED
      BY <1>3, <3>3, StreamStays DEF Streams
  <2>3. CASE w \notin marred.crossed /\ watch[w].pc # "idle" /\ watch[w].run = r
    <3>0. StreamTells(w)
      BY DEF Streams
    <3>1. /\ r \notin marred'.late => r \notin marred.late
          /\ r \notin marred'.returned => r \notin marred.returned
          /\ w \notin marred'.dropped \cup marred'.torn => w \notin marred.dropped \cup marred.torn
          /\ r \notin marred'.lost => r \notin marred.lost
      BY <1>3 DEF MarksGrow
    <3>2. r \notin marred'.returned => live[r].sent = Len(text) /\ more = Append(text, live[r].n + 1)
      BY <1>1, <1>2, <3>1 DEF RowTells
    <3>3. ASSUME NEW p \in Text, r \notin marred'.returned, IsPrefix(p, text) PROVE IsPrefix(p, more)
      <4>1. IsPrefix(p, Append(text, live[r].n + 1))
        BY <1>1, <3>3, PrefixOfAppend
      <4> QED
        BY <3>2, <3>3, <4>1
    <3>4. watch[w].log \in Text /\ rcv[w] \in Text /\ ch[w] \in Channel
      BY DEF LogTyped, Stream
    <3>5. r \in marred'.late \/ (run[r] \notin Past /\ run[r] \notin Over)
      BY <1>3 DEF Past, Over
    <3>6. ASSUME r \notin marred'.late, r \notin marred'.returned, w \notin marred'.dropped \cup marred'.torn
          PROVE  /\ watch[w].pc = "follow" => Pieces(more, ch'[w].buf, rcv[w])
                 /\ watch[w].pc \notin {"final", "done"}
      <4>1. ~live[r].closed /\ watch[w].pc \notin {"final", "done"}
        BY <1>1, <2>3, <3>0, <3>5, <3>6 DEF RowTells, StreamTells, Channels
      <4>2. ASSUME watch[w].pc = "follow" PROVE Pieces(more, ch'[w].buf, rcv[w])
        <5>1. watch[w].live = r /\ w \in live[r].subs
          BY <2>3, <3>0, <4>1, <4>2 DEF StreamTells, Channels
        <5>2. /\ ch'[w] = Offer(ch[w], SubSeq(more, live[r].sent + 1, Len(more)))
              /\ Len(ch[w].buf) < Cap
          BY <1>2, <3>2, <3>6, <5>1
        <5>3. ch'[w].buf = Append(ch[w].buf, SubSeq(more, Len(text) + 1, Len(more)))
          BY <3>2, <3>4, <3>6, <5>2 DEF Offer, Channel
        <5>4. Pieces(text, ch[w].buf, rcv[w]) /\ ch[w].buf \in Seq(Text)
          BY <2>3, <3>0, <3>1, <3>4, <3>6, <4>2 DEF StreamTells, Delivered, Channel
        <5>5. Pieces(Append(text, live[r].n + 1),
                     Append(ch[w].buf, SubSeq(Append(text, live[r].n + 1), Len(text) + 1,
                                              Len(Append(text, live[r].n + 1)))), rcv[w])
          BY <1>1, <5>4, PiecesOfMore
        <5> QED
          BY <3>2, <3>6, <5>3, <5>5
      <4> QED
        BY <4>1, <4>2
    <3> HIDE DEF text, more
    <3>7. ASSUME r \notin marred'.returned, w \notin marred'.dropped \cup marred'.torn
          PROVE  Delivered(w)'
      <4>1. watch[w].pc \in Polling => rcv[w] = watch[w].prev /\ IsPrefix(rcv[w], text)
        BY <2>3, <3>0, <3>1, <3>7 DEF StreamTells, Delivered, text
      <4>2. watch[w].pc \in Polling => rcv[w] = watch[w].prev /\ IsPrefix(rcv[w], more)
        BY <3>3, <3>4, <3>7, <4>1
      <4> QED
        BY <1>3, <2>3, <3>6, <3>7, <4>2 DEF Delivered, more
    <3>8. watch[w].pc = "overlay" =>
            /\ watch[w].st \in {"running", "final"}
            /\ watch[w].st = "final" => run[r] \in Past /\ r \in marred'.late
            /\ r \notin marred'.returned => IsPrefix(watch[w].log, more)
      BY <2>3, <3>0, <3>1, <3>3, <3>4, <3>5 DEF StreamTells, text
    <3> QED
      BY <1>3, <2>3, <3>0, <3>1, <3>7, <3>8 DEF StreamTells, more
  <2> QED
    BY <2>1, <2>2, <2>3
<1> QED
  BY <1>5 DEF Streams

\* A poll leaves the stream with the whole log, unless that was shorter than the
\* log before it.
LEMMA OverlayStreams ==
  ASSUME LogInv, NEW w \in Watchers, Overlay(w) PROVE StreamTells(w)'
<1> DEFINE s == watch[w]
           r == s.run
           text == Full(live[r])
           log == IF reg # NoEntry THEN Full(live[reg]) ELSE s.log
<1>1. /\ s.pc = "overlay"
      /\ watch'[w].pc \in {"done", "lookup", "select"}
      /\ watch'[w].pc = "done" <=> s.st # "running"
      /\ watch'[w].run = r /\ watch'[w].st = s.st
      /\ watch'[w].prev = log
      /\ rcv'[w] = IF log # s.prev THEN rcv[w] \o TrimPrefix(log, s.prev) ELSE rcv[w]
      /\ Crosses(w) => w \in marred'.crossed
      /\ IsStrictPrefix(log, s.prev) => w \in marred'.torn
  BY OverlayEffect DEF LogInv
<1>2. OnlyStream(w)
  BY StreamStepsOnly DEF LogInv, StreamStep
<1>3. /\ r \in Runs /\ StreamTells(w) /\ text \in Text /\ s.log \in Text /\ s.prev \in Text
      /\ IsPrefix(text, text)
  BY <1>1, FullText, PrefixOfItself DEF LogInv, LogTyped, Asked, Streams, Stream
<1>4. Full(live'[r]) = text
  BY <1>2, <1>3 DEF OnlyStream, SameText, Full
<1>5. /\ row' = row /\ run' = run
      /\ r \notin marred'.late => r \notin marred.late
      /\ r \notin marred'.returned => r \notin marred.returned
      /\ w \notin marred'.dropped \cup marred'.torn => w \notin marred.dropped \cup marred.torn
      /\ w \notin marred'.crossed => w \notin marred.crossed
  BY <1>2 DEF OnlyStream, MarksGrow
<1>6. w \notin marred'.crossed => log = IF reg # NoEntry THEN text ELSE s.log
  BY <1>1 DEF Crosses
<1>7. ASSUME w \notin marred'.crossed, r \notin marred'.returned,
             w \notin marred'.dropped \cup marred'.torn
      PROVE  Delivered(w)'
  <2>1. /\ IsPrefix(s.log, text) /\ rcv[w] = s.prev /\ IsPrefix(s.prev, text)
        /\ s.st = "final" /\ r \notin marred.late => s.log = text
    BY <1>1, <1>3, <1>5, <1>7 DEF StreamTells, Delivered, Polling
  <2>2. log \in Text /\ IsPrefix(log, text)
    BY <1>3, <1>6, <1>7, <2>1
  <2>3. IsPrefix(s.prev, log) \/ (IsPrefix(log, s.prev) /\ log # s.prev)
    <3>1. IsPrefix(s.prev, log) \/ IsPrefix(log, s.prev)
      BY <1>3, <2>1, <2>2, PrefixesOfOne
    <3>2. IsPrefix(s.prev, s.prev)
      BY <1>3, PrefixOfItself
    <3> QED
      BY <3>1, <3>2
  <2>4. IsPrefix(s.prev, log)
    BY <1>1, <1>7, <2>3 DEF IsStrictPrefix
  <2>5. rcv'[w] = log
    <3>1. s.prev \o TrimPrefix(log, s.prev) = log
      BY <1>3, <2>2, <2>4, TrimmedPrefix
    <3> QED
      BY <1>1, <2>1, <3>1
  <2>6. watch'[w].pc = "done" /\ r \notin marred'.late => log = text
    BY <1>1, <1>3, <1>5, <1>6, <1>7, <2>1 DEF StreamTells
  <2> HIDE DEF log, text, s, r
  <2> QED
    BY <1>1, <1>4, <2>2, <2>5, <2>6 DEF Delivered, r, s, text
<1>8. w \notin marred'.crossed => /\ row[r].st # "none" /\ s.st \in {"running", "final"}
                                  /\ s.st = "final" => run[r] \in Past
  BY <1>1, <1>3, <1>5 DEF StreamTells
<1> HIDE DEF log, text, s, r
<1> QED
  BY <1>1, <1>5, <1>7, <1>8 DEF StreamTells, r, s

LEMMA OwnStream ==
  ASSUME LogInv, NEW w \in Watchers,
         StreamStep(w) \/ Leave(w) \/ (\E r \in Runs : Watch(w, r))
  PROVE  StreamTells(w)'
<1> DEFINE s == watch[w]
           r == s.run
           text == Full(live[r])
<1>0. /\ watch \in [Watchers -> Stream] /\ rcv \in [Watchers -> Text] /\ ch \in [Watchers -> Channel]
      /\ live \in [Runs -> LiveRun] /\ row \in [Runs -> RunRow] /\ marred \in Marks
      /\ StreamTells(w) /\ s \in Stream /\ rcv[w] \in Text /\ s.prev \in Text /\ s.log \in Text
      /\ \A x \in Runs : Full(live[x]) \in Text
  BY FullText DEF LogInv, LogTyped, Streams, Stream
<1>1. OnlyStream(w)
  BY StreamStepsOnly DEF LogInv
<1>2. /\ row' = row /\ run' = run
      /\ \A x \in Runs : Full(live'[x]) = Full(live[x])
      /\ \A x : /\ x \notin marred'.late => x \notin marred.late
                /\ x \notin marred'.returned => x \notin marred.returned
                /\ x \notin marred'.lost => x \notin marred.lost
      /\ w \notin marred'.dropped \cup marred'.torn => w \notin marred.dropped \cup marred.torn
      /\ w \notin marred'.crossed => w \notin marred.crossed
  BY <1>1 DEF OnlyStream, MarksGrow, SameText, Full
<1>3. s.pc # "idle" => r \in Runs
  BY DEF LogInv, Asked
<1>4. CASE \E x \in Runs : Watch(w, x)
  <2>1. PICK x \in Runs : Watch(w, x)
    BY <1>4
  <2>2. /\ watch'[w].pc = "lookup" /\ watch'[w].run = x /\ watch'[w].prev = s.prev
        /\ rcv' = rcv /\ row[x].st # "none" /\ s.pc = "idle"
    BY <1>0, <2>1 DEF Watch, Stream
  <2>3. rcv[w] = << >> /\ s.prev = << >>
    BY <2>2 DEF LogInv, Fresh
  <2>4. IsPrefix(<< >>, Full(live[x]))
    BY <1>0, PrefixOfItself
  <2>5. Delivered(w)'
    BY <1>2, <2>2, <2>3, <2>4 DEF Delivered
  <2> QED
    BY <1>2, <2>2, <2>5 DEF StreamTells
<1>5. CASE Lookup(w)
  <2>1. /\ s.pc = "lookup" /\ rcv' = rcv
        /\ watch'[w].run = r /\ watch'[w].prev = s.prev
        /\ IF reg # NoEntry THEN watch'[w].pc = "subscribe" /\ watch'[w].live = reg
                            ELSE watch'[w].pc = "select"
    BY <1>0, <1>5 DEF Lookup, Stream
  <2>2. Crosses(w) => w \in marred'.crossed
    BY <1>0, <1>5 DEF Lookup, Marks
  <2>3. ASSUME w \notin marred'.crossed, w \notin marred'.dropped \cup marred'.torn,
               r \notin marred'.returned
        PROVE  Delivered(w)'
    <3>1. rcv[w] = s.prev /\ IsPrefix(rcv[w], text)
      BY <1>0, <1>2, <2>1, <2>3 DEF StreamTells, Delivered, Polling
    <3> QED
      BY <1>2, <1>3, <2>1, <3>1 DEF Delivered, Polling
  <2>4. w \notin marred'.crossed /\ watch'[w].pc = "subscribe" => reg = r
    BY <2>1, <2>2 DEF Crosses
  <2> HIDE DEF s, r, text
  <2>5. w \notin marred'.crossed => row[r].st # "none"
    BY <1>0, <1>2, <2>1 DEF StreamTells, r, s
  <2> QED
    BY <1>2, <2>1, <2>3, <2>4, <2>5 DEF StreamTells
<1>6. CASE Select(w)
  <2>1. /\ s.pc = "select" /\ rcv' = rcv /\ marred' = marred /\ r \in Runs
        /\ watch' = IF row[r].st = "gone" THEN [watch EXCEPT ![w].pc = "failed"]
                    ELSE [watch EXCEPT ![w].pc = "overlay", ![w].st = row[r].st, ![w].log = row[r].log]
    BY <1>3, <1>6 DEF Select
  <2>2. /\ watch'[w].run = r /\ watch'[w].prev = s.prev
        /\ watch'[w].pc = IF row[r].st = "gone" THEN "failed" ELSE "overlay"
        /\ row[r].st # "gone" => watch'[w].st = row[r].st /\ watch'[w].log = row[r].log
    <3>1. row[r].st = "gone" => watch' = [watch EXCEPT ![w] = [s EXCEPT !.pc = "failed"]]
      BY <1>0, <2>1
    <3>2. row[r].st # "gone" =>
            watch' = [watch EXCEPT ![w] = [s EXCEPT !.pc = "overlay", !.st = row[r].st, !.log = row[r].log]]
      BY <1>0, <2>1
    <3>3. CASE row[r].st = "gone"
      BY <1>0, <3>1, <3>3 DEF Stream
    <3>4. CASE row[r].st # "gone"
      <4> DEFINE a == row[r].st
                 b == row[r].log
      <4>1. watch' = [watch EXCEPT ![w] = [s EXCEPT !.pc = "overlay", !.st = a, !.log = b]]
        BY <3>2, <3>4
      <4> HIDE DEF a, b
      <4>2. /\ watch'[w].run = s.run /\ watch'[w].prev = s.prev /\ watch'[w].pc = "overlay"
            /\ watch'[w].st = a /\ watch'[w].log = b
        BY <1>0, <4>1 DEF Stream
      <4> QED
        BY <3>4, <4>2 DEF a, b
    <3> QED
      BY <3>3, <3>4
  <2>3. RowTells(r) /\ row[r] \in RunRow
    BY <1>0, <2>1 DEF LogInv, Rows
  <2>4. ASSUME w \notin marred.crossed, w \notin marred.dropped \cup marred.torn,
               r \notin marred.returned
        PROVE  Delivered(w)'
    <3>1. rcv[w] = s.prev /\ IsPrefix(rcv[w], text)
      BY <1>0, <2>1, <2>4 DEF StreamTells, Delivered, Polling
    <3> QED
      BY <1>2, <2>1, <2>2, <3>1 DEF Delivered, Polling
  <2>5. w \notin marred.crossed => row[r].st # "none"
    BY <1>0, <2>1 DEF StreamTells
  <2>6. row[r].st # "gone" /\ row[r].st # "none" =>
          /\ row[r].st \in {"running", "final"}
          /\ row[r].st = "final" => run[r] \in Past /\ (r \notin marred.late => row[r].log = text)
          /\ r \notin marred.returned => IsPrefix(row[r].log, text)
    BY <2>3 DEF RowTells, RunRow
  <2> HIDE DEF s, r
  <2> QED
    BY <1>2, <2>1, <2>2, <2>4, <2>5, <2>6 DEF StreamTells
<1>7. CASE Overlay(w)
  BY <1>7, OverlayStreams
<1>8. CASE Subscribe(w)
  <2>1. /\ s.pc = "subscribe" /\ marred' = marred /\ r \in Runs /\ s.live \in Runs
        /\ watch' = [watch EXCEPT ![w].pc = "follow"]
        /\ rcv' = [rcv EXCEPT ![w] = rcv[w] \o TrimPrefix(Full(live[s.live]), s.prev)]
        /\ ch' = ch \/ ch' = [ch EXCEPT ![w].open = FALSE]
    BY <1>3, <1>8 DEF Subscribe, Goes, LogInv, Asked
  <2>2. /\ watch'[w].pc = "follow" /\ watch'[w].run = r /\ watch'[w].live = s.live
        /\ rcv'[w] = rcv[w] \o TrimPrefix(Full(live[s.live]), s.prev)
    BY <1>0, <2>1 DEF Stream
  <2>3. ch'[w].buf = << >>
    <3>1. ch[w].buf = << >>
      BY <2>1 DEF LogInv, Channels, Polling
    <3> QED
      BY <1>0, <2>1, <3>1 DEF Channel
  <2>4. w \notin marred.crossed => s.live = r /\ row[r].st # "none"
    BY <1>0, <2>1 DEF StreamTells
  <2>5. ASSUME w \notin marred.crossed, w \notin marred.dropped \cup marred.torn,
               r \notin marred.returned
        PROVE  Delivered(w)'
    <3>1. rcv[w] = s.prev /\ IsPrefix(s.prev, text)
      BY <1>0, <2>1, <2>5 DEF StreamTells, Delivered, Polling
    <3>2. rcv'[w] = text
      <4>1. s.prev \o TrimPrefix(text, s.prev) = text
        BY <1>0, <2>1, <3>1, TrimmedPrefix
      <4> QED
        BY <2>2, <2>4, <2>5, <3>1, <4>1
    <3>3. Pieces(text, << >>, text)
      BY <1>0, <2>1, PiecesOfAll
    <3> QED
      BY <1>2, <2>1, <2>2, <2>3, <3>2, <3>3 DEF Delivered, Polling
  <2> HIDE DEF s, r
  <2> QED
    BY <1>2, <2>1, <2>2, <2>4, <2>5 DEF StreamTells
<1>9. CASE Receive(w)
  <2>1. /\ s.pc = "follow" /\ marred' = marred /\ r \in Runs /\ ch[w].buf # << >>
        /\ watch' = [watch EXCEPT ![w].pc = "follow"]
        /\ rcv' = [rcv EXCEPT ![w] = rcv[w] \o Head(ch[w].buf)]
        /\ ch' = [ch EXCEPT ![w].buf = Tail(ch[w].buf)]
    BY <1>3, <1>9 DEF Receive, Goes
  <2>2. /\ watch'[w].pc = "follow" /\ watch'[w].run = r /\ watch'[w].live = s.live
        /\ rcv'[w] = rcv[w] \o Head(ch[w].buf) /\ ch'[w].buf = Tail(ch[w].buf)
        /\ ch[w].buf \in Seq(Text)
    BY <1>0, <2>1 DEF Stream, Channel
  <2>3. Pieces(text, ch[w].buf, rcv[w]) => Pieces(text, Tail(ch[w].buf), rcv[w] \o Head(ch[w].buf))
    BY <1>0, <2>1, <2>2, PiecesOfTail
  <2>4. ASSUME w \notin marred.crossed, w \notin marred.dropped \cup marred.torn,
               r \notin marred.returned
        PROVE  Delivered(w)'
    <3>1. r \notin marred.late => Pieces(text, ch[w].buf, rcv[w])
      BY <1>0, <2>1, <2>4 DEF StreamTells, Delivered
    <3> QED
      BY <1>2, <2>1, <2>2, <2>3, <3>1 DEF Delivered, Polling
  <2>5. w \notin marred.crossed => s.live = r /\ row[r].st # "none"
    BY <1>0, <2>1 DEF StreamTells
  <2> HIDE DEF s, r
  <2> QED
    BY <1>2, <2>1, <2>2, <2>4, <2>5 DEF StreamTells
<1>10. CASE Closed(w)
  <2>1. /\ s.pc = "follow" /\ marred' = marred /\ r \in Runs /\ ch[w].buf = << >>
        /\ watch' = [watch EXCEPT ![w].pc = "final"]
        /\ rcv' = [rcv EXCEPT ![w] = rcv[w] \o << >>]
    BY <1>3, <1>10 DEF Closed, Goes
  <2>2. /\ watch'[w].pc = "final" /\ watch'[w].run = r /\ watch'[w].live = s.live
        /\ rcv'[w] = rcv[w] \o << >>
    BY <1>0, <2>1 DEF Stream
  <2>3. rcv[w] \o << >> = rcv[w]
    BY <1>0, ConcatEmptySeq DEF Text
  <2>4. ASSUME w \notin marred.crossed, w \notin marred.dropped \cup marred.torn,
               r \notin marred.returned
        PROVE  Delivered(w)'
    <3>1. r \notin marred.late => Pieces(text, << >>, rcv[w])
      BY <1>0, <2>1, <2>4 DEF StreamTells, Delivered
    <3>2. r \notin marred.late => rcv[w] = text
      BY <1>0, <2>1, <3>1, PiecesOfNone
    <3> QED
      BY <1>2, <2>1, <2>2, <2>3, <3>2 DEF Delivered, Polling
  <2>5. w \notin marred.crossed => s.live = r /\ row[r].st # "none"
    BY <1>0, <2>1 DEF StreamTells
  <2> HIDE DEF s, r
  <2> QED
    BY <1>2, <2>1, <2>2, <2>4, <2>5 DEF StreamTells
<1>11. CASE Done(w)
  <2>1. /\ s.pc = "final" /\ marred' = marred /\ r \in Runs /\ rcv' = rcv
        /\ watch' = IF row[r].st = "gone" THEN [watch EXCEPT ![w].pc = "failed"]
                    ELSE [watch EXCEPT ![w].pc = "done", ![w].st = row[r].st]
    BY <1>3, <1>11 DEF Done
  <2>2. /\ watch'[w].run = r
        /\ watch'[w].pc = IF row[r].st = "gone" THEN "failed" ELSE "done"
        /\ row[r].st # "gone" => watch'[w].st = row[r].st
    BY <1>0, <2>1 DEF Stream
  <2>3. /\ w \notin marred.crossed => s.live = r /\ row[r].st # "none"
        /\ live[s.live].closed
    BY <1>0, <2>1 DEF StreamTells, LogInv, Channels
  <2>4. w \notin marred.crossed => run[r] \in Past /\ (r \notin marred.lost => row[r].st \in {"final", "gone"})
    BY <2>1, <2>3 DEF LogInv, Rows, RowTells, Past, Over
  <2>5. ASSUME w \notin marred.crossed, w \notin marred.dropped \cup marred.torn,
               r \notin marred.returned
        PROVE  Delivered(w)'
    <3>1. r \notin marred.late => rcv[w] = text
      BY <1>0, <2>1, <2>5 DEF StreamTells, Delivered
    <3> QED
      BY <1>2, <2>1, <2>2, <3>1 DEF Delivered, Polling
  <2> HIDE DEF s, r
  <2> QED
    BY <1>2, <2>1, <2>2, <2>3, <2>4, <2>5 DEF StreamTells
<1>12. CASE Leave(w)
  <2>1. /\ marred' = marred /\ s.pc # "idle" /\ watch' = [watch EXCEPT ![w].pc = "left"]
    BY <1>12 DEF Leave, Goes
  <2>2. watch'[w].pc = "left" /\ watch'[w].run = r
    BY <1>0, <2>1 DEF Stream
  <2> QED
    BY <1>0, <1>2, <2>1, <2>2 DEF StreamTells, Delivered, Polling
<1> QED
  BY <1>4, <1>5, <1>6, <1>7, <1>8, <1>9, <1>10, <1>11, <1>12 DEF StreamStep

\* What a stream that starts has sent: nothing.
LEMMA StreamsFresh ==
  ASSUME LogTyped, Asked, Fresh, NEW w \in Watchers,
         StreamStep(w) \/ Leave(w) \/ (\E r \in Runs : Watch(w, r))
  PROVE  Fresh'
<1>0. watch \in [Watchers -> Stream] /\ watch[w] \in Stream
  BY DEF LogTyped
<1>1. OnlyStream(w)
  BY StreamStepsOnly
<1>2. watch'[w].pc # "idle"
  <2>1. CASE Overlay(w)
    BY <2>1, OverlayEffect
  <2>2. CASE Lookup(w)
    BY <1>0, <2>2 DEF Lookup, Stream
  <2>3. CASE Select(w)
    BY <1>0, <2>3 DEF Select, Stream
  <2>4. CASE Done(w)
    BY <1>0, <2>4 DEF Done, Stream
  <2>5. CASE Leave(w) \/ Subscribe(w) \/ Receive(w) \/ Closed(w)
    <3>1. \E x \in {"left", "follow", "final"} : watch' = [watch EXCEPT ![w].pc = x]
      BY <2>5 DEF Leave, Subscribe, Receive, Closed, Goes
    <3> QED
      BY <1>0, <3>1 DEF Stream
  <2>6. CASE \E r \in Runs : Watch(w, r)
    <3>1. PICK r \in Runs : Watch(w, r)
      BY <2>6
    <3> QED
      BY <1>0, <3>1 DEF Watch, Stream
  <2> QED
    BY <2>1, <2>2, <2>3, <2>4, <2>5, <2>6 DEF StreamStep
<1> QED
  BY <1>1, <1>2 DEF Fresh, OnlyStream

LEMMA LogInitially == LogInit => LogInv
<1> SUFFICES ASSUME LogInit PROVE LogInv
  OBVIOUS
<1>1. << >> \in Text /\ << >> \in Seq(Text) /\ Len(<< >>) = 0 /\ 0 \in 0..MaxPiece
      /\ 0 \in 0..MaxFault /\ 0 \in 0..MaxDelete /\ 0 <= Cap
      /\ IsPrefix(<< >>, << >>) /\ << >> \o << >> = << >>
  <2>1. << >> \in Seq(Nat) /\ << >> \in Seq(Text) /\ Len(<< >>) = 0
    BY EmptySeq
  <2>2. IsPrefix(<< >>, << >>)
    BY <2>1, PrefixOfItself DEF Text
  <2>3. << >> \o << >> = << >>
    BY <2>1, ConcatEmptySeq
  <2>4. 0 \in 0..MaxPiece /\ 0 \in 0..MaxFault /\ 0 \in 0..MaxDelete /\ 0 <= Cap
    BY LiveAssumption DEF LiveAssumption
  <2> QED
    BY <2>1, <2>2, <2>3, <2>4 DEF Text
<1>2. /\ row = [r \in Runs |-> [st |-> "none", log |-> << >>]]
      /\ live = [r \in Runs |-> NewLive]
      /\ run = [r \in Runs |-> "none"]
      /\ ch = [w \in Watchers |-> [buf |-> << >>, open |-> TRUE]]
      /\ watch = [w \in Watchers |-> Idle]
      /\ rcv = [w \in Watchers |-> << >>]
  BY DEF LogInit
<1>3. LogTyped
  <2>1. [st |-> "none", log |-> << >>] \in RunRow /\ NewLive \in LiveRun
        /\ [buf |-> << >>, open |-> TRUE] \in Channel /\ Idle \in Stream
    BY <1>1 DEF RunRow, NewLive, LiveRun, Channel, Idle, Stream
  <2>2. marred \in Marks /\ reg \in Runs \cup {NoEntry} /\ quiet \subseteq Builds
        /\ faults \in 0..MaxFault /\ deletes \in 0..MaxDelete
    BY <1>1 DEF LogInit, Marks
  <2> QED
    BY <1>1, <1>2, <2>1, <2>2 DEF LogTyped, RunPcs
<1>4. Asked /\ Fresh
  BY <1>2 DEF Asked, Fresh, Idle
<1>5. Rows
  BY <1>1, <1>2 DEF Rows, RowTells, NewLive, Full, Past, Over
<1>6. Channels
  BY <1>2 DEF Channels, NewLive, Idle, Polling
<1>7. Streams
  BY <1>2 DEF Streams, StreamTells, Idle
<1> QED
  BY <1>3, <1>4, <1>5, <1>6, <1>7 DEF LogInv

LEMMA LogInStep == LogInv /\ [LogNext]_logVars => LogInv'
<1> SUFFICES ASSUME LogInv, [LogNext]_logVars PROVE LogInv'
  OBVIOUS
<1>0. LogTyped /\ Asked /\ Fresh /\ Rows /\ Channels /\ Streams
  BY DEF LogInv
<1>1. ASSUME NEW r \in Runs, Insert(r) \/ RunStep(r) \/ DeleteRow(r) PROVE LogInv'
  <2>1. UNCHANGED <<watch, rcv>>
    BY <1>1 DEF Insert, RunStep, DeleteRow, Store, Record, RecordLost, Finish, RecordAgain, Deregister
  <2>2. Asked' /\ Fresh'
    BY <1>0, <2>1 DEF Asked, Fresh
  <2> QED
    BY <1>0, <1>1, <2>2, RunTyped, RunRows, RunChannels, RunStreams DEF LogInv
<1>2. ASSUME NEW r \in Runs, NEW kind \in Kinds, WriteLog(r, kind) PROVE LogInv'
  <2>1. UNCHANGED <<watch, rcv>>
    BY <1>2 DEF WriteLog
  <2>2. Asked' /\ Fresh'
    BY <1>0, <2>1 DEF Asked, Fresh
  <2> QED
    BY <1>0, <1>2, <2>2, WriteTyped, WriteRows, WriteChannels, WriteStreams DEF LogInv
<1>3. ASSUME NEW w \in Watchers, StreamStep(w) \/ Leave(w) \/ (\E r \in Runs : Watch(w, r))
      PROVE  LogInv'
  <2>1. OnlyStream(w) /\ LogTyped' /\ Asked' /\ Fresh' /\ Channels' /\ StreamTells(w)'
    BY <1>0, <1>3, StreamStepsOnly, StreamTyped, StreamsFresh, StreamChannels, OwnStream
  <2>2. Rows'
    BY <1>0, <2>1, RowStays DEF Rows, OnlyStream
  <2>3. ASSUME NEW x \in Watchers \ {w} PROVE StreamTells(x)'
    <3>1. watch[x].pc # "idle" => watch[x].run \in Runs
      BY <1>0 DEF Asked
    <3>2. \A r \in Runs : Full(live'[r]) = Full(live[r])
      BY <2>1 DEF OnlyStream, SameText, Full
    <3> QED
      BY <1>0, <2>1, <3>1, <3>2, StreamStays DEF OnlyStream, Streams
  <2> QED
    BY <2>1, <2>2, <2>3 DEF LogInv, Streams
<1>4. CASE UNCHANGED logVars
  BY <1>0, <1>4 DEF logVars, LogInv, LogTyped, Asked, Fresh, Rows, RowTells, Channels, Streams,
     StreamTells, Delivered
<1> QED
  BY <1>1, <1>2, <1>3, <1>4 DEF LogNext

\* The facts about live logs hold in every state.
THEOREM LogInvariant == LogSpec => []LogInv
<1>1. LogInit => LogInv
  BY LogInitially
<1>2. LogInv /\ [LogNext]_logVars => LogInv'
  BY LogInStep
<1> QED
  BY <1>1, <1>2, PTL DEF LogSpec

\* The maps and channels of live logs keep their types, and no channel holds more
\* than its capacity: a write never blocks on a slow stream.
THEOREM LogTypeCorrect == LogSpec => []LogTypeOK
<1>1. LogInv => LogTypeOK
  BY LogTypedIsType DEF LogInv
<1> QED
  BY <1>1, LogInvariant, PTL

\* Write never sends on a closed channel and finish closes none twice, whatever
\* runs share the id and however streams come and go.
THEOREM OpenSubscribers == LogSpec => []SubscribersOpen
<1>1. LogInv => SubscribersOpen
  BY DEF LogInv, Channels, SubscribersOpen
<1> QED
  BY <1>1, LogInvariant, PTL

\* A WatchBuild or WatchDeploy stream that ends has sent the log exactly once and
\* whole and ends with the final status, outside the exceptions WholeLog names.
THEOREM WholeLogDelivered == LogSpec => []WholeLog
<1>1. LogInv => WholeLog
  <2> SUFFICES ASSUME LogInv, NEW w \in Watchers, watch[w].pc = "done",
                      w \notin marred.crossed, watch[w].run \notin marred.lost
               PROVE  /\ watch[w].st = "final"
                      /\ \/ w \in marred.dropped \cup marred.torn
                         \/ watch[w].run \in marred.returned \cup marred.late
                         \/ row[watch[w].run].st = "gone"
                         \/ rcv[w] = row[watch[w].run].log
    BY DEF WholeLog
  <2>1. StreamTells(w) /\ watch[w].run \in Runs
    BY DEF LogInv, Streams, Asked
  <2>2. RowTells(watch[w].run)
    BY <2>1 DEF LogInv, Rows
  <2>3. watch[w].st = "final" /\ run[watch[w].run] \in Past
    BY <2>1 DEF StreamTells
  <2>4. row[watch[w].run].st \in {"final", "gone"}
    BY <2>2, <2>3 DEF RowTells
  <2> QED
    BY <2>1, <2>2, <2>3, <2>4 DEF StreamTells, Delivered, RowTells
<1> QED
  BY <1>1, LogInvariant, PTL
=============================================================================
