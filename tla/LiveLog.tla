------------------------------ MODULE LiveLog -------------------------------
(***************************************************************************)
(* The live log of a build or a deploy (platform/server/ops.go liveRun and *)
(* the global map lives, http.go watchLive and followLive): one goroutine  *)
(* writes, any number of WatchBuild and WatchDeploy streams follow.        *)
(*                                                                         *)
(* lives is keyed by the bare id, and builds and deploys take theirs from  *)
(* two AUTO_INCREMENT columns, so a build and a deploy can share an id.    *)
(* Runs is the set of runs of ONE id: entries of other ids never meet.     *)
(*                                                                         *)
(* Text is a sequence of numbered pieces; a piece is written at the end of *)
(* the current line, as the end of it, or after a carriage return that     *)
(* discards what the line had.                                             *)
(***************************************************************************)
EXTENDS Naturals, Sequences, SequencesExt

CONSTANTS
    Runs,        \* runs that have this id
    Builds,      \* the build among them, if there is one
    Self,        \* the deploy, if it replaces the platform and goes on after finish("ok")
    Watchers,    \* streams
    NoEntry,        \* no entry
    Cap,         \* capacity of a subscriber's channel (64 in the code)
    MaxPiece,    \* bound: pieces a run writes
    MaxFault,    \* bound: UPDATEs that are lost
    MaxDelete    \* bound: rows that DeleteJob or DeleteApp removes

ASSUME LiveAssumption ==
    /\ NoEntry \notin Runs /\ Builds \subseteq Runs /\ Self \subseteq Runs \ Builds
    /\ Cap \in Nat \ {0} /\ MaxPiece \in Nat /\ MaxFault \in Nat /\ MaxDelete \in Nat

VARIABLES
    row,       \* the run's row: status and log_text
    live,      \* its liveRun
    reg,       \* lives[id]
    run,       \* where the goroutine of the run is
    quiet,     \* builds of createBuildDeploy, which have no entry in lives
    ch,        \* the channel of each stream
    watch,     \* the state of each stream
    rcv,       \* the text the stream has sent to its client
    faults,    \* lost UPDATEs so far
    deletes,   \* deleted rows so far
    marred     \* history: runs and streams whose delivery something has spoilt

logVars == <<row, live, reg, run, quiet, ch, watch, rcv, faults, deletes, marred>>

Text == Seq(Nat)
Kinds == {"part", "line", "return"}

LogTypeOK ==
    /\ row \in [Runs -> [st : {"none", "running", "final", "gone"}, log : Text]]
    /\ live \in [Runs -> [lines : Text, cur : Text, sent : Nat, n : 0..MaxPiece,
                          subs : SUBSET Watchers, closed : BOOLEAN]]
    /\ reg \in Runs \cup {NoEntry}
    /\ run \in [Runs -> {"none", "inserted", "writing", "recorded", "finished", "again", "ended"}]
    /\ quiet \subseteq Builds
    /\ ch \in [Watchers -> [buf : Seq(Text), open : BOOLEAN]]
    /\ \A w \in Watchers : Len(ch[w].buf) <= Cap
    /\ watch \in [Watchers ->
          [pc : {"idle", "lookup", "select", "overlay", "subscribe", "follow", "final",
                 "done", "failed", "left"},
           run : Runs \cup {NoEntry}, live : Runs \cup {NoEntry}, polled : BOOLEAN,
           st : {"none", "running", "final"}, log : Text, prev : Text]]
    /\ rcv \in [Watchers -> Text]
    /\ faults \in 0..MaxFault /\ deletes \in 0..MaxDelete
    /\ marred \in [dropped : SUBSET Watchers, crossed : SUBSET Watchers, torn : SUBSET Watchers,
                   returned : SUBSET Runs, lost : SUBSET Runs, late : SUBSET Runs]

NewLive == [lines |-> << >>, cur |-> << >>, sent |-> 0, n |-> 0, subs |-> {}, closed |-> FALSE]
Idle == [pc |-> "idle", run |-> NoEntry, live |-> NoEntry, polled |-> FALSE, st |-> "none",
         log |-> << >>, prev |-> << >>]

LogInit ==
    /\ row = [r \in Runs |-> [st |-> "none", log |-> << >>]]
    /\ live = [r \in Runs |-> NewLive]
    /\ reg = NoEntry
    /\ run = [r \in Runs |-> "none"]
    /\ quiet = {}
    /\ ch = [w \in Watchers |-> [buf |-> << >>, open |-> TRUE]]
    /\ watch = [w \in Watchers |-> Idle]
    /\ rcv = [w \in Watchers |-> << >>]
    /\ faults = 0 /\ deletes = 0
    /\ marred = [dropped |-> {}, crossed |-> {}, torn |-> {}, returned |-> {}, lost |-> {},
                 late |-> {}]

(* liveRun.String *)
Full(l) == l.lines \o l.cur

(* strings.TrimPrefix *)
TrimPrefix(s, p) == IF IsPrefix(p, s) THEN SubSeq(s, Len(p) + 1, Len(s)) ELSE s

-----------------------------------------------------------------------------
(* The goroutine of a run.  A build of createBuildDeploy logs into the     *)
(* entry of its deploy; its own liveRun here is the text of that build.    *)

Insert(r) ==
    /\ run[r] = "none"
    /\ row' = [row EXCEPT ![r].st = "running"]
    /\ run' = [run EXCEPT ![r] = "inserted"]
    /\ quiet' \in IF r \in Builds THEN {quiet, quiet \cup {r}} ELSE {quiet}
    /\ UNCHANGED <<live, reg, ch, watch, rcv, faults, deletes, marred>>

(* lives.Store, whatever is there. *)
Store(r) ==
    /\ run[r] = "inserted"
    /\ reg' = IF r \in quiet THEN reg ELSE r
    /\ run' = [run EXCEPT ![r] = "writing"]
    /\ UNCHANGED <<row, live, ch, watch, rcv, faults, deletes, marred, quiet>>

(* absorb of one piece. *)
Absorb(l, kind) ==
    LET piece == l.n + 1 IN
    CASE kind = "part"   -> [l EXCEPT !.n = piece, !.cur = Append(@, piece)]
      [] kind = "line"   -> [l EXCEPT !.n = piece, !.lines = Append(@ \o l.cur, piece),
                                      !.cur = << >>]
      [] kind = "return" -> [l EXCEPT !.n = piece, !.cur = << piece >>]

\* A send that does not wait for room.
Offer(c, delta) == IF Len(c.buf) < Cap THEN [c EXCEPT !.buf = Append(@, delta)] ELSE c

(* liveRun.Write: subscribers get what the text has grown by beyond the    *)
(* longest it has been.                                                    *)
WriteLog(r, kind) ==
    LET l == Absorb(live[r], kind)
        full == Full(l)
        delta == SubSeq(full, l.sent + 1, Len(full))
        to == IF Len(full) > l.sent THEN l.subs ELSE {} IN
    /\ run[r] = "writing" \/ (run[r] = "finished" /\ r \in Self)
    /\ live[r].n < MaxPiece
    /\ live' = [live EXCEPT ![r] = IF Len(full) > l.sent THEN [l EXCEPT !.sent = Len(full)] ELSE l]
    /\ ch' = [w \in Watchers |-> IF w \in to THEN Offer(ch[w], delta) ELSE ch[w]]
    /\ marred' = [marred EXCEPT
          !.dropped = @ \cup {w \in to : Len(ch[w].buf) >= Cap},
          !.returned = IF kind = "return" /\ live[r].cur # << >> THEN @ \cup {r} ELSE @,
          !.late = IF run[r] = "finished" THEN @ \cup {r} ELSE @]
    /\ UNCHANGED <<row, reg, run, watch, rcv, faults, deletes, quiet>>

\* UPDATE of status and log_text: matches no row once it is deleted.
Recorded(r) ==
    IF row[r].st = "gone" THEN row[r] ELSE [st |-> "final", log |-> Full(live[r])]

(* The row first, the subscribers after it. *)
Record(r) ==
    /\ run[r] = "writing"
    /\ row' = [row EXCEPT ![r] = Recorded(r)]
    /\ run' = [run EXCEPT ![r] = "recorded"]
    /\ UNCHANGED <<live, reg, ch, watch, rcv, faults, deletes, marred, quiet>>

RecordLost(r) ==
    /\ run[r] = "writing"
    /\ faults < MaxFault
    /\ faults' = faults + 1
    /\ marred' = [marred EXCEPT !.lost = @ \cup {r}]
    /\ run' = [run EXCEPT ![r] = "recorded"]
    /\ UNCHANGED <<row, live, reg, ch, watch, rcv, deletes, quiet>>

Close(S) ==
    ch' = [w \in Watchers |-> IF w \in S THEN [ch[w] EXCEPT !.open = FALSE] ELSE ch[w]]

FinishKeepSubs(r) ==
    /\ run[r] = "recorded"
    /\ live' = [live EXCEPT ![r].closed = TRUE]
    /\ Close(live[r].subs)
    /\ run' = [run EXCEPT ![r] = "finished"]
    /\ UNCHANGED <<row, reg, watch, rcv, faults, deletes, marred, quiet>>

FinishNoClose(r) ==
    /\ run[r] = "recorded"
    /\ live' = [live EXCEPT ![r].closed = TRUE, ![r].subs = {}]
    /\ run' = [run EXCEPT ![r] = "finished"]
    /\ UNCHANGED <<row, reg, ch, watch, rcv, faults, deletes, marred, quiet>>

(* liveRun.finish *)
Finish(r) ==
    /\ run[r] = "recorded"
    /\ live' = [live EXCEPT ![r].closed = TRUE, ![r].subs = {}]
    /\ Close(live[r].subs)
    /\ run' = [run EXCEPT ![r] = "finished"]
    /\ UNCHANGED <<row, reg, watch, rcv, faults, deletes, marred, quiet>>

(* A deploy of the platform itself goes on after finish("ok") and, if      *)
(* compose fails, records and finishes once more; closed makes the second  *)
(* finish a no-op.                                                         *)
RecordAgain(r) ==
    /\ run[r] = "finished"
    /\ r \in Self
    /\ row' = [row EXCEPT ![r] = Recorded(r)]
    /\ run' = [run EXCEPT ![r] = "again"]
    /\ UNCHANGED <<live, reg, ch, watch, rcv, faults, deletes, marred, quiet>>

(* lives.Delete, whoever's entry it is. *)
Deregister(r) ==
    /\ run[r] \in {"finished", "again"}
    /\ reg' = IF r \in quiet THEN reg ELSE NoEntry
    /\ run' = [run EXCEPT ![r] = "ended"]
    /\ UNCHANGED <<row, live, ch, watch, rcv, faults, deletes, marred, quiet>>

(* DeleteJob or DeleteApp removes the row. *)
DeleteRow(r) ==
    /\ deletes < MaxDelete
    /\ row[r].st \in {"running", "final"}
    /\ deletes' = deletes + 1
    /\ row' = [row EXCEPT ![r] = [st |-> "gone", log |-> << >>]]
    /\ UNCHANGED <<live, reg, run, ch, watch, rcv, faults, marred, quiet>>

-----------------------------------------------------------------------------
(* A stream. *)

\* The stream goes on to pc having sent text to its client.
Goes(w, pc, text) ==
    /\ watch' = [watch EXCEPT ![w].pc = pc]
    /\ rcv' = [rcv EXCEPT ![w] = @ \o text]

Watch(w, r) ==
    /\ watch[w].pc = "idle"
    /\ row[r].st # "none"
    /\ watch' = [watch EXCEPT ![w].pc = "lookup", ![w].run = r]
    /\ UNCHANGED <<row, live, reg, run, ch, rcv, faults, deletes, marred, quiet>>

\* The stream reads lives[id] and finds another run.
Crosses(w) == reg \notin {NoEntry, watch[w].run}

(* lives.Load: at the start, and after each poll but the first. *)
Lookup(w) ==
    /\ watch[w].pc = "lookup"
    /\ watch' = IF reg # NoEntry
                THEN [watch EXCEPT ![w].pc = "subscribe", ![w].live = reg]
                ELSE [watch EXCEPT ![w].pc = "select"]
    /\ marred' = [marred EXCEPT !.crossed = IF Crosses(w) THEN @ \cup {w} ELSE @]
    /\ UNCHANGED <<row, live, reg, run, ch, rcv, faults, deletes, quiet>>

(* loadBuild, loadDeploy: the row, then the live text over its log. *)
Select(w) ==
    LET r == row[watch[w].run] IN
    /\ watch[w].pc = "select"
    /\ watch' = IF r.st = "gone" THEN [watch EXCEPT ![w].pc = "failed"]
                ELSE [watch EXCEPT ![w].pc = "overlay", ![w].st = r.st, ![w].log = r.log]
    /\ UNCHANGED <<row, live, reg, run, ch, rcv, faults, deletes, marred, quiet>>

Overlay(w) ==
    LET log == IF reg # NoEntry THEN Full(live[reg]) ELSE watch[w].log IN
    /\ watch[w].pc = "overlay"
    /\ rcv' = [rcv EXCEPT ![w] = IF log # watch[w].prev
                                 THEN @ \o TrimPrefix(log, watch[w].prev) ELSE @]
    /\ watch' = [watch EXCEPT ![w].prev = log, ![w].polled = TRUE, ![w].log = << >>,
                              ![w].pc = IF watch[w].st # "running" THEN "done"
                                        ELSE IF watch[w].polled THEN "lookup" ELSE "select"]
    /\ marred' = [marred EXCEPT
          !.crossed = IF Crosses(w) THEN @ \cup {w} ELSE @,
          !.torn = IF IsStrictPrefix(log, watch[w].prev) THEN @ \cup {w} ELSE @]
    /\ UNCHANGED <<row, live, reg, run, ch, faults, deletes, quiet>>

SubscribeLateSnap(w) ==
    LET l == live[watch[w].live] IN
    /\ watch[w].pc = "subscribe"
    /\ Goes(w, "follow", << >>)
    /\ IF l.closed
       THEN /\ ch' = [ch EXCEPT ![w].open = FALSE]
            /\ UNCHANGED live
       ELSE /\ live' = [live EXCEPT ![watch[w].live].subs = @ \cup {w}]
            /\ UNCHANGED ch
    /\ UNCHANGED <<row, reg, run, faults, deletes, marred, quiet>>

(* subscribe: the snapshot and the channel under one lock. *)
Subscribe(w) ==
    LET l == live[watch[w].live] IN
    /\ watch[w].pc = "subscribe"
    /\ Goes(w, "follow", TrimPrefix(Full(l), watch[w].prev))
    /\ IF l.closed
       THEN /\ ch' = [ch EXCEPT ![w].open = FALSE]
            /\ UNCHANGED live
       ELSE /\ live' = [live EXCEPT ![watch[w].live].subs = @ \cup {w}]
            /\ UNCHANGED ch
    /\ UNCHANGED <<row, reg, run, faults, deletes, marred, quiet>>

Receive(w) ==
    /\ watch[w].pc = "follow"
    /\ ch[w].buf # << >>
    /\ Goes(w, "follow", Head(ch[w].buf))
    /\ ch' = [ch EXCEPT ![w].buf = Tail(@)]
    /\ UNCHANGED <<row, live, reg, run, faults, deletes, marred, quiet>>

(* A closed channel is empty before it reports that it is closed. *)
Closed(w) ==
    /\ watch[w].pc = "follow"
    /\ ch[w].buf = << >>
    /\ ~ch[w].open
    /\ Goes(w, "final", << >>)
    /\ UNCHANGED <<row, live, reg, run, ch, faults, deletes, marred, quiet>>

(* load once more, for the status of the last event. *)
Done(w) ==
    LET r == row[watch[w].run] IN
    /\ watch[w].pc = "final"
    /\ watch' = IF r.st = "gone" THEN [watch EXCEPT ![w].pc = "failed"]
                ELSE [watch EXCEPT ![w].pc = "done", ![w].st = r.st]
    /\ UNCHANGED <<row, live, reg, run, ch, rcv, faults, deletes, marred, quiet>>

(* The client goes away: cancel takes the channel out of subs. *)
Leave(w) ==
    /\ watch[w].pc \notin {"idle", "done", "failed", "left"}
    /\ Goes(w, "left", << >>)
    /\ live' = [r \in Runs |-> [live[r] EXCEPT !.subs = @ \ {w}]]
    /\ UNCHANGED <<row, reg, run, ch, faults, deletes, marred, quiet>>

RunStep(r) ==
    \/ Store(r) \/ Record(r) \/ RecordLost(r) \/ Finish(r) \/ RecordAgain(r) \/ Deregister(r)
StreamStep(w) ==
    \/ Lookup(w) \/ Select(w) \/ Overlay(w) \/ Subscribe(w) \/ Receive(w) \/ Closed(w) \/ Done(w)

LogNext ==
    \/ \E r \in Runs : Insert(r) \/ RunStep(r) \/ DeleteRow(r)
    \/ \E r \in Runs, kind \in Kinds : WriteLog(r, kind)
    \/ \E w \in Watchers, r \in Runs : Watch(w, r)
    \/ \E w \in Watchers : StreamStep(w) \/ Leave(w)

LogSpec == LogInit /\ [][LogNext]_logVars

(* A run that was inserted goes on to its end (its commands return: an     *)
(* assumption about git, docker and the scripts), and a stream's goroutine *)
(* is scheduled and its client reads.                                      *)
FairLogSpec ==
    /\ LogSpec
    /\ \A r \in Runs : WF_logVars(RunStep(r))
    /\ \A w \in Watchers : WF_logVars(StreamStep(w))

-----------------------------------------------------------------------------
(* Properties. *)

(* Write never sends on a closed channel and finish never closes one twice *)
(* (both panic): a channel that a liveRun still holds is open, although    *)
(* streams come and go and a run writes and finishes after its finish.     *)
SubscribersOpen == \A r \in Runs : \A w \in live[r].subs : ch[w].open

(* A stream that ends has delivered the log exactly once and whole,        *)
(* whether it started before lives.Store, after the run ended or between,  *)
(* polled first or subscribed at once.  The exceptions are in the code: a  *)
(* channel that was full, a carriage return, a lost UPDATE, a deploy that  *)
(* goes on after finish, another run found under the shared id, and a load *)
(* that selects the row before the UPDATE and looks in lives after the     *)
(* entry is gone: it reads an empty log, and the next one sends the text a *)
(* second time.  Its last event carries the status the run ended with,     *)
(* never "running": the row is updated before finish closes the channels.  *)
WholeLog ==
    \A w \in Watchers :
        LET r == watch[w].run IN
        /\ watch[w].pc = "done"
        /\ w \notin marred.crossed
        /\ r \notin marred.lost
        => /\ watch[w].st = "final"
           /\ \/ w \in marred.dropped \cup marred.torn
              \/ r \in marred.returned \cup marred.late
              \/ row[r].st = "gone"
              \/ rcv[w] = row[r].log

(* Every stream ends, by its last event or an error, unless the row is     *)
(* stuck at running because its UPDATE was lost.                           *)
StreamsEnd ==
    \A w \in Watchers :
        watch[w].pc # "idle" ~> \/ watch[w].pc \in {"done", "failed", "left"}
                                \/ marred.lost # {}
=============================================================================
