----------------------------- MODULE ConfigVar ------------------------------
(***************************************************************************)
(* A configuration variable that follows one etcd key (config/etcd.go), in *)
(* several instances of a service at once.  Each instance runs Var.Watch:  *)
(* GET the key, then stream its changes from the next revision, and start  *)
(* again whenever either fails.                                            *)
(*                                                                         *)
(* etcd itself is external: a history of the key, one value per revision   *)
(* (those of other keys are left out).  While it cannot be reached nothing *)
(* is lost; when its container is started anew, the key is gone and the    *)
(* revisions count from the beginning, as its data is on a tmpfs.  A GET   *)
(* that fails changes nothing and is left out, as is the second that Watch *)
(* sleeps.                                                                 *)
(***************************************************************************)
EXTENDS Naturals, Sequences

CONSTANTS
    Instances,   \* processes that watch the key
    Values,      \* values the key can have
    Fallback,    \* NewVar's argument
    None,        \* the key is missing
    MaxWrite,    \* bound: writes to the key
    MaxDown,     \* bound: times etcd cannot be reached
    MaxLoss,     \* bound: times it is started anew
    MaxBreak     \* bound: streams that break while etcd is up

ASSUME ConfigAssumption ==
    /\ Fallback \in Values /\ None \notin Values
    /\ MaxWrite \in Nat /\ MaxDown \in Nat /\ MaxLoss \in Nat /\ MaxBreak \in Nat

VARIABLES
    hist,     \* the key after each revision
    up,       \* etcd answers
    downs,    \* outages so far
    losses,   \* starts anew so far
    breaks,   \* broken streams so far
    pc,       \* where each instance is in sync: "get", "dial" or "watch"
    v,        \* Var.v of each instance
    next,     \* the revision the instance asks for, or waits for, next
    at,       \* history: the revision the instance has taken into account
    missing   \* history: instances that will ask etcd for a revision of an etcd before it, or wait for one

etcd == <<hist, up, downs, losses>>
vars == <<etcd, breaks, pc, v, next, at, missing>>

KeyAt(h) == IF h = << >> THEN None ELSE h[Len(h)]
Key == KeyAt(hist)

TypeOK ==
    /\ hist \in Seq(Values \cup {None}) /\ Len(hist) <= MaxWrite
    /\ up \in BOOLEAN /\ downs \in 0..MaxDown /\ losses \in 0..MaxLoss /\ breaks \in 0..MaxBreak
    /\ pc \in [Instances -> {"get", "dial", "watch"}]
    /\ v \in [Instances -> Values]
    /\ next \in [Instances -> 1..(MaxWrite + 1)]
    /\ at \in [Instances -> 0..MaxWrite]
    /\ missing \subseteq Instances

Init ==
    /\ hist = << >> /\ up = TRUE /\ downs = 0 /\ losses = 0 /\ breaks = 0
    /\ pc = [i \in Instances |-> "get"]
    /\ v = [i \in Instances |-> Fallback]
    /\ next = [i \in Instances |-> 1]
    /\ at = [i \in Instances |-> 0]
    /\ missing = {}

-----------------------------------------------------------------------------
(* Writers of the key, and etcd coming and going. *)

Write(x) ==
    /\ up
    /\ Len(hist) < MaxWrite
    /\ hist' = Append(hist, x)
    /\ UNCHANGED <<up, downs, losses, breaks, pc, v, next, at, missing>>

Put(x) == Write(x)

(* deleterange of a missing key is not a change. *)
Delete ==
    /\ Key # None
    /\ Write(None)

EtcdDown ==
    /\ up
    /\ downs < MaxDown
    /\ up' = FALSE
    /\ downs' = downs + 1
    /\ UNCHANGED <<hist, losses, breaks, pc, v, next, at, missing>>

(* The streams end with the process that serves them.  An instance that    *)
(* has read the key and not yet asked for the stream knows nothing of it:  *)
(* it asks the next etcd for the revision after the one it read from this. *)
EtcdDies ==
    /\ losses < MaxLoss
    /\ losses' = losses + 1
    /\ up' = FALSE
    /\ hist' = << >>
    /\ pc' = [i \in Instances |-> IF pc[i] = "watch" THEN "get" ELSE pc[i]]
    /\ at' = [i \in Instances |-> 0]
    /\ missing' = {i \in Instances : pc[i] = "dial" /\ next[i] # 1}
    /\ UNCHANGED <<downs, breaks, v, next>>

EtcdUp ==
    /\ ~up
    /\ up' = TRUE
    /\ UNCHANGED <<hist, downs, losses, breaks, pc, v, next, at, missing>>

-----------------------------------------------------------------------------
(* sync. *)

GetFromStart(i) ==
    /\ pc[i] = "get"
    /\ up
    /\ v' = [v EXCEPT ![i] = IF Key # None THEN Key ELSE @]
    /\ next' = [next EXCEPT ![i] = 1]
    /\ at' = [at EXCEPT ![i] = Len(hist)]
    /\ pc' = [pc EXCEPT ![i] = "dial"]
    /\ missing' = missing \ {i}
    /\ UNCHANGED <<etcd, breaks>>

GetPastNext(i) ==
    /\ pc[i] = "get"
    /\ up
    /\ v' = [v EXCEPT ![i] = IF Key # None THEN Key ELSE @]
    /\ next' = [next EXCEPT ![i] = Len(hist) + 2]
    /\ at' = [at EXCEPT ![i] = Len(hist)]
    /\ pc' = [pc EXCEPT ![i] = "dial"]
    /\ missing' = missing \ {i}
    /\ UNCHANGED <<etcd, breaks>>

(* A key that is there is stored; one that is not leaves the variable. *)
Get(i) ==
    /\ pc[i] = "get"
    /\ up
    /\ v' = [v EXCEPT ![i] = IF Key # None THEN Key ELSE @]
    /\ next' = [next EXCEPT ![i] = Len(hist) + 1]
    /\ at' = [at EXCEPT ![i] = Len(hist)]
    /\ pc' = [pc EXCEPT ![i] = "dial"]
    /\ missing' = missing \ {i}
    /\ UNCHANGED <<etcd, breaks>>

OpenWatch(i) ==
    /\ pc[i] = "dial"
    /\ up
    /\ pc' = [pc EXCEPT ![i] = "watch"]
    /\ UNCHANGED <<etcd, breaks, v, next, at, missing>>

(* An event of the stream: DELETE stores the fallback, PUT the value.      *)
(* etcd sends what comes at the revision asked for or later.               *)
Event(i) ==
    LET e == hist[next[i]] IN
    /\ pc[i] = "watch"
    /\ next[i] <= Len(hist)
    /\ v' = [v EXCEPT ![i] = IF e = None THEN Fallback ELSE e]
    /\ at' = [at EXCEPT ![i] = next[i]]
    /\ next' = [next EXCEPT ![i] = @ + 1]
    /\ missing' = missing \ {i}
    /\ UNCHANGED <<etcd, breaks, pc>>

(* The POST or the stream fails because etcd is away. *)
WatchLost(i) ==
    /\ pc[i] \in {"dial", "watch"}
    /\ ~up
    /\ pc' = [pc EXCEPT ![i] = "get"]
    /\ UNCHANGED <<etcd, breaks, v, next, at, missing>>

(* The POST or the stream fails although etcd is up. *)
WatchBreaks(i) ==
    /\ pc[i] \in {"dial", "watch"}
    /\ up
    /\ breaks < MaxBreak
    /\ breaks' = breaks + 1
    /\ pc' = [pc EXCEPT ![i] = "get"]
    /\ UNCHANGED <<etcd, v, next, at, missing>>

Sync(i) == Get(i) \/ OpenWatch(i) \/ Event(i) \/ WatchLost(i)

Next ==
    \/ \E x \in Values : Put(x)
    \/ Delete \/ EtcdDown \/ EtcdDies \/ EtcdUp
    \/ \E i \in Instances : Sync(i) \/ WatchBreaks(i)

Spec == Init /\ [][Next]_vars

(* Watch retries for ever, a second after each failure, and an outage      *)
(* ends.  A stream that is dead without an error would never be noticed:   *)
(* watchc has no timeout, so WatchLost assumes the connection is reset.    *)
FairSpec ==
    /\ Spec
    /\ WF_vars(EtcdUp)
    /\ \A i \in Instances : WF_vars(Sync(i))

-----------------------------------------------------------------------------
(* Properties. *)

(* Across any reconnection to one etcd an instance never goes back to an   *)
(* older state of the key than one it has shown: sync streams from the     *)
(* revision after the one it read.                                         *)
NeverBackwards == [][\A i \in Instances : at'[i] >= at[i] \/ Len(hist') < Len(hist)]_vars

(* No change is lost between the GET and the stream: a key that stays set  *)
(* ends up in every instance, through outages, broken streams and an etcd  *)
(* that comes back empty.  Excepted is an instance that was between its    *)
(* GET and its POST when etcd died: it waits for a revision that the new   *)
(* etcd may never come to, past changes that it does not hear of.          *)
PresentKeyReaches ==
    <>[](Key # None) => <>[](\A i \in Instances : i \in missing \/ v[i] = Key)

(* docs/infra-roadmap.md: both user instances change together, without a   *)
(* rolling restart.  Once the key is no longer written they show the same. *)
InstancesAgree == <>[](\A i, k \in Instances : v[i] = v[k])
=============================================================================
