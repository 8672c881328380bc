------------------------------ MODULE MCWatch -------------------------------
(* The two parts that follow something for their readers, the etcd key of  *)
(* a configuration variable and the log of a run, for TLC.  They share     *)
(* nothing: a behaviour is that of one of them, the other at rest.         *)
EXTENDS ConfigVar, LiveLog

VARIABLE part

watchVars == <<part, vars, logVars>>

CONSTANT Parts

(* One deploy with everything that can go wrong, and a build and a deploy  *)
(* that have the same id, with one piece each and nothing going wrong.     *)
Alone  == \A r \in Builds : run'[r] = run[r]
Shared == faults' = 0 /\ deletes' = 0 /\ \A r \in Runs : live'[r].n <= 1

WatchInit == part \in Parts /\ Init /\ LogInit

WatchNext ==
    /\ \/ part = "config" /\ Next    /\ UNCHANGED logVars
       \/ part = "log"    /\ LogNext /\ Alone  /\ UNCHANGED vars
       \/ part = "shared" /\ LogNext /\ Shared /\ UNCHANGED vars
    /\ UNCHANGED part

(* The fairness of FairSpec and FairLogSpec. *)
WatchSpec ==
    /\ WatchInit /\ [][WatchNext]_watchVars
    /\ WF_vars(part = "config" /\ EtcdUp)
    /\ \A i \in Instances : WF_vars(part = "config" /\ Sync(i))
    /\ \A r \in Runs : WF_logVars(part \in {"log", "shared"} /\ RunStep(r))
    /\ \A w \in Watchers : WF_logVars(part \in {"log", "shared"} /\ StreamStep(w))
=============================================================================
