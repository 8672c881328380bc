------------------------------ MODULE Release -------------------------------
(***************************************************************************)
(* The release service: clients' requests, compile and rollout goroutines, *)
(* the clock and crashes, interleaved.                                     *)
(***************************************************************************)
EXTENDS Deploy

(* The first start, on an empty database: migrate, then seedRelease. *)
Init ==
    /\ job = [j \in Jobs |-> SeededLabel(j, None)]
    /\ app = [a \in Apps |-> IF a \in DOMAIN SeedScm THEN SeedScm[a] ELSE None]
    /\ build = [b \in BuildIds |-> NoBuild]
    /\ deploy = [d \in DeployIds |-> NoDeploy]
    /\ nbuild = 0 /\ ndeploy = 0
    /\ work = [j \in Jobs |-> None]
    /\ art = [j \in Jobs |-> [v \in Versions |-> None]]
    /\ tag = [a \in Apps |-> None]
    /\ up = [a \in Apps |-> None]
    /\ req = [c \in Clients |-> NoRequest]
    /\ comp = [b \in BuildIds |-> NoCompile]
    /\ roll = [d \in DeployIds |-> NoRollout]
    /\ now = 1 /\ restarts = 0 /\ faults = 0
    /\ abandoned = [build |-> {}, deploy |-> {}]
    /\ touched = [comp |-> {}, roll |-> {}]

Next ==
    \/ \E c \in Clients : ScmStep(c) \/ DeployStep(c)
    \/ \E b \in BuildIds : CompileStep(b) \/ RollBuildFailed(b)
    \/ \E d \in DeployIds : RollStep(d)
    \/ Tick
    \/ Crash

Spec == Init /\ [][Next]_vars

(* A handler in the middle of a request goes on, and every external        *)
(* command of a goroutine returns: exec.Command has no deadline here, so   *)
(* this is an assumption about git, docker and the build scripts.          *)
Busy(c) == req[c].pc # "idle" /\ (ScmStep(c) \/ DeployStep(c))
Fairness ==
    /\ \A c \in Clients : WF_vars(Busy(c))
    /\ \A b \in BuildIds : WF_vars(CompileStep(b) \/ RollBuildFailed(b))
    /\ \A d \in DeployIds : WF_vars(RollStep(d))
FairSpec == Spec /\ Fairness

-----------------------------------------------------------------------------
(* Properties. *)

(* idleBuild and idleDeploy check and then insert without a lock.  Even so *)
(* a client that waits for each answer before the next request never gets  *)
(* two running builds of one service, nor two running deploys of one app:  *)
(* two that run at once came from two overlapping requests.                *)
OneRunPerClient ==
    /\ \A b1, b2 \in BuildIds :
         /\ b1 # b2 /\ build[b1].st = "running" /\ build[b2].st = "running"
         /\ build[b1].job = build[b2].job
         => build[b1].by # build[b2].by
    /\ \A d1, d2 \in DeployIds :
         /\ d1 # d2 /\ deploy[d1].st = "running" /\ deploy[d2].st = "running"
         /\ deploy[d1].app = deploy[d2].app
         => deploy[d1].by # deploy[d2].by

(* A row that says "running" blocks its service, so somebody must be going *)
(* to finish it: a goroutine, or the handler about to start it.  The only  *)
(* rows with nobody behind them are those a restart or a lost UPDATE left; *)
(* a deploy that waits for its build has a live build.                     *)
RunningHasOwner ==
    /\ \A b \in BuildIds : build[b].st = "running" =>
         \/ comp[b].pc \notin {"none", "failDeploy"}
         \/ \E c \in Clients : req[c].pc = "insertSecond" /\ req[c].build = b
         \/ b \in abandoned.build
    /\ \A d \in DeployIds : deploy[d].st = "running" =>
         roll[d].pc # "none" \/ d \in abandoned.deploy
    /\ \A d \in DeployIds : roll[d].pc = "wait" =>
         \E b \in BuildIds : comp[b].dep = d /\ comp[b].pc # "none"

(* replacesSelf in runDeploy: before compose replaces this very process    *)
(* the record no longer says running, because nobody would finish it.      *)
SelfRecordedBeforeSwap ==
    \A d \in DeployIds : roll[d].pc = "swap" =>
        deploy[d].st # "running" \/ d \in abandoned.deploy

(* compileJob alone in its work tree records the commit that it checked    *)
(* out and that its artifact was made from.                                *)
UndisturbedBuild ==
    \A b \in BuildIds :
        comp[b].pc = "record" /\ comp[b].ok /\ b \notin touched.comp =>
            comp[b].commit = comp[b].synced /\ comp[b].made = comp[b].commit

(* runDeploy alone on its app leaves the container running the image of    *)
(* its own version, and an image job's image is of the recorded commit.    *)
UndisturbedRollout ==
    \A d \in DeployIds :
        roll[d].pc = "finish" /\ roll[d].ok /\ d \notin touched.roll =>
            /\ up[roll[d].app] = [ver |-> roll[d].ver, commit |-> roll[d].got]
            /\ roll[d].want # None => roll[d].got = roll[d].want

(* The comment on buildImageArtifact, without the proviso: the image is    *)
(* built from scm-work at the recorded git commit.                         *)
ImageAtRecordedCommit ==
    \A d \in DeployIds :
        roll[d].pc = "up" /\ roll[d].want # None => roll[d].got = roll[d].want

(* With one operator: a build listed as ok has its file, whatever was      *)
(* deleted and created again in between, with a build still running or a   *)
(* crash half way through DeleteJob.                                       *)
OkBuildHasArtifact ==
    \A b \in BuildIds : build[b].st = "ok" => art[build[b].job][build[b].ver] # None

(* What a goroutine found out is what its row says when it ends, unless    *)
(* the row was deleted, the UPDATE was lost or the process was replaced.   *)
ResultRecorded ==
    [][ /\ \A b \in BuildIds :
             comp[b].pc = "record" /\ comp'[b].pc # "record" =>
                \/ build'[b].st \in {"gone", IF comp[b].ok THEN "ok" ELSE "fail"}
                \/ b \in abandoned'.build
        /\ \A d \in DeployIds :
             roll[d].pc \notin {"none", "swap"} /\ roll'[d].pc = "none" =>
                \/ deploy'[d].st \in {"gone", IF roll[d].pc = "finish" /\ roll[d].ok
                                              THEN "ok" ELSE "fail"}
                \/ d \in abandoned'.deploy
                \/ restarts' # restarts
                \/ \E x \in DeployIds : roll[x].pc = "swap" /\ roll'[x].pc = "none" ]_vars

(* A finished run is never running again, a failed one never becomes ok,   *)
(* and an ok one becomes a failed one only when a self-replacing compose   *)
(* fails.                                                                  *)
FinalIsFinal ==
    [][ /\ \A b \in BuildIds :
             build[b].st \in {"ok", "fail"} => build'[b].st \in {build[b].st, "gone"}
        /\ \A d \in DeployIds :
             /\ deploy[d].st = "fail" => deploy'[d].st \in {"fail", "gone"}
             /\ deploy[d].st = "ok" =>
                   \/ deploy'[d].st \in {"ok", "gone"}
                   \/ deploy[d].app \in SelfApps /\ deploy'[d].st = "fail" ]_vars

(* Every run ends: its row leaves "running" (or is deleted).               *)
RunsEnd ==
    /\ \A b \in BuildIds : build[b].st = "running" ~> build[b].st # "running"
    /\ \A d \in DeployIds : deploy[d].st = "running" ~> deploy[d].st # "running"
=============================================================================
