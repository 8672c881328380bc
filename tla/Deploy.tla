------------------------------- MODULE Deploy -------------------------------
(***************************************************************************)
(* The deploy half of the release service: apps, deploy records, and the   *)
(* goroutine that builds an image and replaces the container               *)
(* (platform/server/ops.go 723-1132, 1400-1479).                           *)
(* Left out: compose lists (an app owns one service, and UpdateApp keeps   *)
(* the list, so it drops no container) and the overlay files derived from  *)
(* them.                                                                   *)
(***************************************************************************)
EXTENDS Scm

CreateApp(c, a, j) ==
    /\ Calling(c, "CreateApp")
    /\ job[j] # None
    /\ req' = [req EXCEPT ![c] = [NoRequest EXCEPT !.pc = "insertApp", !.app = a, !.job = j]]
    /\ UNCHANGED <<tables, disk, docker, comp, roll, limits, history>>

(* The INSERT fails on a name that is taken. *)
InsertApp(c) ==
    LET a == req[c].app IN
    /\ req[c].pc = "insertApp"
    /\ app' = [app EXCEPT ![a] = IF @ = None THEN req[c].job ELSE @]
    /\ Reply(c)
    /\ UNCHANGED <<job, build, deploy, nbuild, ndeploy, disk, docker, comp, roll, limits, history>>

UpdateApp(c, a, j) ==
    /\ Calling(c, "UpdateApp")
    /\ app[a] # None
    /\ req' = [req EXCEPT ![c] = [NoRequest EXCEPT !.pc = "UpdateApp", !.app = a, !.job = j]]
    /\ UNCHANGED <<tables, disk, docker, comp, roll, limits, history>>

UpdateAppJob(c) ==
    /\ req[c].pc = "UpdateApp"
    /\ IF job[req[c].job] # None THEN Advance(c, "updateApp") ELSE Reply(c)
    /\ UNCHANGED <<tables, disk, docker, comp, roll, limits, history>>

UpdateAppRow(c) ==
    LET a == req[c].app IN
    /\ req[c].pc = "updateApp"
    /\ app' = [app EXCEPT ![a] = IF @ = None THEN @ ELSE req[c].job]
    /\ Reply(c)
    /\ UNCHANGED <<job, build, deploy, nbuild, ndeploy, disk, docker, comp, roll, limits, history>>

DeleteApp(c, a) ==
    /\ Calling(c, "DeleteApp")
    /\ app[a] # None
    /\ req' = [req EXCEPT ![c] = [NoRequest EXCEPT !.pc = "dropRuntime", !.app = a]]
    /\ UNCHANGED <<tables, disk, docker, comp, roll, limits, history>>

\* Another goroutine, or none, changed the image or the container of app a.
TouchApp(a, d) == touched' = [touched EXCEPT !.roll = @ \cup (RollingOut(a) \ {d})]

(* dropExtraRuntime stops the containers that are not in the main compose  *)
(* file and discards the errors of docker.                                 *)
DeleteAppRuntime(c) ==
    LET a == req[c].app IN
    /\ req[c].pc = "dropRuntime"
    /\ \E stopped \in BOOLEAN :
         up' = [up EXCEPT ![a] = IF stopped /\ a \notin MainApps THEN None ELSE @]
    /\ TouchApp(a, None)
    /\ Advance(c, "deleteDeploys")
    /\ UNCHANGED <<tables, disk, tag, comp, roll, limits, abandoned>>

DeleteAppDeploys(c) ==
    /\ req[c].pc = "deleteDeploys"
    /\ deploy' = [d \in DeployIds |->
                     IF deploy[d].app = req[c].app THEN [NoDeploy EXCEPT !.st = "gone"]
                     ELSE deploy[d]]
    /\ Advance(c, "deleteAppRow")
    /\ UNCHANGED <<job, app, build, nbuild, ndeploy, disk, docker, comp, roll, limits, history>>

DeleteAppRow(c) ==
    /\ req[c].pc = "deleteAppRow"
    /\ app' = [app EXCEPT ![req[c].app] = None]
    /\ Reply(c)
    /\ UNCHANGED <<job, build, deploy, nbuild, ndeploy, disk, docker, comp, roll, limits, history>>

-----------------------------------------------------------------------------
(* CreateDeploy. *)

CreateDeploy(c, a) ==
    /\ Calling(c, "CreateDeploy")
    /\ app[a] # None
    /\ DeployBudget
    /\ req' = [req EXCEPT ![c] = [NoRequest EXCEPT !.pc = "CreateDeploy", !.app = a,
                                                   !.job = app[a]]]
    /\ UNCHANGED <<tables, disk, docker, comp, roll, limits, history>>

DeployIsRunning(c) ==
    /\ req[c].pc = "CreateDeploy"
    /\ RunningDeploys(req[c].app) # {}
    /\ Reply(c)
    /\ UNCHANGED <<tables, disk, docker, comp, roll, limits, history>>

(* The request names a version, or a branch to build first. *)
DeployIsIdle(c) ==
    /\ req[c].pc = "CreateDeploy"
    /\ RunningDeploys(req[c].app) = {}
    /\ \/ Advance(c, "pickVersion")
       \/ "CreateBuild" \in Calls /\ BuildBudget /\ Advance(c, "createBuildDeploy")
    /\ UNCHANGED <<tables, disk, docker, comp, roll, limits, history>>

(* The latest build of the version is ok and its file is there. *)
Deployable(j, v) ==
    /\ \E b \in BuildIds : /\ IsLatest(b, BuildsOf(j, v, {"running", "ok", "fail"}))
                           /\ build[b].st = "ok"
    /\ art[j][v] # None

PickVersion(c) ==
    /\ req[c].pc = "pickVersion"
    /\ \E v \in Versions :
        IF Deployable(req[c].job, v)
        THEN req' = [req EXCEPT ![c].pc = "getJob", ![c].ver = v]
        ELSE Reply(c)
    /\ UNCHANGED <<tables, disk, docker, comp, roll, limits, history>>

DeployGetJob(c) ==
    LET l == job[req[c].job] IN
    /\ req[c].pc = "getJob"
    /\ IF l = None THEN Reply(c)
       ELSE req' = [req EXCEPT ![c].pc = "insertDeploy", ![c].label = l]
    /\ UNCHANGED <<tables, disk, docker, comp, roll, limits, history>>

NewDeploy(c, ver) == [st |-> "running", app |-> req[c].app, ver |-> ver, by |-> c]
NewRollout(c, pc, ver) ==
    [NoRollout EXCEPT !.pc = pc, !.app = req[c].app, !.job = req[c].job,
                      !.label = req[c].label, !.ver = ver]

InsertDeploy(c) ==
    LET d == ndeploy + 1 IN
    /\ req[c].pc = "insertDeploy"
    /\ ndeploy < MaxDeploy
    /\ ndeploy' = d
    /\ deploy' = [deploy EXCEPT ![d] = NewDeploy(c, req[c].ver)]
    /\ roll' = [roll EXCEPT ![d] = NewRollout(c, "image", req[c].ver)]
    /\ Reply(c)
    /\ UNCHANGED <<job, app, build, nbuild, disk, docker, comp, limits, history>>

-----------------------------------------------------------------------------
(* createBuildDeploy: one goroutine builds, then deploys. *)

BuildDeployGetJob(c) ==
    LET l == job[req[c].job] IN
    /\ req[c].pc = "createBuildDeploy"
    /\ IF l = None THEN Reply(c)
       ELSE req' = [req EXCEPT ![c].pc = "idleBuild", ![c].label = l]
    /\ UNCHANGED <<tables, disk, docker, comp, roll, limits, history>>

BuildDeployIdle(c) ==
    /\ req[c].pc = "idleBuild"
    /\ IF RunningBuilds(req[c].job) # {} THEN Reply(c) ELSE Advance(c, "insertBoth")
    /\ UNCHANGED <<tables, disk, docker, comp, roll, limits, history>>

BuildDeployInsertBuild(c) ==
    LET b == nbuild + 1 IN
    /\ req[c].pc = "insertBoth"
    /\ nbuild < MaxBuild
    /\ nbuild' = b
    /\ build' = [build EXCEPT ![b] = NewBuild(c)]
    /\ req' = [req EXCEPT ![c].pc = "insertSecond", ![c].build = b, ![c].ver = now]
    /\ UNCHANGED <<job, app, deploy, ndeploy, disk, docker, comp, roll, limits, history>>

BuildDeployInsertDeploy(c) ==
    LET d == ndeploy + 1 IN
    /\ req[c].pc = "insertSecond"
    /\ ndeploy < MaxDeploy
    /\ ndeploy' = d
    /\ deploy' = [deploy EXCEPT ![d] = NewDeploy(c, req[c].ver)]
    /\ comp' = [comp EXCEPT ![req[c].build] = NewCompile(c, req[c].ver, d)]
    /\ roll' = [roll EXCEPT ![d] = NewRollout(c, "wait", req[c].ver)]
    /\ Reply(c)
    /\ UNCHANGED <<job, app, build, nbuild, disk, docker, limits, history>>

\* UPDATE scm_build SET status='fail' of the compensation.
FailedBuild(b) == IF build[b].st = "gone" THEN build[b] ELSE [build[b] EXCEPT !.st = "fail"]

BuildDeployNoUndo(c) ==
    /\ req[c].pc = "insertSecond"
    /\ faults < MaxFault
    /\ faults' = faults + 1
    /\ Reply(c)
    /\ UNCHANGED <<tables, disk, docker, comp, roll, now, restarts, history>>

(* The second INSERT fails: the build is marked failed, unless the         *)
(* database is away for that UPDATE too, whose error is discarded.         *)
BuildDeployUndo(c) ==
    LET b == req[c].build IN
    /\ req[c].pc = "insertSecond"
    /\ faults < MaxFault
    /\ faults' = faults + 1
    /\ \/ /\ build' = [build EXCEPT ![b] = FailedBuild(b)]
          /\ UNCHANGED abandoned
       \/ /\ abandoned' = [abandoned EXCEPT !.build = @ \cup {b}]
          /\ UNCHANGED build
    /\ Reply(c)
    /\ UNCHANGED <<job, app, deploy, nbuild, ndeploy, disk, docker, comp, roll, now, restarts,
                   touched>>

(* Any other statement of a handler fails: the request ends with what it   *)
(* has done so far.                                                        *)
RequestFails(c) ==
    /\ req[c].pc \notin {"idle", "removeWork", "removeArtifacts", "dropRuntime", "insertSecond"}
    /\ faults < MaxFault
    /\ faults' = faults + 1
    /\ Reply(c)
    /\ UNCHANGED <<tables, disk, docker, comp, roll, now, restarts, history>>

-----------------------------------------------------------------------------
(* runBuildDeploy after a failed build, and runDeploy. *)

\* The row after UPDATE deploy_record: no row matches once DeleteApp has run.
RecordedDeploy(d, st) == IF deploy[d].st = "gone" THEN deploy[d] ELSE [deploy[d] EXCEPT !.st = st]

\* The UPDATE took effect, or its error was discarded.
RecordDeploy(d, st) ==
    \/ /\ deploy' = [deploy EXCEPT ![d] = RecordedDeploy(d, st)]
       /\ UNCHANGED <<faults, abandoned>>
    \/ /\ faults < MaxFault
       /\ faults' = faults + 1
       /\ abandoned' = [abandoned EXCEPT !.deploy = @ \cup {d}]
       /\ UNCHANGED deploy

RollBuildFailedSilently(b) ==
    /\ comp[b].pc = "failDeploy"
    /\ comp' = [comp EXCEPT ![b] = NoCompile]
    /\ roll' = [roll EXCEPT ![comp[b].dep] = NoRollout]
    /\ UNCHANGED <<tables, disk, docker, req, limits, history>>

RollBuildFailed(b) ==
    LET d == comp[b].dep IN
    /\ comp[b].pc = "failDeploy"
    /\ RecordDeploy(d, "fail")
    /\ comp' = [comp EXCEPT ![b] = NoCompile]
    /\ roll' = [roll EXCEPT ![d] = NoRollout]
    /\ UNCHANGED <<job, app, build, nbuild, ndeploy, disk, docker, req, now, restarts, touched>>

Tag(d, commit) ==
    /\ tag' = [tag EXCEPT ![roll[d].app] = [ver |-> roll[d].ver, commit |-> commit]]
    /\ TouchApp(roll[d].app, d)

(* golang, node and python: docker build of the artifact. *)
RollArchive(d) ==
    LET file == art[roll[d].job][roll[d].ver] IN
    /\ roll[d].pc = "image"
    /\ roll[d].label # "image"
    /\ file # None
    /\ Tag(d, file.commit)
    /\ roll' = [roll EXCEPT ![d].pc = "up", ![d].got = file.commit]
    /\ UNCHANGED <<tables, disk, up, req, comp, limits, abandoned>>

(* imageArtifactCommit, else lookupBuildCommit. *)
RecordedCommit(j, v) ==
    LET oks == BuildsOf(j, v, {"ok"}) IN
    IF art[j][v] # None /\ art[j][v].kind = "image" THEN art[j][v].commit
    ELSE IF \E b \in oks : IsLatest(b, oks)
         THEN build[CHOOSE b \in oks : IsLatest(b, oks)].commit
         ELSE None

\* Where ensureImageWork leaves the tree: at the commit, or if none is recorded at
\* whatever HEAD is, after a clone if there is no tree.
ImageTrees(j, want) ==
    IF want # None THEN {want} ELSE IF work[j] # None THEN {work[j]} ELSE Commits

RollCheckoutHead(d) ==
    LET j == roll[d].job
        want == RecordedCommit(j, roll[d].ver) IN
    /\ roll[d].pc = "image"
    /\ roll[d].label = "image"
    /\ work[j] # None
    /\ roll' = [roll EXCEPT ![d].pc = "docker", ![d].want = want]
    /\ UNCHANGED <<tables, disk, docker, req, comp, limits, history>>

RollCheckout(d) ==
    LET j == roll[d].job
        want == RecordedCommit(j, roll[d].ver) IN
    /\ roll[d].pc = "image"
    /\ roll[d].label = "image"
    /\ job[j] # None
    /\ \E k \in ImageTrees(j, want) :
        /\ work' = [work EXCEPT ![j] = k]
        /\ IF k = work[j] THEN UNCHANGED touched ELSE TouchTree(j, None, d)
    /\ roll' = [roll EXCEPT ![d].pc = "docker", ![d].want = want]
    /\ UNCHANGED <<tables, art, docker, req, comp, limits, abandoned>>

RollFailedEarly(d) ==
    /\ roll[d].pc \in {"image", "docker"}
    /\ roll' = [roll EXCEPT ![d].pc = "finish", ![d].ok = FALSE]
    /\ UNCHANGED <<tables, disk, docker, req, comp, limits, history>>

(* ensureImageWork cloned the tree and then could not check the commit out. *)
RollCheckoutFails(d) ==
    LET j == roll[d].job IN
    /\ roll[d].pc = "image"
    /\ roll[d].label = "image"
    /\ job[j] # None
    /\ work[j] = None
    /\ \E k \in Commits : work' = [work EXCEPT ![j] = k]
    /\ TouchTree(j, None, d)
    /\ roll' = [roll EXCEPT ![d].pc = "finish", ![d].ok = FALSE]
    /\ UNCHANGED <<tables, art, docker, req, comp, limits, abandoned>>

(* The docker build reads the tree as it is now. *)
RollDocker(d) ==
    LET k == work[roll[d].job] IN
    /\ roll[d].pc = "docker"
    /\ k # None
    /\ Tag(d, k)
    /\ roll' = [roll EXCEPT ![d].pc = "up", ![d].got = k]
    /\ UNCHANGED <<tables, disk, up, req, comp, limits, abandoned>>

(* docker compose up --force-recreate of the image tagged :local. *)
RollUp(d) ==
    LET a == roll[d].app IN
    /\ roll[d].pc = "up"
    /\ a \notin SelfApps
    /\ up' = [up EXCEPT ![a] = tag[a]]
    /\ TouchApp(a, d)
    /\ roll' = [roll EXCEPT ![d].pc = "finish", ![d].ok = TRUE]
    /\ UNCHANGED <<tables, disk, tag, req, comp, limits, abandoned>>

(* syncRuntimeCompose fails, or compose does, with the container where it  *)
(* was, gone or already replaced.                                          *)
RollUpFails(d) ==
    LET a == roll[d].app IN
    /\ roll[d].pc = "up"
    /\ \E i \in IF a \in SelfApps THEN {up[a]} ELSE {up[a], tag[a], None} :
        up' = [up EXCEPT ![a] = i]
    /\ TouchApp(a, d)
    /\ roll' = [roll EXCEPT ![d].pc = "finish", ![d].ok = FALSE]
    /\ UNCHANGED <<tables, disk, tag, req, comp, limits, abandoned>>

RollSelfUnrecorded(d) ==
    /\ roll[d].pc = "up"
    /\ roll[d].app \in SelfApps
    /\ roll' = [roll EXCEPT ![d].pc = "swap"]
    /\ UNCHANGED <<tables, disk, docker, req, comp, limits, history>>

(* replacesSelf: finish("ok") comes before compose. *)
RollSelfRecord(d) ==
    /\ roll[d].pc = "up"
    /\ roll[d].app \in SelfApps
    /\ RecordDeploy(d, "ok")
    /\ roll' = [roll EXCEPT ![d].pc = "swap"]
    /\ UNCHANGED <<job, app, build, nbuild, ndeploy, disk, docker, req, comp, now, restarts,
                   touched>>

RollSwapFails(d) ==
    /\ roll[d].pc = "swap"
    /\ roll' = [roll EXCEPT ![d].pc = "finish", ![d].ok = FALSE]
    /\ UNCHANGED <<tables, disk, docker, req, comp, limits, history>>

RollFinishOkOnly(d) ==
    /\ roll[d].pc = "finish"
    /\ IF roll[d].ok THEN RecordDeploy(d, "ok") ELSE UNCHANGED <<deploy, faults, abandoned>>
    /\ roll' = [roll EXCEPT ![d] = NoRollout]
    /\ touched' = [touched EXCEPT !.roll = @ \ {d}]
    /\ UNCHANGED <<job, app, build, nbuild, ndeploy, disk, docker, req, comp, now, restarts>>

RollFinish(d) ==
    /\ roll[d].pc = "finish"
    /\ RecordDeploy(d, IF roll[d].ok THEN "ok" ELSE "fail")
    /\ roll' = [roll EXCEPT ![d] = NoRollout]
    /\ touched' = [touched EXCEPT !.roll = @ \ {d}]
    /\ UNCHANGED <<job, app, build, nbuild, ndeploy, disk, docker, req, comp, now, restarts>>

-----------------------------------------------------------------------------
(* The process dies and a new one starts: migrate, seedRelease, serve.     *)
(* Nothing looks at the rows that are still running.                       *)

\* The label of job j after seedRelease: INSERT IGNORE, then the UPDATE of home-api.
SeededLabel(j, label) ==
    LET row == IF label = None /\ j \in DOMAIN SeedLabel THEN SeedLabel[j] ELSE label IN
    IF j \in PinnedJobs /\ row = "image" THEN "archive" ELSE row

Reseed ==
    /\ job' = [j \in Jobs |-> SeededLabel(j, job[j])]
    /\ app' = [a \in Apps |->
                  IF app[a] = None /\ a \in DOMAIN SeedScm THEN SeedScm[a] ELSE app[a]]

ProcessReplaced ==
    /\ req' = [c \in Clients |-> NoRequest]
    /\ comp' = [b \in BuildIds |-> NoCompile]
    /\ roll' = [d \in DeployIds |-> NoRollout]
    /\ abandoned' = [build |-> {b \in BuildIds : build[b].st = "running"},
                     deploy |-> {d \in DeployIds : deploy[d].st = "running"}]
    /\ touched' = [comp |-> {}, roll |-> {}]
    /\ Reseed
    /\ UNCHANGED <<build, deploy, nbuild, ndeploy, disk, now, faults>>

Crash ==
    /\ restarts < MaxRestart
    /\ restarts' = restarts + 1
    /\ ProcessReplaced
    /\ UNCHANGED docker

(* compose replaces the container this process runs in. *)
RollSwap(d) ==
    LET a == roll[d].app IN
    /\ roll[d].pc = "swap"
    /\ up' = [up EXCEPT ![a] = tag[a]]
    /\ ProcessReplaced
    /\ UNCHANGED <<tag, restarts>>

(* A second goes by. *)
Tick ==
    /\ now < MaxSecond
    /\ now' = now + 1
    /\ UNCHANGED <<tables, disk, docker, process, restarts, faults, history>>

DeployStep(c) ==
    \/ \E a \in Apps, j \in Jobs : CreateApp(c, a, j) \/ UpdateApp(c, a, j)
    \/ \E a \in Apps : DeleteApp(c, a) \/ CreateDeploy(c, a)
    \/ InsertApp(c) \/ UpdateAppJob(c) \/ UpdateAppRow(c)
    \/ DeleteAppRuntime(c) \/ DeleteAppDeploys(c) \/ DeleteAppRow(c)
    \/ DeployIsRunning(c) \/ DeployIsIdle(c) \/ PickVersion(c) \/ DeployGetJob(c) \/ InsertDeploy(c)
    \/ BuildDeployGetJob(c) \/ BuildDeployIdle(c)
    \/ BuildDeployInsertBuild(c) \/ BuildDeployInsertDeploy(c) \/ BuildDeployUndo(c)
    \/ RequestFails(c)

RollStep(d) ==
    \/ RollArchive(d) \/ RollCheckout(d) \/ RollCheckoutFails(d) \/ RollDocker(d)
    \/ RollFailedEarly(d) \/ RollUp(d) \/ RollUpFails(d) \/ RollSelfRecord(d) \/ RollSwap(d) \/ RollSwapFails(d)
    \/ RollFinish(d)
=============================================================================
