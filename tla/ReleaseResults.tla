--------------------------- MODULE ReleaseResults ---------------------------
(***************************************************************************)
(* What the goroutines of the release service leave behind: the rows, the  *)
(* artifacts, the images and the containers.                               *)
(*                                                                         *)
(* Three invariants on top of Inv of module ReleaseProofs.  Ledger says    *)
(* what the row of a goroutine can be at each of its steps, Trees what the *)
(* work tree, the image and the container of a goroutine hold as long as   *)
(* no other has changed them, Files that an ok build has its artifact when *)
(* there is one operator.  Most requests change none of this: QuietRequest *)
(* is what they do, and the other steps are taken one by one.              *)
(***************************************************************************)
EXTENDS ReleaseProofs

-----------------------------------------------------------------------------
(* The invariants. *)

\* compileJob has not recorded its result yet; runDeploy has not recorded anything.
CompilePcs == {"sync", "head", "make", "record"}
OpenPcs == {"wait", "image", "docker", "up"}

\* The row of a build that is being compiled, or will be once its deploy is inserted.
OpenBuild(b, j, v) ==
    \/ build[b].st = "gone"
    \/ build[b].st = "running" /\ build[b].job = j /\ build[b].ver = v

Ledger ==
    /\ \A b \in BuildIds : b > nbuild => build[b] = NoBuild
    /\ \A d \in DeployIds : d > ndeploy => deploy[d] = NoDeploy
    /\ \A b \in BuildIds : comp[b].pc \in CompilePcs => OpenBuild(b, comp[b].job, comp[b].ver)
    /\ \A c \in Clients : req[c].pc = "insertSecond" =>
         OpenBuild(req[c].build, req[c].job, req[c].ver)
    /\ \A d \in DeployIds : roll[d].pc # "none" =>
         deploy[d].st = "gone" \/ deploy[d].app = roll[d].app
    /\ \A d \in DeployIds : roll[d].pc \in OpenPcs => deploy[d].st \in {"running", "gone"}
    /\ \A d \in DeployIds : roll[d].pc = "swap" =>
         /\ roll[d].app \in SelfApps
         /\ \/ deploy[d].st \in {"ok", "gone"}
            \/ deploy[d].st = "running" /\ d \in abandoned.deploy
    /\ \A d \in DeployIds : roll[d].pc = "finish" =>
         \/ deploy[d].st \in {"running", "gone"}
         \/ deploy[d].st = "ok" /\ roll[d].app \in SelfApps /\ ~roll[d].ok

-----------------------------------------------------------------------------
(* Steps that leave rows, goroutines, files and containers alone. *)

Still == UNCHANGED <<build, deploy, nbuild, ndeploy, work, art, tag, up, comp, roll, abandoned,
                     touched>>

\* Handlers of DeleteJob that have deleted the builds.
DeletingPcs == {"deleteJobRow", "removeWork", "removeArtifacts"}

QuietRequest(c) ==
    /\ Still
    /\ RequestMoves(c)
    /\ req'[c].pc \in DeletingPcs => req[c].pc \in DeletingPcs /\ req'[c].job = req[c].job

LEMMA QuietScm ==
  ASSUME Typed, NEW c \in Clients, ScmStep(c)
  PROVE  \/ QuietRequest(c)
         \/ DeleteJobBuilds(c) \/ DeleteJobWork(c) \/ DeleteJobArtifacts(c) \/ InsertBuild(c)
<1> USE DEF QuietRequest, Still, tables, disk, docker, process, history, DeletingPcs
<1>1. ASSUME NEW j \in Jobs, NEW l \in CallLabels, CreateJob(c, j, l) \/ UpdateJob(c, j, l)
      PROVE  QuietRequest(c)
  BY <1>1, CreateJobMoves, UpdateJobMoves DEF CreateJob, UpdateJob
<1>2. ASSUME NEW j \in Jobs, DeleteJob(c, j) \/ CreateBuild(c, j)
      PROVE  QuietRequest(c)
  <2>1. req'[c].pc \in {"DeleteJob", "CreateBuild"}
    BY <1>2 DEF DeleteJob, CreateBuild, NoRequest, Typed, ProcessTyped
  <2> QED
    BY <1>2, <2>1, DeleteJobMoves, CreateBuildMoves DEF DeleteJob, CreateBuild
<1>3. ASSUME DeleteJobInUse(c) \/ BuildIsRunning(c)
      PROVE  QuietRequest(c)
  BY <1>3, DeleteJobInUseMoves, BuildIsRunningMoves, ReplyMoves DEF DeleteJobInUse, BuildIsRunning
<1>4. ASSUME DeleteJobUnused(c) \/ BuildIsIdle(c)
      PROVE  QuietRequest(c)
  BY <1>4, DeleteJobUnusedMoves, BuildIsIdleMoves, AdvanceMoves DEF DeleteJobUnused, BuildIsIdle
<1>5. ASSUME DeleteJobRow(c)
      PROVE  QuietRequest(c)
  BY <1>5, DeleteJobRowMoves, AdvanceMoves DEF DeleteJobRow
<1> QED
  BY <1>1, <1>2, <1>3, <1>4, <1>5 DEF ScmStep

LEMMA QuietDeploy ==
  ASSUME Typed, NEW c \in Clients, DeployStep(c)
  PROVE  \/ QuietRequest(c)
         \/ DeleteAppRuntime(c) \/ DeleteAppDeploys(c) \/ InsertDeploy(c)
         \/ BuildDeployInsertBuild(c) \/ BuildDeployInsertDeploy(c) \/ BuildDeployUndo(c)
<1> USE DEF QuietRequest, Still, tables, disk, docker, process, history, DeletingPcs
<1>1. ASSUME NEW a \in Apps, NEW j \in Jobs, CreateApp(c, a, j) \/ UpdateApp(c, a, j)
      PROVE  QuietRequest(c)
  <2>1. req'[c].pc \in {"insertApp", "UpdateApp"}
    BY <1>1 DEF CreateApp, UpdateApp, NoRequest, Typed, ProcessTyped
  <2> QED
    BY <1>1, <2>1, CreateAppMoves, UpdateAppMoves DEF CreateApp, UpdateApp
<1>2. ASSUME NEW a \in Apps, DeleteApp(c, a) \/ CreateDeploy(c, a)
      PROVE  QuietRequest(c)
  <2>1. req'[c].pc \in {"dropRuntime", "CreateDeploy"}
    BY <1>2 DEF DeleteApp, CreateDeploy, NoRequest, Typed, ProcessTyped
  <2> QED
    BY <1>2, <2>1, DeleteAppMoves, CreateDeployMoves DEF DeleteApp, CreateDeploy
<1>3. ASSUME InsertApp(c) \/ UpdateAppRow(c) \/ DeleteAppRow(c) \/ DeployIsRunning(c)
             \/ RequestFails(c)
      PROVE  QuietRequest(c)
  BY <1>3, InsertAppMoves, UpdateAppRowMoves, DeleteAppRowMoves, DeployIsRunningMoves,
     RequestFailsMoves, ReplyMoves
  DEF InsertApp, UpdateAppRow, DeleteAppRow, DeployIsRunning, RequestFails
<1>4. ASSUME UpdateAppJob(c) \/ DeployIsIdle(c) \/ BuildDeployIdle(c)
      PROVE  QuietRequest(c)
  <2>1. req'[c].pc \in {"idle", "updateApp", "pickVersion", "createBuildDeploy", "insertBoth"}
    BY <1>4, ReplyMoves, AdvanceMoves DEF UpdateAppJob, DeployIsIdle, BuildDeployIdle
  <2> QED
    BY <1>4, <2>1, UpdateAppJobMoves, DeployIsIdleMoves, BuildDeployIdleMoves
    DEF UpdateAppJob, DeployIsIdle, BuildDeployIdle
<1>5. ASSUME PickVersion(c) \/ DeployGetJob(c) \/ BuildDeployGetJob(c)
      PROVE  QuietRequest(c)
  <2>1. req[c] \in Request /\ req \in [Clients -> GoodRequests]
    BY RequestHolds DEF Typed, ProcessTyped
  <2>2. req'[c].pc \in {"idle", "getJob", "insertDeploy", "idleBuild"}
    <3>1. CASE Reply(c)
      BY <3>1, ReplyMoves
    <3>2. CASE \E v \in Versions : req' = [req EXCEPT ![c].pc = "getJob", ![c].ver = v]
      BY <2>1, <3>2 DEF Request
    <3>3. CASE \E l \in Labels \cup {None} : req' = [req EXCEPT ![c].pc = "insertDeploy", ![c].label = l]
      BY <2>1, <3>3 DEF Request
    <3>4. CASE \E l \in Labels \cup {None} : req' = [req EXCEPT ![c].pc = "idleBuild", ![c].label = l]
      BY <2>1, <3>4 DEF Request
    <3>5. DeployGetJob(c) \/ BuildDeployGetJob(c) => job[req[c].job] \in Labels \cup {None}
      BY RequestHolds DEF DeployGetJob, BuildDeployGetJob, JobPcs, Typed, TablesTyped
    <3> QED
      BY <1>5, <3>1, <3>2, <3>3, <3>4, <3>5 DEF PickVersion, DeployGetJob, BuildDeployGetJob
  <2> QED
    BY <1>5, <2>2, PickVersionMoves, DeployGetJobMoves, BuildDeployGetJobMoves
    DEF PickVersion, DeployGetJob, BuildDeployGetJob
<1> QED
  BY <1>1, <1>2, <1>3, <1>4, <1>5 DEF DeployStep

-----------------------------------------------------------------------------
(* Kinds of steps of the goroutines. *)

\* compileJob goes on: what it was started with stays, and it records nothing yet.
CompileStays(b) ==
    /\ UNCHANGED <<build, deploy, nbuild, ndeploy, tag, up, req, roll, abandoned>>
    /\ comp[b].pc \in {"sync", "head", "make"} /\ comp'[b].pc \in {"head", "make", "record"}
    /\ comp'[b].job = comp[b].job /\ comp'[b].ver = comp[b].ver
    /\ \A x \in BuildIds : x # b => comp'[x] = comp[x]

\* runDeploy goes on: what it was started with stays, and it records nothing yet.
RollStays(d) ==
    /\ UNCHANGED <<build, deploy, nbuild, ndeploy, art, req, comp, abandoned>>
    /\ roll[d].pc \in {"image", "docker", "up"} /\ roll'[d].pc \in {"docker", "up", "finish"}
    /\ roll'[d].app = roll[d].app /\ roll'[d].job = roll[d].job /\ roll'[d].ver = roll[d].ver
    /\ \A x \in DeployIds : x # d => roll'[x] = roll[x]

LEMMA CompileStepKinds ==
  ASSUME Typed, NEW b \in BuildIds, CompileStep(b)
  PROVE  CompileStays(b) \/ CompileRecord(b) \/ CompileRecordLost(b)
<1>1. comp[b] \in Compile /\ comp \in [BuildIds -> GoodCompiles]
  BY CompileHolds DEF Typed, ProcessTyped
<1> USE DEF CompileStays, tables, docker, history, Compile
<1>2. CASE CompileSync(b) \/ CompileSyncFails(b)
  BY <1>1, <1>2 DEF CompileSync, CompileSyncFails
<1>3. CASE CompileHeadImage(b) \/ CompileHeadArchive(b) \/ CompileHeadFails(b)
  BY <1>1, <1>3 DEF CompileHeadImage, CompileHeadArchive, CompileHeadFails
<1>4. CASE CompileMake(b) \/ CompileMakeFails(b)
  BY <1>1, <1>4 DEF CompileMake, CompileMakeFails
<1> QED
  BY <1>2, <1>3, <1>4 DEF CompileStep

LEMMA RollStepKinds ==
  ASSUME Typed, NEW d \in DeployIds, RollStep(d)
  PROVE  RollStays(d) \/ RollSelfRecord(d) \/ RollSwap(d) \/ RollSwapFails(d) \/ RollFinish(d)
<1>1. roll[d] \in Rollout /\ roll \in [DeployIds -> GoodRollouts]
  BY RolloutHolds DEF Typed, ProcessTyped
<1> USE DEF RollStays, tables, disk, history, Rollout
<1>2. CASE RollArchive(d) \/ RollDocker(d) \/ RollFailedEarly(d)
  BY <1>1, <1>2 DEF RollArchive, RollDocker, RollFailedEarly
<1>3. CASE RollCheckout(d) \/ RollCheckoutFails(d)
  BY <1>1, <1>3 DEF RollCheckout, RollCheckoutFails
<1>4. CASE RollUp(d) \/ RollUpFails(d)
  BY <1>1, <1>4 DEF RollUp, RollUpFails
<1> QED
  BY <1>2, <1>3, <1>4 DEF RollStep

-----------------------------------------------------------------------------
(* The rows. *)

LEMMA RequestMovesLedger ==
  ASSUME Typed, Ledger, NEW c \in Clients, RequestMoves(c),
         UNCHANGED <<build, deploy, nbuild, ndeploy, comp, roll, abandoned>>
  PROVE  Ledger'
<1>1. \A x \in Clients : req'[x].pc = "insertSecond" => req'[x] = req[x]
  BY DEF RequestMoves
<1> QED
  BY <1>1 DEF Ledger, OpenBuild

LEMMA DeleteJobBuildsLedger ==
  ASSUME Typed, Ledger, NEW c \in Clients, DeleteJobBuilds(c) PROVE Ledger'
<1>1. UNCHANGED <<deploy, nbuild, ndeploy, comp, roll, abandoned>>
  BY DEF DeleteJobBuilds, history
<1>2. req[c].job \in Jobs /\ None \notin Jobs
  BY RequestHolds, ReleaseAssumption DEF DeleteJobBuilds, JobPcs, ReleaseAssumption
<1>3. /\ req'[c].pc = "deleteJobRow"
      /\ \A x \in Clients : x # c => req'[x] = req[x]
  BY AdvanceMoves DEF DeleteJobBuilds
<1>4. \A b \in BuildIds :
        \/ build'[b] = build[b]
        \/ build'[b].st = "gone" /\ build[b].job = req[c].job
  BY DEF DeleteJobBuilds, NoBuild
<1>5. \A b \in BuildIds : b > nbuild => build'[b] = NoBuild
  BY <1>2, <1>4 DEF Ledger, NoBuild
<1>6. \A b \in BuildIds : \A j, v : OpenBuild(b, j, v) => OpenBuild(b, j, v)'
  BY <1>4 DEF OpenBuild
<1>7. \A x \in Clients : req[x].pc = "insertSecond" => req[x].build \in BuildIds
  BY RequestHolds
<1> QED
  BY <1>1, <1>3, <1>5, <1>6, <1>7 DEF Ledger

LEMMA DeleteAppDeploysLedger ==
  ASSUME Typed, Ledger, NEW c \in Clients, DeleteAppDeploys(c) PROVE Ledger'
<1>1. UNCHANGED <<build, nbuild, ndeploy, comp, roll, abandoned>>
  BY DEF DeleteAppDeploys, history
<1>2. req[c].app \in Apps /\ None \notin Apps
  BY RequestHolds, ReleaseAssumption DEF DeleteAppDeploys, AppPcs, ReleaseAssumption
<1>3. /\ req'[c].pc = "deleteAppRow"
      /\ \A x \in Clients : x # c => req'[x] = req[x]
  BY AdvanceMoves DEF DeleteAppDeploys
<1>4. \A d \in DeployIds :
        \/ deploy'[d] = deploy[d]
        \/ deploy'[d].st = "gone" /\ deploy[d].app = req[c].app
  BY DEF DeleteAppDeploys, NoDeploy
<1>5. \A d \in DeployIds : d > ndeploy => deploy'[d] = NoDeploy
  BY <1>2, <1>4 DEF Ledger, NoDeploy
<1> QED
  BY <1>1, <1>3, <1>4, <1>5 DEF Ledger, OpenBuild

LEMMA InsertBuildLedger ==
  ASSUME Typed, Waits, Ledger, NEW c \in Clients, InsertBuild(c) PROVE Ledger'
<1> DEFINE n == nbuild + 1
<1>1. n \in BuildIds /\ n > nbuild /\ \A b \in BuildIds : b > n => b > nbuild
  BY ReleaseAssumption DEF InsertBuild, ReleaseAssumption, BuildIds, Typed, TablesTyped
<1>2. /\ build'[n] = NewBuild(c)
      /\ \A b \in BuildIds : b # n => build'[b] = build[b]
      /\ comp'[n] = NewCompile(c, now, None)
      /\ \A b \in BuildIds : b # n => comp'[b] = comp[b]
  BY <1>1 DEF InsertBuild, Typed, TablesTyped, ProcessTyped
<1>3. build'[n].st = "running" /\ build'[n].job = comp'[n].job /\ build'[n].ver = comp'[n].ver
  BY <1>2 DEF NewBuild, NewCompile, NoCompile
<1>4. req'[c].pc = "idle" /\ \A x \in Clients : x # c => req'[x] = req[x]
  BY ReplyMoves DEF InsertBuild
<1>5. nbuild' = n /\ UNCHANGED <<deploy, ndeploy, roll, abandoned>>
  BY DEF InsertBuild, history
<1>6. \A x \in Clients : req[x].pc = "insertSecond" =>
        req[x].build \in BuildIds /\ req[x].build # n
  BY <1>1, RequestHolds DEF Waits, BuildIds, Typed, TablesTyped
<1>7. \A b \in BuildIds : \A j, v : b # n => (OpenBuild(b, j, v)' <=> OpenBuild(b, j, v))
  BY <1>2 DEF OpenBuild
<1> HIDE DEF n
<1>8. \A b \in BuildIds : b > nbuild' => build'[b] = NoBuild
  <2>1. \A b \in BuildIds : b > n => b # n /\ b > nbuild
    BY <1>1 DEF BuildIds
  <2> QED
    BY <1>2, <1>5, <2>1 DEF Ledger
<1>9. \A b \in BuildIds : comp'[b].pc \in CompilePcs => OpenBuild(b, comp[b].job, comp[b].ver)'
  <2>1. \A b \in BuildIds : comp'[b].pc \in CompilePcs /\ b # n =>
          OpenBuild(b, comp[b].job, comp[b].ver)'
    BY <1>2, <1>7 DEF Ledger
  <2>2. \A b \in BuildIds : b = n => OpenBuild(b, comp[b].job, comp[b].ver)'
    BY <1>3 DEF OpenBuild
  <2> QED
    BY <2>1, <2>2
<1>10. \A x \in Clients : req'[x].pc = "insertSecond" =>
         OpenBuild(req[x].build, req[x].job, req[x].ver)'
  BY <1>4, <1>6, <1>7 DEF Ledger
<1> QED
  BY <1>5, <1>8, <1>9, <1>10 DEF Ledger

LEMMA BuildDeployInsertBuildLedger ==
  ASSUME Typed, Waits, Ledger, NEW c \in Clients, BuildDeployInsertBuild(c) PROVE Ledger'
<1> DEFINE n == nbuild + 1
<1>1. n \in BuildIds /\ n > nbuild /\ \A b \in BuildIds : b > n => b > nbuild
  BY ReleaseAssumption DEF BuildDeployInsertBuild, ReleaseAssumption, BuildIds, Typed, TablesTyped
<1>2. /\ build'[n] = NewBuild(c)
      /\ \A b \in BuildIds : b # n => build'[b] = build[b]
  BY <1>1 DEF BuildDeployInsertBuild, Typed, TablesTyped
<1>3. /\ req'[c].build = n /\ req'[c].ver = now /\ req'[c].job = req[c].job
      /\ \A x \in Clients : x # c => req'[x] = req[x]
  <2>1. req[c] \in Request
    BY RequestHolds
  <2> QED
    BY <2>1 DEF BuildDeployInsertBuild, Request, Typed, ProcessTyped
<1>4. OpenBuild(req[c].build, req[c].job, req[c].ver)'
  BY <1>2, <1>3 DEF OpenBuild, NewBuild
<1>5. nbuild' = n /\ UNCHANGED <<deploy, ndeploy, comp, roll, abandoned>>
  BY DEF BuildDeployInsertBuild, history
<1>6. \A x \in Clients : req[x].pc = "insertSecond" =>
        req[x].build \in BuildIds /\ req[x].build # n
  BY <1>1, RequestHolds DEF Waits, BuildIds, Typed, TablesTyped
<1>7. \A b \in BuildIds : \A j, v : b # n => (OpenBuild(b, j, v)' <=> OpenBuild(b, j, v))
  BY <1>2 DEF OpenBuild
<1>8. \A b \in BuildIds : comp[b].pc # "none" => b # n
  BY <1>1 DEF Waits, BuildIds, Typed, TablesTyped
<1> HIDE DEF n
<1>9. \A b \in BuildIds : b > nbuild' => build'[b] = NoBuild
  <2>1. \A b \in BuildIds : b > n => b # n /\ b > nbuild
    BY <1>1 DEF BuildIds
  <2> QED
    BY <1>2, <1>5, <2>1 DEF Ledger
<1>10. \A b \in BuildIds : comp'[b].pc \in CompilePcs => OpenBuild(b, comp[b].job, comp[b].ver)'
  BY <1>5, <1>7, <1>8 DEF Ledger, CompilePcs
<1>11. \A x \in Clients : req'[x].pc = "insertSecond" =>
         OpenBuild(req[x].build, req[x].job, req[x].ver)'
  BY <1>3, <1>4, <1>6, <1>7 DEF Ledger
<1> QED
  BY <1>5, <1>9, <1>10, <1>11 DEF Ledger

LEMMA InsertDeployLedger ==
  ASSUME Typed, Waits, Ledger, NEW c \in Clients, InsertDeploy(c) PROVE Ledger'
<1> DEFINE n == ndeploy + 1
<1>1. n \in DeployIds /\ n > ndeploy /\ \A d \in DeployIds : d > n => d # n /\ d > ndeploy
  BY ReleaseAssumption DEF InsertDeploy, ReleaseAssumption, DeployIds, Typed, TablesTyped
<1>2. /\ deploy'[n] = NewDeploy(c, req[c].ver)
      /\ \A d \in DeployIds : d # n => deploy'[d] = deploy[d]
      /\ roll'[n] = NewRollout(c, "image", req[c].ver)
      /\ \A d \in DeployIds : d # n => roll'[d] = roll[d]
  BY <1>1 DEF InsertDeploy, Typed, TablesTyped, ProcessTyped
<1>3. /\ deploy'[n].st = "running" /\ deploy'[n].app = roll'[n].app
      /\ roll'[n].pc = "image"
  BY <1>2 DEF NewDeploy, NewRollout, NoRollout
<1>4. req'[c].pc = "idle" /\ \A x \in Clients : x # c => req'[x] = req[x]
  BY ReplyMoves DEF InsertDeploy
<1>5. ndeploy' = n /\ UNCHANGED <<build, nbuild, comp, abandoned>>
  BY DEF InsertDeploy, history
<1> HIDE DEF n
<1>6. \A d \in DeployIds : d > ndeploy' => deploy'[d] = NoDeploy
  BY <1>1, <1>2, <1>5 DEF Ledger
<1>7. \A d \in DeployIds :
        /\ roll'[d].pc # "none" => deploy'[d].st = "gone" \/ deploy'[d].app = roll'[d].app
        /\ roll'[d].pc \in OpenPcs => deploy'[d].st \in {"running", "gone"}
  BY <1>2, <1>3 DEF Ledger
<1>8. \A d \in DeployIds : roll'[d].pc \in {"swap", "finish"} => d # n
  BY <1>3
<1> QED
  BY <1>2, <1>4, <1>5, <1>6, <1>7, <1>8 DEF Ledger, OpenBuild

LEMMA BuildDeployInsertDeployLedger ==
  ASSUME Typed, Waits, Ledger, NEW c \in Clients, BuildDeployInsertDeploy(c) PROVE Ledger'
<1> DEFINE n == ndeploy + 1
           m == req[c].build
<1>1. n \in DeployIds /\ n > ndeploy /\ \A d \in DeployIds : d > n => d # n /\ d > ndeploy
  BY ReleaseAssumption
  DEF BuildDeployInsertDeploy, ReleaseAssumption, DeployIds, Typed, TablesTyped
<1>2. m \in BuildIds /\ OpenBuild(m, req[c].job, req[c].ver)
  BY RequestHolds DEF BuildDeployInsertDeploy, Ledger
<1>3. /\ deploy'[n] = NewDeploy(c, req[c].ver)
      /\ \A d \in DeployIds : d # n => deploy'[d] = deploy[d]
      /\ roll'[n] = NewRollout(c, "wait", req[c].ver)
      /\ \A d \in DeployIds : d # n => roll'[d] = roll[d]
  BY <1>1 DEF BuildDeployInsertDeploy, Typed, TablesTyped, ProcessTyped
<1>4. /\ comp'[m] = NewCompile(c, req[c].ver, n)
      /\ \A b \in BuildIds : b # m => comp'[b] = comp[b]
  BY <1>2 DEF BuildDeployInsertDeploy, Typed, ProcessTyped
<1>5. /\ deploy'[n].st = "running" /\ deploy'[n].app = roll'[n].app
      /\ roll'[n].pc = "wait"
  BY <1>3 DEF NewDeploy, NewRollout, NoRollout
<1>6. comp'[m].job = req[c].job /\ comp'[m].ver = req[c].ver
  BY <1>4 DEF NewCompile, NoCompile
<1>7. req'[c].pc = "idle" /\ \A x \in Clients : x # c => req'[x] = req[x]
  BY ReplyMoves DEF BuildDeployInsertDeploy
<1>8. ndeploy' = n /\ UNCHANGED <<build, nbuild, abandoned>>
  BY DEF BuildDeployInsertDeploy, history
<1> HIDE DEF n, m
<1>9. \A d \in DeployIds : d > ndeploy' => deploy'[d] = NoDeploy
  BY <1>1, <1>3, <1>8 DEF Ledger
<1>10. \A b \in BuildIds : \A j, v : OpenBuild(b, j, v)' <=> OpenBuild(b, j, v)
  BY <1>8 DEF OpenBuild
<1>11. \A b \in BuildIds : comp'[b].pc \in CompilePcs => OpenBuild(b, comp'[b].job, comp'[b].ver)
  BY <1>2, <1>4, <1>6 DEF Ledger
<1>12. \A x \in Clients : req'[x].pc = "insertSecond" =>
         OpenBuild(req'[x].build, req'[x].job, req'[x].ver)
  BY <1>7 DEF Ledger
<1>13. \A d \in DeployIds :
        /\ roll'[d].pc # "none" => deploy'[d].st = "gone" \/ deploy'[d].app = roll'[d].app
        /\ roll'[d].pc \in OpenPcs => deploy'[d].st \in {"running", "gone"}
  BY <1>3, <1>5 DEF Ledger
<1>14. \A d \in DeployIds : roll'[d].pc \in {"swap", "finish"} => d # n
  BY <1>5
<1> QED
  BY <1>3, <1>8, <1>9, <1>11, <1>12, <1>13, <1>14 DEF Ledger, OpenBuild

LEMMA BuildDeployUndoLedger ==
  ASSUME Typed, Waits, Ledger, NEW c \in Clients, BuildDeployUndo(c) PROVE Ledger'
<1> DEFINE m == req[c].build
<1>1. /\ m \in BuildIds /\ m <= nbuild /\ comp[m].pc = "none" /\ req[c].pc = "insertSecond"
      /\ nbuild \in Nat
  BY RequestHolds DEF BuildDeployUndo, Waits, Typed, TablesTyped
<1>2. \A b \in BuildIds : b # m => build'[b] = build[b]
  BY DEF BuildDeployUndo, Typed, TablesTyped
<1>3. req'[c].pc = "idle" /\ \A x \in Clients : x # c => req'[x] = req[x]
  BY ReplyMoves DEF BuildDeployUndo
<1>4. UNCHANGED <<deploy, nbuild, ndeploy, comp, roll>> /\ abandoned.deploy \subseteq abandoned'.deploy
  BY DEF BuildDeployUndo, Typed, CountersTyped
<1>5. \A x \in Clients : x # c /\ req[x].pc = "insertSecond" => req[x].build \in BuildIds /\ req[x].build # m
  BY <1>1, RequestHolds DEF Waits
<1>6. \A b \in BuildIds : b > nbuild => b # m
  BY <1>1 DEF BuildIds
<1>7. \A b \in BuildIds : \A j, v : b # m => (OpenBuild(b, j, v)' <=> OpenBuild(b, j, v))
  BY <1>2 DEF OpenBuild
<1> HIDE DEF m
<1>8. \A b \in BuildIds : b > nbuild => build'[b] = NoBuild
  BY <1>2, <1>6 DEF Ledger
<1>9. \A b \in BuildIds : comp[b].pc \in CompilePcs => OpenBuild(b, comp[b].job, comp[b].ver)'
  BY <1>1, <1>4, <1>7 DEF Ledger, CompilePcs
<1>10. \A x \in Clients : req'[x].pc = "insertSecond" =>
         OpenBuild(req[x].build, req[x].job, req[x].ver)'
  BY <1>3, <1>5, <1>7 DEF Ledger
<1> QED
  BY <1>4, <1>8, <1>9, <1>10 DEF Ledger

LEMMA CompileStaysLedger ==
  ASSUME Typed, Ledger, NEW b \in BuildIds, CompileStays(b) PROVE Ledger'
<1>1. \A x \in BuildIds : comp'[x].pc \in CompilePcs =>
        comp[x].pc \in CompilePcs /\ comp'[x].job = comp[x].job /\ comp'[x].ver = comp[x].ver
  BY DEF CompileStays, CompilePcs
<1> QED
  BY <1>1 DEF CompileStays, Ledger, OpenBuild

LEMMA AfterRecordLedger ==
  ASSUME Typed, Waits, Ledger, NEW b \in BuildIds, comp[b].pc = "record", AfterRecord(b),
         \A x \in BuildIds : x # b => build'[x] = build[x],
         abandoned.deploy \subseteq abandoned'.deploy,
         UNCHANGED <<deploy, nbuild, ndeploy, req>>
  PROVE  Ledger'
<1> DEFINE d == comp[b].dep
<1>1. /\ comp[b] \in Compile /\ d \in DeployIds \cup {None} /\ None \notin DeployIds
      /\ nbuild \in Nat /\ b <= nbuild
  BY CompileHolds, ReleaseAssumption
  DEF ReleaseAssumption, DeployIds, Waits, Typed, TablesTyped
<1>2. /\ \A x \in BuildIds : x # b => comp'[x] = comp[x]
      /\ comp'[b].pc \notin CompilePcs
  <2>1. CASE d # None /\ ~comp[b].ok
    BY <1>1, <2>1 DEF AfterRecord, CompilePcs, Compile, Typed, ProcessTyped
  <2>2. CASE ~(d # None /\ ~comp[b].ok)
    BY <2>2 DEF AfterRecord, CompilePcs, NoCompile, Typed, ProcessTyped
  <2> QED
    BY <2>1, <2>2
<1>3. \A x \in DeployIds :
        \/ roll'[x] = roll[x]
        \/ roll[x].pc = "wait" /\ roll'[x].pc = "image" /\ roll'[x].app = roll[x].app
  <2>1. CASE d # None /\ comp[b].ok
    <3>1. d \in DeployIds /\ roll[d] \in Rollout /\ roll[d].pc = "wait"
      BY <1>1, <2>1, RolloutHolds DEF Waits
    <3>2. roll' = [roll EXCEPT ![d].pc = "image"] /\ roll \in [DeployIds -> GoodRollouts]
      BY <2>1 DEF AfterRecord, Typed, ProcessTyped
    <3> QED
      BY <3>1, <3>2 DEF Rollout
  <2>2. CASE ~(d # None /\ comp[b].ok)
    BY <2>2 DEF AfterRecord
  <2> QED
    BY <2>1, <2>2
<1>4. \A x \in Clients : req[x].pc = "insertSecond" => req[x].build \in BuildIds /\ req[x].build # b
  BY RequestHolds DEF Waits
<1>5. \A x \in BuildIds : \A j, v : x # b => (OpenBuild(x, j, v)' <=> OpenBuild(x, j, v))
  BY DEF OpenBuild
<1>6. \A x \in BuildIds : x > nbuild => build'[x] = NoBuild
  <2>1. \A x \in BuildIds : x > nbuild => x # b
    BY <1>1 DEF BuildIds
  <2> QED
    BY <2>1 DEF Ledger
<1>7. \A x \in BuildIds : comp'[x].pc \in CompilePcs => OpenBuild(x, comp[x].job, comp[x].ver)'
  BY <1>2, <1>5 DEF Ledger
<1>8. \A x \in Clients : req[x].pc = "insertSecond" =>
        OpenBuild(req[x].build, req[x].job, req[x].ver)'
  BY <1>4, <1>5 DEF Ledger
<1>9. \A x \in DeployIds :
        /\ roll'[x].pc # "none" => deploy[x].st = "gone" \/ deploy[x].app = roll'[x].app
        /\ roll'[x].pc \in OpenPcs => deploy[x].st \in {"running", "gone"}
        /\ roll'[x].pc \in {"swap", "finish"} => roll'[x] = roll[x]
  BY <1>3 DEF Ledger, OpenPcs
<1> QED
  BY <1>6, <1>7, <1>8, <1>9 DEF Ledger

LEMMA CompileRecordLedger ==
  ASSUME Typed, Waits, Ledger, NEW b \in BuildIds, CompileRecord(b) \/ CompileRecordLost(b)
  PROVE  Ledger'
<1>1. /\ comp[b].pc = "record" /\ AfterRecord(b)
      /\ \A x \in BuildIds : x # b => build'[x] = build[x]
      /\ abandoned.deploy \subseteq abandoned'.deploy
      /\ UNCHANGED <<deploy, nbuild, ndeploy, req>>
  BY DEF CompileRecord, CompileRecordLost, tables, Typed, TablesTyped, CountersTyped
<1> QED
  BY <1>1, AfterRecordLedger

LEMMA RecordDeployRow ==
  ASSUME Typed, NEW d \in DeployIds, NEW st \in {"ok", "fail"}, RecordDeploy(d, st)
  PROVE  /\ \A x \in DeployIds : x # d => deploy'[x] = deploy[x]
         /\ \/ deploy'[d] = deploy[d] /\ (deploy[d].st = "gone" \/ d \in abandoned'.deploy)
            \/ /\ deploy[d].st # "gone"
               /\ deploy'[d].st = st /\ deploy'[d].app = deploy[d].app
         /\ abandoned.deploy \subseteq abandoned'.deploy
<1>1. deploy \in [DeployIds -> DeployRow]
      /\ abandoned \in [build : SUBSET BuildIds, deploy : SUBSET DeployIds]
  BY DEF Typed, TablesTyped, CountersTyped
<1>2. CASE deploy' = [deploy EXCEPT ![d] = RecordedDeploy(d, st)] /\ UNCHANGED <<faults,
   abandoned>>
  BY <1>1, <1>2 DEF RecordedDeploy, DeployRow
<1>3. CASE /\ faults < MaxFault /\ faults' = faults + 1 /\ UNCHANGED deploy
           /\ abandoned' = [abandoned EXCEPT !.deploy = @ \cup {d}]
  BY <1>1, <1>3
<1> QED
  BY <1>2, <1>3 DEF RecordDeploy

\* The UPDATE of a rollout changes the row of deploy d and no other.
LEMMA RecordDeployLedger ==
  ASSUME Typed, Waits, Ledger, NEW d \in DeployIds, NEW st \in {"ok", "fail"},
         RecordDeploy(d, st), roll[d].pc # "none",
         UNCHANGED <<build, nbuild, ndeploy, req>>,
         \A b \in BuildIds : comp'[b].pc \in CompilePcs => comp'[b] = comp[b],
         \A x \in DeployIds : x # d => roll'[x] = roll[x],
         \/ roll'[d].pc = "none"
         \/ /\ roll[d].pc \in OpenPcs /\ st = "ok"
            /\ roll'[d].pc = "swap" /\ roll'[d].app = roll[d].app /\ roll[d].app \in SelfApps
  PROVE  Ledger'
<1>1. /\ \A x \in DeployIds : x # d => deploy'[x] = deploy[x]
      /\ \/ deploy'[d] = deploy[d] /\ (deploy[d].st = "gone" \/ d \in abandoned'.deploy)
         \/ /\ deploy[d].st # "gone"
            /\ deploy'[d].st = st /\ deploy'[d].app = deploy[d].app
      /\ abandoned.deploy \subseteq abandoned'.deploy
  BY RecordDeployRow
<1>2. \A x \in DeployIds : x > ndeploy => x # d
  BY DEF Waits, DeployIds, Typed, TablesTyped
<1>3. \A x \in DeployIds : x > ndeploy => deploy'[x] = NoDeploy
  BY <1>1, <1>2 DEF Ledger
<1>4. /\ roll'[d].pc \notin OpenPcs \cup {"finish"}
      /\ roll'[d].pc # "none" => deploy'[d].st = "gone" \/ deploy'[d].app = roll'[d].app
      /\ roll'[d].pc = "swap" =>
           /\ roll'[d].app \in SelfApps
           /\ \/ deploy'[d].st \in {"ok", "gone"}
              \/ deploy'[d].st = "running" /\ d \in abandoned'.deploy
  <2>1. CASE roll'[d].pc = "none"
    BY <2>1 DEF OpenPcs
  <2>2. CASE /\ roll[d].pc \in OpenPcs /\ st = "ok"
             /\ roll'[d].pc = "swap" /\ roll'[d].app = roll[d].app /\ roll[d].app \in SelfApps
    <3>1. /\ deploy[d].st = "gone" \/ deploy[d].app = roll[d].app
          /\ deploy[d].st \in {"running", "gone"}
      BY <2>2 DEF Ledger
    <3> QED
      BY <1>1, <2>2, <3>1 DEF OpenPcs
  <2> QED
    BY <2>1, <2>2
<1>5. \A b \in BuildIds : \A j, v : OpenBuild(b, j, v)' <=> OpenBuild(b, j, v)
  BY DEF OpenBuild
<1>6. \A b \in BuildIds : comp'[b].pc \in CompilePcs => OpenBuild(b, comp'[b].job, comp'[b].ver)
  BY DEF Ledger
<1> QED
  BY <1>1, <1>3, <1>4, <1>6 DEF Ledger, OpenBuild

LEMMA RollBuildFailedLedger ==
  ASSUME Typed, Waits, Ledger, NEW b \in BuildIds, RollBuildFailed(b) PROVE Ledger'
<1> DEFINE d == comp[b].dep
<1>1. d \in DeployIds /\ roll[d].pc = "wait"
  BY CompileHolds, ReleaseAssumption
  DEF RollBuildFailed, Waits, ReleaseAssumption, DeployIds
<1>2. comp'[b].pc = "none" /\ \A x \in BuildIds : x # b => comp'[x] = comp[x]
  BY DEF RollBuildFailed, NoCompile, Typed, ProcessTyped
<1>3. roll'[d].pc = "none" /\ \A x \in DeployIds : x # d => roll'[x] = roll[x]
  BY <1>1 DEF RollBuildFailed, NoRollout, Typed, ProcessTyped
<1>4. RecordDeploy(d, "fail") /\ UNCHANGED <<build, nbuild, ndeploy, req>>
  BY DEF RollBuildFailed
<1> HIDE DEF d
<1> QED
  BY <1>1, <1>2, <1>3, <1>4, RecordDeployLedger DEF CompilePcs

LEMMA RollStaysLedger ==
  ASSUME Typed, Ledger, NEW d \in DeployIds, RollStays(d) PROVE Ledger'
<1>1. \A x \in DeployIds :
        /\ roll'[x].pc # "none" => deploy[x].st = "gone" \/ deploy[x].app = roll'[x].app
        /\ roll'[x].pc \in OpenPcs => deploy[x].st \in {"running", "gone"}
        /\ roll'[x].pc \in {"swap", "finish"} =>
             roll'[x] = roll[x] \/ (roll'[x].pc = "finish" /\ deploy[x].st \in {"running", "gone"})
  BY DEF RollStays, Ledger, OpenPcs
<1>2. UNCHANGED <<build, deploy, nbuild, ndeploy, req, comp, abandoned>>
  BY DEF RollStays
<1> QED
  BY <1>1, <1>2 DEF Ledger, OpenBuild

LEMMA RollSelfRecordLedger ==
  ASSUME Typed, Waits, Ledger, NEW d \in DeployIds, RollSelfRecord(d) PROVE Ledger'
<1>1. roll[d] \in Rollout /\ roll[d].pc = "up" /\ roll[d].app \in SelfApps
  BY RolloutHolds DEF RollSelfRecord
<1>2. /\ roll'[d].pc = "swap" /\ roll'[d].app = roll[d].app
      /\ \A x \in DeployIds : x # d => roll'[x] = roll[x]
  BY <1>1 DEF RollSelfRecord, Rollout, Typed, ProcessTyped
<1>3. RecordDeploy(d, "ok") /\ UNCHANGED <<build, nbuild, ndeploy, req, comp>>
  BY DEF RollSelfRecord
<1> QED
  BY <1>1, <1>2, <1>3, RecordDeployLedger DEF OpenPcs

LEMMA RollFinishLedger ==
  ASSUME Typed, Waits, Ledger, NEW d \in DeployIds, RollFinish(d) PROVE Ledger'
<1>1. /\ roll'[d].pc = "none"
      /\ \A x \in DeployIds : x # d => roll'[x] = roll[x]
  BY DEF RollFinish, NoRollout, Typed, ProcessTyped
<1>2. \E st \in {"ok", "fail"} : RecordDeploy(d, st)
  BY DEF RollFinish
<1>3. roll[d].pc = "finish" /\ UNCHANGED <<build, nbuild, ndeploy, req, comp>>
  BY DEF RollFinish
<1> QED
  BY <1>1, <1>2, <1>3, RecordDeployLedger

LEMMA RollSwapFailsLedger ==
  ASSUME Typed, Ledger, NEW d \in DeployIds, RollSwapFails(d) PROVE Ledger'
<1>1. roll[d] \in Rollout /\ roll[d].pc = "swap"
  BY RolloutHolds DEF RollSwapFails
<1>2. /\ roll'[d].pc = "finish" /\ ~roll'[d].ok /\ roll'[d].app = roll[d].app
      /\ \A x \in DeployIds : x # d => roll'[x] = roll[x]
  BY <1>1 DEF RollSwapFails, Rollout, Typed, ProcessTyped
<1>3. UNCHANGED <<build, deploy, nbuild, ndeploy, req, comp, abandoned>>
  BY DEF RollSwapFails, tables, history
<1>4. /\ deploy[d].st = "gone" \/ deploy[d].app = roll'[d].app
      /\ \/ deploy[d].st \in {"running", "gone"}
         \/ deploy[d].st = "ok" /\ roll'[d].app \in SelfApps /\ ~roll'[d].ok
  BY <1>1, <1>2 DEF Ledger
<1> QED
  BY <1>2, <1>3, <1>4 DEF Ledger, OpenBuild, OpenPcs

LEMMA ProcessReplacedLedger ==
  ASSUME Ledger, ProcessReplaced PROVE Ledger'
<1>1. /\ UNCHANGED <<build, deploy, nbuild, ndeploy>>
      /\ \A c \in Clients : req'[c].pc = "idle"
      /\ \A b \in BuildIds : comp'[b].pc = "none"
      /\ \A d \in DeployIds : roll'[d].pc = "none"
  BY DEF ProcessReplaced, NoRequest, NoCompile, NoRollout
<1> QED
  BY <1>1 DEF Ledger, CompilePcs, OpenPcs

LEMMA InitLedger == Init => Ledger
<1> SUFFICES ASSUME Init PROVE Ledger
  OBVIOUS
<1>1. /\ \A c \in Clients : req[c].pc = "idle"
      /\ \A b \in BuildIds : comp[b].pc = "none" /\ build[b] = NoBuild
      /\ \A d \in DeployIds : roll[d].pc = "none" /\ deploy[d] = NoDeploy
  BY DEF Init, NoRequest, NoCompile, NoRollout
<1> QED
  BY <1>1 DEF Ledger, CompilePcs, OpenPcs

LEMMA NextLedger == Inv /\ Ledger /\ [Next]_vars => Ledger'
<1> SUFFICES ASSUME Inv, Ledger, [Next]_vars PROVE Ledger'
  OBVIOUS
<1>0. Typed /\ Waits
  BY DEF Inv
<1>1. ASSUME NEW c \in Clients, ScmStep(c) PROVE Ledger'
  <2>1. CASE QuietRequest(c)
    BY <1>0, <2>1, RequestMovesLedger DEF QuietRequest, Still
  <2>2. CASE DeleteJobWork(c)
    BY <1>0, <2>2, RequestMovesLedger, DeleteJobWorkMoves DEF DeleteJobWork, tables
  <2>3. CASE DeleteJobArtifacts(c)
    BY <1>0, <2>3, RequestMovesLedger, DeleteJobArtifactsMoves DEF DeleteJobArtifacts, tables, history
  <2> QED
    BY <1>0, <1>1, <2>1, <2>2, <2>3, QuietScm, DeleteJobBuildsLedger, InsertBuildLedger
<1>2. ASSUME NEW c \in Clients, DeployStep(c) PROVE Ledger'
  <2>1. CASE QuietRequest(c)
    BY <1>0, <2>1, RequestMovesLedger DEF QuietRequest, Still
  <2>2. CASE DeleteAppRuntime(c)
    BY <1>0, <2>2, RequestMovesLedger, DeleteAppRuntimeMoves DEF DeleteAppRuntime, tables
  <2> QED
    BY <1>0, <1>2, <2>1, <2>2, QuietDeploy, DeleteAppDeploysLedger, InsertDeployLedger,
       BuildDeployInsertBuildLedger, BuildDeployInsertDeployLedger, BuildDeployUndoLedger
<1>3. ASSUME NEW b \in BuildIds, CompileStep(b) \/ RollBuildFailed(b) PROVE Ledger'
  BY <1>0, <1>3, CompileStepKinds, CompileStaysLedger, CompileRecordLedger, RollBuildFailedLedger
<1>4. ASSUME NEW d \in DeployIds, RollStep(d) PROVE Ledger'
  <2>1. CASE RollSwap(d)
    BY <2>1, ProcessReplacedLedger DEF RollSwap
  <2> QED
    BY <1>0, <1>4, <2>1, RollStepKinds, RollStaysLedger, RollSelfRecordLedger,
       RollSwapFailsLedger, RollFinishLedger
<1>5. CASE Tick \/ UNCHANGED vars
  BY <1>5 DEF Tick, vars, tables, process, history, Ledger, OpenBuild
<1>6. CASE Crash
  BY <1>6, ProcessReplacedLedger DEF Crash
<1> QED
  BY <1>1, <1>2, <1>3, <1>4, <1>5, <1>6 DEF Next

-----------------------------------------------------------------------------
(* What a step does to a row that is final, and to one that becomes so. *)

FinalStep ==
    /\ \A b \in BuildIds :
         build[b].st \in {"ok", "fail"} => build'[b].st \in {build[b].st, "gone"}
    /\ \A d \in DeployIds :
         /\ deploy[d].st = "fail" => deploy'[d].st \in {"fail", "gone"}
         /\ deploy[d].st = "ok" =>
               \/ deploy'[d].st \in {"ok", "gone"}
               \/ deploy[d].app \in SelfApps /\ deploy'[d].st = "fail"

ResultStep ==
    /\ \A b \in BuildIds :
         comp[b].pc = "record" /\ comp'[b].pc # "record" =>
            \/ build'[b].st \in {"gone", IF comp[b].ok THEN "ok" ELSE "fail"}
            \/ b \in abandoned'.build
    /\ \A d \in DeployIds :
         roll[d].pc \notin {"none", "swap"} /\ roll'[d].pc = "none" =>
            \/ deploy'[d].st \in {"gone", IF roll[d].pc = "finish" /\ roll[d].ok
                                          THEN "ok" ELSE "fail"}
            \/ d \in abandoned'.deploy
            \/ restarts' # restarts
            \/ \E x \in DeployIds : roll[x].pc = "swap" /\ roll'[x].pc = "none"

\* A step that changes no row that is there and ends no goroutine.
LEMMA EndsNothing ==
  ASSUME \A b \in BuildIds : build'[b] = build[b] \/ build'[b].st = "gone" \/ build[b] = NoBuild,
         \A d \in DeployIds :
            deploy'[d] = deploy[d] \/ deploy'[d].st = "gone" \/ deploy[d] = NoDeploy,
         \A b \in BuildIds : comp[b].pc = "record" => comp'[b].pc = "record",
         \A d \in DeployIds : roll[d].pc # "none" => roll'[d].pc # "none"
  PROVE  FinalStep /\ ResultStep
  BY DEF FinalStep, ResultStep, NoBuild, NoDeploy

LEMMA InsertBuildResult ==
  ASSUME Typed, Waits, Ledger, NEW c \in Clients, InsertBuild(c) \/ BuildDeployInsertBuild(c)
  PROVE  FinalStep /\ ResultStep
<1> DEFINE n == nbuild + 1
<1>1. n \in BuildIds /\ n > nbuild
  BY ReleaseAssumption
  DEF InsertBuild, BuildDeployInsertBuild, ReleaseAssumption, BuildIds, Typed, TablesTyped
<1>2. build[n] = NoBuild /\ comp[n].pc = "none"
  BY <1>1 DEF Ledger, Waits, BuildIds, Typed, TablesTyped
<1>3. /\ \A b \in BuildIds : b # n => build'[b] = build[b] /\ comp'[b] = comp[b]
      /\ UNCHANGED <<deploy, roll>>
  BY DEF InsertBuild, BuildDeployInsertBuild, Typed, TablesTyped, ProcessTyped
<1> HIDE DEF n
<1> QED
  BY <1>2, <1>3, EndsNothing

LEMMA InsertDeployResult ==
  ASSUME Typed, Waits, Ledger, NEW c \in Clients, InsertDeploy(c) \/ BuildDeployInsertDeploy(c)
  PROVE  FinalStep /\ ResultStep
<1> DEFINE n == ndeploy + 1
<1>1. n \in DeployIds /\ n > ndeploy
  BY ReleaseAssumption
  DEF InsertDeploy, BuildDeployInsertDeploy, ReleaseAssumption, DeployIds, Typed, TablesTyped
<1>2. deploy[n] = NoDeploy /\ roll[n].pc = "none"
  BY <1>1 DEF Ledger, Waits, DeployIds, Typed, TablesTyped
<1>3. /\ \A d \in DeployIds : d # n => deploy'[d] = deploy[d] /\ roll'[d] = roll[d]
      /\ UNCHANGED build
  BY DEF InsertDeploy, BuildDeployInsertDeploy, Typed, TablesTyped, ProcessTyped
<1>4. \A b \in BuildIds : comp[b].pc # "none" => comp'[b] = comp[b]
  BY RequestHolds
  DEF InsertDeploy, BuildDeployInsertDeploy, Waits, Typed, ProcessTyped
<1> HIDE DEF n
<1> QED
  BY <1>2, <1>3, <1>4, EndsNothing

LEMMA BuildDeployUndoResult ==
  ASSUME Typed, Waits, Ledger, NEW c \in Clients, BuildDeployUndo(c)
  PROVE  FinalStep /\ ResultStep
<1>1. \A b \in BuildIds : b # req[c].build => build'[b] = build[b]
  BY DEF BuildDeployUndo, Typed, TablesTyped
<1>2. build[req[c].build].st \in {"running", "gone"} /\ build'[req[c].build].st \notin {"ok"}
  <2>1. req[c].build \in BuildIds /\ build[req[c].build].st \in {"running", "gone"}
    BY RequestHolds DEF BuildDeployUndo, Ledger, OpenBuild
  <2>2. build \in [BuildIds -> BuildRow]
    BY DEF Typed, TablesTyped
  <2> QED
    BY <2>1, <2>2 DEF BuildDeployUndo, FailedBuild, BuildRow
<1>3. UNCHANGED <<deploy, comp, roll>>
  BY DEF BuildDeployUndo
<1>4. \A b \in BuildIds :
        build[b].st \in {"ok", "fail"} => build'[b].st \in {build[b].st, "gone"}
  BY <1>1, <1>2
<1> QED
  BY <1>3, <1>4 DEF FinalStep, ResultStep

LEMMA RequestResult ==
  ASSUME Typed, Waits, Ledger, NEW c \in Clients, ScmStep(c) \/ DeployStep(c)
  PROVE  FinalStep /\ ResultStep
<1>1. CASE \/ QuietRequest(c) \/ DeleteJobWork(c) \/ DeleteJobArtifacts(c)
           \/ DeleteAppRuntime(c)
  <2>1. UNCHANGED <<build, deploy, comp, roll>>
    BY <1>1 DEF QuietRequest, Still, DeleteJobWork, DeleteJobArtifacts, DeleteAppRuntime, tables
  <2> QED
    BY <2>1, EndsNothing
<1>2. CASE DeleteJobBuilds(c) \/ DeleteAppDeploys(c)
  <2>1. /\ \A b \in BuildIds : build'[b] = build[b] \/ build'[b].st = "gone"
        /\ \A d \in DeployIds : deploy'[d] = deploy[d] \/ deploy'[d].st = "gone"
        /\ UNCHANGED <<comp, roll>>
    BY <1>2 DEF DeleteJobBuilds, DeleteAppDeploys, NoBuild, NoDeploy
  <2> QED
    BY <2>1, EndsNothing
<1> QED
  BY <1>1, <1>2, QuietScm, QuietDeploy, InsertBuildResult, InsertDeployResult,
     BuildDeployUndoResult

LEMMA CompileResult ==
  ASSUME Typed, Waits, Ledger, NEW b \in BuildIds, CompileStep(b)
  PROVE  FinalStep /\ ResultStep
<1>1. CASE CompileStays(b)
  BY <1>1, EndsNothing DEF CompileStays
<1>2. CASE CompileRecord(b) \/ CompileRecordLost(b)
  <2>1. comp[b].pc = "record" /\ build[b].st \in {"running", "gone"} /\ AfterRecord(b)
    BY <1>2 DEF CompileRecord, CompileRecordLost, Ledger, OpenBuild, CompilePcs
  <2>2. /\ \A x \in BuildIds : x # b => build'[x] = build[x]
        /\ UNCHANGED deploy
    BY <1>2 DEF CompileRecord, CompileRecordLost, tables, Typed, TablesTyped
  <2>3. \/ build'[b].st \in {"gone", IF comp[b].ok THEN "ok" ELSE "fail"}
        \/ b \in abandoned'.build
    <3>1. CASE CompileRecord(b)
      <4>1. build' = [build EXCEPT ![b] = RecordedBuild(b)] /\ build \in [BuildIds -> BuildRow]
        BY <3>1 DEF CompileRecord, Typed, TablesTyped
      <4> QED
        BY <4>1 DEF RecordedBuild, BuildRow
    <3>2. CASE CompileRecordLost(b)
      BY <3>2 DEF CompileRecordLost, Typed, CountersTyped
    <3> QED
      BY <1>2, <3>1, <3>2
  <2>4. \A x \in BuildIds : x # b => comp'[x] = comp[x]
    BY <2>1 DEF AfterRecord, Typed, ProcessTyped
  <2>5. \A x \in DeployIds : roll[x].pc # "none" => roll'[x].pc # "none"
    BY <2>1, RolloutHolds DEF AfterRecord, Rollout, Typed, ProcessTyped
  <2>6. FinalStep
    BY <2>1, <2>2 DEF FinalStep
  <2> QED
    BY <2>3, <2>4, <2>5, <2>6 DEF ResultStep
<1> QED
  BY <1>1, <1>2, CompileStepKinds

\* The UPDATE of a rollout that ends, or that goes on to replace its own process.
LEMMA RecordDeployResult ==
  ASSUME Typed, Waits, Ledger, NEW d \in DeployIds, NEW st \in {"ok", "fail"},
         RecordDeploy(d, st), UNCHANGED build,
         \A b \in BuildIds : comp[b].pc = "record" => comp'[b] = comp[b],
         \A x \in DeployIds : x # d => roll'[x] = roll[x],
         \/ roll'[d].pc # "none" /\ deploy[d].st \in {"running", "gone"}
         \/ roll[d].pc \in OpenPcs /\ st = "fail"
         \/ roll[d].pc = "finish" /\ st = (IF roll[d].ok THEN "ok" ELSE "fail")
  PROVE  FinalStep /\ ResultStep
<1>1. /\ \A x \in DeployIds : x # d => deploy'[x] = deploy[x]
      /\ \/ deploy'[d] = deploy[d] /\ (deploy[d].st = "gone" \/ d \in abandoned'.deploy)
         \/ /\ deploy[d].st # "gone"
            /\ deploy'[d].st = st /\ deploy'[d].app = deploy[d].app
  BY RecordDeployRow
<1>2. \/ deploy[d].st \in {"running", "gone"}
      \/ deploy[d].st = "ok" /\ (deploy[d].app \in SelfApps /\ st = "fail")
  <2>1. CASE roll[d].pc = "finish" /\ st = (IF roll[d].ok THEN "ok" ELSE "fail")
    BY <2>1 DEF Ledger
  <2>2. CASE roll[d].pc \in OpenPcs
    BY <2>2 DEF Ledger
  <2> QED
    BY <2>1, <2>2
<1>3. FinalStep
  BY <1>1, <1>2 DEF FinalStep
<1>4. roll[d].pc \notin {"none", "swap"} /\ roll'[d].pc = "none" =>
        \/ deploy'[d].st \in {"gone", IF roll[d].pc = "finish" /\ roll[d].ok
                                      THEN "ok" ELSE "fail"}
        \/ d \in abandoned'.deploy
  BY <1>1 DEF OpenPcs
<1>5. \A b \in BuildIds : comp[b].pc = "record" => comp'[b].pc = "record"
  OBVIOUS
<1> QED
  BY <1>3, <1>4, <1>5 DEF ResultStep

LEMMA RollBuildFailedResult ==
  ASSUME Typed, Waits, Ledger, NEW b \in BuildIds, RollBuildFailed(b)
  PROVE  FinalStep /\ ResultStep
<1> DEFINE d == comp[b].dep
<1>1. d \in DeployIds /\ roll[d].pc \in OpenPcs
  BY CompileHolds, ReleaseAssumption
  DEF RollBuildFailed, Waits, ReleaseAssumption, DeployIds, OpenPcs
<1>2. \A x \in BuildIds : comp[x].pc = "record" => comp'[x] = comp[x]
  BY DEF RollBuildFailed, Typed, ProcessTyped
<1>3. \A x \in DeployIds : x # d => roll'[x] = roll[x]
  BY DEF RollBuildFailed, Typed, ProcessTyped
<1>4. RecordDeploy(d, "fail") /\ UNCHANGED build
  BY DEF RollBuildFailed
<1> HIDE DEF d
<1> QED
  BY <1>1, <1>2, <1>3, <1>4, RecordDeployResult

LEMMA RollResult ==
  ASSUME Typed, Waits, Ledger, NEW d \in DeployIds, RollStep(d), ~RollSwap(d)
  PROVE  FinalStep /\ ResultStep
<1>1. CASE RollStays(d)
  BY <1>1, EndsNothing DEF RollStays
<1>2. CASE RollSelfRecord(d)
  <2>1. roll[d] \in Rollout
    BY RolloutHolds
  <2>2. /\ roll'[d].pc = "swap" /\ deploy[d].st \in {"running", "gone"}
        /\ \A x \in DeployIds : x # d => roll'[x] = roll[x]
        /\ RecordDeploy(d, "ok") /\ UNCHANGED <<build, comp>>
    BY <1>2, <2>1 DEF RollSelfRecord, Ledger, OpenPcs, Rollout, Typed, ProcessTyped
  <2> QED
    BY <2>2, RecordDeployResult
<1>3. CASE RollSwapFails(d)
  <2>1. roll[d] \in Rollout
    BY RolloutHolds
  <2>2. /\ UNCHANGED <<build, deploy, comp>>
        /\ \A x \in DeployIds : roll[x].pc # "none" => roll'[x].pc # "none"
    BY <1>3, <2>1 DEF RollSwapFails, tables, Rollout, Typed, ProcessTyped
  <2> QED
    BY <2>2, EndsNothing
<1>4. CASE RollFinish(d)
  <2>1. /\ roll[d].pc = "finish" /\ RecordDeploy(d, IF roll[d].ok THEN "ok" ELSE "fail")
        /\ UNCHANGED <<build, comp>>
        /\ \A x \in DeployIds : x # d => roll'[x] = roll[x]
    BY <1>4 DEF RollFinish, Typed, ProcessTyped
  <2> QED
    BY <2>1, RecordDeployResult
<1> QED
  BY <1>1, <1>2, <1>3, <1>4, RollStepKinds

\* A new process: what was running is abandoned, whoever was to finish it.
LEMMA ProcessReplacedResult ==
  ASSUME Ledger, ProcessReplaced,
         restarts' # restarts \/ \E x \in DeployIds : roll[x].pc = "swap"
  PROVE  FinalStep /\ ResultStep
<1>1. /\ UNCHANGED <<build, deploy>>
      /\ \A b \in BuildIds : build[b].st = "running" => b \in abandoned'.build
      /\ \A d \in DeployIds : roll'[d].pc = "none"
  BY DEF ProcessReplaced, NoRollout
<1>2. \A b \in BuildIds : comp[b].pc = "record" => build[b].st \in {"running", "gone"}
  BY DEF Ledger, OpenBuild, CompilePcs
<1> QED
  BY <1>1, <1>2 DEF FinalStep, ResultStep

LEMMA NextResult == Inv /\ Ledger /\ [Next]_vars => [FinalStep /\ ResultStep]_vars
<1> SUFFICES ASSUME Inv, Ledger, Next PROVE FinalStep /\ ResultStep
  OBVIOUS
<1>1. Typed /\ Waits
  BY DEF Inv
<1>2. ASSUME NEW d \in DeployIds, RollSwap(d) PROVE FinalStep /\ ResultStep
  BY <1>2, ProcessReplacedResult DEF RollSwap
<1>3. CASE Crash
  <2>1. restarts' # restarts
    BY <1>1, <1>3, ReleaseAssumption DEF Crash, ReleaseAssumption, Typed, CountersTyped
  <2> QED
    BY <1>3, <2>1, ProcessReplacedResult DEF Crash
<1>4. CASE Tick
  BY <1>4, EndsNothing DEF Tick, tables, process
<1> QED
  BY <1>1, <1>2, <1>3, <1>4, RequestResult, CompileResult, RollBuildFailedResult, RollResult
  DEF Next

-----------------------------------------------------------------------------
(* The work trees, the images and the containers. *)

\* As long as no other goroutine or request changed its tree, a compile works on the
\* commit it checked out, and a rollout on the image and the container it made.
BuildHeld(b) ==
    /\ b \notin touched.comp =>
         /\ comp[b].pc \in {"head", "make"} => work[comp[b].job] = comp[b].synced
         /\ comp[b].pc = "make" => comp[b].commit = comp[b].synced
         /\ comp[b].pc = "record" /\ comp[b].ok =>
              comp[b].commit = comp[b].synced /\ comp[b].made = comp[b].commit
    /\ comp[b].pc \in {"sync", "head", "make"} => ~comp[b].ok

RollHeld(d) ==
    /\ d \notin touched.roll =>
         /\ roll[d].pc = "docker" /\ roll[d].want # None => work[roll[d].job] = roll[d].want
         /\ roll[d].pc = "up" =>
              tag[roll[d].app] = [ver |-> roll[d].ver, commit |-> roll[d].got]
         /\ roll[d].pc = "finish" /\ roll[d].ok =>
              up[roll[d].app] = [ver |-> roll[d].ver, commit |-> roll[d].got]
         /\ roll[d].pc = "up" \/ (roll[d].pc = "finish" /\ roll[d].ok) =>
              (roll[d].want # None => roll[d].got = roll[d].want)
    /\ roll[d].pc \in {"wait", "image"} => roll[d].want = None
    /\ roll[d].pc \in {"wait", "image", "docker", "up", "swap"} => ~roll[d].ok

Trees == (\A b \in BuildIds : BuildHeld(b)) /\ (\A d \in DeployIds : RollHeld(d))

\* What keeps a goroutine's hold: it makes no step, and what it works on stays as it
\* is or the goroutine is marked.
LEMMA BuildKept ==
  ASSUME NEW b \in BuildIds, BuildHeld(b), comp'[b] = comp[b],
         b \in touched.comp => b \in touched'.comp,
         comp[b].pc \in {"head", "make"} =>
            work'[comp[b].job] = work[comp[b].job] \/ b \in touched'.comp
  PROVE  BuildHeld(b)'
  BY DEF BuildHeld

LEMMA RollKept ==
  ASSUME NEW d \in DeployIds, RollHeld(d), roll'[d] = roll[d],
         d \in touched.roll => d \in touched'.roll,
         roll[d].pc = "docker" => work'[roll[d].job] = work[roll[d].job] \/ d \in touched'.roll,
         roll[d].pc = "up" => tag'[roll[d].app] = tag[roll[d].app] \/ d \in touched'.roll,
         roll[d].pc = "finish" => up'[roll[d].app] = up[roll[d].app] \/ d \in touched'.roll
  PROVE  RollHeld(d)'
  BY DEF RollHeld

\* A change to the tree of job j by goroutine b or d marks every other one in it.
LEMMA TreeTouched ==
  ASSUME Typed, NEW j, NEW b, NEW d, TouchTree(j, b, d),
         \A x \in Jobs : x # j => work'[x] = work[x]
  PROVE  /\ touched.comp \subseteq touched'.comp /\ touched.roll \subseteq touched'.roll
         /\ \A x \in BuildIds : x # b /\ comp[x].pc \in {"head", "make"} =>
              work'[comp[x].job] = work[comp[x].job] \/ x \in touched'.comp
         /\ \A x \in DeployIds : x # d /\ roll[x].pc = "docker" =>
              work'[roll[x].job] = work[roll[x].job] \/ x \in touched'.roll
<1>1. /\ touched'.comp = touched.comp \cup (CompilingIn(j) \ {b})
      /\ touched'.roll = touched.roll \cup (ImagingIn(j) \ {d})
  BY DEF TouchTree
<1>2. ASSUME NEW x \in BuildIds, x # b, comp[x].pc \in {"head", "make"}
      PROVE  work'[comp[x].job] = work[comp[x].job] \/ x \in touched'.comp
  BY <1>1, <1>2, CompileHolds DEF CompilingIn
<1>3. ASSUME NEW x \in DeployIds, x # d, roll[x].pc = "docker"
      PROVE  work'[roll[x].job] = work[roll[x].job] \/ x \in touched'.roll
  BY <1>1, <1>3, RolloutHolds DEF ImagingIn
<1> QED
  BY <1>1, <1>2, <1>3

\* The same for the image and the container of app a.
LEMMA AppTouched ==
  ASSUME Typed, NEW a, NEW d, TouchApp(a, d),
         \A x \in Apps : x # a => tag'[x] = tag[x] /\ up'[x] = up[x]
  PROVE  /\ UNCHANGED touched.comp /\ touched.roll \subseteq touched'.roll
         /\ \A x \in DeployIds : x # d /\ roll[x].pc \in {"up", "swap", "finish"} =>
              \/ tag'[roll[x].app] = tag[roll[x].app] /\ up'[roll[x].app] = up[roll[x].app]
              \/ x \in touched'.roll
<1>1. /\ touched'.comp = touched.comp
      /\ touched'.roll = touched.roll \cup (RollingOut(a) \ {d})
  BY DEF TouchApp, Typed, CountersTyped
<1>2. ASSUME NEW x \in DeployIds, x # d, roll[x].pc \in {"up", "swap", "finish"}
      PROVE  \/ tag'[roll[x].app] = tag[roll[x].app] /\ up'[roll[x].app] = up[roll[x].app]
             \/ x \in touched'.roll
  BY <1>1, <1>2, RolloutHolds DEF RollingOut
<1> QED
  BY <1>1, <1>2

LEMMA UntouchedTrees ==
  ASSUME Trees, UNCHANGED <<work, tag, up, comp, roll, touched>> PROVE Trees'
  BY BuildKept, RollKept DEF Trees

LEMMA RequestTrees ==
  ASSUME Typed, Waits, Trees, NEW c \in Clients, ScmStep(c) \/ DeployStep(c)
  PROVE  Trees'
<1>0. None \notin BuildIds \cup DeployIds
  BY ReleaseAssumption DEF ReleaseAssumption, BuildIds, DeployIds
<1>1. CASE \/ QuietRequest(c) \/ DeleteJobBuilds(c) \/ DeleteJobArtifacts(c)
           \/ DeleteAppDeploys(c) \/ BuildDeployInsertBuild(c) \/ BuildDeployUndo(c)
  <2>1. UNCHANGED <<work, tag, up, comp, roll, touched>>
    BY <1>1 DEF QuietRequest, Still, DeleteJobBuilds, DeleteJobArtifacts, DeleteAppDeploys,
       BuildDeployInsertBuild, BuildDeployUndo, disk, docker, history
  <2> QED
    BY <2>1, UntouchedTrees
<1>2. CASE DeleteJobWork(c)
  <2>1. /\ TouchTree(req[c].job, None, None)
        /\ \A x \in Jobs : x # req[c].job => work'[x] = work[x]
        /\ UNCHANGED <<tag, up, comp, roll>>
    BY <1>2 DEF DeleteJobWork, docker, Typed, FilesTyped
  <2>2. /\ \A x \in BuildIds : BuildHeld(x)'
        /\ \A x \in DeployIds : RollHeld(x)'
    BY <1>0, <2>1, TreeTouched, BuildKept, RollKept DEF Trees
  <2> QED
    BY <2>2 DEF Trees
<1>3. CASE DeleteAppRuntime(c)
  <2>1. /\ TouchApp(req[c].app, None)
        /\ \A x \in Apps : x # req[c].app => tag'[x] = tag[x] /\ up'[x] = up[x]
        /\ UNCHANGED <<work, comp, roll>>
    BY <1>3 DEF DeleteAppRuntime, disk, Typed, FilesTyped
  <2>2. /\ \A x \in BuildIds : BuildHeld(x)'
        /\ \A x \in DeployIds : RollHeld(x)'
    BY <1>0, <2>1, AppTouched, BuildKept, RollKept DEF Trees
  <2> QED
    BY <2>2 DEF Trees
<1>4. CASE InsertBuild(c)
  <2>1. comp' = [comp EXCEPT ![nbuild + 1] = NewCompile(c, now, None)]
        /\ UNCHANGED <<work, tag, up, roll, touched>>
    BY <1>4 DEF InsertBuild, disk, docker, history
  <2>2. \A x \in BuildIds : BuildHeld(x)'
    <3>1. ASSUME NEW x \in BuildIds, x = nbuild + 1 PROVE BuildHeld(x)'
      BY <2>1, <3>1 DEF BuildHeld, NewCompile, NoCompile, Typed, ProcessTyped
    <3>2. ASSUME NEW x \in BuildIds, x # nbuild + 1 PROVE BuildHeld(x)'
      <4>1. comp'[x] = comp[x]
        BY <2>1, <3>2 DEF Typed, ProcessTyped
      <4> QED
        BY <2>1, <4>1, BuildKept DEF Trees
    <3> QED
      BY <3>1, <3>2
  <2> QED
    BY <2>1, <2>2, RollKept DEF Trees
<1>5. CASE InsertDeploy(c) \/ BuildDeployInsertDeploy(c)
  <2>1. /\ \E pc \in {"image", "wait"}, ver \in Versions \cup {None} :
             roll' = [roll EXCEPT ![ndeploy + 1] = NewRollout(c, pc, ver)]
        /\ \/ UNCHANGED comp
           \/ comp' = [comp EXCEPT ![req[c].build] = NewCompile(c, req[c].ver, ndeploy + 1)]
        /\ UNCHANGED <<work, tag, up, touched>>
    BY <1>5, RequestHolds DEF InsertDeploy, BuildDeployInsertDeploy, disk, docker, history
  <2>2. \A x \in BuildIds : BuildHeld(x)'
    <3>1. ASSUME NEW x \in BuildIds, comp'[x] = comp[x] PROVE BuildHeld(x)'
      BY <2>1, <3>1, BuildKept DEF Trees
    <3>2. ASSUME NEW x \in BuildIds, comp'[x] # comp[x] PROVE BuildHeld(x)'
      <4>1. comp'[x] = NewCompile(c, req[c].ver, ndeploy + 1)
        BY <2>1, <3>2 DEF Typed, ProcessTyped
      <4>2. comp'[x].pc = "sync" /\ comp'[x].ok = FALSE
        BY <4>1 DEF NewCompile, NoCompile
      <4> QED
        BY <4>2 DEF BuildHeld
    <3> QED
      BY <3>1, <3>2
  <2>3. \A x \in DeployIds : RollHeld(x)'
    <3>1. ASSUME NEW x \in DeployIds, x # ndeploy + 1 PROVE RollHeld(x)'
      <4>1. roll'[x] = roll[x]
        BY <2>1, <3>1 DEF Typed, ProcessTyped
      <4> QED
        BY <2>1, <4>1, RollKept DEF Trees
    <3>2. ASSUME NEW x \in DeployIds, x = ndeploy + 1 PROVE RollHeld(x)'
      <4>1. /\ roll'[x].pc \in {"image", "wait"} /\ roll'[x].want = None
            /\ roll'[x].ok = FALSE
        BY <2>1, <3>2 DEF NewRollout, NoRollout, Typed, ProcessTyped
      <4> QED
        BY <4>1 DEF RollHeld
    <3> QED
      BY <3>1, <3>2
  <2> QED
    BY <2>2, <2>3 DEF Trees
<1> QED
  BY <1>1, <1>2, <1>3, <1>4, <1>5, QuietScm, QuietDeploy

LEMMA CompileSyncTrees ==
  ASSUME Typed, Trees, NEW b \in BuildIds, CompileSync(b) \/ CompileSyncFails(b)
  PROVE  Trees'
<1>1. /\ comp[b].pc = "sync" /\ ~comp[b].ok /\ comp[b] \in Compile /\ comp[b].job \in Jobs
      /\ TouchTree(comp[b].job, b, None) /\ UNCHANGED <<tag, up, roll>>
      /\ \A x \in Jobs : x # comp[b].job => work'[x] = work[x]
      /\ \A x \in BuildIds : x # b => comp'[x] = comp[x]
  BY CompileHolds
  DEF CompileSync, CompileSyncFails, docker, Trees, BuildHeld, Typed, FilesTyped, ProcessTyped
<1>2. None \notin DeployIds
  BY ReleaseAssumption DEF ReleaseAssumption, DeployIds
<1>3. \A x \in DeployIds : RollHeld(x)'
  BY <1>1, <1>2, TreeTouched, RollKept DEF Trees
<1>4. \A x \in BuildIds : x # b => BuildHeld(x)'
  BY <1>1, TreeTouched, BuildKept DEF Trees
<1>5. BuildHeld(b)'
  <2>1. CASE CompileSync(b)
    <3>1. PICK k \in Commits : /\ work' = [work EXCEPT ![comp[b].job] = k]
                               /\ comp' = [comp EXCEPT ![b].pc = "head", ![b].synced = k]
      BY <2>1 DEF CompileSync
    <3>2. comp'[b] = [comp[b] EXCEPT !.pc = "head", !.synced = k]
      BY <3>1 DEF Typed, ProcessTyped
    <3>3. /\ comp'[b].pc = "head" /\ comp'[b].synced = k /\ comp'[b].job = comp[b].job
          /\ comp'[b].ok = comp[b].ok
      BY <1>1, <3>2 DEF Compile
    <3>4. work'[comp[b].job] = k
      BY <1>1, <3>1 DEF Typed, FilesTyped
    <3> QED
      BY <1>1, <3>3, <3>4 DEF BuildHeld
  <2>2. CASE CompileSyncFails(b)
    <3>1. comp'[b] = [comp[b] EXCEPT !.pc = "record"]
      BY <2>2 DEF CompileSyncFails, Typed, ProcessTyped
    <3>2. comp'[b].pc = "record" /\ comp'[b].ok = comp[b].ok
      BY <1>1, <3>1 DEF Compile
    <3> QED
      BY <1>1, <3>2 DEF BuildHeld
  <2> QED
    BY <2>1, <2>2
<1> QED
  BY <1>3, <1>4, <1>5 DEF Trees

LEMMA CompileInTreeTrees ==
  ASSUME Typed, Trees, NEW b \in BuildIds,
         \/ CompileHeadImage(b) \/ CompileHeadArchive(b) \/ CompileHeadFails(b)
         \/ CompileMake(b) \/ CompileMakeFails(b)
  PROVE  Trees'
<1>1. /\ comp[b].pc \in {"head", "make"} /\ comp[b] \in Compile
      /\ UNCHANGED <<work, tag, up, roll, touched>>
      /\ \A x \in BuildIds : x # b => comp'[x] = comp[x]
  BY CompileHolds
  DEF CompileHeadImage, CompileHeadArchive, CompileHeadFails, CompileMake, CompileMakeFails,
      disk, docker, history, Typed, ProcessTyped
<1>2. BuildHeld(b)
  BY DEF Trees
<1>3. BuildHeld(b)'
  <2>1. CASE CompileHeadImage(b)
    <3>1. /\ comp'[b].pc = "record" /\ comp'[b].synced = comp[b].synced
          /\ comp'[b].commit = work[comp[b].job] /\ comp'[b].made = work[comp[b].job]
      BY <1>1, <2>1 DEF CompileHeadImage, Compile, Typed, ProcessTyped
    <3> QED
      BY <1>1, <1>2, <3>1 DEF BuildHeld
  <2>2. CASE CompileHeadArchive(b)
    <3>1. /\ comp'[b].pc = "make" /\ comp'[b].synced = comp[b].synced
          /\ comp'[b].commit = work[comp[b].job] /\ comp'[b].job = comp[b].job
          /\ comp'[b].ok = comp[b].ok /\ comp[b].pc = "head"
      BY <1>1, <2>2 DEF CompileHeadArchive, Compile, Typed, ProcessTyped
    <3> QED
      BY <1>1, <1>2, <3>1 DEF BuildHeld
  <2>3. CASE CompileHeadFails(b) \/ CompileMakeFails(b)
    <3>1. comp'[b].pc = "record" /\ comp'[b].ok = comp[b].ok
      BY <1>1, <2>3 DEF CompileHeadFails, CompileMakeFails, Compile, Typed, ProcessTyped
    <3> QED
      BY <1>1, <1>2, <3>1 DEF BuildHeld
  <2>4. CASE CompileMake(b)
    <3>1. /\ comp'[b].pc = "record" /\ comp'[b].synced = comp[b].synced
          /\ comp'[b].made = work[comp[b].job] /\ comp'[b].commit = comp[b].commit
          /\ comp[b].pc = "make"
      BY <1>1, <2>4 DEF CompileMake, Compile, Typed, ProcessTyped
    <3> QED
      BY <1>1, <1>2, <3>1 DEF BuildHeld
  <2> QED
    BY <2>1, <2>2, <2>3, <2>4
<1>4. \A x \in BuildIds : x # b => BuildHeld(x)'
  BY <1>1, BuildKept DEF Trees
<1>5. \A x \in DeployIds : RollHeld(x)'
  BY <1>1, RollKept DEF Trees
<1> QED
  BY <1>3, <1>4, <1>5 DEF Trees

LEMMA CompileRecordTrees ==
  ASSUME Typed, Waits, Trees, NEW b \in BuildIds, CompileRecord(b) \/ CompileRecordLost(b)
  PROVE  Trees'
<1>1. /\ comp[b].pc = "record" /\ AfterRecord(b) /\ UNCHANGED <<work, tag, up>>
      /\ comp[b] \in Compile
  BY CompileHolds DEF CompileRecord, CompileRecordLost, disk, docker
<1>2. /\ comp'[b].pc \in {"none", "failDeploy"}
      /\ \A x \in BuildIds : x # b => comp'[x] = comp[x]
  BY <1>1 DEF AfterRecord, NoCompile, Compile, Typed, ProcessTyped
<1>3. touched'.comp = touched.comp \ {b} /\ touched'.roll = touched.roll
  BY <1>1 DEF AfterRecord, Typed, CountersTyped
<1>4. \A x \in BuildIds : BuildHeld(x)'
  <2>1. BuildHeld(b)'
    BY <1>2 DEF BuildHeld
  <2>2. ASSUME NEW x \in BuildIds, x # b PROVE BuildHeld(x)'
    BY <1>1, <1>2, <1>3, <2>2, BuildKept DEF Trees
  <2> QED
    BY <2>1, <2>2
<1>5. \A x \in DeployIds : RollHeld(x)'
  <2>1. ASSUME NEW x \in DeployIds, roll'[x] = roll[x] PROVE RollHeld(x)'
    BY <1>1, <1>3, <2>1, RollKept DEF Trees
  <2>2. ASSUME NEW x \in DeployIds, roll'[x] # roll[x] PROVE RollHeld(x)'
    <3>1. roll' = [roll EXCEPT ![comp[b].dep].pc = "image"] /\ x = comp[b].dep /\ comp[b].dep # None
      BY <1>1, <2>2 DEF AfterRecord, Typed, ProcessTyped
    <3>2. roll[x].pc = "wait" /\ roll[x] \in Rollout
      BY <1>1, <3>1, RolloutHolds DEF Waits
    <3>3. roll'[x].pc = "image" /\ roll'[x].want = roll[x].want /\ roll'[x].ok = roll[x].ok
      BY <3>1, <3>2 DEF Rollout, Typed, ProcessTyped
    <3> QED
      BY <3>2, <3>3 DEF Trees, RollHeld
  <2> QED
    BY <2>1, <2>2
<1> QED
  BY <1>4, <1>5 DEF Trees

LEMMA RollBuildFailedTrees ==
  ASSUME Typed, Trees, NEW b \in BuildIds, RollBuildFailed(b)
  PROVE  Trees'
<1>1. /\ UNCHANGED <<work, tag, up, touched>>
      /\ \A x \in BuildIds : comp'[x] = comp[x] \/ comp'[x].pc = "none"
      /\ \A x \in DeployIds : roll'[x] = roll[x] \/ roll'[x].pc = "none"
  BY DEF RollBuildFailed, disk, docker, NoCompile, NoRollout, Typed, ProcessTyped
<1>2. ASSUME NEW x \in BuildIds PROVE BuildHeld(x)'
  <2>1. CASE comp'[x].pc = "none"
    BY <2>1 DEF BuildHeld
  <2> QED
    BY <1>1, <2>1, BuildKept DEF Trees
<1>3. ASSUME NEW x \in DeployIds PROVE RollHeld(x)'
  <2>1. CASE roll'[x].pc = "none"
    BY <2>1 DEF RollHeld
  <2> QED
    BY <1>1, <2>1, RollKept DEF Trees
<1> QED
  BY <1>2, <1>3 DEF Trees

\* docker build: the image holds what the goroutine then says it got.
LEMMA RollTagTrees ==
  ASSUME Typed, Trees, NEW d \in DeployIds, RollArchive(d) \/ RollDocker(d)
  PROVE  Trees'
<1>1. PICK k \in Commits \cup {None} :
        /\ Tag(d, k)
        /\ roll' = [roll EXCEPT ![d].pc = "up", ![d].got = k]
        /\ roll[d].pc = "docker" => k = work[roll[d].job]
        /\ roll[d].pc \in {"image", "docker"} /\ UNCHANGED <<work, up, comp>>
  <2>1. CASE RollArchive(d)
    <3>1. art[roll[d].job][roll[d].ver] \in Artifact
      BY <2>1, RolloutHolds DEF RollArchive, Typed, FilesTyped
    <3> QED
      BY <2>1, <3>1 DEF RollArchive, Artifact, disk
  <2>2. CASE RollDocker(d)
    <3>1. work[roll[d].job] \in Commits \cup {None}
      BY <2>2, RolloutHolds DEF RollDocker, Typed, FilesTyped
    <3> QED
      BY <2>2, <3>1 DEF RollDocker, disk
  <2> QED
    BY <2>1, <2>2
<1>2. roll[d] \in Rollout /\ roll[d].app \in Apps
  BY <1>1, RolloutHolds
<1>3. /\ roll'[d].pc = "up" /\ roll'[d].got = k /\ roll'[d].app = roll[d].app
      /\ roll'[d].ver = roll[d].ver /\ roll'[d].want = roll[d].want /\ roll'[d].ok = roll[d].ok
      /\ \A x \in DeployIds : x # d => roll'[x] = roll[x]
  BY <1>1, <1>2 DEF Rollout, Typed, ProcessTyped
<1>4. /\ TouchApp(roll[d].app, d)
      /\ tag'[roll[d].app] = [ver |-> roll[d].ver, commit |-> k]
      /\ \A x \in Apps : x # roll[d].app => tag'[x] = tag[x] /\ up'[x] = up[x]
  BY <1>1, <1>2 DEF Tag, Typed, FilesTyped
<1>5. \A x \in BuildIds : BuildHeld(x)'
  BY <1>1, <1>4, AppTouched, BuildKept DEF Trees
<1>6. \A x \in DeployIds : x # d => RollHeld(x)'
  <2>1. /\ touched.roll \subseteq touched'.roll
        /\ \A x \in DeployIds : x # d /\ roll[x].pc \in {"up", "swap", "finish"} =>
             \/ tag'[roll[x].app] = tag[roll[x].app] /\ up'[roll[x].app] = up[roll[x].app]
             \/ x \in touched'.roll
    BY <1>4, AppTouched
  <2> QED
    BY <1>1, <1>3, <2>1, RollKept DEF Trees
<1>7. RollHeld(d)'
  <2>1. RollHeld(d) /\ touched.roll \subseteq touched'.roll
    BY <1>4, AppTouched DEF Trees
  <2> QED
    BY <1>1, <1>3, <1>4, <2>1 DEF RollHeld
<1> QED
  BY <1>5, <1>6, <1>7 DEF Trees

\* ensureImageWork: the tree is at the recorded commit, if there is one.
LEMMA RollCheckoutTrees ==
  ASSUME Typed, Trees, NEW d \in DeployIds, RollCheckout(d) \/ RollCheckoutFails(d)
  PROVE  Trees'
<1>0. None \notin BuildIds
  BY ReleaseAssumption DEF ReleaseAssumption, BuildIds
<1>1. roll[d] \in Rollout /\ roll[d].pc = "image" /\ roll[d].job \in Jobs /\ RollHeld(d)
  BY RolloutHolds DEF RollCheckout, RollCheckoutFails, Trees
<1>2. /\ \A x \in DeployIds : x # d => roll'[x] = roll[x]
      /\ \A x \in Jobs : x # roll[d].job => work'[x] = work[x]
      /\ UNCHANGED <<tag, up, comp>>
  BY DEF RollCheckout, RollCheckoutFails, docker, Typed, FilesTyped, ProcessTyped
<1>3. \/ TouchTree(roll[d].job, None, d)
      \/ UNCHANGED touched /\ work'[roll[d].job] = work[roll[d].job]
  BY <1>1 DEF RollCheckout, RollCheckoutFails, Typed, FilesTyped
<1>4. /\ touched.comp \subseteq touched'.comp /\ touched.roll \subseteq touched'.roll
      /\ \A x \in BuildIds : comp[x].pc \in {"head", "make"} =>
           work'[comp[x].job] = work[comp[x].job] \/ x \in touched'.comp
      /\ \A x \in DeployIds : x # d /\ roll[x].pc = "docker" =>
           work'[roll[x].job] = work[roll[x].job] \/ x \in touched'.roll
  <2>1. CASE TouchTree(roll[d].job, None, d)
    BY <1>0, <1>2, <2>1, TreeTouched
  <2>2. CASE UNCHANGED touched /\ work'[roll[d].job] = work[roll[d].job]
    BY <1>2, <2>2, CompileHolds, RolloutHolds
  <2> QED
    BY <1>3, <2>1, <2>2
<1>5. \A x \in BuildIds : BuildHeld(x)'
  BY <1>2, <1>4, BuildKept DEF Trees
<1>6. \A x \in DeployIds : x # d => RollHeld(x)'
  BY <1>2, <1>4, RollKept DEF Trees
<1>7. RollHeld(d)'
  <2>1. CASE RollCheckout(d)
    <3> DEFINE want == RecordedCommit(roll[d].job, roll[d].ver)
    <3>1. /\ roll' = [roll EXCEPT ![d].pc = "docker", ![d].want = want]
          /\ \E k \in ImageTrees(roll[d].job, want) : work' = [work EXCEPT ![roll[d].job] = k]
      BY <2>1 DEF RollCheckout
    <3>2. want # None => work'[roll[d].job] = want
      BY <1>1, <3>1 DEF ImageTrees, Typed, FilesTyped
    <3> HIDE DEF want
    <3>3. /\ roll'[d].pc = "docker" /\ roll'[d].want = want /\ roll'[d].job = roll[d].job
          /\ roll'[d].ok = roll[d].ok
      BY <1>1, <3>1 DEF Rollout, Typed, ProcessTyped
    <3> QED
      BY <1>1, <3>2, <3>3 DEF RollHeld
  <2>2. CASE RollCheckoutFails(d)
    <3>1. roll'[d].pc = "finish" /\ roll'[d].ok = FALSE
      BY <1>1, <2>2 DEF RollCheckoutFails, Rollout, Typed, ProcessTyped
    <3> QED
      BY <3>1 DEF RollHeld
  <2> QED
    BY <2>1, <2>2
<1> QED
  BY <1>5, <1>6, <1>7 DEF Trees

\* compose: the container runs the image, and other rollouts of the app are marked.
LEMMA RollUpTrees ==
  ASSUME Typed, Trees, NEW d \in DeployIds, RollUp(d) \/ RollUpFails(d)
  PROVE  Trees'
<1>1. roll[d] \in Rollout /\ roll[d].pc = "up" /\ roll[d].app \in Apps /\ RollHeld(d)
  BY RolloutHolds DEF RollUp, RollUpFails, Trees
<1>2. /\ TouchApp(roll[d].app, d) /\ UNCHANGED <<work, tag, comp>>
      /\ \A x \in Apps : x # roll[d].app => tag'[x] = tag[x] /\ up'[x] = up[x]
      /\ \A x \in DeployIds : x # d => roll'[x] = roll[x]
  BY DEF RollUp, RollUpFails, disk, Typed, FilesTyped, ProcessTyped
<1>3. \A x \in BuildIds : BuildHeld(x)'
  BY <1>2, AppTouched, BuildKept DEF Trees
<1>4. \A x \in DeployIds : x # d => RollHeld(x)'
  BY <1>2, AppTouched, RollKept DEF Trees
<1>5. RollHeld(d)'
  <2>1. CASE RollUp(d)
    <3>1. /\ roll'[d].pc = "finish" /\ roll'[d].app = roll[d].app /\ roll'[d].ver = roll[d].ver
          /\ roll'[d].got = roll[d].got /\ roll'[d].want = roll[d].want
      BY <1>1, <2>1 DEF RollUp, Rollout, Typed, ProcessTyped
    <3>2. up'[roll[d].app] = tag[roll[d].app]
      BY <1>1, <2>1 DEF RollUp, Typed, FilesTyped
    <3>3. touched.roll \subseteq touched'.roll
      BY <1>2, AppTouched
    <3> QED
      BY <1>1, <3>1, <3>2, <3>3 DEF RollHeld
  <2>2. CASE RollUpFails(d)
    <3>1. roll'[d].pc = "finish" /\ roll'[d].ok = FALSE
      BY <1>1, <2>2 DEF RollUpFails, Rollout, Typed, ProcessTyped
    <3> QED
      BY <3>1 DEF RollHeld
  <2> QED
    BY <2>1, <2>2
<1> QED
  BY <1>3, <1>4, <1>5 DEF Trees

\* The other steps of runDeploy leave trees, images and containers alone.
LEMMA RollElseTrees ==
  ASSUME Typed, Trees, NEW d \in DeployIds,
         RollFailedEarly(d) \/ RollSelfRecord(d) \/ RollSwapFails(d) \/ RollFinish(d)
  PROVE  Trees'
<1>1. /\ roll[d] \in Rollout /\ RollHeld(d)
      /\ UNCHANGED <<work, tag, up, comp>> /\ touched'.comp = touched.comp
      /\ \A x \in DeployIds : x # d => roll'[x] = roll[x]
      /\ \A x \in DeployIds : x # d => (x \in touched.roll => x \in touched'.roll)
  BY RolloutHolds
  DEF RollFailedEarly, RollSelfRecord, RollSwapFails, RollFinish, disk, docker, history, Trees,
      Typed, ProcessTyped, CountersTyped
<1>2. \/ roll'[d].pc = "none"
      \/ roll'[d].pc = "finish" /\ roll'[d].ok = FALSE
      \/ roll'[d].pc = "swap" /\ roll'[d].ok = roll[d].ok /\ roll[d].pc = "up"
  BY <1>1
  DEF RollFailedEarly, RollSelfRecord, RollSwapFails, RollFinish, NoRollout, Rollout, Typed,
      ProcessTyped
<1>3. RollHeld(d)'
  BY <1>1, <1>2 DEF RollHeld
<1>4. \A x \in DeployIds : x # d => RollHeld(x)'
  BY <1>1, RollKept DEF Trees
<1>5. \A x \in BuildIds : BuildHeld(x)'
  BY <1>1, BuildKept DEF Trees
<1> QED
  BY <1>3, <1>4, <1>5 DEF Trees

LEMMA ProcessReplacedTrees ==
  ASSUME ProcessReplaced PROVE Trees'
<1>1. /\ \A b \in BuildIds : comp'[b].pc = "none"
      /\ \A d \in DeployIds : roll'[d].pc = "none"
  BY DEF ProcessReplaced, NoCompile, NoRollout
<1> QED
  BY <1>1 DEF Trees, BuildHeld, RollHeld

LEMMA InitTrees == Init => Trees
<1> SUFFICES ASSUME Init PROVE Trees
  OBVIOUS
<1>1. /\ \A b \in BuildIds : comp[b].pc = "none"
      /\ \A d \in DeployIds : roll[d].pc = "none"
  BY DEF Init, NoCompile, NoRollout
<1> QED
  BY <1>1 DEF Trees, BuildHeld, RollHeld

LEMMA NextTrees == Inv /\ Trees /\ [Next]_vars => Trees'
<1> SUFFICES ASSUME Inv, Trees, [Next]_vars PROVE Trees'
  OBVIOUS
<1>1. Typed /\ Waits
  BY DEF Inv
<1>2. ASSUME NEW b \in BuildIds, CompileStep(b) \/ RollBuildFailed(b) PROVE Trees'
  BY <1>1, <1>2, CompileSyncTrees, CompileInTreeTrees, CompileRecordTrees, RollBuildFailedTrees
  DEF CompileStep
<1>3. ASSUME NEW d \in DeployIds, RollStep(d) PROVE Trees'
  <2>1. CASE RollSwap(d)
    BY <2>1, ProcessReplacedTrees DEF RollSwap
  <2> QED
    BY <1>1, <1>3, <2>1, RollTagTrees, RollCheckoutTrees, RollUpTrees, RollElseTrees
    DEF RollStep
<1>4. CASE Tick \/ UNCHANGED vars
  BY <1>4, UntouchedTrees DEF Tick, vars, disk, docker, process, history
<1>5. CASE Crash
  BY <1>5, ProcessReplacedTrees DEF Crash
<1> QED
  BY <1>1, <1>2, <1>3, <1>4, <1>5, RequestTrees DEF Next

-----------------------------------------------------------------------------
(* The artifacts, with one operator. *)

\* No two clients: nothing runs between the steps of a DeleteJob but goroutines.
OneOperator == \A c1, c2 \in Clients : c1 = c2

\* A compile that succeeded has its file unless its row is gone, and a DeleteJob past
\* the DELETE of the builds finds none of the job, so that it may take the files.
Files ==
    /\ OkBuildHasArtifact
    /\ \A b \in BuildIds : build[b].st \in {"running", "ok"} =>
         build[b].job \in Jobs /\ build[b].ver \in Versions
    /\ \A b \in BuildIds : comp[b].pc = "record" /\ comp[b].ok =>
         build[b].st = "gone" \/ art[comp[b].job][comp[b].ver] # None
    /\ \A b \in BuildIds : comp[b].pc \in {"sync", "head", "make"} => ~comp[b].ok
    /\ \A c \in Clients : req[c].pc \in DeletingPcs => \A b \in BuildIds : build[b].job # req[c].job

\* No row is added or becomes ok, no file is taken, and no compile goes on.
LEMMA FilesKept ==
  ASSUME Typed, Ledger, Files,
         \A b \in BuildIds :
            \/ build'[b] = build[b]
            \/ build'[b].st \in {"fail", "gone"} /\ build'[b].job \in {None, build[b].job},
         \A b \in BuildIds : comp'[b].pc = "record" => comp'[b] = comp[b],
         \A b \in BuildIds : build[b].st = "gone" => build'[b].st = "gone",
         \A b \in BuildIds : comp'[b].pc = "record" => build'[b].st # "fail",
         \A b \in BuildIds : comp'[b].pc \in {"sync", "head", "make"} => ~comp'[b].ok,
         \A j \in Jobs, v \in Versions : art[j][v] # None => art'[j][v] # None,
         \A c \in Clients : req'[c].pc \in DeletingPcs =>
            req[c].pc \in DeletingPcs /\ req'[c].job = req[c].job
  PROVE  Files'
<1>1. OkBuildHasArtifact'
  BY DEF Files, OkBuildHasArtifact
<1>2. \A b \in BuildIds : build'[b].st \in {"running", "ok"} =>
        build'[b].job \in Jobs /\ build'[b].ver \in Versions
  BY DEF Files
<1>3. ASSUME NEW b \in BuildIds, comp'[b].pc = "record", comp'[b].ok
      PROVE  build'[b].st = "gone" \/ art'[comp'[b].job][comp'[b].ver] # None
  <2>1. comp'[b] = comp[b] /\ comp[b].job \in Jobs /\ comp[b].ver \in Versions
    BY <1>3, CompileHolds
  <2> QED
    BY <1>3, <2>1 DEF Files
<1>4. ASSUME NEW c \in Clients, req'[c].pc \in DeletingPcs, NEW b \in BuildIds
      PROVE  build'[b].job # req'[c].job
  <2>1. req'[c].job \in Jobs
    BY <1>4, RequestHolds DEF DeletingPcs, JobPcs
  <2>2. build[b].job # req'[c].job /\ None \notin Jobs
    BY <1>4, ReleaseAssumption DEF Files, ReleaseAssumption
  <2> QED
    BY <2>1, <2>2
<1> QED
  BY <1>1, <1>2, <1>3, <1>4 DEF Files

LEMMA RequestFiles ==
  ASSUME OneOperator, Typed, Waits, Ledger, Files, NEW c \in Clients, ScmStep(c) \/ DeployStep(c)
  PROVE  Files'
<1>0. None \notin Jobs
  BY ReleaseAssumption DEF ReleaseAssumption
<1>1. CASE \/ QuietRequest(c) \/ DeleteJobWork(c) \/ DeleteAppRuntime(c)
           \/ DeleteAppDeploys(c) \/ InsertDeploy(c)
  <2>1. UNCHANGED <<build, art, comp>>
    BY <1>1 DEF QuietRequest, Still, DeleteJobWork, DeleteAppRuntime, DeleteAppDeploys,
       InsertDeploy, tables, disk
  <2>2. \A x \in Clients : req'[x].pc \in DeletingPcs =>
          req[x].pc \in DeletingPcs /\ req'[x].job = req[x].job
    BY <1>1, AdvanceMoves, ReplyMoves
    DEF QuietRequest, RequestMoves, DeleteJobWork, DeleteAppRuntime, DeleteAppDeploys,
        InsertDeploy, DeletingPcs
  <2>3. \A b \in BuildIds : comp[b].pc = "record" => build[b].st # "fail"
    BY DEF Ledger, OpenBuild, CompilePcs
  <2> QED
    BY <2>1, <2>2, <2>3, FilesKept DEF Files
<1>2. CASE DeleteJobBuilds(c)
  <2>1. /\ UNCHANGED <<art, comp>>
        /\ req[c].job \in Jobs /\ req'[c].job = req[c].job
        /\ \A b \in BuildIds : build'[b] = IF build[b].job = req[c].job
                                           THEN [NoBuild EXCEPT !.st = "gone"] ELSE build[b]
    BY <1>2, RequestHolds, AdvanceMoves DEF DeleteJobBuilds, JobPcs, disk
  <2>2. \A b \in BuildIds :
          /\ build'[b].job # req[c].job
          /\ build'[b].st = "gone" \/ build'[b] = build[b]
    BY <1>0, <2>1 DEF NoBuild
  <2>3. \A x \in Clients : x = c
    BY DEF OneOperator
  <2>4. /\ OkBuildHasArtifact'
        /\ \A b \in BuildIds : build'[b].st \in {"running", "ok"} =>
             build'[b].job \in Jobs /\ build'[b].ver \in Versions
        /\ \A b \in BuildIds : comp[b].pc = "record" /\ comp[b].ok =>
             build'[b].st = "gone" \/ art[comp[b].job][comp[b].ver] # None
    BY <2>1, <2>2 DEF Files, OkBuildHasArtifact
  <2> QED
    BY <2>1, <2>2, <2>3, <2>4 DEF Files
<1>3. CASE DeleteJobArtifacts(c)
  <2>1. /\ UNCHANGED <<build, comp>> /\ req[c].pc = "removeArtifacts" /\ req[c].job \in Jobs
        /\ \A j \in Jobs : j # req[c].job => art'[j] = art[j]
    BY <1>3, RequestHolds DEF DeleteJobArtifacts, JobPcs, tables, Typed, FilesTyped
  <2>2. \A b \in BuildIds : build[b].job # req[c].job
    BY <2>1 DEF Files, DeletingPcs
  <2>3. OkBuildHasArtifact'
    BY <2>1, <2>2 DEF Files, OkBuildHasArtifact
  <2>4. ASSUME NEW b \in BuildIds, comp[b].pc = "record", comp[b].ok
        PROVE  build[b].st = "gone" \/ art'[comp[b].job][comp[b].ver] # None
    <3>1. build[b].st = "gone" \/ build[b].job = comp[b].job
      BY <2>4 DEF Ledger, OpenBuild, CompilePcs
    <3> QED
      BY <2>1, <2>2, <2>4, <3>1, CompileHolds DEF Files
  <2>5. \A x \in Clients : req'[x].pc = "idle"
    BY <1>3, ReplyMoves DEF DeleteJobArtifacts, OneOperator
  <2> QED
    BY <2>1, <2>3, <2>4, <2>5 DEF Files, DeletingPcs
<1>4. CASE InsertBuild(c) \/ BuildDeployInsertBuild(c)
  <2> DEFINE n == nbuild + 1
  <2>1. n \in BuildIds /\ n > nbuild
    BY <1>4, ReleaseAssumption
    DEF InsertBuild, BuildDeployInsertBuild, ReleaseAssumption, BuildIds, Typed, TablesTyped
  <2>2. /\ \A b \in BuildIds : b # n => build'[b] = build[b] /\ comp'[b] = comp[b]
        /\ build'[n] = NewBuild(c) /\ UNCHANGED art
        /\ comp'[n] = comp[n] \/ comp'[n] = NewCompile(c, now, None)
    BY <1>4, <2>1
    DEF InsertBuild, BuildDeployInsertBuild, disk, Typed, TablesTyped, ProcessTyped
  <2>3. req'[c].pc \in {"idle", "insertSecond"}
    BY <1>4, ReplyMoves, RequestHolds
    DEF InsertBuild, BuildDeployInsertBuild, Request, Typed, ProcessTyped
  <2>4. \A x \in Clients : req'[x].pc \notin DeletingPcs
    BY <2>3 DEF OneOperator, DeletingPcs
  <2>5. req[c].job \in Jobs /\ now \in Versions
    BY <1>4, RequestHolds
    DEF InsertBuild, BuildDeployInsertBuild, JobPcs, Typed, CountersTyped
  <2>6. build'[n].st = "running" /\ build'[n].job \in Jobs /\ build'[n].ver \in Versions
    BY <2>2, <2>5 DEF NewBuild
  <2>7. comp[n].pc = "none"
    BY <2>1 DEF Waits, BuildIds, Typed, TablesTyped
  <2>8. comp'[n].pc \in {"none", "sync"} /\ (comp'[n].pc = "sync" => ~comp'[n].ok)
    BY <2>2, <2>7 DEF NewCompile, NoCompile
  <2> HIDE DEF n
  <2>9. OkBuildHasArtifact'
    BY <2>2, <2>6 DEF Files, OkBuildHasArtifact
  <2>10. \A b \in BuildIds : comp'[b].pc = "record" /\ comp'[b].ok =>
         build'[b].st = "gone" \/ art'[comp'[b].job][comp'[b].ver] # None
    BY <2>2, <2>8 DEF Files
  <2>11. /\ \A b \in BuildIds : comp'[b].pc \in {"sync", "head", "make"} => ~comp'[b].ok
         /\ \A b \in BuildIds : build'[b].st \in {"running", "ok"} =>
              build'[b].job \in Jobs /\ build'[b].ver \in Versions
    BY <2>2, <2>6, <2>8 DEF Files
  <2> QED
    BY <2>4, <2>9, <2>10, <2>11 DEF Files
<1>5. CASE BuildDeployInsertDeploy(c) \/ BuildDeployUndo(c)
  <2>1. /\ req[c].build \in BuildIds /\ comp[req[c].build].pc = "none" /\ UNCHANGED art
        /\ OpenBuild(req[c].build, req[c].job, req[c].ver)
    BY <1>5, RequestHolds DEF BuildDeployInsertDeploy, BuildDeployUndo, Waits, Ledger, disk
  <2>2. \A b \in BuildIds :
          \/ build'[b] = build[b]
          \/ /\ b = req[c].build /\ build[b].st # "gone"
             /\ build'[b].st = "fail" /\ build'[b].job = build[b].job
    BY <1>5 DEF BuildDeployInsertDeploy, BuildDeployUndo, FailedBuild, BuildRow, Typed, TablesTyped
  <2>3. \A b \in BuildIds :
          \/ comp'[b] = comp[b]
          \/ b = req[c].build /\ comp'[b].pc = "sync" /\ ~comp'[b].ok
    <3>1. \A b \in BuildIds :
            \/ comp'[b] = comp[b]
            \/ b = req[c].build /\ \E v, d : comp'[b] = NewCompile(c, v, d)
      BY <1>5 DEF BuildDeployInsertDeploy, BuildDeployUndo, Typed, ProcessTyped
    <3>2. ASSUME NEW v, NEW d PROVE NewCompile(c, v, d).pc = "sync" /\ ~NewCompile(c, v, d).ok
      BY DEF NewCompile, NoCompile
    <3> QED
      BY <3>1, <3>2
  <2>4. req'[c].pc = "idle"
    BY <1>5, ReplyMoves DEF BuildDeployInsertDeploy, BuildDeployUndo
  <2>5. \A x \in Clients : req'[x].pc \notin DeletingPcs
    BY <2>4 DEF OneOperator, DeletingPcs
  <2>6. \A b \in BuildIds : comp'[b].pc = "record" => build'[b].st # "fail"
    BY <2>1, <2>2, <2>3 DEF Ledger, OpenBuild, CompilePcs
  <2>7. \A b \in BuildIds : comp'[b].pc \in {"sync", "head", "make"} => ~comp'[b].ok
    BY <2>3 DEF Files
  <2>8. /\ \A b \in BuildIds : comp'[b].pc = "record" => comp'[b] = comp[b]
        /\ \A b \in BuildIds : build[b].st = "gone" => build'[b].st = "gone"
        /\ \A b \in BuildIds :
             \/ build'[b] = build[b]
             \/ build'[b].st \in {"fail", "gone"} /\ build'[b].job \in {None, build[b].job}
    BY <2>2, <2>3
  <2> QED
    BY <2>1, <2>5, <2>6, <2>7, <2>8, FilesKept
<1> QED
  BY <1>1, <1>2, <1>3, <1>4, <1>5, QuietScm, QuietDeploy

\* compileJob only adds files, and is ok only once its file is there.
LEMMA CompileFile ==
  ASSUME Typed, NEW b \in BuildIds, CompileStep(b), comp[b].pc # "record"
  PROVE  /\ \A j \in Jobs, v \in Versions : art[j][v] # None => art'[j][v] # None
         /\ \/ comp'[b].ok = comp[b].ok
            \/ comp'[b].pc = "record" /\ art'[comp[b].job][comp[b].ver] # None
<1>1. /\ comp[b] \in Compile /\ comp \in [BuildIds -> GoodCompiles]
      /\ art \in [Jobs -> [Versions -> Artifact \cup {None}]]
      /\ work \in [Jobs -> Commits \cup {None}]
  BY CompileHolds DEF Typed, ProcessTyped, FilesTyped
<1>2. comp[b].pc # "none" => comp[b].job \in Jobs /\ comp[b].ver \in Versions
  BY CompileHolds
<1>3. ASSUME NEW kind \in Labels, NEW k \in Commits, comp[b].pc # "none", WriteArtifact(b, kind, k)
      PROVE  /\ \A j \in Jobs, v \in Versions : art[j][v] # None => art'[j][v] # None
             /\ art'[comp[b].job][comp[b].ver] # None
  <2>1. [kind |-> kind, commit |-> k] # None
    BY <1>3, MissingFile DEF Artifact
  <2> QED
    BY <1>1, <1>2, <1>3, <2>1 DEF WriteArtifact
<1> USE DEF Compile
<1>4. CASE CompileSync(b) \/ CompileSyncFails(b)
  BY <1>1, <1>4 DEF CompileSync, CompileSyncFails
<1>5. CASE CompileHeadArchive(b) \/ CompileHeadFails(b)
  BY <1>1, <1>5 DEF CompileHeadArchive, CompileHeadFails, disk
<1>6. CASE CompileHeadImage(b) \/ CompileMake(b)
  <2>1. \E kind \in Labels : WriteArtifact(b, kind, work[comp[b].job])
    BY <1>6 DEF CompileHeadImage, CompileMake, Labels
  <2>2. comp[b].pc # "none" /\ comp'[b].pc = "record" /\ work[comp[b].job] # None
    BY <1>1, <1>6 DEF CompileHeadImage, CompileMake
  <2> QED
    BY <1>1, <1>2, <1>3, <2>1, <2>2
<1>7. CASE CompileMakeFails(b)
  <2>1. comp[b].pc # "none" /\ comp'[b].ok = comp[b].ok
    BY <1>1, <1>7 DEF CompileMakeFails
  <2>2. art' = art \/ \E k \in Commits : WriteArtifact(b, "archive", k)
    BY <1>1, <1>2, <1>7, <2>1 DEF CompileMakeFails
  <2> QED
    BY <1>3, <2>1, <2>2 DEF Labels
<1> QED
  BY <1>4, <1>5, <1>6, <1>7 DEF CompileStep, CompileRecord, CompileRecordLost

LEMMA CompileStaysFiles ==
  ASSUME Typed, Files, NEW b \in BuildIds, CompileStep(b), CompileStays(b) PROVE Files'
<1>1. /\ UNCHANGED <<build, req>> /\ comp[b].pc \in {"sync", "head", "make"}
      /\ comp'[b].job = comp[b].job /\ comp'[b].ver = comp[b].ver
      /\ comp'[b].pc \in {"head", "make", "record"}
      /\ \A x \in BuildIds : x # b => comp'[x] = comp[x]
  BY DEF CompileStays
<1>2. /\ \A j \in Jobs, v \in Versions : art[j][v] # None => art'[j][v] # None
      /\ \/ comp'[b].ok = comp[b].ok
         \/ comp'[b].pc = "record" /\ art'[comp[b].job][comp[b].ver] # None
  BY <1>1, CompileFile
<1>3. ~comp[b].ok
  BY <1>1 DEF Files
<1>4. OkBuildHasArtifact'
  BY <1>1, <1>2 DEF Files, OkBuildHasArtifact
<1>5. ASSUME NEW x \in BuildIds, comp'[x].pc = "record", comp'[x].ok
      PROVE  build[x].st = "gone" \/ art'[comp'[x].job][comp'[x].ver] # None
  <2>1. CASE x = b
    BY <1>1, <1>2, <1>3, <1>5, <2>1
  <2>2. CASE x # b
    BY <1>1, <1>2, <1>5, <2>2, CompileHolds DEF Files
  <2> QED
    BY <2>1, <2>2
<1>6. \A x \in BuildIds : comp'[x].pc \in {"sync", "head", "make"} => ~comp'[x].ok
  BY <1>1, <1>2, <1>3 DEF Files
<1> QED
  BY <1>1, <1>4, <1>5, <1>6 DEF Files

LEMMA CompileRecordFiles ==
  ASSUME Typed, Ledger, Files, NEW b \in BuildIds, CompileRecord(b) \/ CompileRecordLost(b)
  PROVE  Files'
<1>1. /\ comp[b].pc = "record" /\ AfterRecord(b) /\ UNCHANGED <<art, req>>
      /\ \A x \in BuildIds : x # b => build'[x] = build[x]
      /\ build'[b] = build[b] \/ build'[b] = RecordedBuild(b)
  BY DEF CompileRecord, CompileRecordLost, tables, disk, Typed, TablesTyped
<1>2. OpenBuild(b, comp[b].job, comp[b].ver)
  BY <1>1 DEF Ledger, CompilePcs
<1>3. /\ build'[b].job = build[b].job /\ build'[b].ver = build[b].ver
      /\ build'[b].st \in {build[b].st, IF comp[b].ok THEN "ok" ELSE "fail"}
      /\ build[b].st = "gone" => build'[b].st = "gone"
  BY <1>1 DEF RecordedBuild, Typed, TablesTyped, BuildRow
<1>4. /\ \A x \in BuildIds : x # b => comp'[x] = comp[x]
      /\ comp'[b].pc \in {"none", "failDeploy"}
  BY <1>1 DEF AfterRecord, NoCompile, Typed, ProcessTyped, Compile, GoodCompiles
<1>5. build[b].st = "gone" \/ ~comp[b].ok \/ art[build[b].job][build[b].ver] # None
  BY <1>1, <1>2 DEF OpenBuild, Files
<1>6. build[b].st \in {"running", "gone"}
  BY <1>2 DEF OpenBuild
<1>7. OkBuildHasArtifact'
  <2>1. build'[b].st = "ok" => comp[b].ok /\ build[b].st # "gone"
    BY <1>3, <1>6
  <2> QED
    BY <1>1, <1>3, <1>5, <2>1 DEF Files, OkBuildHasArtifact
<1>8. \A x \in BuildIds : build'[x].st \in {"running", "ok"} =>
        build'[x].job \in Jobs /\ build'[x].ver \in Versions
  <2>1. build'[b].st \in {"running", "ok"} => build[b].st \in {"running", "ok"}
    BY <1>3, <1>6
  <2> QED
    BY <1>1, <1>3, <2>1 DEF Files
<1>9. \A x \in BuildIds : build'[x].job = build[x].job
  BY <1>1, <1>3
<1>10. \A x \in BuildIds : comp'[x].pc = "record" /\ comp'[x].ok =>
         build'[x].st = "gone" \/ art[comp'[x].job][comp'[x].ver] # None
  BY <1>1, <1>4 DEF Files
<1>11. \A x \in BuildIds : comp'[x].pc \in {"sync", "head", "make"} => ~comp'[x].ok
  BY <1>4 DEF Files
<1> QED
  BY <1>1, <1>7, <1>8, <1>9, <1>10, <1>11 DEF Files

\* A step that leaves the builds, the files and the requests, and starts no compile.
LEMMA OtherFiles ==
  ASSUME Files, UNCHANGED <<build, art, req>>,
         \A b \in BuildIds : comp'[b] = comp[b] \/ comp'[b].pc = "none"
  PROVE  Files'
<1>1. OkBuildHasArtifact'
  BY DEF Files, OkBuildHasArtifact
<1> QED
  BY <1>1 DEF Files

LEMMA ProcessReplacedFiles ==
  ASSUME Files, ProcessReplaced PROVE Files'
<1>1. /\ UNCHANGED <<build, art>>
      /\ \A c \in Clients : req'[c].pc = "idle"
      /\ \A b \in BuildIds : comp'[b].pc = "none"
  BY DEF ProcessReplaced, disk, NoRequest, NoCompile
<1>2. OkBuildHasArtifact'
  BY <1>1 DEF Files, OkBuildHasArtifact
<1> QED
  BY <1>1, <1>2 DEF Files, DeletingPcs

LEMMA InitFiles == Init => Files
<1> SUFFICES ASSUME Init PROVE Files
  OBVIOUS
<1>1. /\ \A c \in Clients : req[c].pc = "idle"
      /\ \A b \in BuildIds : comp[b].pc = "none" /\ build[b].st = "free"
  BY DEF Init, NoRequest, NoCompile, NoBuild
<1> QED
  BY <1>1 DEF Files, OkBuildHasArtifact, DeletingPcs

LEMMA NextFiles == OneOperator /\ Inv /\ Ledger /\ Files /\ [Next]_vars => Files'
<1> SUFFICES ASSUME OneOperator, Inv, Ledger, Files, [Next]_vars PROVE Files'
  OBVIOUS
<1>0. Typed /\ Waits
  BY DEF Inv
<1>1. ASSUME NEW c \in Clients, ScmStep(c) \/ DeployStep(c) PROVE Files'
  BY <1>0, <1>1, RequestFiles
<1>2. ASSUME NEW b \in BuildIds, CompileStep(b) PROVE Files'
  BY <1>0, <1>2, CompileStepKinds, CompileStaysFiles, CompileRecordFiles
<1>3. ASSUME NEW b \in BuildIds, RollBuildFailed(b) PROVE Files'
  <2>1. UNCHANGED <<build, art, req>>
    BY <1>3 DEF RollBuildFailed, disk
  <2>2. \A x \in BuildIds : comp'[x] = comp[x] \/ comp'[x].pc = "none"
    BY <1>0, <1>3 DEF RollBuildFailed, NoCompile, Typed, ProcessTyped
  <2> QED
    BY <2>1, <2>2, OtherFiles
<1>4. ASSUME NEW d \in DeployIds, RollStep(d) PROVE Files'
  <2>1. CASE RollSwap(d)
    BY <2>1, ProcessReplacedFiles DEF RollSwap
  <2>2. CASE RollStays(d)
    BY <2>2, OtherFiles DEF RollStays
  <2>3. CASE RollSelfRecord(d) \/ RollSwapFails(d) \/ RollFinish(d)
    BY <2>3, OtherFiles DEF RollSelfRecord, RollSwapFails, RollFinish, tables, disk
  <2> QED
    BY <1>0, <1>4, <2>1, <2>2, <2>3, RollStepKinds
<1>5. CASE Tick \/ UNCHANGED vars
  BY <1>5, OtherFiles DEF Tick, vars, tables, disk, process
<1>6. CASE Crash
  BY <1>6, ProcessReplacedFiles DEF Crash
<1> QED
  BY <1>1, <1>2, <1>3, <1>4, <1>5, <1>6 DEF Next

-----------------------------------------------------------------------------
(* Theorems. *)

(* The row of a running goroutine is the one it was started for, and says  *)
(* no more than the goroutine has recorded: no handler, restart or other   *)
(* goroutine of ops.go writes it meanwhile, except to delete it.           *)
THEOREM LedgerInvariant == Spec => [](Inv /\ Ledger)
<1>1. Init => Inv
  BY InitTyped, InitRest DEF Inv, Rest
<1>2. Inv /\ [Next]_vars => Inv'
  BY NextTyped, NextRest DEF Inv, Rest
<1> QED
  BY <1>1, <1>2, InitLedger, NextLedger, PTL DEF Spec

(* replacesSelf in runDeploy: when compose is about to replace this very   *)
(* process its deploy no longer says running, unless that UPDATE was lost. *)
THEOREM SelfRecorded == Spec => []SelfRecordedBeforeSwap
<1>1. Ledger => SelfRecordedBeforeSwap
  BY DEF Ledger, SelfRecordedBeforeSwap
<1> QED
  BY <1>1, LedgerInvariant, PTL

(* No step of the service turns a finished build or deploy back into a     *)
(* running one, nor a failed one into an ok one; only a self-replacing     *)
(* compose that fails turns ok into fail (runDeploy after finish("ok")).   *)
THEOREM RunsStayFinal == Spec => FinalIsFinal
<1>1. Inv /\ Ledger /\ [Next]_vars => [FinalStep]_vars
  BY NextResult
<1> QED
  BY <1>1, LedgerInvariant, PTL DEF Spec, FinalIsFinal, FinalStep

(* When compileJob or runDeploy ends, its row says what it found out: the  *)
(* UPDATE hits the row of this run and no other, whatever else runs.       *)
THEOREM ResultsAreRecorded == Spec => ResultRecorded
<1>1. Inv /\ Ledger /\ [Next]_vars => [ResultStep]_vars
  BY NextResult
<1> QED
  BY <1>1, LedgerInvariant, PTL DEF Spec, ResultRecorded, ResultStep

(* compileJob, as long as no other goroutine or DeleteJob changed its work *)
(* tree, records the commit that its gitSync checked out and that its      *)
(* script found.                                                           *)
THEOREM UndisturbedBuildRecordsItsCommit == Spec => []UndisturbedBuild
<1>1. Trees => UndisturbedBuild
  BY DEF Trees, BuildHeld, UndisturbedBuild
<1> QED
  BY <1>1, Invariant, InitTrees, NextTrees, PTL DEF Spec

(* runDeploy, as long as no other goroutine or request changed its tree,   *)
(* image or container, leaves the container running the image it built     *)
(* for its version, at the recorded commit where one is recorded.          *)
THEOREM UndisturbedRolloutRunsItsImage == Spec => []UndisturbedRollout
<1>1. Trees => UndisturbedRollout
  BY DEF Trees, RollHeld, UndisturbedRollout
<1> QED
  BY <1>1, Invariant, InitTrees, NextTrees, PTL DEF Spec

(* With one operator a build listed as ok has its file: the RemoveAll of   *)
(* DeleteJob takes only files of builds whose rows it has deleted, even    *)
(* when a compile of the job is still running or the job is made again.    *)
THEOREM OkBuildKeepsItsArtifact ==
  ASSUME OneOperator PROVE Spec => []OkBuildHasArtifact
<1>1. Inv /\ Ledger /\ Files /\ [Next]_vars => Files'
  BY NextFiles
<1>2. Files => OkBuildHasArtifact
  BY DEF Files
<1> QED
  BY <1>1, <1>2, LedgerInvariant, InitFiles, PTL DEF Spec
=============================================================================
