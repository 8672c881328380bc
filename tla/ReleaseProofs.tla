--------------------------- MODULE ReleaseProofs ----------------------------
(***************************************************************************)
(* The theorems about the release service: its types, and who runs what,   *)
(* for any number of clients, jobs, apps and commits and any bounds.       *)
(*                                                                         *)
(* TypeOK is not inductive: a handler indexes the tables with what it read *)
(* earlier, and a goroutine with what it was started with.  Typed adds     *)
(* what each of them holds, and Waits which goroutine belongs to which     *)
(* row.  The first part has one lemma for each action that preserves them. *)
(*                                                                         *)
(* The invariant Inv of the second part adds to OneRunPerClient and        *)
(* RunningHasOwner the conjuncts Typed and Waits and Claims: what          *)
(* idleBuild or idleDeploy found is still true of the client's own rows    *)
(* when it inserts.  Most steps insert no row and end no compile:          *)
(* RequestMoves, CompileMoves and RollMoves say what such a step does to   *)
(* the rows and the goroutines, each action is shown to be of one of these *)
(* kinds, and the invariant is proved once for each kind.                  *)
(***************************************************************************)
EXTENDS Release, TLAPS

-----------------------------------------------------------------------------
(* The first part: types. *)

\* Handlers that hold a job, an app, a version.
JobPcs == {"CreateBuild", "insertBuild", "DeleteJob", "deleteBuilds", "deleteJobRow",
           "removeWork", "removeArtifacts", "insertApp", "UpdateApp", "updateApp",
           "CreateDeploy", "pickVersion", "getJob", "insertDeploy", "createBuildDeploy",
           "idleBuild", "insertBoth", "insertSecond"}
AppPcs == {"insertApp", "UpdateApp", "updateApp", "dropRuntime", "deleteDeploys",
           "deleteAppRow", "CreateDeploy", "pickVersion", "getJob", "insertDeploy",
           "createBuildDeploy", "idleBuild", "insertBoth", "insertSecond"}
VerPcs == {"getJob", "insertDeploy", "insertSecond"}

\* Requests and goroutines whose references are to something.
GoodRequests == {r \in Request :
    /\ r.pc \in JobPcs => r.job \in Jobs
    /\ r.pc \in AppPcs => r.app \in Apps
    /\ r.pc \in VerPcs => r.ver \in Versions
    /\ r.pc = "insertSecond" => r.build \in BuildIds}
GoodCompiles == {r \in Compile :
    /\ r.pc # "none" => r.job \in Jobs /\ r.ver \in Versions
    /\ r.pc = "failDeploy" => r.dep \in DeployIds}
GoodRollouts == {r \in Rollout :
    r.pc # "none" => r.app \in Apps /\ r.job \in Jobs /\ r.ver \in Versions}

TablesTyped ==
    /\ job \in [Jobs -> Labels \cup {None}]
    /\ app \in [Apps -> Jobs \cup {None}]
    /\ build \in [BuildIds -> BuildRow]
    /\ deploy \in [DeployIds -> DeployRow]
    /\ nbuild \in 0..MaxBuild /\ ndeploy \in 0..MaxDeploy
FilesTyped ==
    /\ work \in [Jobs -> Commits \cup {None}]
    /\ art \in [Jobs -> [Versions -> Artifact \cup {None}]]
    /\ tag \in [Apps -> Image \cup {None}]
    /\ up \in [Apps -> Image \cup {None}]
ProcessTyped ==
    /\ req \in [Clients -> GoodRequests]
    /\ comp \in [BuildIds -> GoodCompiles]
    /\ roll \in [DeployIds -> GoodRollouts]
CountersTyped ==
    /\ now \in Versions
    /\ restarts \in 0..MaxRestart /\ faults \in 0..MaxFault
    /\ abandoned \in [build : SUBSET BuildIds, deploy : SUBSET DeployIds]
    /\ touched \in [comp : SUBSET BuildIds, roll : SUBSET DeployIds]
Typed == TablesTyped /\ FilesTyped /\ ProcessTyped /\ CountersTyped

\* A goroutine belongs to a row that was inserted; the deploy a compile will go on
\* with waits for this compile alone; a build between createBuildDeploy's two
\* INSERTs has no goroutine yet and one handler.
Waits ==
    /\ \A b \in BuildIds : comp[b].pc # "none" => b <= nbuild
    /\ \A d \in DeployIds : roll[d].pc # "none" => d <= ndeploy
    /\ \A b \in BuildIds :
         comp[b].pc # "none" /\ comp[b].dep # None => roll[comp[b].dep].pc = "wait"
    /\ \A b1, b2 \in BuildIds :
         /\ comp[b1].pc # "none" /\ comp[b2].pc # "none"
         /\ comp[b1].dep = comp[b2].dep /\ comp[b1].dep # None
         => b1 = b2
    /\ \A c \in Clients : req[c].pc = "insertSecond" =>
         req[c].build <= nbuild /\ comp[req[c].build].pc = "none"
    /\ \A c1, c2 \in Clients :
         /\ req[c1].pc = "insertSecond" /\ req[c2].pc = "insertSecond"
         /\ req[c1].build = req[c2].build
         => c1 = c2

-----------------------------------------------------------------------------
(* Values. *)

LEMMA TypedImplies == Typed => TypeOK
  BY DEF Typed, TablesTyped, FilesTyped, ProcessTyped, CountersTyped, TypeOK, GoodRequests,
         GoodCompiles, GoodRollouts

LEMMA EmptyValues ==
  /\ NoBuild \in BuildRow /\ NoDeploy \in DeployRow
  /\ NoRequest \in GoodRequests /\ NoCompile \in GoodCompiles /\ NoRollout \in GoodRollouts
  BY DEF NoBuild, NoDeploy, NoRequest, NoCompile, NoRollout, BuildRow, DeployRow, Statuses,
         GoodRequests, GoodCompiles, GoodRollouts, Request, Compile, Rollout, JobPcs, AppPcs,
         VerPcs

LEMMA GoneValues ==
  [NoBuild EXCEPT !.st = "gone"] \in BuildRow /\ [NoDeploy EXCEPT !.st = "gone"] \in DeployRow
  BY DEF NoBuild, NoDeploy, BuildRow, DeployRow, Statuses

\* The references a request or a goroutine holds.
LEMMA RequestHolds ==
  ASSUME Typed, NEW c \in Clients
  PROVE  /\ req[c] \in Request
         /\ req[c].pc \in JobPcs => req[c].job \in Jobs
         /\ req[c].pc \in AppPcs => req[c].app \in Apps
         /\ req[c].pc \in VerPcs => req[c].ver \in Versions
         /\ req[c].pc = "insertSecond" => req[c].build \in BuildIds
         /\ req[c].label \in Labels \cup {None}
         /\ req[c].job \in Jobs \cup {None} /\ req[c].app \in Apps \cup {None}
         /\ req[c].ver \in Versions \cup {None}
<1>1. req[c] \in GoodRequests
  BY DEF Typed, ProcessTyped
<1> QED
  BY <1>1 DEF GoodRequests, Request

LEMMA CompileHolds ==
  ASSUME Typed, NEW b \in BuildIds
  PROVE  /\ comp[b] \in Compile /\ comp[b] \in GoodCompiles
         /\ comp[b].pc # "none" => comp[b].job \in Jobs /\ comp[b].ver \in Versions
         /\ comp[b].commit \in Commits \cup {None} /\ comp[b].dep \in DeployIds \cup {None}
         /\ comp[b].pc = "failDeploy" => comp[b].dep \in DeployIds
<1>1. comp[b] \in GoodCompiles
  BY DEF Typed, ProcessTyped
<1> QED
  BY <1>1 DEF GoodCompiles, Compile

LEMMA RolloutHolds ==
  ASSUME Typed, NEW d \in DeployIds
  PROVE  /\ roll[d] \in Rollout /\ roll[d] \in GoodRollouts
         /\ roll[d].pc # "none" =>
              roll[d].app \in Apps /\ roll[d].job \in Jobs /\ roll[d].ver \in Versions
<1>1. roll[d] \in GoodRollouts
  BY DEF Typed, ProcessTyped
<1> QED
  BY <1>1 DEF GoodRollouts

\* The records a goroutine's steps make of its state.
LEMMA CompileValues ==
  ASSUME Typed, NEW b \in BuildIds, comp[b].pc # "none", NEW k \in Commits \cup {None},
         NEW pc \in {"head", "make", "record"}
  PROVE  /\ [comp[b] EXCEPT !.pc = pc] \in GoodCompiles
         /\ [comp[b] EXCEPT !.pc = pc, !.synced = k] \in GoodCompiles
         /\ [comp[b] EXCEPT !.pc = pc, !.commit = k] \in GoodCompiles
         /\ [comp[b] EXCEPT !.pc = pc, !.made = k, !.ok = TRUE] \in GoodCompiles
         /\ [comp[b] EXCEPT !.pc = pc, !.commit = k, !.made = k, !.ok = TRUE] \in GoodCompiles
  BY CompileHolds DEF GoodCompiles, Compile

LEMMA RolloutValues ==
  ASSUME Typed, NEW d \in DeployIds, roll[d].pc # "none", NEW k \in Commits \cup {None},
         NEW pc \in {"image", "docker", "up", "swap", "finish"}, NEW ok \in BOOLEAN
  PROVE  /\ [roll[d] EXCEPT !.pc = pc] \in GoodRollouts
         /\ [roll[d] EXCEPT !.pc = pc, !.want = k] \in GoodRollouts
         /\ [roll[d] EXCEPT !.pc = pc, !.got = k] \in GoodRollouts
         /\ [roll[d] EXCEPT !.pc = pc, !.ok = ok] \in GoodRollouts
  BY RolloutHolds DEF GoodRollouts, Rollout

LEMMA RequestValues ==
  ASSUME Typed, NEW c \in Clients
  PROVE  /\ req[c].pc = "pickVersion" =>
              \A v \in Versions : [req[c] EXCEPT !.pc = "getJob", !.ver = v] \in GoodRequests
         /\ req[c].pc = "getJob" =>
              \A l \in Labels :
                 [req[c] EXCEPT !.pc = "insertDeploy", !.label = l] \in GoodRequests
         /\ req[c].pc = "createBuildDeploy" =>
              \A l \in Labels : [req[c] EXCEPT !.pc = "idleBuild", !.label = l] \in GoodRequests
         /\ req[c].pc = "insertBoth" =>
              \A b \in BuildIds, v \in Versions :
                 [req[c] EXCEPT !.pc = "insertSecond", !.build = b, !.ver = v] \in GoodRequests
<1>1. ASSUME req[c].pc = "pickVersion", NEW v \in Versions
      PROVE  [req[c] EXCEPT !.pc = "getJob", !.ver = v] \in GoodRequests
  BY <1>1, RequestHolds DEF GoodRequests, Request, JobPcs, AppPcs, VerPcs
<1>2. ASSUME req[c].pc = "getJob", NEW l \in Labels
      PROVE  [req[c] EXCEPT !.pc = "insertDeploy", !.label = l] \in GoodRequests
  BY <1>2, RequestHolds DEF GoodRequests, Request, JobPcs, AppPcs, VerPcs
<1>3. ASSUME req[c].pc = "createBuildDeploy", NEW l \in Labels
      PROVE  [req[c] EXCEPT !.pc = "idleBuild", !.label = l] \in GoodRequests
  BY <1>3, RequestHolds DEF GoodRequests, Request, JobPcs, AppPcs, VerPcs
<1>4. ASSUME req[c].pc = "insertBoth", NEW b \in BuildIds, NEW v \in Versions
      PROVE  [req[c] EXCEPT !.pc = "insertSecond", !.build = b, !.ver = v] \in GoodRequests
  BY <1>4, RequestHolds DEF GoodRequests, Request, JobPcs, AppPcs, VerPcs
<1> QED
  BY <1>1, <1>2, <1>3, <1>4

LEMMA ReplyTyped ==
  ASSUME Typed, NEW c \in Clients, Reply(c)
  PROVE  req' \in [Clients -> GoodRequests]
  BY EmptyValues DEF Reply, Typed, ProcessTyped

LEMMA AdvanceTyped ==
  ASSUME Typed, NEW c \in Clients, NEW pc \in JobPcs \cup AppPcs, Advance(c, pc),
         pc \in JobPcs => req[c].pc \in JobPcs, pc \in AppPcs => req[c].pc \in AppPcs,
         pc \notin VerPcs
  PROVE  req' \in [Clients -> GoodRequests]
<1> DEFINE r == [req[c] EXCEPT !.pc = pc]
<1>1. req[c] \in Request /\ pc # "insertSecond"
  BY RequestHolds DEF VerPcs
<1>2. r \in Request /\ r.pc = pc /\ r.job = req[c].job /\ r.app = req[c].app
  BY <1>1 DEF Request, JobPcs, AppPcs
<1>3. r \in GoodRequests
  BY <1>1, <1>2, RequestHolds DEF GoodRequests
<1>4. req' = [req EXCEPT ![c] = r]
  BY DEF Advance
<1> HIDE DEF r
<1> QED
  BY <1>3, <1>4 DEF Typed, ProcessTyped

LEMMA CallTyped ==
  ASSUME Typed, NEW c \in Clients, NEW r \in GoodRequests, req' = [req EXCEPT ![c] = r]
  PROVE  req' \in [Clients -> GoodRequests]
  BY DEF Typed, ProcessTyped

LEMMA CompTyped ==
  ASSUME Typed, NEW b \in BuildIds, NEW r \in GoodCompiles, comp' = [comp EXCEPT ![b] = r]
  PROVE  comp' \in [BuildIds -> GoodCompiles]
  BY DEF Typed, ProcessTyped

LEMMA RollTyped ==
  ASSUME Typed, NEW d \in DeployIds, NEW r \in GoodRollouts, roll' = [roll EXCEPT ![d] = r]
  PROVE  roll' \in [DeployIds -> GoodRollouts]
  BY DEF Typed, ProcessTyped

LEMMA TouchTreeTyped ==
  ASSUME Typed, NEW j, NEW b, NEW d, TouchTree(j, b, d)
  PROVE  touched' \in [comp : SUBSET BuildIds, roll : SUBSET DeployIds]
  BY DEF TouchTree, CompilingIn, ImagingIn, Typed, CountersTyped

LEMMA TouchAppTyped ==
  ASSUME Typed, NEW a, NEW d, TouchApp(a, d)
  PROVE  touched' \in [comp : SUBSET BuildIds, roll : SUBSET DeployIds]
  BY DEF TouchApp, RollingOut, Typed, CountersTyped

LEMMA RecordDeployTyped ==
  ASSUME Typed, NEW d \in DeployIds, NEW st \in {"ok", "fail"}, RecordDeploy(d, st)
  PROVE  /\ deploy' \in [DeployIds -> DeployRow]
         /\ faults' \in 0..MaxFault
         /\ abandoned' \in [build : SUBSET BuildIds, deploy : SUBSET DeployIds]
<1>1. deploy[d] \in DeployRow
  BY DEF Typed, TablesTyped
<1>2. [deploy[d] EXCEPT !.st = st] \in DeployRow
  BY <1>1 DEF DeployRow, Statuses
<1>3. RecordedDeploy(d, st) \in DeployRow
  BY <1>1, <1>2 DEF RecordedDeploy
<1>4. CASE deploy' = [deploy EXCEPT ![d] = RecordedDeploy(d, st)] /\ UNCHANGED <<faults,
   abandoned>>
  BY <1>3, <1>4 DEF Typed, TablesTyped, CountersTyped
<1>5. CASE /\ faults < MaxFault /\ faults' = faults + 1 /\ UNCHANGED deploy
           /\ abandoned' = [abandoned EXCEPT !.deploy = @ \cup {d}]
  BY <1>5, ReleaseAssumption DEF Typed, TablesTyped, CountersTyped, ReleaseAssumption
<1> QED
  BY <1>4, <1>5 DEF RecordDeploy

LEMMA AfterRecordTyped ==
  ASSUME Typed, Waits, NEW b \in BuildIds, comp[b].pc # "none", AfterRecord(b)
  PROVE  /\ comp' \in [BuildIds -> GoodCompiles] /\ roll' \in [DeployIds -> GoodRollouts]
         /\ touched' \in [comp : SUBSET BuildIds, roll : SUBSET DeployIds]
<1>1. comp[b].dep # None => [comp[b] EXCEPT !.pc = "failDeploy"] \in GoodCompiles
  BY CompileHolds DEF GoodCompiles, Compile
<1>2. comp' \in [BuildIds -> GoodCompiles]
  BY <1>1, EmptyValues DEF AfterRecord, Typed, ProcessTyped
<1>3. ASSUME NEW d \in DeployIds, comp[b].dep = d
      PROVE  [roll EXCEPT ![d].pc = "image"] \in [DeployIds -> GoodRollouts]
  <2>1. roll[d].pc = "wait"
    BY <1>3, ReleaseAssumption DEF Waits, ReleaseAssumption, DeployIds
  <2>2. [roll[d] EXCEPT !.pc = "image"] \in GoodRollouts
    BY <2>1, RolloutHolds DEF GoodRollouts, Rollout
  <2> QED
    BY <2>2 DEF Typed, ProcessTyped
<1>4. roll' \in [DeployIds -> GoodRollouts]
  BY <1>3, CompileHolds DEF AfterRecord, Typed, ProcessTyped
<1>5. touched' \in [comp : SUBSET BuildIds, roll : SUBSET DeployIds]
  BY DEF AfterRecord, Typed, CountersTyped
<1> QED
  BY <1>2, <1>4, <1>5

LEMMA RecordedCommitTyped ==
  ASSUME Typed, NEW j \in Jobs, NEW v \in Versions
  PROVE  RecordedCommit(j, v) \in Commits \cup {None}
<1> DEFINE oks == BuildsOf(j, v, {"ok"})
<1>1. CASE art[j][v] # None /\ art[j][v].kind = "image"
  BY <1>1 DEF RecordedCommit, Artifact, Typed, FilesTyped
<1>2. CASE /\ ~(art[j][v] # None /\ art[j][v].kind = "image")
           /\ \A b \in oks : ~IsLatest(b, oks)
  BY <1>2 DEF RecordedCommit
<1>3. CASE /\ ~(art[j][v] # None /\ art[j][v].kind = "image")
           /\ \E b \in oks : IsLatest(b, oks)
  <2> DEFINE m == CHOOSE b \in oks : IsLatest(b, oks)
  <2>1. RecordedCommit(j, v) = build[m].commit
    BY <1>3 DEF RecordedCommit
  <2>2. m \in BuildIds
    BY <1>3 DEF BuildsOf
  <2> QED
    BY <2>1, <2>2 DEF BuildRow, Typed, TablesTyped
<1> QED
  BY <1>1, <1>2, <1>3

\* What a new process leaves typed.
ReplacedTyped ==
    /\ job \in [Jobs -> Labels \cup {None}]
    /\ app \in [Apps -> Jobs \cup {None}]
    /\ ProcessTyped
    /\ abandoned \in [build : SUBSET BuildIds, deploy : SUBSET DeployIds]
    /\ touched \in [comp : SUBSET BuildIds, roll : SUBSET DeployIds]

LEMMA SeededLabelTyped ==
  ASSUME NEW j \in Jobs, NEW l \in Labels \cup {None}
  PROVE  SeededLabel(j, l) \in Labels \cup {None}
BY ReleaseAssumption DEF SeededLabel, ReleaseAssumption, Labels

LEMMA ProcessReplacedTyped ==
  ASSUME Typed, ProcessReplaced
  PROVE  ReplacedTyped'
<1>1. job' \in [Jobs -> Labels \cup {None}] /\ app' \in [Apps -> Jobs \cup {None}]
  BY SeededLabelTyped, ReleaseAssumption
  DEF ProcessReplaced, Reseed, ReleaseAssumption, Typed, TablesTyped
<1>2. ProcessTyped'
  BY EmptyValues DEF ProcessReplaced, ProcessTyped
<1> QED
  BY <1>1, <1>2 DEF ProcessReplaced, ReplacedTyped

-----------------------------------------------------------------------------
(* One lemma for each action. *)

LEMMA CreateJobTyped ==
  ASSUME Typed, NEW c \in Clients, NEW j \in Jobs, NEW l \in CallLabels, CreateJob(c, j,
         l) PROVE Typed'
<1>1. job' \in [Jobs -> Labels \cup {None}]
  BY ReleaseAssumption DEF CreateJob, ReleaseAssumption, Typed, TablesTyped
<1> QED
  BY <1>1 DEF CreateJob, disk, docker, process, limits, history,
     Typed, TablesTyped, FilesTyped, ProcessTyped, CountersTyped

LEMMA UpdateJobTyped ==
  ASSUME Typed, NEW c \in Clients, NEW j \in Jobs, NEW l \in CallLabels, UpdateJob(c, j,
         l) PROVE Typed'
<1>1. job' \in [Jobs -> Labels \cup {None}]
  BY ReleaseAssumption DEF UpdateJob, ReleaseAssumption, Typed, TablesTyped
<1> QED
  BY <1>1 DEF UpdateJob, disk, docker, process, limits, history,
     Typed, TablesTyped, FilesTyped, ProcessTyped, CountersTyped

LEMMA DeleteJobTyped ==
  ASSUME Typed, NEW c \in Clients, NEW j \in Jobs, DeleteJob(c, j) PROVE Typed'
<1>1. [NoRequest EXCEPT !.pc = "DeleteJob", !.job = j] \in GoodRequests
  BY EmptyValues, RequestHolds DEF DeleteJob, Calling, GoodRequests, Request, NoRequest, JobPcs,
     AppPcs, VerPcs, Typed, TablesTyped
<1>2. req' \in [Clients -> GoodRequests]
  BY <1>1, CallTyped DEF DeleteJob, Typed, ProcessTyped
<1> QED
  BY <1>1, <1>2 DEF DeleteJob, tables, disk, docker, limits, history,
     Typed, TablesTyped, FilesTyped, ProcessTyped, CountersTyped

LEMMA CreateBuildTyped ==
  ASSUME Typed, NEW c \in Clients, NEW j \in Jobs, CreateBuild(c, j) PROVE Typed'
<1>1. [NoRequest EXCEPT !.pc = "CreateBuild", !.job = j, !.label = job[j]] \in GoodRequests
  BY EmptyValues, RequestHolds DEF CreateBuild, Calling, GoodRequests, Request, NoRequest,
     JobPcs, AppPcs, VerPcs, Typed, TablesTyped
<1>2. req' \in [Clients -> GoodRequests]
  BY <1>1, CallTyped DEF CreateBuild, Typed, ProcessTyped
<1> QED
  BY <1>1, <1>2 DEF CreateBuild, tables, disk, docker, limits, history,
     Typed, TablesTyped, FilesTyped, ProcessTyped, CountersTyped

LEMMA DeleteJobInUseTyped ==
  ASSUME Typed, NEW c \in Clients, DeleteJobInUse(c) PROVE Typed'
<1>1. req' \in [Clients -> GoodRequests]
  BY ReplyTyped DEF DeleteJobInUse
<1> QED
  BY <1>1 DEF DeleteJobInUse, tables, disk, docker, limits, history,
     Typed, TablesTyped, FilesTyped, ProcessTyped, CountersTyped

LEMMA DeleteJobUnusedTyped ==
  ASSUME Typed, NEW c \in Clients, DeleteJobUnused(c) PROVE Typed'
<1>1. req' \in [Clients -> GoodRequests]
  BY AdvanceTyped DEF DeleteJobUnused, JobPcs, AppPcs, VerPcs
<1> QED
  BY <1>1 DEF DeleteJobUnused, tables, disk, docker, limits, history,
     Typed, TablesTyped, FilesTyped, ProcessTyped, CountersTyped

LEMMA DeleteJobBuildsTyped ==
  ASSUME Typed, NEW c \in Clients, DeleteJobBuilds(c) PROVE Typed'
<1>1. build' \in [BuildIds -> BuildRow]
  BY GoneValues DEF DeleteJobBuilds, Typed, TablesTyped
<1>2. req' \in [Clients -> GoodRequests]
  BY AdvanceTyped DEF DeleteJobBuilds, JobPcs, AppPcs, VerPcs
<1> QED
  BY <1>1, <1>2 DEF DeleteJobBuilds, disk, docker, limits, history,
     Typed, TablesTyped, FilesTyped, ProcessTyped, CountersTyped

LEMMA DeleteJobRowTyped ==
  ASSUME Typed, NEW c \in Clients, DeleteJobRow(c) PROVE Typed'
<1>1. job' \in [Jobs -> Labels \cup {None}]
  BY DEF DeleteJobRow, Typed, TablesTyped
<1>2. req' \in [Clients -> GoodRequests]
  BY AdvanceTyped DEF DeleteJobRow, JobPcs, AppPcs, VerPcs
<1> QED
  BY <1>1, <1>2 DEF DeleteJobRow, disk, docker, limits, history,
     Typed, TablesTyped, FilesTyped, ProcessTyped, CountersTyped

LEMMA DeleteJobWorkTyped ==
  ASSUME Typed, NEW c \in Clients, DeleteJobWork(c) PROVE Typed'
<1>1. work' \in [Jobs -> Commits \cup {None}]
  BY DEF DeleteJobWork, Typed, FilesTyped
<1>2. req' \in [Clients -> GoodRequests]
  BY AdvanceTyped DEF DeleteJobWork, JobPcs, AppPcs, VerPcs
<1>3. touched' \in [comp : SUBSET BuildIds, roll : SUBSET DeployIds]
  BY TouchTreeTyped DEF DeleteJobWork
<1> QED
  BY <1>1, <1>2, <1>3 DEF DeleteJobWork, tables, docker, limits,
     Typed, TablesTyped, FilesTyped, ProcessTyped, CountersTyped

LEMMA DeleteJobArtifactsTyped ==
  ASSUME Typed, NEW c \in Clients, DeleteJobArtifacts(c) PROVE Typed'
<1>1. art' \in [Jobs -> [Versions -> Artifact \cup {None}]]
  BY DEF DeleteJobArtifacts, Typed, FilesTyped
<1>2. req' \in [Clients -> GoodRequests]
  BY ReplyTyped DEF DeleteJobArtifacts
<1> QED
  BY <1>1, <1>2 DEF DeleteJobArtifacts, tables, docker, limits, history,
     Typed, TablesTyped, FilesTyped, ProcessTyped, CountersTyped

LEMMA BuildIsRunningTyped ==
  ASSUME Typed, NEW c \in Clients, BuildIsRunning(c) PROVE Typed'
<1>1. req' \in [Clients -> GoodRequests]
  BY ReplyTyped DEF BuildIsRunning
<1> QED
  BY <1>1 DEF BuildIsRunning, tables, disk, docker, limits, history,
     Typed, TablesTyped, FilesTyped, ProcessTyped, CountersTyped

LEMMA BuildIsIdleTyped ==
  ASSUME Typed, NEW c \in Clients, BuildIsIdle(c) PROVE Typed'
<1>1. req' \in [Clients -> GoodRequests]
  BY AdvanceTyped DEF BuildIsIdle, JobPcs, AppPcs, VerPcs
<1> QED
  BY <1>1 DEF BuildIsIdle, tables, disk, docker, limits, history,
     Typed, TablesTyped, FilesTyped, ProcessTyped, CountersTyped

LEMMA InsertBuildTyped ==
  ASSUME Typed, NEW c \in Clients, InsertBuild(c) PROVE Typed'
<1>1. NewBuild(c) \in BuildRow
  BY RequestHolds DEF InsertBuild, NewBuild, BuildRow, Statuses, Typed, CountersTyped
<1>2. build' \in [BuildIds -> BuildRow] /\ nbuild' \in 0..MaxBuild
  BY <1>1, ReleaseAssumption DEF InsertBuild, ReleaseAssumption, BuildIds, Typed, TablesTyped
<1>3. req' \in [Clients -> GoodRequests]
  BY ReplyTyped DEF InsertBuild
<1>4. NewCompile(c, now, None) \in GoodCompiles
  BY RequestHolds DEF InsertBuild, NewCompile, NoCompile, GoodCompiles, Compile, JobPcs, Typed,
     CountersTyped
<1>5. comp' \in [BuildIds -> GoodCompiles]
  BY <1>4 DEF InsertBuild, BuildIds, Typed, ProcessTyped
<1> QED
  BY <1>1, <1>2, <1>3, <1>4, <1>5 DEF InsertBuild, disk, docker, limits, history,
     Typed, TablesTyped, FilesTyped, ProcessTyped, CountersTyped

LEMMA CreateAppTyped ==
  ASSUME Typed, NEW c \in Clients, NEW a \in Apps, NEW j \in Jobs, CreateApp(c, a, j) PROVE Typed'
<1>1. [NoRequest EXCEPT !.pc = "insertApp", !.app = a, !.job = j] \in GoodRequests
  BY EmptyValues, RequestHolds DEF CreateApp, Calling, GoodRequests, Request, NoRequest, JobPcs,
     AppPcs, VerPcs, Typed, TablesTyped
<1>2. req' \in [Clients -> GoodRequests]
  BY <1>1, CallTyped DEF CreateApp, Typed, ProcessTyped
<1> QED
  BY <1>1, <1>2 DEF CreateApp, tables, disk, docker, limits, history,
     Typed, TablesTyped, FilesTyped, ProcessTyped, CountersTyped

LEMMA UpdateAppTyped ==
  ASSUME Typed, NEW c \in Clients, NEW a \in Apps, NEW j \in Jobs, UpdateApp(c, a, j) PROVE Typed'
<1>1. [NoRequest EXCEPT !.pc = "UpdateApp", !.app = a, !.job = j] \in GoodRequests
  BY EmptyValues, RequestHolds DEF UpdateApp, Calling, GoodRequests, Request, NoRequest, JobPcs,
     AppPcs, VerPcs, Typed, TablesTyped
<1>2. req' \in [Clients -> GoodRequests]
  BY <1>1, CallTyped DEF UpdateApp, Typed, ProcessTyped
<1> QED
  BY <1>1, <1>2 DEF UpdateApp, tables, disk, docker, limits, history,
     Typed, TablesTyped, FilesTyped, ProcessTyped, CountersTyped

LEMMA DeleteAppTyped ==
  ASSUME Typed, NEW c \in Clients, NEW a \in Apps, DeleteApp(c, a) PROVE Typed'
<1>1. [NoRequest EXCEPT !.pc = "dropRuntime", !.app = a] \in GoodRequests
  BY EmptyValues, RequestHolds DEF DeleteApp, Calling, GoodRequests, Request, NoRequest, JobPcs,
     AppPcs, VerPcs, Typed, TablesTyped
<1>2. req' \in [Clients -> GoodRequests]
  BY <1>1, CallTyped DEF DeleteApp, Typed, ProcessTyped
<1> QED
  BY <1>1, <1>2 DEF DeleteApp, tables, disk, docker, limits, history,
     Typed, TablesTyped, FilesTyped, ProcessTyped, CountersTyped

LEMMA CreateDeployTyped ==
  ASSUME Typed, NEW c \in Clients, NEW a \in Apps, CreateDeploy(c, a) PROVE Typed'
<1>1. [NoRequest EXCEPT !.pc = "CreateDeploy", !.app = a, !.job = app[a]] \in GoodRequests
  BY EmptyValues, RequestHolds DEF CreateDeploy, Calling, GoodRequests, Request, NoRequest,
     JobPcs, AppPcs, VerPcs, Typed, TablesTyped
<1>2. req' \in [Clients -> GoodRequests]
  BY <1>1, CallTyped DEF CreateDeploy, Typed, ProcessTyped
<1> QED
  BY <1>1, <1>2 DEF CreateDeploy, tables, disk, docker, limits, history,
     Typed, TablesTyped, FilesTyped, ProcessTyped, CountersTyped

LEMMA InsertAppTyped ==
  ASSUME Typed, NEW c \in Clients, InsertApp(c) PROVE Typed'
<1>1. app' \in [Apps -> Jobs \cup {None}]
  BY RequestHolds DEF InsertApp, JobPcs, Typed, TablesTyped
<1>2. req' \in [Clients -> GoodRequests]
  BY ReplyTyped DEF InsertApp
<1> QED
  BY <1>1, <1>2 DEF InsertApp, disk, docker, limits, history,
     Typed, TablesTyped, FilesTyped, ProcessTyped, CountersTyped

LEMMA UpdateAppJobTyped ==
  ASSUME Typed, NEW c \in Clients, UpdateAppJob(c) PROVE Typed'
<1>1. req' \in [Clients -> GoodRequests]
  BY ReplyTyped, AdvanceTyped DEF UpdateAppJob, JobPcs, AppPcs, VerPcs
<1> QED
  BY <1>1 DEF UpdateAppJob, tables, disk, docker, limits, history,
     Typed, TablesTyped, FilesTyped, ProcessTyped, CountersTyped

LEMMA UpdateAppRowTyped ==
  ASSUME Typed, NEW c \in Clients, UpdateAppRow(c) PROVE Typed'
<1>1. app' \in [Apps -> Jobs \cup {None}]
  BY RequestHolds DEF UpdateAppRow, JobPcs, Typed, TablesTyped
<1>2. req' \in [Clients -> GoodRequests]
  BY ReplyTyped DEF UpdateAppRow
<1> QED
  BY <1>1, <1>2 DEF UpdateAppRow, disk, docker, limits, history,
     Typed, TablesTyped, FilesTyped, ProcessTyped, CountersTyped

LEMMA DeleteAppRuntimeTyped ==
  ASSUME Typed, NEW c \in Clients, DeleteAppRuntime(c) PROVE Typed'
<1>1. up' \in [Apps -> Image \cup {None}]
  BY DEF DeleteAppRuntime, Typed, FilesTyped
<1>2. req' \in [Clients -> GoodRequests]
  BY AdvanceTyped DEF DeleteAppRuntime, JobPcs, AppPcs, VerPcs
<1>3. touched' \in [comp : SUBSET BuildIds, roll : SUBSET DeployIds]
  BY TouchAppTyped DEF DeleteAppRuntime
<1> QED
  BY <1>1, <1>2, <1>3 DEF DeleteAppRuntime, tables, disk, limits,
     Typed, TablesTyped, FilesTyped, ProcessTyped, CountersTyped

LEMMA DeleteAppDeploysTyped ==
  ASSUME Typed, NEW c \in Clients, DeleteAppDeploys(c) PROVE Typed'
<1>1. deploy' \in [DeployIds -> DeployRow]
  BY GoneValues DEF DeleteAppDeploys, Typed, TablesTyped
<1>2. req' \in [Clients -> GoodRequests]
  BY AdvanceTyped DEF DeleteAppDeploys, JobPcs, AppPcs, VerPcs
<1> QED
  BY <1>1, <1>2 DEF DeleteAppDeploys, disk, docker, limits, history,
     Typed, TablesTyped, FilesTyped, ProcessTyped, CountersTyped

LEMMA DeleteAppRowTyped ==
  ASSUME Typed, NEW c \in Clients, DeleteAppRow(c) PROVE Typed'
<1>1. app' \in [Apps -> Jobs \cup {None}]
  BY DEF DeleteAppRow, Typed, TablesTyped
<1>2. req' \in [Clients -> GoodRequests]
  BY ReplyTyped DEF DeleteAppRow
<1> QED
  BY <1>1, <1>2 DEF DeleteAppRow, disk, docker, limits, history,
     Typed, TablesTyped, FilesTyped, ProcessTyped, CountersTyped

LEMMA DeployIsRunningTyped ==
  ASSUME Typed, NEW c \in Clients, DeployIsRunning(c) PROVE Typed'
<1>1. req' \in [Clients -> GoodRequests]
  BY ReplyTyped DEF DeployIsRunning
<1> QED
  BY <1>1 DEF DeployIsRunning, tables, disk, docker, limits, history,
     Typed, TablesTyped, FilesTyped, ProcessTyped, CountersTyped

LEMMA DeployIsIdleTyped ==
  ASSUME Typed, NEW c \in Clients, DeployIsIdle(c) PROVE Typed'
<1>1. req' \in [Clients -> GoodRequests]
  BY AdvanceTyped DEF DeployIsIdle, JobPcs, AppPcs, VerPcs
<1> QED
  BY <1>1 DEF DeployIsIdle, tables, disk, docker, limits, history,
     Typed, TablesTyped, FilesTyped, ProcessTyped, CountersTyped

LEMMA PickVersionTyped ==
  ASSUME Typed, NEW c \in Clients, PickVersion(c) PROVE Typed'
<1>1. PICK v \in Versions : IF Deployable(req[c].job, v)
                          THEN req' = [req EXCEPT ![c].pc = "getJob", ![c].ver = v]
                          ELSE Reply(c)
  BY DEF PickVersion
<1>2. [req[c] EXCEPT !.pc = "getJob", !.ver = v] \in GoodRequests
  BY RequestValues DEF PickVersion
<1>3. req' \in [Clients -> GoodRequests]
  BY <1>1, <1>2, ReplyTyped DEF Typed, ProcessTyped
<1> QED
  BY <1>1, <1>2, <1>3 DEF PickVersion, tables, disk, docker, limits, history,
     Typed, TablesTyped, FilesTyped, ProcessTyped, CountersTyped

LEMMA DeployGetJobTyped ==
  ASSUME Typed, NEW c \in Clients, DeployGetJob(c) PROVE Typed'
<1>1. job[req[c].job] \in Labels \cup {None}
  BY RequestHolds DEF DeployGetJob, JobPcs, Typed, TablesTyped
<1>2. ASSUME NEW l \in Labels, req' = [req EXCEPT ![c].pc = "insertDeploy", ![c].label = l]
      PROVE  req' \in [Clients -> GoodRequests]
  <2>1. [req[c] EXCEPT !.pc = "insertDeploy", !.label = l] \in GoodRequests
    BY RequestValues DEF DeployGetJob
  <2> QED
    BY <1>2, <2>1 DEF Typed, ProcessTyped
<1>3. req' \in [Clients -> GoodRequests]
  BY <1>1, <1>2, ReplyTyped DEF DeployGetJob
<1> QED
  BY <1>1, <1>2, <1>3 DEF DeployGetJob, tables, disk, docker, limits, history,
     Typed, TablesTyped, FilesTyped, ProcessTyped, CountersTyped

LEMMA InsertDeployTyped ==
  ASSUME Typed, NEW c \in Clients, InsertDeploy(c) PROVE Typed'
<1>1. NewDeploy(c, req[c].ver) \in DeployRow
  BY RequestHolds DEF NewDeploy, DeployRow, Statuses
<1>2. deploy' \in [DeployIds -> DeployRow] /\ ndeploy' \in 0..MaxDeploy
  BY <1>1, ReleaseAssumption DEF InsertDeploy, ReleaseAssumption, DeployIds, Typed, TablesTyped
<1>3. req' \in [Clients -> GoodRequests]
  BY ReplyTyped DEF InsertDeploy
<1>4. NewRollout(c, "image", req[c].ver) \in GoodRollouts
  BY RequestHolds DEF InsertDeploy, NewRollout, NoRollout, GoodRollouts, Rollout, JobPcs,
     AppPcs, VerPcs
<1>5. roll' \in [DeployIds -> GoodRollouts]
  BY <1>4 DEF InsertDeploy, DeployIds, Typed, ProcessTyped
<1> QED
  BY <1>1, <1>2, <1>3, <1>4, <1>5 DEF InsertDeploy, disk, docker, limits, history,
     Typed, TablesTyped, FilesTyped, ProcessTyped, CountersTyped

LEMMA BuildDeployGetJobTyped ==
  ASSUME Typed, NEW c \in Clients, BuildDeployGetJob(c) PROVE Typed'
<1>1. job[req[c].job] \in Labels \cup {None}
  BY RequestHolds DEF BuildDeployGetJob, JobPcs, Typed, TablesTyped
<1>2. ASSUME NEW l \in Labels, req' = [req EXCEPT ![c].pc = "idleBuild", ![c].label = l]
      PROVE  req' \in [Clients -> GoodRequests]
  <2>1. [req[c] EXCEPT !.pc = "idleBuild", !.label = l] \in GoodRequests
    BY RequestValues DEF BuildDeployGetJob
  <2> QED
    BY <1>2, <2>1 DEF Typed, ProcessTyped
<1>3. req' \in [Clients -> GoodRequests]
  BY <1>1, <1>2, ReplyTyped DEF BuildDeployGetJob
<1> QED
  BY <1>1, <1>2, <1>3 DEF BuildDeployGetJob, tables, disk, docker, limits, history,
     Typed, TablesTyped, FilesTyped, ProcessTyped, CountersTyped

LEMMA BuildDeployIdleTyped ==
  ASSUME Typed, NEW c \in Clients, BuildDeployIdle(c) PROVE Typed'
<1>1. req' \in [Clients -> GoodRequests]
  BY ReplyTyped, AdvanceTyped DEF BuildDeployIdle, JobPcs, AppPcs, VerPcs
<1> QED
  BY <1>1 DEF BuildDeployIdle, tables, disk, docker, limits, history,
     Typed, TablesTyped, FilesTyped, ProcessTyped, CountersTyped

LEMMA BuildDeployInsertBuildTyped ==
  ASSUME Typed, NEW c \in Clients, BuildDeployInsertBuild(c) PROVE Typed'
<1>1. NewBuild(c) \in BuildRow
  BY RequestHolds DEF BuildDeployInsertBuild, NewBuild, BuildRow, Statuses, Typed, CountersTyped
<1>2. build' \in [BuildIds -> BuildRow] /\ nbuild' \in 0..MaxBuild
  BY <1>1, ReleaseAssumption DEF BuildDeployInsertBuild, ReleaseAssumption, BuildIds, Typed,
     TablesTyped
<1>3. nbuild + 1 \in BuildIds /\ now \in Versions
  BY ReleaseAssumption DEF BuildDeployInsertBuild, ReleaseAssumption, BuildIds, Typed,
     TablesTyped, CountersTyped
<1>4. [req[c] EXCEPT !.pc = "insertSecond", !.build = nbuild + 1, !.ver = now] \in GoodRequests
  BY <1>3, RequestValues DEF BuildDeployInsertBuild
<1>5. req' \in [Clients -> GoodRequests]
  BY <1>4, CallTyped DEF BuildDeployInsertBuild, Typed, ProcessTyped
<1> QED
  BY <1>1, <1>2, <1>3, <1>4, <1>5 DEF BuildDeployInsertBuild, disk, docker, limits, history,
     Typed, TablesTyped, FilesTyped, ProcessTyped, CountersTyped

LEMMA BuildDeployInsertDeployTyped ==
  ASSUME Typed, NEW c \in Clients, BuildDeployInsertDeploy(c) PROVE Typed'
<1>1. NewDeploy(c, req[c].ver) \in DeployRow
  BY RequestHolds DEF NewDeploy, DeployRow, Statuses
<1>2. ndeploy + 1 \in DeployIds
  BY ReleaseAssumption DEF BuildDeployInsertDeploy, ReleaseAssumption, DeployIds, Typed,
     TablesTyped
<1>3. deploy' \in [DeployIds -> DeployRow] /\ ndeploy' \in 0..MaxDeploy
  BY <1>1, <1>2 DEF BuildDeployInsertDeploy, DeployIds, Typed, TablesTyped
<1>4. req' \in [Clients -> GoodRequests]
  BY ReplyTyped DEF BuildDeployInsertDeploy
<1>5. NewRollout(c, "wait", req[c].ver) \in GoodRollouts
  BY RequestHolds DEF BuildDeployInsertDeploy, NewRollout, NoRollout, GoodRollouts, Rollout,
     JobPcs, AppPcs, VerPcs
<1>6. roll' \in [DeployIds -> GoodRollouts]
  BY <1>5 DEF BuildDeployInsertDeploy, Typed, ProcessTyped
<1>7. NewCompile(c, req[c].ver, ndeploy + 1) \in GoodCompiles
  BY <1>2, RequestHolds DEF BuildDeployInsertDeploy, NewCompile, NoCompile, GoodCompiles,
     Compile, JobPcs, VerPcs
<1>8. comp' \in [BuildIds -> GoodCompiles]
  BY <1>7 DEF BuildDeployInsertDeploy, Typed, ProcessTyped
<1> QED
  BY <1>1, <1>2, <1>3, <1>4, <1>5, <1>6, <1>7, <1>8 DEF BuildDeployInsertDeploy, disk, docker,
     limits, history,
     Typed, TablesTyped, FilesTyped, ProcessTyped, CountersTyped

LEMMA BuildDeployUndoTyped ==
  ASSUME Typed, NEW c \in Clients, BuildDeployUndo(c) PROVE Typed'
<1>1. req[c].build \in BuildIds
  BY RequestHolds DEF BuildDeployUndo
<1>2. FailedBuild(req[c].build) \in BuildRow
  BY <1>1 DEF FailedBuild, BuildRow, Statuses, Typed, TablesTyped
<1>3. build' \in [BuildIds -> BuildRow]
  BY <1>1, <1>2 DEF BuildDeployUndo, Typed, TablesTyped
<1>4. abandoned' \in [build : SUBSET BuildIds, deploy : SUBSET DeployIds]
  BY <1>1 DEF BuildDeployUndo, Typed, CountersTyped
<1>5. req' \in [Clients -> GoodRequests]
  BY ReplyTyped DEF BuildDeployUndo
<1>6. faults' \in 0..MaxFault
  BY ReleaseAssumption DEF BuildDeployUndo, ReleaseAssumption, Typed, CountersTyped
<1> QED
  BY <1>1, <1>2, <1>3, <1>4, <1>5, <1>6 DEF BuildDeployUndo, disk, docker,
     Typed, TablesTyped, FilesTyped, ProcessTyped, CountersTyped

LEMMA RequestFailsTyped ==
  ASSUME Typed, NEW c \in Clients, RequestFails(c) PROVE Typed'
<1>1. req' \in [Clients -> GoodRequests]
  BY ReplyTyped DEF RequestFails
<1>2. faults' \in 0..MaxFault
  BY ReleaseAssumption DEF RequestFails, ReleaseAssumption, Typed, CountersTyped
<1> QED
  BY <1>1, <1>2 DEF RequestFails, tables, disk, docker, history,
     Typed, TablesTyped, FilesTyped, ProcessTyped, CountersTyped

LEMMA CompileSyncTyped ==
  ASSUME Typed, NEW b \in BuildIds, CompileSync(b) PROVE Typed'
<1>1. PICK k \in Commits : /\ work' = [work EXCEPT ![comp[b].job] = k]
                          /\ comp' = [comp EXCEPT ![b].pc = "head", ![b].synced = k]
  BY DEF CompileSync
<1>2. work' \in [Jobs -> Commits \cup {None}]
  BY <1>1 DEF Typed, FilesTyped
<1>3. [comp[b] EXCEPT !.pc = "head", !.synced = k] \in GoodCompiles
  BY CompileValues DEF CompileSync
<1>4. comp' \in [BuildIds -> GoodCompiles]
  BY <1>1, <1>3, CompTyped DEF Typed, ProcessTyped
<1>5. touched' \in [comp : SUBSET BuildIds, roll : SUBSET DeployIds]
  BY TouchTreeTyped DEF CompileSync
<1> QED
  BY <1>1, <1>2, <1>3, <1>4, <1>5 DEF CompileSync, tables, docker, limits,
     Typed, TablesTyped, FilesTyped, ProcessTyped, CountersTyped

LEMMA CompileSyncFailsTyped ==
  ASSUME Typed, NEW b \in BuildIds, CompileSyncFails(b) PROVE Typed'
<1>1. work' \in [Jobs -> Commits \cup {None}]
  BY DEF CompileSyncFails, Typed, FilesTyped
<1>2. comp[b].pc # "none"
  BY DEF CompileSyncFails
<1>3. [comp[b] EXCEPT !.pc = "record"] \in GoodCompiles
  BY <1>2, CompileValues
<1>4. comp' \in [BuildIds -> GoodCompiles]
  BY <1>3, CompTyped DEF CompileSyncFails, Typed, ProcessTyped
<1>5. touched' \in [comp : SUBSET BuildIds, roll : SUBSET DeployIds]
  BY TouchTreeTyped DEF CompileSyncFails
<1> QED
  BY <1>1, <1>2, <1>3, <1>4, <1>5 DEF CompileSyncFails, tables, docker, limits,
     Typed, TablesTyped, FilesTyped, ProcessTyped, CountersTyped

LEMMA CompileHeadImageTyped ==
  ASSUME Typed, NEW b \in BuildIds, CompileHeadImage(b) PROVE Typed'
<1>1. comp[b].job \in Jobs /\ comp[b].ver \in Versions /\ work[comp[b].job] \in Commits \cup {None}
  BY CompileHolds DEF CompileHeadImage, Typed, FilesTyped
<1>2. [kind |-> "image", commit |-> work[comp[b].job]] \in Artifact
  BY <1>1 DEF Artifact, Labels
<1>3. art' \in [Jobs -> [Versions -> Artifact \cup {None}]]
  BY <1>1, <1>2 DEF CompileHeadImage, WriteArtifact, Typed, FilesTyped
<1>4. comp[b].pc # "none"
  BY DEF CompileHeadImage
<1>5. [comp[b] EXCEPT !.pc = "record", !.commit = work[comp[b].job],
                       !.made = work[comp[b].job], !.ok = TRUE] \in GoodCompiles
  BY <1>4, <1>1, CompileValues
<1>6. comp' \in [BuildIds -> GoodCompiles]
  BY <1>5, CompTyped DEF CompileHeadImage, Typed, ProcessTyped
<1> QED
  BY <1>1, <1>2, <1>3, <1>4, <1>5, <1>6 DEF CompileHeadImage, tables, docker, limits, history,
     Typed, TablesTyped, FilesTyped, ProcessTyped, CountersTyped

LEMMA CompileHeadArchiveTyped ==
  ASSUME Typed, NEW b \in BuildIds, CompileHeadArchive(b) PROVE Typed'
<1>1. comp[b].job \in Jobs /\ work[comp[b].job] \in Commits \cup {None}
  BY CompileHolds DEF CompileHeadArchive, Typed, FilesTyped
<1>2. comp[b].pc # "none"
  BY DEF CompileHeadArchive
<1>3. [comp[b] EXCEPT !.pc = "make", !.commit = work[comp[b].job]] \in GoodCompiles
  BY <1>2, <1>1, CompileValues
<1>4. comp' \in [BuildIds -> GoodCompiles]
  BY <1>3, CompTyped DEF CompileHeadArchive, Typed, ProcessTyped
<1> QED
  BY <1>1, <1>2, <1>3, <1>4 DEF CompileHeadArchive, tables, disk, docker, limits, history,
     Typed, TablesTyped, FilesTyped, ProcessTyped, CountersTyped

LEMMA CompileHeadFailsTyped ==
  ASSUME Typed, NEW b \in BuildIds, CompileHeadFails(b) PROVE Typed'
<1>1. comp[b].job \in Jobs /\ work[comp[b].job] \in Commits \cup {None}
  BY CompileHolds DEF CompileHeadFails, Typed, FilesTyped
<1>2. comp[b].pc # "none"
  BY DEF CompileHeadFails
<1>3. [comp[b] EXCEPT !.pc = "record", !.commit = work[comp[b].job]] \in GoodCompiles
  BY <1>2, <1>1, CompileValues
<1>4. comp' \in [BuildIds -> GoodCompiles]
  BY <1>3, CompTyped DEF CompileHeadFails, Typed, ProcessTyped
<1> QED
  BY <1>1, <1>2, <1>3, <1>4 DEF CompileHeadFails, tables, disk, docker, limits, history,
     Typed, TablesTyped, FilesTyped, ProcessTyped, CountersTyped

LEMMA CompileMakeTyped ==
  ASSUME Typed, NEW b \in BuildIds, CompileMake(b) PROVE Typed'
<1>1. comp[b].job \in Jobs /\ comp[b].ver \in Versions /\ work[comp[b].job] \in Commits \cup {None}
  BY CompileHolds DEF CompileMake, Typed, FilesTyped
<1>2. [kind |-> "archive", commit |-> work[comp[b].job]] \in Artifact
  BY <1>1 DEF Artifact, Labels
<1>3. art' \in [Jobs -> [Versions -> Artifact \cup {None}]]
  BY <1>1, <1>2 DEF CompileMake, WriteArtifact, Typed, FilesTyped
<1>4. comp[b].pc # "none"
  BY DEF CompileMake
<1>5. [comp[b] EXCEPT !.pc = "record", !.made = work[comp[b].job], !.ok = TRUE] \in GoodCompiles
  BY <1>4, <1>1, CompileValues
<1>6. comp' \in [BuildIds -> GoodCompiles]
  BY <1>5, CompTyped DEF CompileMake, Typed, ProcessTyped
<1> QED
  BY <1>1, <1>2, <1>3, <1>4, <1>5, <1>6 DEF CompileMake, tables, docker, limits, history,
     Typed, TablesTyped, FilesTyped, ProcessTyped, CountersTyped

LEMMA CompileMakeFailsTyped ==
  ASSUME Typed, NEW b \in BuildIds, CompileMakeFails(b) PROVE Typed'
<1>1. comp[b].job \in Jobs /\ comp[b].ver \in Versions /\ work[comp[b].job] \in Commits \cup {None}
  BY CompileHolds DEF CompileMakeFails, Typed, FilesTyped
<1>2. [kind |-> "archive", commit |-> work[comp[b].job]] \in Artifact
  BY <1>1 DEF Artifact, Labels
<1>3. art' \in [Jobs -> [Versions -> Artifact \cup {None}]]
  BY <1>1, <1>2 DEF CompileMakeFails, WriteArtifact, Typed, FilesTyped
<1>4. comp[b].pc # "none"
  BY DEF CompileMakeFails
<1>5. [comp[b] EXCEPT !.pc = "record"] \in GoodCompiles
  BY <1>4, CompileValues
<1>6. comp' \in [BuildIds -> GoodCompiles]
  BY <1>5, CompTyped DEF CompileMakeFails, Typed, ProcessTyped
<1> QED
  BY <1>1, <1>2, <1>3, <1>4, <1>5, <1>6 DEF CompileMakeFails, tables, docker, limits, history,
     Typed, TablesTyped, FilesTyped, ProcessTyped, CountersTyped

LEMMA CompileRecordTyped ==
  ASSUME Typed, Waits, NEW b \in BuildIds, CompileRecord(b) PROVE Typed'
<1>1. RecordedBuild(b) \in BuildRow
  BY CompileHolds DEF RecordedBuild, BuildRow, Statuses, Typed, TablesTyped
<1>2. build' \in [BuildIds -> BuildRow]
  BY <1>1 DEF CompileRecord, Typed, TablesTyped
<1>3. /\ comp' \in [BuildIds -> GoodCompiles] /\ roll' \in [DeployIds -> GoodRollouts]
      /\ touched' \in [comp : SUBSET BuildIds, roll : SUBSET DeployIds]
  BY AfterRecordTyped DEF CompileRecord
<1> QED
  BY <1>1, <1>2, <1>3 DEF CompileRecord, disk, docker, limits,
     Typed, TablesTyped, FilesTyped, ProcessTyped, CountersTyped

LEMMA CompileRecordLostTyped ==
  ASSUME Typed, Waits, NEW b \in BuildIds, CompileRecordLost(b) PROVE Typed'
<1>1. /\ comp' \in [BuildIds -> GoodCompiles] /\ roll' \in [DeployIds -> GoodRollouts]
      /\ touched' \in [comp : SUBSET BuildIds, roll : SUBSET DeployIds]
  BY AfterRecordTyped DEF CompileRecordLost
<1>2. abandoned' \in [build : SUBSET BuildIds, deploy : SUBSET DeployIds]
  BY DEF CompileRecordLost, Typed, CountersTyped
<1>3. faults' \in 0..MaxFault
  BY ReleaseAssumption DEF CompileRecordLost, ReleaseAssumption, Typed, CountersTyped
<1> QED
  BY <1>1, <1>2, <1>3 DEF CompileRecordLost, tables, disk, docker,
     Typed, TablesTyped, FilesTyped, ProcessTyped, CountersTyped

LEMMA RollBuildFailedTyped ==
  ASSUME Typed, Waits, NEW b \in BuildIds, RollBuildFailed(b) PROVE Typed'
<1>1. comp[b].dep \in DeployIds
  BY CompileHolds DEF RollBuildFailed
<1>2. /\ deploy' \in [DeployIds -> DeployRow] /\ faults' \in 0..MaxFault
      /\ abandoned' \in [build : SUBSET BuildIds, deploy : SUBSET DeployIds]
  BY <1>1, RecordDeployTyped DEF RollBuildFailed
<1>3. comp' \in [BuildIds -> GoodCompiles] /\ roll' \in [DeployIds -> GoodRollouts]
  BY EmptyValues DEF RollBuildFailed, Typed, ProcessTyped
<1> QED
  BY <1>1, <1>2, <1>3 DEF RollBuildFailed, disk, docker,
     Typed, TablesTyped, FilesTyped, ProcessTyped, CountersTyped

LEMMA RollArchiveTyped ==
  ASSUME Typed, NEW d \in DeployIds, RollArchive(d) PROVE Typed'
<1>1. roll[d].app \in Apps /\ roll[d].job \in Jobs /\ roll[d].ver \in Versions
  BY RolloutHolds DEF RollArchive
<1>2. art[roll[d].job][roll[d].ver].commit \in Commits \cup {None}
  BY <1>1 DEF RollArchive, Artifact, Typed, FilesTyped
<1>3. [ver |-> roll[d].ver, commit |-> art[roll[d].job][roll[d].ver].commit] \in Image
  BY <1>1, <1>2 DEF Image
<1>4. tag' \in [Apps -> Image \cup {None}]
      /\ touched' \in [comp : SUBSET BuildIds, roll : SUBSET DeployIds]
  BY <1>1, <1>3, TouchAppTyped DEF RollArchive, Tag, Typed, FilesTyped
<1>5. roll[d].pc # "none"
  BY DEF RollArchive
<1>6. [roll[d] EXCEPT !.pc = "up", !.got = art[roll[d].job][roll[d].ver].commit] \in GoodRollouts
  BY <1>5, <1>1, <1>2, RolloutValues
<1>7. roll' \in [DeployIds -> GoodRollouts]
  BY <1>6, RollTyped DEF RollArchive, Typed, ProcessTyped
<1> QED
  BY <1>1, <1>2, <1>3, <1>4, <1>5, <1>6, <1>7 DEF RollArchive, tables, disk, limits,
     Typed, TablesTyped, FilesTyped, ProcessTyped, CountersTyped

LEMMA RollCheckoutTyped ==
  ASSUME Typed, NEW d \in DeployIds, RollCheckout(d) PROVE Typed'
<1>1. roll[d].app \in Apps /\ roll[d].job \in Jobs /\ roll[d].ver \in Versions
  BY RolloutHolds DEF RollCheckout
<1>2. RecordedCommit(roll[d].job, roll[d].ver) \in Commits \cup {None}
  BY <1>1, RecordedCommitTyped
<1>3. work' \in [Jobs -> Commits \cup {None}]
  BY <1>1, <1>2 DEF RollCheckout, ImageTrees, Typed, FilesTyped
<1>4. touched' \in [comp : SUBSET BuildIds, roll : SUBSET DeployIds]
  BY TouchTreeTyped DEF RollCheckout, Typed, CountersTyped
<1>5. roll[d].pc # "none"
  BY DEF RollCheckout
<1>6. [roll[d] EXCEPT !.pc = "docker", !.want = RecordedCommit(roll[d].job,
   roll[d].ver)] \in GoodRollouts
  BY <1>5, <1>1, <1>2, RolloutValues
<1>7. roll' \in [DeployIds -> GoodRollouts]
  BY <1>6, RollTyped DEF RollCheckout, Typed, ProcessTyped
<1> QED
  BY <1>1, <1>2, <1>3, <1>4, <1>5, <1>6, <1>7 DEF RollCheckout, tables, docker, limits,
     Typed, TablesTyped, FilesTyped, ProcessTyped, CountersTyped

LEMMA RollCheckoutFailsTyped ==
  ASSUME Typed, NEW d \in DeployIds, RollCheckoutFails(d) PROVE Typed'
<1>1. roll[d].app \in Apps /\ roll[d].job \in Jobs /\ roll[d].ver \in Versions
  BY RolloutHolds DEF RollCheckoutFails
<1>2. work' \in [Jobs -> Commits \cup {None}]
  BY <1>1 DEF RollCheckoutFails, Typed, FilesTyped
<1>3. touched' \in [comp : SUBSET BuildIds, roll : SUBSET DeployIds]
  BY TouchTreeTyped DEF RollCheckoutFails
<1>4. roll[d].pc # "none"
  BY DEF RollCheckoutFails
<1>5. [roll[d] EXCEPT !.pc = "finish", !.ok = FALSE] \in GoodRollouts
  BY <1>4, <1>1, RolloutValues
<1>6. roll' \in [DeployIds -> GoodRollouts]
  BY <1>5, RollTyped DEF RollCheckoutFails, Typed, ProcessTyped
<1> QED
  BY <1>1, <1>2, <1>3, <1>4, <1>5, <1>6 DEF RollCheckoutFails, tables, docker, limits,
     Typed, TablesTyped, FilesTyped, ProcessTyped, CountersTyped

LEMMA RollDockerTyped ==
  ASSUME Typed, NEW d \in DeployIds, RollDocker(d) PROVE Typed'
<1>1. roll[d].app \in Apps /\ roll[d].job \in Jobs /\ roll[d].ver \in Versions
  BY RolloutHolds DEF RollDocker
<1>2. work[roll[d].job] \in Commits \cup {None}
  BY <1>1 DEF Typed, FilesTyped
<1>3. [ver |-> roll[d].ver, commit |-> work[roll[d].job]] \in Image
  BY <1>1, <1>2 DEF Image
<1>4. tag' \in [Apps -> Image \cup {None}]
      /\ touched' \in [comp : SUBSET BuildIds, roll : SUBSET DeployIds]
  BY <1>1, <1>3, TouchAppTyped DEF RollDocker, Tag, Typed, FilesTyped
<1>5. roll[d].pc # "none"
  BY DEF RollDocker
<1>6. [roll[d] EXCEPT !.pc = "up", !.got = work[roll[d].job]] \in GoodRollouts
  BY <1>5, <1>1, <1>2, RolloutValues
<1>7. roll' \in [DeployIds -> GoodRollouts]
  BY <1>6, RollTyped DEF RollDocker, Typed, ProcessTyped
<1> QED
  BY <1>1, <1>2, <1>3, <1>4, <1>5, <1>6, <1>7 DEF RollDocker, tables, disk, docker, limits,
     Typed, TablesTyped, FilesTyped, ProcessTyped, CountersTyped

LEMMA RollFailedEarlyTyped ==
  ASSUME Typed, NEW d \in DeployIds, RollFailedEarly(d) PROVE Typed'
<1>1. roll[d].pc # "none"
  BY DEF RollFailedEarly
<1>2. [roll[d] EXCEPT !.pc = "finish", !.ok = FALSE] \in GoodRollouts
  BY <1>1, RolloutValues
<1>3. roll' \in [DeployIds -> GoodRollouts]
  BY <1>2, RollTyped DEF RollFailedEarly, Typed, ProcessTyped
<1> QED
  BY <1>1, <1>2, <1>3 DEF RollFailedEarly, tables, disk, docker, limits, history,
     Typed, TablesTyped, FilesTyped, ProcessTyped, CountersTyped

LEMMA RollUpTyped ==
  ASSUME Typed, NEW d \in DeployIds, RollUp(d) PROVE Typed'
<1>1. roll[d].app \in Apps /\ roll[d].job \in Jobs /\ roll[d].ver \in Versions
  BY RolloutHolds DEF RollUp
<1>2. up' \in [Apps -> Image \cup {None}]
  BY <1>1 DEF RollUp, Typed, FilesTyped
<1>3. touched' \in [comp : SUBSET BuildIds, roll : SUBSET DeployIds]
  BY TouchAppTyped DEF RollUp
<1>4. roll[d].pc # "none"
  BY DEF RollUp
<1>5. [roll[d] EXCEPT !.pc = "finish", !.ok = TRUE] \in GoodRollouts
  BY <1>4, RolloutValues
<1>6. roll' \in [DeployIds -> GoodRollouts]
  BY <1>5, RollTyped DEF RollUp, Typed, ProcessTyped
<1> QED
  BY <1>1, <1>2, <1>3, <1>4, <1>5, <1>6 DEF RollUp, tables, disk, limits,
     Typed, TablesTyped, FilesTyped, ProcessTyped, CountersTyped

LEMMA RollUpFailsTyped ==
  ASSUME Typed, NEW d \in DeployIds, RollUpFails(d) PROVE Typed'
<1>1. roll[d].app \in Apps /\ roll[d].job \in Jobs /\ roll[d].ver \in Versions
  BY RolloutHolds DEF RollUpFails
<1>2. up' \in [Apps -> Image \cup {None}]
  BY <1>1 DEF RollUpFails, Typed, FilesTyped
<1>3. touched' \in [comp : SUBSET BuildIds, roll : SUBSET DeployIds]
  BY TouchAppTyped DEF RollUpFails
<1>4. roll[d].pc # "none"
  BY DEF RollUpFails
<1>5. [roll[d] EXCEPT !.pc = "finish", !.ok = FALSE] \in GoodRollouts
  BY <1>4, RolloutValues
<1>6. roll' \in [DeployIds -> GoodRollouts]
  BY <1>5, RollTyped DEF RollUpFails, Typed, ProcessTyped
<1> QED
  BY <1>1, <1>2, <1>3, <1>4, <1>5, <1>6 DEF RollUpFails, tables, disk, limits,
     Typed, TablesTyped, FilesTyped, ProcessTyped, CountersTyped

LEMMA RollSelfRecordTyped ==
  ASSUME Typed, NEW d \in DeployIds, RollSelfRecord(d) PROVE Typed'
<1>1. /\ deploy' \in [DeployIds -> DeployRow] /\ faults' \in 0..MaxFault
      /\ abandoned' \in [build : SUBSET BuildIds, deploy : SUBSET DeployIds]
  BY RecordDeployTyped DEF RollSelfRecord
<1>2. roll[d].pc # "none"
  BY DEF RollSelfRecord
<1>3. [roll[d] EXCEPT !.pc = "swap"] \in GoodRollouts
  BY <1>2, RolloutValues
<1>4. roll' \in [DeployIds -> GoodRollouts]
  BY <1>3, RollTyped DEF RollSelfRecord, Typed, ProcessTyped
<1> QED
  BY <1>1, <1>2, <1>3, <1>4 DEF RollSelfRecord, disk, docker,
     Typed, TablesTyped, FilesTyped, ProcessTyped, CountersTyped

LEMMA RollSwapTyped ==
  ASSUME Typed, NEW d \in DeployIds, RollSwap(d) PROVE Typed'
<1>1. up' \in [Apps -> Image \cup {None}]
  BY RolloutHolds DEF RollSwap, Typed, FilesTyped
<1>2. ReplacedTyped'
  BY ProcessReplacedTyped DEF RollSwap
<1> QED
  BY <1>1, <1>2 DEF RollSwap, ProcessReplaced, ReplacedTyped, disk,
     Typed, TablesTyped, FilesTyped, ProcessTyped, CountersTyped

LEMMA RollSwapFailsTyped ==
  ASSUME Typed, NEW d \in DeployIds, RollSwapFails(d) PROVE Typed'
<1>1. roll[d].pc # "none"
  BY DEF RollSwapFails
<1>2. [roll[d] EXCEPT !.pc = "finish", !.ok = FALSE] \in GoodRollouts
  BY <1>1, RolloutValues
<1>3. roll' \in [DeployIds -> GoodRollouts]
  BY <1>2, RollTyped DEF RollSwapFails, Typed, ProcessTyped
<1> QED
  BY <1>1, <1>2, <1>3 DEF RollSwapFails, tables, disk, docker, limits, history,
     Typed, TablesTyped, FilesTyped, ProcessTyped, CountersTyped

LEMMA RollFinishTyped ==
  ASSUME Typed, NEW d \in DeployIds, RollFinish(d) PROVE Typed'
<1>1. /\ deploy' \in [DeployIds -> DeployRow] /\ faults' \in 0..MaxFault
      /\ abandoned' \in [build : SUBSET BuildIds, deploy : SUBSET DeployIds]
  BY RecordDeployTyped DEF RollFinish
<1>2. roll' \in [DeployIds -> GoodRollouts]
  BY EmptyValues DEF RollFinish, Typed, ProcessTyped
<1>3. touched' \in [comp : SUBSET BuildIds, roll : SUBSET DeployIds]
  BY DEF RollFinish, Typed, CountersTyped
<1> QED
  BY <1>1, <1>2, <1>3 DEF RollFinish, disk, docker,
     Typed, TablesTyped, FilesTyped, ProcessTyped, CountersTyped

LEMMA TickTyped ==
  ASSUME Typed, Tick PROVE Typed'
<1>1. now' \in Versions
  BY ReleaseAssumption DEF Tick, ReleaseAssumption, Versions, Typed, CountersTyped
<1> QED
  BY <1>1 DEF Tick, tables, disk, docker, process, history,
     Typed, TablesTyped, FilesTyped, ProcessTyped, CountersTyped

LEMMA CrashTyped ==
  ASSUME Typed, Crash PROVE Typed'
<1>1. ReplacedTyped'
  BY ProcessReplacedTyped DEF Crash
<1>2. restarts' \in 0..MaxRestart
  BY ReleaseAssumption DEF Crash, ReleaseAssumption, Typed, CountersTyped
<1> QED
  BY <1>1, <1>2 DEF Crash, ProcessReplaced, ReplacedTyped, disk, docker,
     Typed, TablesTyped, FilesTyped, ProcessTyped, CountersTyped

-----------------------------------------------------------------------------
(* Typed initially, and over every step. *)

LEMMA InitTyped == Init => Typed
<1> SUFFICES ASSUME Init PROVE Typed
  OBVIOUS
<1>1. TablesTyped
  BY EmptyValues, SeededLabelTyped, ReleaseAssumption
  DEF Init, TablesTyped, ReleaseAssumption
<1>2. FilesTyped
  BY DEF Init, FilesTyped
<1>3. ProcessTyped
  BY EmptyValues DEF Init, ProcessTyped
<1>4. CountersTyped
  BY ReleaseAssumption DEF Init, CountersTyped, ReleaseAssumption, Versions
<1> QED
  BY <1>1, <1>2, <1>3, <1>4 DEF Typed

LEMMA NextTyped == Typed /\ Waits /\ [Next]_vars => Typed'
<1> SUFFICES ASSUME Typed, Waits, [Next]_vars PROVE Typed'
  OBVIOUS
<1>1. ASSUME NEW c \in Clients, ScmStep(c) PROVE Typed'
  BY <1>1, CreateJobTyped, UpdateJobTyped, DeleteJobTyped, CreateBuildTyped,
           DeleteJobInUseTyped, DeleteJobUnusedTyped, DeleteJobBuildsTyped, DeleteJobRowTyped,
           DeleteJobWorkTyped, DeleteJobArtifactsTyped, BuildIsRunningTyped, BuildIsIdleTyped,
           InsertBuildTyped
  DEF ScmStep
<1>2. ASSUME NEW c \in Clients, DeployStep(c) PROVE Typed'
  BY <1>2, CreateAppTyped, UpdateAppTyped, DeleteAppTyped, CreateDeployTyped, InsertAppTyped,
           UpdateAppJobTyped, UpdateAppRowTyped, DeleteAppRuntimeTyped, DeleteAppDeploysTyped,
           DeleteAppRowTyped, DeployIsRunningTyped, DeployIsIdleTyped, PickVersionTyped,
           DeployGetJobTyped, InsertDeployTyped, BuildDeployGetJobTyped, BuildDeployIdleTyped,
           BuildDeployInsertBuildTyped, BuildDeployInsertDeployTyped, BuildDeployUndoTyped,
           RequestFailsTyped
  DEF DeployStep
<1>3. ASSUME NEW b \in BuildIds, CompileStep(b) PROVE Typed'
  BY <1>3, CompileSyncTyped, CompileSyncFailsTyped, CompileHeadImageTyped,
           CompileHeadArchiveTyped, CompileHeadFailsTyped, CompileMakeTyped,
           CompileMakeFailsTyped, CompileRecordTyped, CompileRecordLostTyped
  DEF CompileStep
<1>4. ASSUME NEW b \in BuildIds, RollBuildFailed(b) PROVE Typed'
  BY <1>4, RollBuildFailedTyped
<1>5. ASSUME NEW d \in DeployIds, RollStep(d) PROVE Typed'
  BY <1>5, RollArchiveTyped, RollCheckoutTyped, RollCheckoutFailsTyped, RollDockerTyped,
           RollFailedEarlyTyped, RollUpTyped, RollUpFailsTyped, RollSelfRecordTyped,
           RollSwapTyped, RollSwapFailsTyped, RollFinishTyped
  DEF RollStep
<1>6. CASE Tick \/ Crash
  BY <1>6, TickTyped, CrashTyped
<1>7. CASE UNCHANGED vars
  BY <1>7 DEF vars, tables, disk, docker, process, limits, history,
     Typed, TablesTyped, FilesTyped, ProcessTyped, CountersTyped
<1> QED
  BY <1>1, <1>2, <1>3, <1>4, <1>5, <1>6, <1>7 DEF Next

-----------------------------------------------------------------------------
(* The second part: the invariant. *)

\* Handlers that have found no running build, no running deploy, and not inserted
\* theirs yet.
BuildClaimPcs == {"insertBuild", "insertBoth"}
DeployClaimPcs == {"pickVersion", "getJob", "insertDeploy", "createBuildDeploy", "idleBuild",
                   "insertBoth", "insertSecond"}

\* What such a handler found is still true of the rows of its own client.
Claims ==
    /\ \A c \in Clients, b \in BuildIds :
         /\ req[c].pc \in BuildClaimPcs
         /\ build[b].st = "running" /\ build[b].job = req[c].job
         => build[b].by # c
    /\ \A c \in Clients, d \in DeployIds :
         /\ req[c].pc \in DeployClaimPcs
         /\ deploy[d].st = "running" /\ deploy[d].app = req[c].app
         => deploy[d].by # c

Inv == Typed /\ Waits /\ Claims /\ OneRunPerClient /\ RunningHasOwner

-----------------------------------------------------------------------------
(* Kinds of steps.  The invariants other than Typed are proved once for    *)
(* each kind.                                                              *)

\* No row starts to run, and no history is forgotten.
Shrinks ==
    /\ \A b \in BuildIds : build'[b].st = "running" =>
         build[b].st = "running" /\ build'[b].job = build[b].job /\ build'[b].by = build[b].by
    /\ \A d \in DeployIds : deploy'[d].st = "running" =>
         deploy[d].st = "running" /\ deploy'[d].app = deploy[d].app /\ deploy'[d].by = deploy[d].by
    /\ abandoned.build \subseteq abandoned'.build /\ abandoned.deploy \subseteq abandoned'.deploy

\* A handler advances and inserts no row.
RequestMoves(c) ==
    /\ Shrinks
    /\ UNCHANGED <<nbuild, ndeploy, comp, roll>>
    /\ \A x \in Clients : x # c => req'[x] = req[x]
    /\ req[c].pc # "insertSecond" /\ req'[c].pc # "insertSecond"
    /\ req'[c].pc \in BuildClaimPcs => RunningBuilds(req'[c].job) = {}
    /\ req'[c].pc \in DeployClaimPcs =>
         \/ RunningDeploys(req'[c].app) = {}
         \/ req[c].pc \in DeployClaimPcs /\ req'[c].app = req[c].app

\* A compile goroutine advances and does not end.
CompileMoves(b) ==
    /\ UNCHANGED <<build, deploy, nbuild, ndeploy, abandoned, req, roll>>
    /\ \A x \in BuildIds : x # b => comp'[x] = comp[x]
    /\ comp[b].pc \notin {"none", "failDeploy"} /\ comp'[b].pc \notin {"none", "failDeploy"}
    /\ comp'[b].dep = comp[b].dep

\* A rollout goroutine advances or ends.
RollMoves(d) ==
    /\ Shrinks
    /\ UNCHANGED <<nbuild, ndeploy, req, comp>>
    /\ \A x \in DeployIds : x # d => roll'[x] = roll[x]
    /\ roll[d].pc \notin {"none", "wait"} /\ roll'[d].pc # "wait"
    /\ roll'[d].pc = "none" => deploy'[d].st # "running" \/ d \in abandoned'.deploy

LEMMA NoRowsShrink == UNCHANGED <<build, deploy, abandoned>> => Shrinks
  BY DEF Shrinks

LEMMA ReplyMoves ==
  ASSUME Typed, NEW c \in Clients, Reply(c)
  PROVE  req'[c].pc = "idle" /\ \A x \in Clients : x # c => req'[x] = req[x]
  BY DEF Reply, NoRequest, Typed, ProcessTyped

LEMMA AdvanceMoves ==
  ASSUME Typed, NEW c \in Clients, NEW pc, Advance(c, pc)
  PROVE  /\ req'[c].pc = pc /\ req'[c].job = req[c].job /\ req'[c].app = req[c].app
         /\ \A x \in Clients : x # c => req'[x] = req[x]
<1>1. req[c] \in Request
  BY RequestHolds
<1>2. req'[c] = [req[c] EXCEPT !.pc = pc]
  BY DEF Advance, Typed, ProcessTyped
<1> QED
  BY <1>1, <1>2 DEF Advance, Typed, ProcessTyped, Request

LEMMA RecordDeployMoves ==
  ASSUME Typed, NEW d \in DeployIds, NEW st \in {"ok", "fail"}, RecordDeploy(d, st),
         UNCHANGED build
  PROVE  /\ Shrinks
         /\ deploy'[d].st # "running" \/ d \in abandoned'.deploy
<1>1. deploy \in [DeployIds -> DeployRow]
      /\ abandoned \in [build : SUBSET BuildIds, deploy : SUBSET DeployIds]
  BY DEF Typed, TablesTyped, CountersTyped
<1>2. CASE deploy' = [deploy EXCEPT ![d] = RecordedDeploy(d, st)] /\ UNCHANGED <<faults,
   abandoned>>
  <2>1. RecordedDeploy(d, st).st # "running"
    BY <1>1 DEF RecordedDeploy, DeployRow
  <2> QED
    BY <1>1, <1>2, <2>1 DEF Shrinks
<1>3. CASE /\ faults < MaxFault /\ faults' = faults + 1 /\ UNCHANGED deploy
           /\ abandoned' = [abandoned EXCEPT !.deploy = @ \cup {d}]
  BY <1>1, <1>3 DEF Shrinks
<1> QED
  BY <1>2, <1>3 DEF RecordDeploy

LEMMA CreateJobMoves ==
  ASSUME Typed, NEW c \in Clients, NEW j \in Jobs, NEW l \in CallLabels, CreateJob(c, j,
         l) PROVE RequestMoves(c)
<1>1. Shrinks
  BY NoRowsShrink DEF CreateJob, history
<1> QED
  BY <1>1 DEF CreateJob, process, RequestMoves, BuildClaimPcs, DeployClaimPcs, Calling, NoRequest,
     Typed, ProcessTyped

LEMMA UpdateJobMoves ==
  ASSUME Typed, NEW c \in Clients, NEW j \in Jobs, NEW l \in CallLabels, UpdateJob(c, j,
         l) PROVE RequestMoves(c)
<1>1. Shrinks
  BY NoRowsShrink DEF UpdateJob, history
<1> QED
  BY <1>1 DEF UpdateJob, process, RequestMoves, BuildClaimPcs, DeployClaimPcs, Calling, NoRequest,
     Typed, ProcessTyped

LEMMA DeleteJobMoves ==
  ASSUME Typed, NEW c \in Clients, NEW j \in Jobs, DeleteJob(c, j) PROVE RequestMoves(c)
<1>1. Shrinks
  BY NoRowsShrink DEF DeleteJob, tables, history
<1> QED
  BY <1>1 DEF DeleteJob, tables, RequestMoves, BuildClaimPcs, DeployClaimPcs, Calling, NoRequest,
     Typed, ProcessTyped

LEMMA DeleteJobInUseMoves ==
  ASSUME Typed, NEW c \in Clients, DeleteJobInUse(c) PROVE RequestMoves(c)
<1>1. Shrinks
  BY NoRowsShrink DEF DeleteJobInUse, tables, history
<1> QED
  BY <1>1, ReplyMoves DEF DeleteJobInUse, tables, RequestMoves, BuildClaimPcs, DeployClaimPcs

LEMMA DeleteJobUnusedMoves ==
  ASSUME Typed, NEW c \in Clients, DeleteJobUnused(c) PROVE RequestMoves(c)
<1>1. Shrinks
  BY NoRowsShrink DEF DeleteJobUnused, tables, history
<1> QED
  BY <1>1, AdvanceMoves DEF DeleteJobUnused, tables, RequestMoves, BuildClaimPcs, DeployClaimPcs

LEMMA DeleteJobBuildsMoves ==
  ASSUME Typed, NEW c \in Clients, DeleteJobBuilds(c) PROVE RequestMoves(c)
<1>1. Shrinks
  BY DEF DeleteJobBuilds, Shrinks, history, NoBuild, Typed, TablesTyped
<1> QED
  BY <1>1, AdvanceMoves DEF DeleteJobBuilds, RequestMoves, BuildClaimPcs, DeployClaimPcs

LEMMA DeleteJobRowMoves ==
  ASSUME Typed, NEW c \in Clients, DeleteJobRow(c) PROVE RequestMoves(c)
<1>1. Shrinks
  BY NoRowsShrink DEF DeleteJobRow, history
<1> QED
  BY <1>1, AdvanceMoves DEF DeleteJobRow, RequestMoves, BuildClaimPcs, DeployClaimPcs

LEMMA DeleteJobWorkMoves ==
  ASSUME Typed, NEW c \in Clients, DeleteJobWork(c) PROVE RequestMoves(c)
<1>1. Shrinks
  BY NoRowsShrink DEF DeleteJobWork, tables
<1> QED
  BY <1>1, AdvanceMoves DEF DeleteJobWork, tables, RequestMoves, BuildClaimPcs, DeployClaimPcs

LEMMA DeleteJobArtifactsMoves ==
  ASSUME Typed, NEW c \in Clients, DeleteJobArtifacts(c) PROVE RequestMoves(c)
<1>1. Shrinks
  BY NoRowsShrink DEF DeleteJobArtifacts, tables, history
<1> QED
  BY <1>1, ReplyMoves DEF DeleteJobArtifacts, tables, RequestMoves, BuildClaimPcs, DeployClaimPcs

LEMMA CreateBuildMoves ==
  ASSUME Typed, NEW c \in Clients, NEW j \in Jobs, CreateBuild(c, j) PROVE RequestMoves(c)
<1>1. Shrinks
  BY NoRowsShrink DEF CreateBuild, tables, history
<1> QED
  BY <1>1 DEF CreateBuild, tables, RequestMoves, BuildClaimPcs, DeployClaimPcs, Calling,
     NoRequest,
     Typed, ProcessTyped

LEMMA BuildIsRunningMoves ==
  ASSUME Typed, NEW c \in Clients, BuildIsRunning(c) PROVE RequestMoves(c)
<1>1. Shrinks
  BY NoRowsShrink DEF BuildIsRunning, tables, history
<1> QED
  BY <1>1, ReplyMoves DEF BuildIsRunning, tables, RequestMoves, BuildClaimPcs, DeployClaimPcs

LEMMA BuildIsIdleMoves ==
  ASSUME Typed, NEW c \in Clients, BuildIsIdle(c) PROVE RequestMoves(c)
<1>1. Shrinks
  BY NoRowsShrink DEF BuildIsIdle, tables, history
<1> QED
  BY <1>1, AdvanceMoves DEF BuildIsIdle, tables, RequestMoves, BuildClaimPcs, DeployClaimPcs

LEMMA CreateAppMoves ==
  ASSUME Typed, NEW c \in Clients, NEW a \in Apps, NEW j \in Jobs, CreateApp(c, a,
         j) PROVE RequestMoves(c)
<1>1. Shrinks
  BY NoRowsShrink DEF CreateApp, tables, history
<1> QED
  BY <1>1 DEF CreateApp, tables, RequestMoves, BuildClaimPcs, DeployClaimPcs, Calling, NoRequest,
     Typed, ProcessTyped

LEMMA InsertAppMoves ==
  ASSUME Typed, NEW c \in Clients, InsertApp(c) PROVE RequestMoves(c)
<1>1. Shrinks
  BY NoRowsShrink DEF InsertApp, history
<1> QED
  BY <1>1, ReplyMoves DEF InsertApp, RequestMoves, BuildClaimPcs, DeployClaimPcs

LEMMA UpdateAppMoves ==
  ASSUME Typed, NEW c \in Clients, NEW a \in Apps, NEW j \in Jobs, UpdateApp(c, a,
         j) PROVE RequestMoves(c)
<1>1. Shrinks
  BY NoRowsShrink DEF UpdateApp, tables, history
<1> QED
  BY <1>1 DEF UpdateApp, tables, RequestMoves, BuildClaimPcs, DeployClaimPcs, Calling, NoRequest,
     Typed, ProcessTyped

LEMMA UpdateAppJobMoves ==
  ASSUME Typed, NEW c \in Clients, UpdateAppJob(c) PROVE RequestMoves(c)
<1>1. Shrinks
  BY NoRowsShrink DEF UpdateAppJob, tables, history
<1> QED
  BY <1>1, ReplyMoves, AdvanceMoves DEF UpdateAppJob, tables, RequestMoves, BuildClaimPcs,
     DeployClaimPcs

LEMMA UpdateAppRowMoves ==
  ASSUME Typed, NEW c \in Clients, UpdateAppRow(c) PROVE RequestMoves(c)
<1>1. Shrinks
  BY NoRowsShrink DEF UpdateAppRow, history
<1> QED
  BY <1>1, ReplyMoves DEF UpdateAppRow, RequestMoves, BuildClaimPcs, DeployClaimPcs

LEMMA DeleteAppMoves ==
  ASSUME Typed, NEW c \in Clients, NEW a \in Apps, DeleteApp(c, a) PROVE RequestMoves(c)
<1>1. Shrinks
  BY NoRowsShrink DEF DeleteApp, tables, history
<1> QED
  BY <1>1 DEF DeleteApp, tables, RequestMoves, BuildClaimPcs, DeployClaimPcs, Calling, NoRequest,
     Typed, ProcessTyped

LEMMA DeleteAppRuntimeMoves ==
  ASSUME Typed, NEW c \in Clients, DeleteAppRuntime(c) PROVE RequestMoves(c)
<1>1. Shrinks
  BY NoRowsShrink DEF DeleteAppRuntime, tables
<1> QED
  BY <1>1, AdvanceMoves DEF DeleteAppRuntime, tables, RequestMoves, BuildClaimPcs, DeployClaimPcs

LEMMA DeleteAppDeploysMoves ==
  ASSUME Typed, NEW c \in Clients, DeleteAppDeploys(c) PROVE RequestMoves(c)
<1>1. Shrinks
  BY DEF DeleteAppDeploys, Shrinks, history, NoDeploy, Typed, TablesTyped
<1> QED
  BY <1>1, AdvanceMoves DEF DeleteAppDeploys, RequestMoves, BuildClaimPcs, DeployClaimPcs

LEMMA DeleteAppRowMoves ==
  ASSUME Typed, NEW c \in Clients, DeleteAppRow(c) PROVE RequestMoves(c)
<1>1. Shrinks
  BY NoRowsShrink DEF DeleteAppRow, history
<1> QED
  BY <1>1, ReplyMoves DEF DeleteAppRow, RequestMoves, BuildClaimPcs, DeployClaimPcs

LEMMA CreateDeployMoves ==
  ASSUME Typed, NEW c \in Clients, NEW a \in Apps, CreateDeploy(c, a) PROVE RequestMoves(c)
<1>1. Shrinks
  BY NoRowsShrink DEF CreateDeploy, tables, history
<1> QED
  BY <1>1 DEF CreateDeploy, tables, RequestMoves, BuildClaimPcs, DeployClaimPcs, Calling,
     NoRequest,
     Typed, ProcessTyped

LEMMA DeployIsRunningMoves ==
  ASSUME Typed, NEW c \in Clients, DeployIsRunning(c) PROVE RequestMoves(c)
<1>1. Shrinks
  BY NoRowsShrink DEF DeployIsRunning, tables, history
<1> QED
  BY <1>1, ReplyMoves DEF DeployIsRunning, tables, RequestMoves, BuildClaimPcs, DeployClaimPcs

LEMMA DeployIsIdleMoves ==
  ASSUME Typed, NEW c \in Clients, DeployIsIdle(c) PROVE RequestMoves(c)
<1>1. Shrinks
  BY NoRowsShrink DEF DeployIsIdle, tables, history
<1> QED
  BY <1>1, AdvanceMoves DEF DeployIsIdle, tables, RequestMoves, BuildClaimPcs, DeployClaimPcs

LEMMA PickVersionMoves ==
  ASSUME Typed, NEW c \in Clients, PickVersion(c) PROVE RequestMoves(c)
<1>1. Shrinks
  BY NoRowsShrink DEF PickVersion, tables, history
<1>2. req[c] \in Request
  BY RequestHolds
<1>3. CASE Reply(c)
  BY <1>1, <1>3, ReplyMoves DEF PickVersion, tables, RequestMoves, BuildClaimPcs, DeployClaimPcs
<1>4. CASE ~Reply(c)
  <2>1. /\ req'[c].pc = "getJob" /\ req'[c].app = req[c].app
        /\ \A x \in Clients : x # c => req'[x] = req[x]
    BY <1>2, <1>4 DEF PickVersion, Request, Typed, ProcessTyped
  <2> QED
    BY <1>1, <2>1 DEF PickVersion, tables, RequestMoves, BuildClaimPcs, DeployClaimPcs
<1> QED
  BY <1>3, <1>4

LEMMA DeployGetJobMoves ==
  ASSUME Typed, NEW c \in Clients, DeployGetJob(c) PROVE RequestMoves(c)
<1>1. Shrinks
  BY NoRowsShrink DEF DeployGetJob, tables, history
<1>2. req[c] \in Request
  BY RequestHolds
<1>3. CASE Reply(c)
  BY <1>1, <1>3, ReplyMoves DEF DeployGetJob, tables, RequestMoves, BuildClaimPcs, DeployClaimPcs
<1>4. CASE ~Reply(c)
  <2>1. /\ req'[c].pc = "insertDeploy" /\ req'[c].app = req[c].app
        /\ \A x \in Clients : x # c => req'[x] = req[x]
    BY <1>2, <1>4 DEF DeployGetJob, Request, Typed, ProcessTyped
  <2> QED
    BY <1>1, <2>1 DEF DeployGetJob, tables, RequestMoves, BuildClaimPcs, DeployClaimPcs
<1> QED
  BY <1>3, <1>4

LEMMA BuildDeployGetJobMoves ==
  ASSUME Typed, NEW c \in Clients, BuildDeployGetJob(c) PROVE RequestMoves(c)
<1>1. Shrinks
  BY NoRowsShrink DEF BuildDeployGetJob, tables, history
<1>2. req[c] \in Request
  BY RequestHolds
<1>3. CASE Reply(c)
  BY <1>1, <1>3, ReplyMoves DEF BuildDeployGetJob, tables, RequestMoves, BuildClaimPcs,
     DeployClaimPcs
<1>4. CASE ~Reply(c)
  <2>1. /\ req'[c].pc = "idleBuild" /\ req'[c].app = req[c].app
        /\ \A x \in Clients : x # c => req'[x] = req[x]
    BY <1>2, <1>4 DEF BuildDeployGetJob, Request, Typed, ProcessTyped
  <2> QED
    BY <1>1, <2>1 DEF BuildDeployGetJob, tables, RequestMoves, BuildClaimPcs, DeployClaimPcs
<1> QED
  BY <1>3, <1>4

LEMMA BuildDeployIdleMoves ==
  ASSUME Typed, NEW c \in Clients, BuildDeployIdle(c) PROVE RequestMoves(c)
<1>1. Shrinks
  BY NoRowsShrink DEF BuildDeployIdle, tables, history
<1> QED
  BY <1>1, ReplyMoves, AdvanceMoves DEF BuildDeployIdle, tables, RequestMoves, BuildClaimPcs,
     DeployClaimPcs

LEMMA RequestFailsMoves ==
  ASSUME Typed, NEW c \in Clients, RequestFails(c) PROVE RequestMoves(c)
<1>1. Shrinks
  BY NoRowsShrink DEF RequestFails, tables, history
<1> QED
  BY <1>1, ReplyMoves DEF RequestFails, tables, RequestMoves, BuildClaimPcs, DeployClaimPcs

LEMMA CompileSyncMoves ==
  ASSUME Typed, NEW b \in BuildIds, CompileSync(b) PROVE CompileMoves(b)
<1>1. comp[b] \in Compile
  BY CompileHolds
<1> QED
  BY <1>1 DEF CompileSync, tables, CompileMoves, Compile, Typed, ProcessTyped

LEMMA CompileSyncFailsMoves ==
  ASSUME Typed, NEW b \in BuildIds, CompileSyncFails(b) PROVE CompileMoves(b)
<1>1. comp[b] \in Compile
  BY CompileHolds
<1> QED
  BY <1>1 DEF CompileSyncFails, tables, CompileMoves, Compile, Typed, ProcessTyped

LEMMA CompileHeadImageMoves ==
  ASSUME Typed, NEW b \in BuildIds, CompileHeadImage(b) PROVE CompileMoves(b)
<1>1. comp[b] \in Compile
  BY CompileHolds
<1> QED
  BY <1>1 DEF CompileHeadImage, tables, history, CompileMoves, Compile, Typed, ProcessTyped

LEMMA CompileHeadArchiveMoves ==
  ASSUME Typed, NEW b \in BuildIds, CompileHeadArchive(b) PROVE CompileMoves(b)
<1>1. comp[b] \in Compile
  BY CompileHolds
<1> QED
  BY <1>1 DEF CompileHeadArchive, tables, history, CompileMoves, Compile, Typed, ProcessTyped

LEMMA CompileHeadFailsMoves ==
  ASSUME Typed, NEW b \in BuildIds, CompileHeadFails(b) PROVE CompileMoves(b)
<1>1. comp[b] \in Compile
  BY CompileHolds
<1> QED
  BY <1>1 DEF CompileHeadFails, tables, history, CompileMoves, Compile, Typed, ProcessTyped

LEMMA CompileMakeMoves ==
  ASSUME Typed, NEW b \in BuildIds, CompileMake(b) PROVE CompileMoves(b)
<1>1. comp[b] \in Compile
  BY CompileHolds
<1> QED
  BY <1>1 DEF CompileMake, tables, history, CompileMoves, Compile, Typed, ProcessTyped

LEMMA CompileMakeFailsMoves ==
  ASSUME Typed, NEW b \in BuildIds, CompileMakeFails(b) PROVE CompileMoves(b)
<1>1. comp[b] \in Compile
  BY CompileHolds
<1> QED
  BY <1>1 DEF CompileMakeFails, tables, history, CompileMoves, Compile, Typed, ProcessTyped

LEMMA RollArchiveMoves ==
  ASSUME Typed, NEW d \in DeployIds, RollArchive(d) PROVE RollMoves(d)
<1>1. Shrinks
  BY NoRowsShrink DEF RollArchive, tables
<1>2. roll[d] \in Rollout
  BY RolloutHolds
<1> QED
  BY <1>1, <1>2 DEF RollArchive, tables, RollMoves, Rollout, NoRollout, Typed, ProcessTyped

LEMMA RollCheckoutMoves ==
  ASSUME Typed, NEW d \in DeployIds, RollCheckout(d) PROVE RollMoves(d)
<1>1. Shrinks
  BY NoRowsShrink DEF RollCheckout, tables
<1>2. roll[d] \in Rollout
  BY RolloutHolds
<1> QED
  BY <1>1, <1>2 DEF RollCheckout, tables, RollMoves, Rollout, NoRollout, Typed, ProcessTyped

LEMMA RollCheckoutFailsMoves ==
  ASSUME Typed, NEW d \in DeployIds, RollCheckoutFails(d) PROVE RollMoves(d)
<1>1. Shrinks
  BY NoRowsShrink DEF RollCheckoutFails, tables
<1>2. roll[d] \in Rollout
  BY RolloutHolds
<1> QED
  BY <1>1, <1>2 DEF RollCheckoutFails, tables, RollMoves, Rollout, NoRollout, Typed, ProcessTyped

LEMMA RollDockerMoves ==
  ASSUME Typed, NEW d \in DeployIds, RollDocker(d) PROVE RollMoves(d)
<1>1. Shrinks
  BY NoRowsShrink DEF RollDocker, tables
<1>2. roll[d] \in Rollout
  BY RolloutHolds
<1> QED
  BY <1>1, <1>2 DEF RollDocker, tables, RollMoves, Rollout, NoRollout, Typed, ProcessTyped

LEMMA RollFailedEarlyMoves ==
  ASSUME Typed, NEW d \in DeployIds, RollFailedEarly(d) PROVE RollMoves(d)
<1>1. Shrinks
  BY NoRowsShrink DEF RollFailedEarly, tables, history
<1>2. roll[d] \in Rollout
  BY RolloutHolds
<1> QED
  BY <1>1, <1>2 DEF RollFailedEarly, tables, RollMoves, Rollout, NoRollout, Typed, ProcessTyped

LEMMA RollUpMoves ==
  ASSUME Typed, NEW d \in DeployIds, RollUp(d) PROVE RollMoves(d)
<1>1. Shrinks
  BY NoRowsShrink DEF RollUp, tables
<1>2. roll[d] \in Rollout
  BY RolloutHolds
<1> QED
  BY <1>1, <1>2 DEF RollUp, tables, RollMoves, Rollout, NoRollout, Typed, ProcessTyped

LEMMA RollUpFailsMoves ==
  ASSUME Typed, NEW d \in DeployIds, RollUpFails(d) PROVE RollMoves(d)
<1>1. Shrinks
  BY NoRowsShrink DEF RollUpFails, tables
<1>2. roll[d] \in Rollout
  BY RolloutHolds
<1> QED
  BY <1>1, <1>2 DEF RollUpFails, tables, RollMoves, Rollout, NoRollout, Typed, ProcessTyped

LEMMA RollSelfRecordMoves ==
  ASSUME Typed, NEW d \in DeployIds, RollSelfRecord(d) PROVE RollMoves(d)
<1>1. Shrinks /\ (deploy'[d].st # "running" \/ d \in abandoned'.deploy)
  BY RecordDeployMoves DEF RollSelfRecord
<1>2. roll[d] \in Rollout
  BY RolloutHolds
<1> QED
  BY <1>1, <1>2 DEF RollSelfRecord, RollMoves, Rollout, NoRollout, Typed, ProcessTyped

LEMMA RollSwapFailsMoves ==
  ASSUME Typed, NEW d \in DeployIds, RollSwapFails(d) PROVE RollMoves(d)
<1>1. Shrinks
  BY NoRowsShrink DEF RollSwapFails, tables, history
<1>2. roll[d] \in Rollout
  BY RolloutHolds
<1> QED
  BY <1>1, <1>2 DEF RollSwapFails, tables, RollMoves, Rollout, NoRollout, Typed, ProcessTyped

LEMMA RollFinishMoves ==
  ASSUME Typed, NEW d \in DeployIds, RollFinish(d) PROVE RollMoves(d)
<1>1. Shrinks /\ (deploy'[d].st # "running" \/ d \in abandoned'.deploy)
  BY RecordDeployMoves DEF RollFinish
<1>2. roll[d] \in Rollout
  BY RolloutHolds
<1> QED
  BY <1>1, <1>2 DEF RollFinish, RollMoves, Rollout, NoRollout, Typed, ProcessTyped

-----------------------------------------------------------------------------
(* What each kind of step keeps. *)

Rest == Waits /\ Claims /\ OneRunPerClient /\ RunningHasOwner

LEMMA ShrinksOneRun == OneRunPerClient /\ Shrinks => OneRunPerClient'
  BY DEF OneRunPerClient, Shrinks

LEMMA RequestMovesRest ==
  ASSUME Typed, Rest, NEW c \in Clients, RequestMoves(c) PROVE Rest'
<1>1. Waits'
  BY DEF Rest, Waits, RequestMoves
<1>2. Claims'
  <2>1. ASSUME NEW x \in Clients, NEW b \in BuildIds, req'[x].pc \in BuildClaimPcs,
               build'[b].st = "running", build'[b].job = req'[x].job
        PROVE  build'[b].by # x
    BY <2>1 DEF Rest, Claims, RequestMoves, Shrinks, RunningBuilds
  <2>2. ASSUME NEW x \in Clients, NEW d \in DeployIds, req'[x].pc \in DeployClaimPcs,
               deploy'[d].st = "running", deploy'[d].app = req'[x].app
        PROVE  deploy'[d].by # x
    BY <2>2 DEF Rest, Claims, RequestMoves, Shrinks, RunningDeploys
  <2> QED
    BY <2>1, <2>2 DEF Claims
<1>3. OneRunPerClient'
  BY ShrinksOneRun DEF Rest, RequestMoves
<1>4. RunningHasOwner'
  BY DEF Rest, RunningHasOwner, RequestMoves, Shrinks
<1> QED
  BY <1>1, <1>2, <1>3, <1>4 DEF Rest

LEMMA CompileMovesRest ==
  ASSUME Typed, Rest, NEW b \in BuildIds, CompileMoves(b) PROVE Rest'
<1>1. Waits'
  <2>1. \A x \in BuildIds : /\ comp'[x].pc = "none" <=> comp[x].pc = "none"
                           /\ comp'[x].dep = comp[x].dep
    BY DEF CompileMoves
  <2>2. \A c \in Clients : req[c].pc = "insertSecond" => req[c].build \in BuildIds
    BY RequestHolds
  <2> QED
    BY <2>1, <2>2 DEF Rest, Waits, CompileMoves
<1>2. Claims' /\ OneRunPerClient'
  BY DEF Rest, Claims, OneRunPerClient, CompileMoves
<1>3. RunningHasOwner'
  BY DEF Rest, RunningHasOwner, CompileMoves
<1> QED
  BY <1>1, <1>2, <1>3 DEF Rest

LEMMA RollMovesRest ==
  ASSUME Typed, Rest, NEW d \in DeployIds, RollMoves(d) PROVE Rest'
<1>1. Waits'
  <2>1. \A b \in BuildIds : comp[b].pc # "none" /\ comp[b].dep # None => comp[b].dep # d
    BY DEF Rest, Waits, RollMoves
  <2>2. \A b \in BuildIds : comp[b].dep # None => comp[b].dep \in DeployIds
    BY CompileHolds
  <2> QED
    BY <2>1, <2>2 DEF Rest, Waits, RollMoves
<1>2. Claims' /\ OneRunPerClient'
  BY ShrinksOneRun DEF Rest, Claims, RollMoves, Shrinks
<1>3. RunningHasOwner'
  BY DEF Rest, RunningHasOwner, RollMoves, Shrinks
<1> QED
  BY <1>1, <1>2, <1>3 DEF Rest

LEMMA TickRest ==
  ASSUME Typed, Rest, Tick PROVE Rest'
<1>1. UNCHANGED <<build, deploy, nbuild, ndeploy, abandoned, req, comp, roll>>
  BY DEF Tick, tables, process, history
<1> QED
  BY <1>1 DEF Rest, Waits, Claims, OneRunPerClient, RunningHasOwner

LEMMA ProcessReplacedRest ==
  ASSUME Typed, Rest, ProcessReplaced PROVE Rest'
<1>1. /\ UNCHANGED <<build, deploy, nbuild, ndeploy>>
      /\ \A c \in Clients : req'[c].pc = "idle"
      /\ \A b \in BuildIds : comp'[b].pc = "none"
      /\ \A d \in DeployIds : roll'[d].pc = "none"
      /\ \A b \in BuildIds : build[b].st = "running" => b \in abandoned'.build
      /\ \A d \in DeployIds : deploy[d].st = "running" => d \in abandoned'.deploy
  BY DEF ProcessReplaced, NoRequest, NoCompile, NoRollout
<1>2. Waits'
  BY <1>1 DEF Waits
<1>3. Claims' /\ OneRunPerClient'
  BY <1>1 DEF Rest, Claims, OneRunPerClient, BuildClaimPcs, DeployClaimPcs
<1>4. RunningHasOwner'
  BY <1>1 DEF RunningHasOwner
<1> QED
  BY <1>2, <1>3, <1>4 DEF Rest


-----------------------------------------------------------------------------
(* Steps that insert a row, or with which a compile ends. *)

LEMMA InsertBuildRest ==
  ASSUME Typed, Rest, NEW c \in Clients, InsertBuild(c) PROVE Rest'
<1> DEFINE n == nbuild + 1
<1>1. n \in BuildIds /\ n \in Nat /\ nbuild \in Nat
  BY ReleaseAssumption DEF InsertBuild, ReleaseAssumption, BuildIds, Typed, TablesTyped
<1>2. /\ build'[n].job = req[c].job /\ build'[n].by = c
      /\ \A b \in BuildIds : b # n => build'[b] = build[b]
  BY <1>1 DEF InsertBuild, NewBuild, Typed, TablesTyped
<1>3. /\ comp'[n].pc = "sync" /\ comp'[n].dep = None
      /\ \A b \in BuildIds : b # n => comp'[b] = comp[b]
  BY <1>1 DEF InsertBuild, NewCompile, NoCompile, Typed, ProcessTyped
<1>4. req[c].pc = "insertBuild" /\ req'[c].pc = "idle" /\ \A x \in Clients : x # c => req'[x] = req[x]
  BY ReplyMoves DEF InsertBuild
<1>5. nbuild' = n /\ UNCHANGED <<deploy, ndeploy, roll, abandoned>>
  BY DEF InsertBuild, history
<1> HIDE DEF n
<1>6. n > nbuild
  BY <1>1 DEF n
<1>7. \A b \in BuildIds : b \in Nat
  BY ReleaseAssumption DEF BuildIds
<1>8. comp[n].pc = "none"
  BY <1>1, <1>6, <1>7 DEF Rest, Waits
<1>9. Waits'
  <2>1. \A x \in Clients : req[x].pc = "insertSecond" => req[x].build \in BuildIds /\ req[x].build # n
    BY <1>1, <1>6, <1>7, RequestHolds DEF Rest, Waits
  <2>2. \A b \in BuildIds : comp'[b].pc # "none" => b <= n
    BY <1>1, <1>3, <1>6, <1>7 DEF Rest, Waits
  <2>3. \A d \in DeployIds : roll'[d].pc # "none" => d <= ndeploy
    BY <1>5 DEF Rest, Waits
  <2>4. \A b \in BuildIds :
          comp'[b].pc # "none" /\ comp'[b].dep # None => roll'[comp'[b].dep].pc = "wait"
    BY <1>3, <1>5 DEF Rest, Waits
  <2>5. \A b1, b2 \in BuildIds :
         /\ comp'[b1].pc # "none" /\ comp'[b2].pc # "none"
         /\ comp'[b1].dep = comp'[b2].dep /\ comp'[b1].dep # None
         => b1 = b2
    BY <1>3 DEF Rest, Waits
  <2>6. \A x \in Clients : req'[x].pc = "insertSecond" =>
          req'[x].build <= n /\ comp'[req'[x].build].pc = "none"
    <3> SUFFICES ASSUME NEW x \in Clients, req'[x].pc = "insertSecond"
                 PROVE  req'[x].build <= n /\ comp'[req'[x].build].pc = "none"
      OBVIOUS
    <3>1. req'[x] = req[x] /\ req[x].build \in BuildIds /\ req[x].build # n
      BY <1>4, <2>1
    <3>2. req[x].build <= nbuild /\ comp[req[x].build].pc = "none"
      BY <3>1 DEF Rest, Waits
    <3>3. req[x].build \in Nat
      BY <1>7, <3>1
    <3>4. req[x].build <= n
      BY <1>1, <1>6, <3>2, <3>3
    <3> QED
      BY <1>3, <3>1, <3>2, <3>4
  <2>7. \A c1, c2 \in Clients :
         /\ req'[c1].pc = "insertSecond" /\ req'[c2].pc = "insertSecond"
         /\ req'[c1].build = req'[c2].build
         => c1 = c2
    BY <1>4 DEF Rest, Waits
  <2> QED
    BY <1>5, <2>2, <2>3, <2>4, <2>5, <2>6, <2>7 DEF Waits
<1>10. Claims'
  BY <1>2, <1>4, <1>5 DEF Rest, Claims, BuildClaimPcs, DeployClaimPcs
<1>11. OneRunPerClient'
  BY <1>2, <1>4, <1>5 DEF Rest, Claims, OneRunPerClient, BuildClaimPcs
<1>12. RunningHasOwner'
  BY <1>2, <1>3, <1>4, <1>5, <1>8 DEF Rest, RunningHasOwner
<1> QED
  BY <1>9, <1>10, <1>11, <1>12 DEF Rest

LEMMA BuildDeployInsertBuildRest ==
  ASSUME Typed, Rest, NEW c \in Clients, BuildDeployInsertBuild(c) PROVE Rest'
<1> DEFINE n == nbuild + 1
<1>1. n \in BuildIds /\ n \in Nat /\ nbuild \in Nat
  BY ReleaseAssumption DEF BuildDeployInsertBuild, ReleaseAssumption, BuildIds, Typed, TablesTyped
<1>2. /\ build'[n].job = req[c].job /\ build'[n].by = c
      /\ \A b \in BuildIds : b # n => build'[b] = build[b]
  BY <1>1 DEF BuildDeployInsertBuild, NewBuild, Typed, TablesTyped
<1>3. /\ req[c].pc = "insertBoth" /\ req'[c].pc = "insertSecond"
      /\ req'[c].build = n /\ req'[c].app = req[c].app
      /\ \A x \in Clients : x # c => req'[x] = req[x]
  <2>1. req[c] \in Request
    BY RequestHolds
  <2>2. req'[c] = [req[c] EXCEPT !.pc = "insertSecond", !.build = n, !.ver = now]
    BY DEF BuildDeployInsertBuild, Typed, ProcessTyped
  <2> QED
    BY <2>1, <2>2 DEF BuildDeployInsertBuild, Request, Typed, ProcessTyped
<1>4. nbuild' = n /\ UNCHANGED <<deploy, ndeploy, comp, roll, abandoned>>
  BY DEF BuildDeployInsertBuild, history
<1> HIDE DEF n
<1>5. n > nbuild
  BY <1>1 DEF n
<1>6. \A b \in BuildIds : b \in Nat
  BY ReleaseAssumption DEF BuildIds
<1>7. comp[n].pc = "none"
  BY <1>1, <1>5, <1>6 DEF Rest, Waits
<1>8. Waits'
  <2>1. \A x \in Clients : req[x].pc = "insertSecond" =>
          req[x].build \in Nat /\ req[x].build <= nbuild /\ req[x].build # n
    <3> SUFFICES ASSUME NEW x \in Clients, req[x].pc = "insertSecond"
                 PROVE  req[x].build \in Nat /\ req[x].build <= nbuild /\ req[x].build # n
      OBVIOUS
    <3>1. req[x].build \in BuildIds
      BY RequestHolds
    <3>2. req[x].build <= nbuild
      BY DEF Rest, Waits
    <3>3. req[x].build \in Nat
      BY <1>6, <3>1
    <3> QED
      BY <1>1, <1>5, <3>2, <3>3
  <2> QED
    BY <1>1, <1>3, <1>4, <1>5, <1>6, <1>7, <2>1 DEF Rest, Waits
<1>9. Claims'
  BY <1>2, <1>3, <1>4 DEF Rest, Claims, BuildClaimPcs, DeployClaimPcs
<1>10. OneRunPerClient'
  BY <1>2, <1>3, <1>4 DEF Rest, Claims, OneRunPerClient, BuildClaimPcs
<1>11. RunningHasOwner'
  BY <1>1, <1>2, <1>3, <1>4 DEF Rest, RunningHasOwner
<1> QED
  BY <1>8, <1>9, <1>10, <1>11 DEF Rest

LEMMA InsertDeployRest ==
  ASSUME Typed, Rest, NEW c \in Clients, InsertDeploy(c) PROVE Rest'
<1> DEFINE n == ndeploy + 1
<1>1. n \in DeployIds /\ n \in Nat /\ ndeploy \in Nat
  BY ReleaseAssumption DEF InsertDeploy, ReleaseAssumption, DeployIds, Typed, TablesTyped
<1>2. /\ deploy'[n].app = req[c].app /\ deploy'[n].by = c
      /\ \A d \in DeployIds : d # n => deploy'[d] = deploy[d]
  BY <1>1 DEF InsertDeploy, NewDeploy, Typed, TablesTyped
<1>3. /\ roll'[n].pc = "image"
      /\ \A d \in DeployIds : d # n => roll'[d] = roll[d]
  BY <1>1 DEF InsertDeploy, NewRollout, NoRollout, Typed, ProcessTyped
<1>4. req[c].pc = "insertDeploy" /\ req'[c].pc = "idle" /\ \A x \in Clients : x # c => req'[x] = req[x]
  BY ReplyMoves DEF InsertDeploy
<1>5. ndeploy' = n /\ UNCHANGED <<build, nbuild, comp, abandoned>>
  BY DEF InsertDeploy, history
<1> HIDE DEF n
<1>6. n > ndeploy
  BY <1>1 DEF n
<1>7. \A d \in DeployIds : d \in Nat
  BY ReleaseAssumption DEF DeployIds
<1>8. \A b \in BuildIds : comp[b].pc # "none" /\ comp[b].dep # None => comp[b].dep \in DeployIds /\ comp[b].dep # n
  BY <1>1, <1>6, <1>7, CompileHolds DEF Rest, Waits
<1>9. Waits'
  <2>1. \A b \in BuildIds : comp'[b].pc # "none" => b <= nbuild
    BY <1>5 DEF Rest, Waits
  <2>2. \A d \in DeployIds : roll'[d].pc # "none" => d <= n
    <3> SUFFICES ASSUME NEW d \in DeployIds, d # n, roll'[d].pc # "none" PROVE d <= n
      BY <1>1
    <3>1. d \in Nat /\ d <= ndeploy
      BY <1>3, <1>7 DEF Rest, Waits
    <3> QED
      BY <1>1, <1>6, <3>1
  <2>3. \A b \in BuildIds :
          comp'[b].pc # "none" /\ comp'[b].dep # None => roll'[comp'[b].dep].pc = "wait"
    BY <1>3, <1>5, <1>8 DEF Rest, Waits
  <2>4. /\ \A x \in Clients : req'[x].pc = "insertSecond" =>
              req'[x].build <= nbuild /\ comp'[req'[x].build].pc = "none"
        /\ \A c1, c2 \in Clients :
              /\ req'[c1].pc = "insertSecond" /\ req'[c2].pc = "insertSecond"
              /\ req'[c1].build = req'[c2].build
              => c1 = c2
    BY <1>4, <1>5 DEF Rest, Waits
  <2> QED
    BY <1>5, <2>1, <2>2, <2>3, <2>4 DEF Rest, Waits
<1>10. Claims'
  BY <1>2, <1>4, <1>5 DEF Rest, Claims, BuildClaimPcs, DeployClaimPcs
<1>11. OneRunPerClient'
  BY <1>2, <1>4, <1>5 DEF Rest, Claims, OneRunPerClient, DeployClaimPcs
<1>12. RunningHasOwner'
  BY <1>2, <1>3, <1>4, <1>5 DEF Rest, RunningHasOwner
<1> QED
  BY <1>9, <1>10, <1>11, <1>12 DEF Rest

LEMMA BuildDeployInsertDeployRest ==
  ASSUME Typed, Rest, NEW c \in Clients, BuildDeployInsertDeploy(c) PROVE Rest'
<1> DEFINE n == ndeploy + 1
           m == req[c].build
<1>1. /\ n \in DeployIds /\ n \in Nat /\ ndeploy \in Nat /\ m \in BuildIds
      /\ m <= nbuild /\ comp[m].pc = "none" /\ req[c].pc = "insertSecond"
  <2>1. n \in DeployIds /\ n \in Nat /\ ndeploy \in Nat
    BY ReleaseAssumption
    DEF BuildDeployInsertDeploy, ReleaseAssumption, DeployIds, Typed, TablesTyped
  <2> QED
    BY <2>1, RequestHolds DEF BuildDeployInsertDeploy, Rest, Waits
<1>2. /\ deploy'[n].app = req[c].app /\ deploy'[n].by = c
      /\ \A d \in DeployIds : d # n => deploy'[d] = deploy[d]
  BY <1>1 DEF BuildDeployInsertDeploy, NewDeploy, Typed, TablesTyped
<1>3. /\ roll'[n].pc = "wait"
      /\ \A d \in DeployIds : d # n => roll'[d] = roll[d]
  BY <1>1 DEF BuildDeployInsertDeploy, NewRollout, NoRollout, Typed, ProcessTyped
<1>4. /\ comp'[m].pc = "sync" /\ comp'[m].dep = n
      /\ \A b \in BuildIds : b # m => comp'[b] = comp[b]
  BY <1>1 DEF BuildDeployInsertDeploy, NewCompile, NoCompile, Typed, ProcessTyped
<1>5. req'[c].pc = "idle" /\ \A x \in Clients : x # c => req'[x] = req[x]
  BY ReplyMoves DEF BuildDeployInsertDeploy
<1>6. ndeploy' = n /\ UNCHANGED <<build, nbuild, abandoned>>
  BY DEF BuildDeployInsertDeploy, history
<1>7. \A x \in Clients : x # c /\ req[x].pc = "insertSecond" => req[x].build \in BuildIds /\ req[x].build # m
  BY <1>1, RequestHolds DEF Rest, Waits
<1> HIDE DEF n, m
<1>8. n > ndeploy /\ n # None
  BY <1>1, ReleaseAssumption DEF n, ReleaseAssumption
<1>9. \A d \in DeployIds : d \in Nat
  BY ReleaseAssumption DEF DeployIds
<1>10. \A b \in BuildIds : comp[b].pc # "none" /\ comp[b].dep # None => comp[b].dep \in DeployIds /\ comp[b].dep # n
  BY <1>1, <1>8, <1>9, CompileHolds DEF Rest, Waits
<1>11. Waits'
  <2>1. \A b \in BuildIds : comp'[b].pc # "none" => b <= nbuild
    BY <1>1, <1>4 DEF Rest, Waits
  <2>2. \A d \in DeployIds : roll'[d].pc # "none" => d <= n
    BY <1>1, <1>3, <1>8, <1>9 DEF Rest, Waits
  <2>3. \A b \in BuildIds :
          comp'[b].pc # "none" /\ comp'[b].dep # None => roll'[comp'[b].dep].pc = "wait"
    BY <1>3, <1>4, <1>10 DEF Rest, Waits
  <2>4. \A b1, b2 \in BuildIds :
         /\ comp'[b1].pc # "none" /\ comp'[b2].pc # "none"
         /\ comp'[b1].dep = comp'[b2].dep /\ comp'[b1].dep # None
         => b1 = b2
    BY <1>1, <1>4, <1>10 DEF Rest, Waits
  <2>5. \A x \in Clients : req'[x].pc = "insertSecond" =>
          req'[x].build <= nbuild /\ comp'[req'[x].build].pc = "none"
    BY <1>4, <1>5, <1>7 DEF Rest, Waits
  <2>6. \A c1, c2 \in Clients :
         /\ req'[c1].pc = "insertSecond" /\ req'[c2].pc = "insertSecond"
         /\ req'[c1].build = req'[c2].build
         => c1 = c2
    BY <1>5 DEF Rest, Waits
  <2> QED
    BY <1>6, <2>1, <2>2, <2>3, <2>4, <2>5, <2>6 DEF Waits
<1>12. Claims'
  BY <1>2, <1>5, <1>6 DEF Rest, Claims, BuildClaimPcs, DeployClaimPcs
<1>13. OneRunPerClient'
  BY <1>1, <1>2, <1>5, <1>6 DEF Rest, Claims, OneRunPerClient, DeployClaimPcs
<1>14. RunningHasOwner'
  <2>1. \A b \in BuildIds : build'[b].st = "running" =>
         \/ comp'[b].pc \notin {"none", "failDeploy"}
         \/ \E x \in Clients : req'[x].pc = "insertSecond" /\ req'[x].build = b
         \/ b \in abandoned'.build
    BY <1>4, <1>5, <1>6 DEF m, Rest, RunningHasOwner
  <2>2. \A d \in DeployIds : deploy'[d].st = "running" =>
         roll'[d].pc # "none" \/ d \in abandoned'.deploy
    BY <1>2, <1>3, <1>6 DEF Rest, RunningHasOwner
  <2>3. \A d \in DeployIds : roll'[d].pc = "wait" =>
         \E b \in BuildIds : comp'[b].dep = d /\ comp'[b].pc # "none"
    BY <1>1, <1>3, <1>4 DEF Rest, RunningHasOwner
  <2> QED
    BY <2>1, <2>2, <2>3 DEF RunningHasOwner
<1> QED
  BY <1>11, <1>12, <1>13, <1>14 DEF Rest

LEMMA BuildDeployUndoRest ==
  ASSUME Typed, Rest, NEW c \in Clients, BuildDeployUndo(c) PROVE Rest'
<1> DEFINE m == req[c].build
<1>1. m \in BuildIds /\ req[c].pc = "insertSecond"
  BY RequestHolds DEF BuildDeployUndo
<1>2. req'[c].pc = "idle" /\ \A x \in Clients : x # c => req'[x] = req[x]
  BY ReplyMoves DEF BuildDeployUndo
<1>3. UNCHANGED <<deploy, nbuild, ndeploy, comp, roll>>
  BY DEF BuildDeployUndo
<1>4. Shrinks /\ (build'[m].st # "running" \/ m \in abandoned'.build)
  <2>1. build \in [BuildIds -> BuildRow]
        /\ abandoned \in [build : SUBSET BuildIds, deploy : SUBSET DeployIds]
    BY DEF Typed, TablesTyped, CountersTyped
  <2>2. CASE build' = [build EXCEPT ![m] = FailedBuild(m)] /\ UNCHANGED abandoned
    <3>1. FailedBuild(m).st # "running"
      BY <1>1, <2>1 DEF FailedBuild, BuildRow
    <3> QED
      BY <1>1, <1>3, <2>1, <2>2, <3>1 DEF Shrinks
  <2>3. CASE abandoned' = [abandoned EXCEPT !.build = @ \cup {m}] /\ UNCHANGED build
    BY <1>1, <1>3, <2>1, <2>3 DEF Shrinks
  <2> QED
    BY <2>2, <2>3 DEF BuildDeployUndo
<1>5. Waits'
  BY <1>2, <1>3 DEF Rest, Waits
<1>6. Claims' /\ OneRunPerClient'
  BY <1>2, <1>4, ShrinksOneRun DEF Rest, Claims, Shrinks, BuildClaimPcs, DeployClaimPcs
<1>7. RunningHasOwner'
  BY <1>2, <1>3, <1>4 DEF Rest, RunningHasOwner, Shrinks
<1> QED
  BY <1>5, <1>6, <1>7 DEF Rest


\* The goroutine of a build ends: with it its wait for a deploy, unless that deploy
\* has still to be marked failed.
LEMMA AfterRecordRest ==
  ASSUME Typed, Rest, NEW b \in BuildIds, comp[b].pc = "record", AfterRecord(b),
         Shrinks, build'[b].st # "running" \/ b \in abandoned'.build,
         UNCHANGED <<deploy, nbuild, ndeploy, req>>
  PROVE  Rest'
<1> DEFINE d == comp[b].dep
<1>1. /\ comp[b] \in Compile /\ d \in DeployIds \cup {None}
      /\ None \notin DeployIds
  BY CompileHolds, ReleaseAssumption DEF ReleaseAssumption, DeployIds
<1>2. \A x \in BuildIds : x # b => comp'[x] = comp[x]
  BY DEF AfterRecord, Typed, ProcessTyped
<1>3. \/ comp'[b].pc = "none" /\ (d # None => comp[b].ok)
      \/ comp'[b].pc = "failDeploy" /\ comp'[b].dep = d /\ d # None /\ ~comp[b].ok
  <2>1. CASE d # None /\ ~comp[b].ok
    <3>1. comp'[b] = [comp[b] EXCEPT !.pc = "failDeploy"]
      BY <2>1 DEF AfterRecord, Typed, ProcessTyped
    <3> QED
      BY <1>1, <2>1, <3>1 DEF Compile
  <2>2. CASE ~(d # None /\ ~comp[b].ok)
    <3>1. comp'[b] = NoCompile
      BY <2>2 DEF AfterRecord, Typed, ProcessTyped
    <3> QED
      BY <2>2, <3>1 DEF NoCompile
  <2> QED
    BY <2>1, <2>2
<1>4. /\ \A x \in DeployIds : x # d => roll'[x] = roll[x]
      /\ d # None => IF comp[b].ok THEN roll'[d].pc = "image" ELSE roll'[d] = roll[d]
  <2>1. CASE d # None /\ comp[b].ok
    <3>1. d \in DeployIds /\ roll[d] \in Rollout
      BY <1>1, <2>1, RolloutHolds
    <3>2. /\ roll'[d] = [roll[d] EXCEPT !.pc = "image"]
          /\ \A x \in DeployIds : x # d => roll'[x] = roll[x]
      BY <2>1, <3>1 DEF AfterRecord, Typed, ProcessTyped
    <3> QED
      BY <2>1, <3>1, <3>2 DEF Rollout
  <2>2. CASE ~(d # None /\ comp[b].ok)
    BY <2>2 DEF AfterRecord
  <2> QED
    BY <2>1, <2>2
<1>5. d # None => d \in DeployIds /\ roll[d].pc = "wait"
  BY <1>1 DEF Rest, Waits
<1>6. \A x \in BuildIds : x # b /\ comp[x].pc # "none" /\ comp[x].dep # None =>
        comp[x].dep \in DeployIds /\ comp[x].dep # d
  BY CompileHolds DEF Rest, Waits
<1>7. \A x \in Clients : req[x].pc = "insertSecond" => req[x].build \in BuildIds /\ req[x].build # b
  BY RequestHolds DEF Rest, Waits
<1> HIDE DEF d
<1>8. Waits'
  <2>1. \A x \in BuildIds : comp'[x].pc # "none" => x <= nbuild
    BY <1>2 DEF Rest, Waits
  <2>2. \A x \in DeployIds : roll'[x].pc # "none" => x <= ndeploy
    BY <1>1, <1>4, <1>5 DEF Rest, Waits
  <2>3. \A x \in BuildIds :
          comp'[x].pc # "none" /\ comp'[x].dep # None => roll'[comp'[x].dep].pc = "wait"
    BY <1>2, <1>3, <1>4, <1>5, <1>6 DEF Rest, Waits
  <2>4. \A b1, b2 \in BuildIds :
         /\ comp'[b1].pc # "none" /\ comp'[b2].pc # "none"
         /\ comp'[b1].dep = comp'[b2].dep /\ comp'[b1].dep # None
         => b1 = b2
    BY <1>2, <1>3, <1>6 DEF Rest, Waits
  <2>5. \A x \in Clients : req'[x].pc = "insertSecond" =>
          req'[x].build <= nbuild /\ comp'[req'[x].build].pc = "none"
    BY <1>2, <1>7 DEF Rest, Waits
  <2>6. \A c1, c2 \in Clients :
         /\ req'[c1].pc = "insertSecond" /\ req'[c2].pc = "insertSecond"
         /\ req'[c1].build = req'[c2].build
         => c1 = c2
    BY DEF Rest, Waits
  <2> QED
    BY <2>1, <2>2, <2>3, <2>4, <2>5, <2>6 DEF Waits
<1>9. Claims' /\ OneRunPerClient'
  BY ShrinksOneRun DEF Rest, Claims, Shrinks
<1>10. RunningHasOwner'
  <2>1. \A x \in BuildIds : build'[x].st = "running" =>
         \/ comp'[x].pc \notin {"none", "failDeploy"}
         \/ \E y \in Clients : req'[y].pc = "insertSecond" /\ req'[y].build = x
         \/ x \in abandoned'.build
    BY <1>2 DEF Rest, RunningHasOwner, Shrinks
  <2>2. \A x \in DeployIds : deploy'[x].st = "running" =>
         roll'[x].pc # "none" \/ x \in abandoned'.deploy
    BY <1>1, <1>4, <1>5 DEF Rest, RunningHasOwner, Shrinks
  <2>3. \A x \in DeployIds : roll'[x].pc = "wait" =>
         \E y \in BuildIds : comp'[y].dep = x /\ comp'[y].pc # "none"
    <3> SUFFICES ASSUME NEW x \in DeployIds, roll'[x].pc = "wait"
                 PROVE  \E y \in BuildIds : comp'[y].dep = x /\ comp'[y].pc # "none"
      OBVIOUS
    <3>1. CASE x = d
      BY <1>1, <1>3, <1>4, <3>1
    <3>2. CASE x # d
      BY <1>2, <1>4, <3>2 DEF d, Rest, RunningHasOwner
    <3> QED
      BY <3>1, <3>2
  <2> QED
    BY <2>1, <2>2, <2>3 DEF RunningHasOwner
<1> QED
  BY <1>8, <1>9, <1>10 DEF Rest

LEMMA CompileRecordRest ==
  ASSUME Typed, Rest, NEW b \in BuildIds, CompileRecord(b) PROVE Rest'
<1>1. build[b] \in BuildRow /\ build \in [BuildIds -> BuildRow]
  BY DEF Typed, TablesTyped
<1>2. RecordedBuild(b).st # "running"
  BY <1>1 DEF RecordedBuild, BuildRow
<1>3. Shrinks /\ build'[b].st # "running"
  BY <1>1, <1>2 DEF CompileRecord, Shrinks
<1> QED
  BY <1>3, AfterRecordRest DEF CompileRecord

LEMMA CompileRecordLostRest ==
  ASSUME Typed, Rest, NEW b \in BuildIds, CompileRecordLost(b) PROVE Rest'
<1>1. abandoned \in [build : SUBSET BuildIds, deploy : SUBSET DeployIds]
  BY DEF Typed, CountersTyped
<1>2. Shrinks /\ b \in abandoned'.build
  BY <1>1 DEF CompileRecordLost, Shrinks, tables
<1> QED
  BY <1>2, AfterRecordRest DEF CompileRecordLost, tables

LEMMA RollBuildFailedRest ==
  ASSUME Typed, Rest, NEW b \in BuildIds, RollBuildFailed(b) PROVE Rest'
<1> DEFINE d == comp[b].dep
<1>1. d \in DeployIds /\ comp[b].pc = "failDeploy" /\ None \notin DeployIds
  BY CompileHolds, ReleaseAssumption DEF RollBuildFailed, ReleaseAssumption, DeployIds
<1>2. Shrinks /\ (deploy'[d].st # "running" \/ d \in abandoned'.deploy)
  BY <1>1, RecordDeployMoves DEF RollBuildFailed
<1>3. comp'[b].pc = "none" /\ \A x \in BuildIds : x # b => comp'[x] = comp[x]
  BY DEF RollBuildFailed, NoCompile, Typed, ProcessTyped
<1>4. roll'[d].pc = "none" /\ \A x \in DeployIds : x # d => roll'[x] = roll[x]
  BY <1>1 DEF RollBuildFailed, NoRollout, Typed, ProcessTyped
<1>5. UNCHANGED <<build, nbuild, ndeploy, req>>
  BY DEF RollBuildFailed
<1>6. \A x \in BuildIds : x # b /\ comp[x].pc # "none" /\ comp[x].dep # None =>
        comp[x].dep \in DeployIds /\ comp[x].dep # d
  BY <1>1, CompileHolds DEF Rest, Waits
<1>7. \A x \in Clients : req[x].pc = "insertSecond" => req[x].build \in BuildIds
  BY RequestHolds
<1> HIDE DEF d
<1>8. Waits'
  <2>1. /\ \A x \in BuildIds : comp'[x].pc # "none" => x <= nbuild
        /\ \A x \in DeployIds : roll'[x].pc # "none" => x <= ndeploy
    BY <1>3, <1>4 DEF Rest, Waits
  <2>2. \A x \in BuildIds :
          comp'[x].pc # "none" /\ comp'[x].dep # None => roll'[comp'[x].dep].pc = "wait"
    BY <1>3, <1>4, <1>6 DEF Rest, Waits
  <2>3. \A b1, b2 \in BuildIds :
         /\ comp'[b1].pc # "none" /\ comp'[b2].pc # "none"
         /\ comp'[b1].dep = comp'[b2].dep /\ comp'[b1].dep # None
         => b1 = b2
    BY <1>3 DEF Rest, Waits
  <2>4. \A x \in Clients : req'[x].pc = "insertSecond" =>
          req'[x].build <= nbuild /\ comp'[req'[x].build].pc = "none"
    BY <1>3, <1>5, <1>7 DEF Rest, Waits
  <2>5. \A c1, c2 \in Clients :
         /\ req'[c1].pc = "insertSecond" /\ req'[c2].pc = "insertSecond"
         /\ req'[c1].build = req'[c2].build
         => c1 = c2
    BY <1>5 DEF Rest, Waits
  <2> QED
    BY <1>5, <2>1, <2>2, <2>3, <2>4, <2>5 DEF Waits
<1>9. Claims' /\ OneRunPerClient'
  BY <1>2, <1>5, ShrinksOneRun DEF Rest, Claims, Shrinks
<1>10. RunningHasOwner'
  <2>1. \A x \in BuildIds : build'[x].st = "running" =>
         \/ comp'[x].pc \notin {"none", "failDeploy"}
         \/ \E y \in Clients : req'[y].pc = "insertSecond" /\ req'[y].build = x
         \/ x \in abandoned'.build
    BY <1>1, <1>2, <1>3, <1>5 DEF Rest, RunningHasOwner, Shrinks
  <2>2. \A x \in DeployIds : deploy'[x].st = "running" =>
         roll'[x].pc # "none" \/ x \in abandoned'.deploy
    BY <1>2, <1>4 DEF Rest, RunningHasOwner, Shrinks
  <2>3. \A x \in DeployIds : roll'[x].pc = "wait" =>
         \E y \in BuildIds : comp'[y].dep = x /\ comp'[y].pc # "none"
    BY <1>3, <1>4 DEF d, Rest, RunningHasOwner
  <2> QED
    BY <2>1, <2>2, <2>3 DEF RunningHasOwner
<1> QED
  BY <1>8, <1>9, <1>10 DEF Rest

LEMMA InitRest == Init => Rest
<1> SUFFICES ASSUME Init PROVE Rest
  OBVIOUS
<1>1. /\ \A c \in Clients : req[c].pc = "idle"
      /\ \A b \in BuildIds : comp[b].pc = "none" /\ build[b].st = "free"
      /\ \A d \in DeployIds : roll[d].pc = "none" /\ deploy[d].st = "free"
  BY DEF Init, NoRequest, NoCompile, NoRollout, NoBuild, NoDeploy
<1> QED
  BY <1>1 DEF Rest, Waits, Claims, OneRunPerClient, RunningHasOwner

LEMMA NextRest == Typed /\ Rest /\ [Next]_vars => Rest'
<1> SUFFICES ASSUME Typed, Rest, [Next]_vars PROVE Rest'
  OBVIOUS
<1>1. ASSUME NEW c \in Clients, ScmStep(c) PROVE Rest'
  BY <1>1, RequestMovesRest, CreateJobMoves, UpdateJobMoves, DeleteJobMoves, CreateBuildMoves,
           DeleteJobInUseMoves, DeleteJobUnusedMoves, DeleteJobBuildsMoves, DeleteJobRowMoves,
           DeleteJobWorkMoves, DeleteJobArtifactsMoves, BuildIsRunningMoves, BuildIsIdleMoves,
           InsertBuildRest
  DEF ScmStep
<1>2. ASSUME NEW c \in Clients, DeployStep(c) PROVE Rest'
  BY <1>2, RequestMovesRest, CreateAppMoves, UpdateAppMoves, DeleteAppMoves, CreateDeployMoves,
           InsertAppMoves, UpdateAppJobMoves, UpdateAppRowMoves, DeleteAppRuntimeMoves,
           DeleteAppDeploysMoves, DeleteAppRowMoves, DeployIsRunningMoves, DeployIsIdleMoves,
           PickVersionMoves, DeployGetJobMoves, InsertDeployRest, BuildDeployGetJobMoves,
           BuildDeployIdleMoves, BuildDeployInsertBuildRest, BuildDeployInsertDeployRest,
           BuildDeployUndoRest, RequestFailsMoves
  DEF DeployStep
<1>3. ASSUME NEW b \in BuildIds, CompileStep(b) PROVE Rest'
  BY <1>3, CompileMovesRest, CompileSyncMoves, CompileSyncFailsMoves, CompileHeadImageMoves,
           CompileHeadArchiveMoves, CompileHeadFailsMoves, CompileMakeMoves,
           CompileMakeFailsMoves, CompileRecordRest, CompileRecordLostRest
  DEF CompileStep
<1>4. ASSUME NEW b \in BuildIds, RollBuildFailed(b) PROVE Rest'
  BY <1>4, RollBuildFailedRest
<1>5. ASSUME NEW d \in DeployIds, RollStep(d) PROVE Rest'
  <2>1. CASE RollSwap(d)
    BY <2>1, ProcessReplacedRest DEF RollSwap
  <2>2. CASE ~RollSwap(d)
    BY <1>5, <2>2, RollMovesRest, RollArchiveMoves, RollCheckoutMoves, RollCheckoutFailsMoves,
                   RollDockerMoves, RollFailedEarlyMoves, RollUpMoves, RollUpFailsMoves,
                   RollSelfRecordMoves, RollSwapFailsMoves, RollFinishMoves
    DEF RollStep
  <2> QED
    BY <2>1, <2>2
<1>6. CASE Tick \/ Crash
  BY <1>6, TickRest, ProcessReplacedRest DEF Crash
<1>7. CASE UNCHANGED vars
  BY <1>7 DEF vars, tables, process, history, Rest, Waits, Claims, OneRunPerClient,
     RunningHasOwner
<1> QED
  BY <1>1, <1>2, <1>3, <1>4, <1>5, <1>6, <1>7 DEF Next

-----------------------------------------------------------------------------
(* Theorems. *)

(* Inv holds in every reachable state of the release service.             *)
THEOREM Invariant == Spec => []Inv
<1>1. Init => Inv
  BY InitTyped, InitRest DEF Inv, Rest
<1>2. Inv /\ [Next]_vars => Inv'
  <2> SUFFICES ASSUME Inv, [Next]_vars PROVE Inv'
    OBVIOUS
  <2>1. Typed'
    BY NextTyped DEF Inv
  <2>2. Rest'
    BY NextRest DEF Inv, Rest
  <2> QED
    BY <2>1, <2>2 DEF Inv, Rest
<1> QED
  BY <1>1, <1>2, PTL DEF Spec

(* Every variable keeps its type: no handler of ops.go and no goroutine   *)
(* it starts uses a job, an app, a version or a row it does not hold.     *)
THEOREM TypeCorrect == Spec => []TypeOK
<1>1. Inv => TypeOK
  BY TypedImplies DEF Inv
<1> QED
  BY <1>1, Invariant, PTL

(* CreateBuild, CreateDeploy and createBuildDeploy, with no lock between  *)
(* the check and the INSERT, still give a client that waits for each      *)
(* answer at most one running build per service and one running deploy    *)
(* per app, whatever the other clients do and whenever the process dies.  *)
THEOREM OneRunEach == Spec => []OneRunPerClient
<1>1. Inv => OneRunPerClient
  BY DEF Inv
<1> QED
  BY <1>1, Invariant, PTL

(* A row that says running has a goroutine or a handler that will finish  *)
(* it, unless a restart or a lost UPDATE took it away: no early return of *)
(* runBuild, runBuildDeploy, runDeploy or createBuildDeploy forgets it.   *)
THEOREM NoForgottenRun == Spec => []RunningHasOwner
<1>1. Inv => RunningHasOwner
  BY DEF Inv
<1> QED
  BY <1>1, Invariant, PTL
=============================================================================
