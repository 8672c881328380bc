-------------------------------- MODULE Scm ---------------------------------
(***************************************************************************)
(* The SCM half of the release service: jobs, their builds, and the        *)
(* goroutine that compiles a build (platform/server/ops.go 87-616).        *)
(* Left out: the git URL (it only decides between fetch and clone, and     *)
(* either ends at a commit of the branch), validation of names, script     *)
(* paths and branches, and the text of the log.                            *)
(***************************************************************************)
EXTENDS ReleaseState

(* CreateJob: the INSERT fails on a name that is taken. *)
CreateJob(c, j, l) ==
    /\ Calling(c, "CreateJob")
    /\ job[j] = None
    /\ job' = [job EXCEPT ![j] = l]
    /\ UNCHANGED <<app, build, deploy, nbuild, ndeploy, disk, docker, process, limits, history>>

(* UpdateJob: what getJob read only decides whether to ls-remote, so the   *)
(* UPDATE alone is the step; it matches no row once the job is deleted.    *)
UpdateJob(c, j, l) ==
    /\ Calling(c, "UpdateJob")
    /\ job[j] # None
    /\ job' = [job EXCEPT ![j] = l]
    /\ UNCHANGED <<app, build, deploy, nbuild, ndeploy, disk, docker, process, limits, history>>

-----------------------------------------------------------------------------
(* DeleteJob: six accesses, no transaction. *)

DeleteJob(c, j) ==
    /\ Calling(c, "DeleteJob")
    /\ job[j] # None
    /\ req' = [req EXCEPT ![c] = [NoRequest EXCEPT !.pc = "DeleteJob", !.job = j]]
    /\ UNCHANGED <<tables, disk, docker, comp, roll, limits, history>>

DeleteJobInUse(c) ==
    /\ req[c].pc = "DeleteJob"
    /\ \E a \in Apps : app[a] = req[c].job
    /\ Reply(c)
    /\ UNCHANGED <<tables, disk, docker, comp, roll, limits, history>>

DeleteJobUnused(c) ==
    /\ req[c].pc = "DeleteJob"
    /\ \A a \in Apps : app[a] # req[c].job
    /\ Advance(c, "deleteBuilds")
    /\ UNCHANGED <<tables, disk, docker, comp, roll, limits, history>>

DeleteJobKeepBuilds(c) ==
    /\ req[c].pc = "deleteBuilds"
    /\ Advance(c, "deleteJobRow")
    /\ UNCHANGED <<tables, disk, docker, comp, roll, limits, history>>

DeleteJobBuilds(c) ==
    /\ req[c].pc = "deleteBuilds"
    /\ build' = [b \in BuildIds |->
                    IF build[b].job = req[c].job THEN [NoBuild EXCEPT !.st = "gone"] ELSE build[b]]
    /\ Advance(c, "deleteJobRow")
    /\ UNCHANGED <<job, app, deploy, nbuild, ndeploy, disk, docker, comp, roll, limits, history>>

DeleteJobRow(c) ==
    /\ req[c].pc = "deleteJobRow"
    /\ job' = [job EXCEPT ![req[c].job] = None]
    /\ Advance(c, "removeWork")
    /\ UNCHANGED <<app, build, deploy, nbuild, ndeploy, disk, docker, comp, roll, limits, history>>

DeleteJobWork(c) ==
    /\ req[c].pc = "removeWork"
    /\ work' = [work EXCEPT ![req[c].job] = None]
    /\ TouchTree(req[c].job, None, None)
    /\ Advance(c, "removeArtifacts")
    /\ UNCHANGED <<tables, art, docker, comp, roll, limits, abandoned>>

DeleteJobArtifacts(c) ==
    /\ req[c].pc = "removeArtifacts"
    /\ art' = [art EXCEPT ![req[c].job] = [v \in Versions |-> None]]
    /\ Reply(c)
    /\ UNCHANGED <<tables, work, docker, comp, roll, limits, history>>

-----------------------------------------------------------------------------
(* CreateBuild: getJob, idleBuild, INSERT and go runBuild. *)

CreateBuild(c, j) ==
    /\ Calling(c, "CreateBuild")
    /\ job[j] # None
    /\ BuildBudget
    /\ req' = [req EXCEPT ![c] = [NoRequest EXCEPT !.pc = "CreateBuild", !.job = j,
                                                   !.label = job[j]]]
    /\ UNCHANGED <<tables, disk, docker, comp, roll, limits, history>>

BuildIsRunning(c) ==
    /\ req[c].pc = "CreateBuild"
    /\ RunningBuilds(req[c].job) # {}
    /\ Reply(c)
    /\ UNCHANGED <<tables, disk, docker, comp, roll, limits, history>>

BuildIsIdleUnchecked(c) ==
    /\ req[c].pc = "CreateBuild"
    /\ Advance(c, "insertBuild")
    /\ UNCHANGED <<tables, disk, docker, comp, roll, limits, history>>

BuildIsIdle(c) ==
    /\ req[c].pc = "CreateBuild"
    /\ RunningBuilds(req[c].job) = {}
    /\ Advance(c, "insertBuild")
    /\ UNCHANGED <<tables, disk, docker, comp, roll, limits, history>>

\* The row CreateBuild and createBuildDeploy insert, and the goroutine's first state.
NewBuild(c) == [st |-> "running", job |-> req[c].job, ver |-> now, commit |-> None, by |-> c]
NewCompile(c, ver, dep) ==
    [NoCompile EXCEPT !.pc = "sync", !.job = req[c].job, !.label = req[c].label,
                      !.ver = ver, !.dep = dep]

InsertBuild(c) ==
    LET b == nbuild + 1 IN
    /\ req[c].pc = "insertBuild"
    /\ nbuild < MaxBuild
    /\ nbuild' = b
    /\ build' = [build EXCEPT ![b] = NewBuild(c)]
    /\ comp' = [comp EXCEPT ![b] = NewCompile(c, now, None)]
    /\ Reply(c)
    /\ UNCHANGED <<job, app, deploy, ndeploy, disk, docker, roll, limits, history>>

-----------------------------------------------------------------------------
(* compileJob. *)

CompileSyncFetchOnly(b) ==
    /\ comp[b].pc = "sync"
    /\ \E k \in Commits :
        /\ work' = [work EXCEPT ![comp[b].job] = IF @ = None THEN k ELSE @]
        /\ comp' = [comp EXCEPT ![b].pc = "head", ![b].synced = k]
    /\ TouchTree(comp[b].job, b, None)
    /\ UNCHANGED <<tables, art, docker, req, roll, limits, abandoned>>

(* gitSync leaves the tree at the branch's commit, whatever it is now. *)
CompileSync(b) ==
    /\ comp[b].pc = "sync"
    /\ \E k \in Commits :
        /\ work' = [work EXCEPT ![comp[b].job] = k]
        /\ comp' = [comp EXCEPT ![b].pc = "head", ![b].synced = k]
    /\ TouchTree(comp[b].job, b, None)
    /\ UNCHANGED <<tables, art, docker, req, roll, limits, abandoned>>

(* A failed fetch leaves the tree, a failed clone removes it, a failed     *)
(* checkout after a clone leaves it at the default branch.                 *)
CompileSyncFails(b) ==
    /\ comp[b].pc = "sync"
    /\ \E k \in Commits \cup {None} : work' = [work EXCEPT ![comp[b].job] = k]
    /\ comp' = [comp EXCEPT ![b].pc = "record"]
    /\ TouchTree(comp[b].job, b, None)
    /\ UNCHANGED <<tables, art, docker, req, roll, limits, abandoned>>

WriteArtifact(b, kind, commit) ==
    art' = [art EXCEPT ![comp[b].job][comp[b].ver] = [kind |-> kind, commit |-> commit]]

(* git rev-parse HEAD, and for an image job the marker file. *)
CompileHeadImage(b) ==
    /\ comp[b].pc = "head"
    /\ comp[b].label = "image"
    /\ work[comp[b].job] # None
    /\ WriteArtifact(b, "image", work[comp[b].job])
    /\ comp' = [comp EXCEPT ![b].pc = "record", ![b].commit = work[comp[b].job],
                            ![b].made = work[comp[b].job], ![b].ok = TRUE]
    /\ UNCHANGED <<tables, work, docker, req, roll, limits, history>>

CompileHeadArchive(b) ==
    /\ comp[b].pc = "head"
    /\ comp[b].label # "image"
    /\ work[comp[b].job] # None
    /\ comp' = [comp EXCEPT ![b].pc = "make", ![b].commit = work[comp[b].job]]
    /\ UNCHANGED <<tables, disk, docker, req, roll, limits, history>>

(* The script is missing from the tree, or a file cannot be written. *)
CompileHeadFails(b) ==
    /\ comp[b].pc = "head"
    /\ comp' = [comp EXCEPT ![b].pc = "record", ![b].commit = work[comp[b].job]]
    /\ UNCHANGED <<tables, disk, docker, req, roll, limits, history>>

(* The script reads the tree as it is now. *)
CompileMake(b) ==
    /\ comp[b].pc = "make"
    /\ work[comp[b].job] # None
    /\ WriteArtifact(b, "archive", work[comp[b].job])
    /\ comp' = [comp EXCEPT ![b].pc = "record", ![b].made = work[comp[b].job], ![b].ok = TRUE]
    /\ UNCHANGED <<tables, work, docker, req, roll, limits, history>>

(* A script that fails may have written the file before it did. *)
CompileMakeFails(b) ==
    /\ comp[b].pc = "make"
    /\ \/ UNCHANGED art
       \/ /\ work[comp[b].job] # None
          /\ WriteArtifact(b, "archive", work[comp[b].job])
    /\ comp' = [comp EXCEPT ![b].pc = "record"]
    /\ UNCHANGED <<tables, work, docker, req, roll, limits, history>>

\* The row after UPDATE scm_build: no row matches once DeleteJob has run.
RecordedBuild(b) ==
    IF build[b].st = "gone" THEN build[b]
    ELSE [build[b] EXCEPT !.st = IF comp[b].ok THEN "ok" ELSE "fail",
                          !.commit = comp[b].commit]

AfterRecordRetry(b) ==
    LET d == comp[b].dep IN
    /\ comp' = [comp EXCEPT ![b] = IF ~comp[b].ok THEN [comp[b] EXCEPT !.pc = "sync"]
                                   ELSE NoCompile]
    /\ roll' = IF d # None /\ comp[b].ok THEN [roll EXCEPT ![d].pc = "image"] ELSE roll
    /\ touched' = [touched EXCEPT !.comp = @ \ {b}]

(* What the goroutine goes on with after the UPDATE: runBuild ends;        *)
(* runBuildDeploy fails the deploy or goes into runDeploy.                 *)
AfterRecord(b) ==
    LET d == comp[b].dep IN
    /\ comp' = [comp EXCEPT ![b] = IF d # None /\ ~comp[b].ok
                                   THEN [comp[b] EXCEPT !.pc = "failDeploy"] ELSE NoCompile]
    /\ roll' = IF d # None /\ comp[b].ok
               THEN [roll EXCEPT ![d].pc = "image"] ELSE roll
    /\ touched' = [touched EXCEPT !.comp = @ \ {b}]

CompileRecord(b) ==
    /\ comp[b].pc = "record"
    /\ build' = [build EXCEPT ![b] = RecordedBuild(b)]
    /\ AfterRecord(b)
    /\ UNCHANGED <<job, app, deploy, nbuild, ndeploy, disk, docker, req, limits, abandoned>>

(* The error of the UPDATE is discarded: the row stays as it was. *)
CompileRecordLost(b) ==
    /\ comp[b].pc = "record"
    /\ faults < MaxFault
    /\ faults' = faults + 1
    /\ abandoned' = [abandoned EXCEPT !.build = @ \cup {b}]
    /\ AfterRecord(b)
    /\ UNCHANGED <<tables, disk, docker, req, now, restarts>>

ScmStep(c) ==
    \/ \E j \in Jobs, l \in CallLabels : CreateJob(c, j, l) \/ UpdateJob(c, j, l)
    \/ \E j \in Jobs : DeleteJob(c, j) \/ CreateBuild(c, j)
    \/ DeleteJobInUse(c) \/ DeleteJobUnused(c) \/ DeleteJobBuilds(c) \/ DeleteJobRow(c)
    \/ DeleteJobWork(c) \/ DeleteJobArtifacts(c)
    \/ BuildIsRunning(c) \/ BuildIsIdle(c) \/ InsertBuild(c)

CompileStep(b) ==
    \/ CompileSync(b) \/ CompileSyncFails(b)
    \/ CompileHeadImage(b) \/ CompileHeadArchive(b) \/ CompileHeadFails(b)
    \/ CompileMake(b) \/ CompileMakeFails(b)
    \/ CompileRecord(b) \/ CompileRecordLost(b)
=============================================================================
