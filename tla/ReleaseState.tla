---------------------------- MODULE ReleaseState ----------------------------
(***************************************************************************)
(* State shared by the SCM half and the deploy half of the release service *)
(* (platform/server/ops.go): four MySQL tables, the directories under the  *)
(* server root, the docker daemon, and the goroutines of the process.      *)
(*                                                                         *)
(* A Connect handler is a request of a client and advances one database    *)
(* access at a time; compileJob and runDeploy are goroutines and advance   *)
(* one external command at a time.  Rows, directories, image tags and      *)
(* containers survive a restart of the process; requests and goroutines do *)
(* not.                                                                    *)
(***************************************************************************)
EXTENDS Naturals, FiniteSets

CONSTANTS
    Jobs,         \* names of scm_job rows
    Apps,         \* names of deploy_app rows
    Clients,      \* each client has at most one request in flight
    Calls,        \* the RPCs that clients call
    CallLabels,   \* the labels CreateJob and UpdateJob ask for
    Commits,      \* git commits a branch of a job's repository can be at
    None,         \* SQL NULL, the empty string, a missing file
    MaxBuild,     \* bound: rows ever inserted into scm_build
    MaxDeploy,    \* bound: rows ever inserted into deploy_record
    MaxSecond,    \* bound: seconds that pass (a version is the second of its build)
    MaxRestart,   \* bound: crashes of the process
    MaxFault,     \* bound: times the database is away and returns an error
    SelfApps,     \* apps whose compose list contains "platform"
    MainApps,     \* apps whose services are in the main docker-compose.yml
    SeedScm,      \* seedRelease: seeded app |-> the job it deploys
    SeedLabel,    \* seedRelease: seeded job |-> its label
    PinnedJobs    \* seedRelease: jobs whose image label is reset (home-api)

Labels   == {"archive", "image"}    \* golang, node and python all ship a file
Versions == 1..MaxSecond
BuildIds == 1..MaxBuild
DeployIds == 1..MaxDeploy
Statuses == {"free", "running", "ok", "fail", "gone"}

ASSUME ReleaseAssumption ==
    /\ None \notin Jobs \cup Apps \cup Clients \cup Commits \cup Labels
    /\ None \notin Nat
    /\ CallLabels \subseteq Labels
    /\ MaxBuild \in Nat /\ MaxDeploy \in Nat /\ MaxSecond \in Nat \ {0}
    /\ MaxRestart \in Nat /\ MaxFault \in Nat
    /\ SelfApps \subseteq Apps /\ MainApps \subseteq Apps /\ PinnedJobs \subseteq Jobs
    /\ DOMAIN SeedScm \subseteq Apps /\ DOMAIN SeedLabel \subseteq Jobs
    /\ \A a \in DOMAIN SeedScm : SeedScm[a] \in Jobs
    /\ \A j \in DOMAIN SeedLabel : SeedLabel[j] \in Labels

VARIABLES
    job,        \* scm_job: label of each job, None where there is no row
    app,        \* deploy_app: scm_name of each app, None where there is no row
    build,      \* scm_build
    deploy,     \* deploy_record
    nbuild,     \* AUTO_INCREMENT of scm_build: rows inserted so far
    ndeploy,    \* AUTO_INCREMENT of deploy_record
    work,       \* scm-work/<job>: commit the tree is at, None where absent
    art,        \* artifacts/<job>/<version>/<job>
    tag,        \* what the image minikitex-<app>:local holds
    up,         \* what the app's container runs
    req,        \* the request each client is waiting for
    comp,       \* goroutine compiling each build
    roll,       \* goroutine rolling out each deploy
    now,        \* the current second
    restarts,   \* crashes so far
    faults,     \* database errors so far
    abandoned,  \* history: running rows whose goroutine a crash or a lost UPDATE took away
    touched     \* history: goroutines whose tree, image or container another one changed

tables    == <<job, app, build, deploy, nbuild, ndeploy>>
disk      == <<work, art>>
docker    == <<tag, up>>
process   == <<req, comp, roll>>
limits    == <<now, restarts, faults>>
history   == <<abandoned, touched>>
vars      == <<tables, disk, docker, process, limits, history>>

(***************************************************************************)
(* Rows, files and goroutines.  A row records the client that inserted it  *)
(* (by): the database does not, the properties do.                         *)
(***************************************************************************)
Artifact == [kind : Labels, commit : Commits \cup {None}]
Image    == [ver : Versions, commit : Commits \cup {None}]

\* A missing file is not an artifact with some content.
ASSUME MissingFile == None \notin Artifact

BuildRow == [st : Statuses, job : Jobs \cup {None}, ver : Versions \cup {None},
             commit : Commits \cup {None}, by : Clients \cup {None}]
NoBuild  == [st |-> "free", job |-> None, ver |-> None, commit |-> None, by |-> None]

DeployRow == [st : Statuses, app : Apps \cup {None}, ver : Versions \cup {None},
              by : Clients \cup {None}]
NoDeploy  == [st |-> "free", app |-> None, ver |-> None, by |-> None]

\* A request: the handler it is in (pc), and the values it read from the tables.
Request == [pc : {"idle", "CreateBuild", "insertBuild",
                  "DeleteJob", "deleteBuilds", "deleteJobRow", "removeWork", "removeArtifacts",
                  "insertApp", "UpdateApp", "updateApp", "dropRuntime", "deleteDeploys", "deleteAppRow",
                  "CreateDeploy", "pickVersion", "getJob", "insertDeploy",
                  "createBuildDeploy", "idleBuild", "insertBoth", "insertSecond"},
            job : Jobs \cup {None}, app : Apps \cup {None},
            label : Labels \cup {None}, ver : Versions \cup {None},
            build : BuildIds \cup {None}]
NoRequest == [pc |-> "idle", job |-> None, app |-> None, label |-> None, ver |-> None,
              build |-> None]

\* A compile goroutine.  synced is the commit its own gitSync checked out, commit
\* the one it reads back and records, made the one its script found in the tree;
\* dep is the deploy that waits for the build (runBuildDeploy) or None (runBuild).
Compile == [pc : {"none", "sync", "head", "make", "record", "failDeploy"},
            job : Jobs \cup {None}, label : Labels \cup {None}, ver : Versions \cup {None},
            synced : Commits \cup {None}, commit : Commits \cup {None},
            made : Commits \cup {None}, ok : BOOLEAN, dep : DeployIds \cup {None}]
NoCompile == [pc |-> "none", job |-> None, label |-> None, ver |-> None, synced |-> None,
              commit |-> None, made |-> None, ok |-> FALSE, dep |-> None]

\* A rollout goroutine.  want is the recorded commit of an image build, got the
\* commit of the tree docker built.
Rollout == [pc : {"none", "wait", "image", "docker", "up", "swap", "finish"},
            app : Apps \cup {None}, job : Jobs \cup {None}, label : Labels \cup {None},
            ver : Versions \cup {None}, want : Commits \cup {None},
            got : Commits \cup {None}, ok : BOOLEAN]
NoRollout == [pc |-> "none", app |-> None, job |-> None, label |-> None, ver |-> None,
              want |-> None, got |-> None, ok |-> FALSE]

TypeOK ==
    /\ job \in [Jobs -> Labels \cup {None}]
    /\ app \in [Apps -> Jobs \cup {None}]
    /\ build \in [BuildIds -> BuildRow]
    /\ deploy \in [DeployIds -> DeployRow]
    /\ nbuild \in 0..MaxBuild /\ ndeploy \in 0..MaxDeploy
    /\ work \in [Jobs -> Commits \cup {None}]
    /\ art \in [Jobs -> [Versions -> Artifact \cup {None}]]
    /\ tag \in [Apps -> Image \cup {None}]
    /\ up \in [Apps -> Image \cup {None}]
    /\ req \in [Clients -> Request]
    /\ comp \in [BuildIds -> Compile]
    /\ roll \in [DeployIds -> Rollout]
    /\ now \in Versions
    /\ restarts \in 0..MaxRestart /\ faults \in 0..MaxFault
    /\ abandoned \in [build : SUBSET BuildIds, deploy : SUBSET DeployIds]
    /\ touched \in [comp : SUBSET BuildIds, roll : SUBSET DeployIds]

-----------------------------------------------------------------------------
(* Queries. *)

RunningBuilds(j)  == {b \in BuildIds : build[b].st = "running" /\ build[b].job = j}
RunningDeploys(a) == {d \in DeployIds : deploy[d].st = "running" /\ deploy[d].app = a}

\* ORDER BY id DESC LIMIT 1 over the builds of a version (in the given states).
BuildsOf(j, v, sts) ==
    {b \in BuildIds : build[b].st \in sts /\ build[b].job = j /\ build[b].ver = v}
IsLatest(b, S) == b \in S /\ \A x \in S : x <= b

\* Goroutines that have put scm-work/<j> at a commit and not yet used it.
CompilingIn(j) == {b \in BuildIds : comp[b].job = j /\ comp[b].pc \in {"head", "make"}}
ImagingIn(j)   == {d \in DeployIds : roll[d].job = j /\ roll[d].pc = "docker"}

\* Goroutines between tagging an app's image and finishing with its container.
RollingOut(a) == {d \in DeployIds : roll[d].app = a /\ roll[d].pc \in {"up", "swap", "finish"}}

\* A step of goroutine b or d (None: of neither) changed scm-work/<j>.
TouchTree(j, b, d) ==
    touched' = [comp |-> touched.comp \cup (CompilingIn(j) \ {b}),
                roll |-> touched.roll \cup (ImagingIn(j) \ {d})]

\* Rows this process still has to insert: keeps the counters within their bounds.
InsertsBuild(c)  == req[c].pc \in {"CreateBuild", "insertBuild", "createBuildDeploy",
                                   "idleBuild", "insertBoth"}
InsertsDeploy(c) == req[c].pc \in {"CreateDeploy", "pickVersion", "getJob", "insertDeploy",
                                   "createBuildDeploy", "idleBuild", "insertBoth",
                                   "insertSecond"}
BuildBudget  == nbuild + Cardinality({c \in Clients : InsertsBuild(c)}) < MaxBuild
DeployBudget == ndeploy + Cardinality({c \in Clients : InsertsDeploy(c)}) < MaxDeploy

\* The client is free to make this call.
Calling(c, rpc) == rpc \in Calls /\ req[c].pc = "idle"

Reply(c) == req' = [req EXCEPT ![c] = NoRequest]
Advance(c, pc) == req' = [req EXCEPT ![c].pc = pc]
=============================================================================
