------------------------------ MODULE Compose ------------------------------
(***************************************************************************)
(* The compose files under deploy/runtime and the containers they stand    *)
(* for (platform/server/ops.go): a deploy writes one overlay for each      *)
(* service of its app that the main compose file does not have and starts  *)
(* the services; changing or deleting an app stops the services it gives   *)
(* up and removes their overlays.  Every docker compose command reads the  *)
(* main file and all overlays.  An old runtime.yml, which held all         *)
(* overlays, is split up by whoever comes first.                           *)
(*                                                                         *)
(* Release has the rows, builds and images; here a deploy begins where     *)
(* its image has been built.                                               *)
(***************************************************************************)
EXTENDS Integers, FiniteSets

CONSTANTS
    Ops,         \* handlers and deploys that may run at once
    Apps, Label, \* apps, and the label of each one's job
    Services,
    RootMain,    \* services of the main docker-compose.yml
    WorkMain,    \* image apps whose work tree has a docker-compose.yml -> its services
    Shipped,     \* <<app, service>> of which the artifact or tree has projects/<service>/compose.yml
    Listed,      \* app -> services, at the start
    Combined,    \* services of runtime.yml at the start, running
    NoFile,
    MaxCall,     \* bound: calls
    MaxBad       \* bound: docker commands that fail, and crashes

ASSUME ComposeAssumption ==
    /\ DOMAIN WorkMain \subseteq {a \in Apps : Label[a] = "image"}
    /\ DOMAIN Listed \subseteq Apps /\ \A a \in DOMAIN Listed : Listed[a] \subseteq Services
    /\ Combined \subseteq Services /\ Combined # NoFile

VARIABLES
    deploy_app,  \* app -> compose
    overlay,     \* service -> deploy/runtime/<service>.yml: whose image it names and where it is from
    runtime_yml, \* services of deploy/runtime.yml; NoFile when it is gone
    container,   \* running services -> the app whose image they run, or "main" or "old"
    doing,          \* what each handler or deploy is at
    crossed,     \* history: services started by one while another was removing them
    blind,       \* history: services whose overlay was removed by one that could not tell what to stop
    calls, bad

composeVars == <<deploy_app, overlay, runtime_yml, container, doing, crossed, blind, calls, bad>>

Done == [at |-> "done"]
OpAt(o, at) == doing[o].at = at
Moves(o, rec) == doing' = [doing EXCEPT ![o] = rec]
Reaches(o, at) == Moves(o, [doing[o] EXCEPT !.at = at])
Asked(o) == doing[o] = Done /\ calls < MaxCall /\ calls' = calls + 1
Fails == bad < MaxBad /\ bad' = bad + 1

Without(f, S) == [x \in DOMAIN f \ S |-> f[x]]
Over(f, g) == [x \in DOMAIN f \cup DOMAIN g |-> IF x \in DOMAIN f THEN f[x] ELSE g[x]]

-----------------------------------------------------------------------------
(* What compose reads: composeFileArgs.  In the project of an image app    *)
(* with its own docker-compose.yml (composeProjectDir) that is the main    *)
(* file.                                                                   *)
Old == IF runtime_yml = NoFile THEN {} ELSE runtime_yml
composeProject(a) == IF a \in DOMAIN WorkMain THEN WorkMain[a] ELSE RootMain
Known(main) == main \cup DOMAIN overlay \cup Old

(* The last file that has the service decides. *)
ImageOf(s) == IF s \in Old THEN "old" ELSE IF s \in DOMAIN overlay THEN overlay[s].image ELSE "main"

-----------------------------------------------------------------------------
(* The calls.  A deploy has the app as it was when it began.  old is what  *)
(* it has read of runtime.yml, todo the services still to write or drop,   *)
(* gone the one whose overlay goes next, met what was started meanwhile,   *)
(* stop whether it can tell what to stop.                                  *)
Begins(o, for, a, services) ==
    Moves(o, [at |-> "split", for |-> for, app |-> a, services |-> services,
              old |-> {}, todo |-> {}, gone |-> {}, met |-> {}, stop |-> TRUE])

Deploy(o, a) ==
    /\ Asked(o)
    /\ a \in DOMAIN deploy_app
    /\ Begins(o, "deploy", a, deploy_app[a])
    /\ UNCHANGED <<deploy_app, overlay, runtime_yml, container, crossed, blind, bad>>

(* composeDropped: what the row listed and does not any more. *)
composeDropped(old, services) == old \ services

UpdateApp(o, a, services) ==
    /\ Asked(o)
    /\ a \in DOMAIN deploy_app
    /\ deploy_app' = [deploy_app EXCEPT ![a] = services]
    /\ Begins(o, "update", a, composeDropped(deploy_app[a], services))
    /\ UNCHANGED <<overlay, runtime_yml, container, crossed, blind, bad>>

DeleteApp(o, a) ==
    /\ Asked(o)
    /\ a \in DOMAIN deploy_app
    /\ Begins(o, "delete", a, deploy_app[a])
    /\ UNCHANGED <<deploy_app, overlay, runtime_yml, container, crossed, blind, bad>>

CreateApp(o, a, services) ==
    /\ Asked(o)
    /\ a \notin DOMAIN deploy_app
    /\ deploy_app' = Over([b \in {a} |-> services], deploy_app)
    /\ UNCHANGED <<overlay, runtime_yml, container, doing, crossed, blind, bad>>

-----------------------------------------------------------------------------
(* splitCombinedRuntime: the file is read, an overlay is written for each  *)
(* service, and the file is removed; another may be doing the same.        *)
SplitRead(o) ==
    /\ OpAt(o, "split")
    /\ IF runtime_yml = NoFile THEN Reaches(o, "config")
       ELSE Moves(o, [doing[o] EXCEPT !.at = "splitting", !.old = runtime_yml])
    /\ UNCHANGED <<deploy_app, overlay, runtime_yml, container, crossed, blind, calls, bad>>

SplitWrite(o) ==
    /\ OpAt(o, "splitting")
    /\ overlay' = Over([s \in doing[o].old |-> [image |-> "old", from |-> "old"]], overlay)
    /\ Reaches(o, "unlink")
    /\ UNCHANGED <<deploy_app, runtime_yml, container, crossed, blind, calls, bad>>

(* Removing it fails if it is gone already: a deploy ends there, the       *)
(* others go on.                                                           *)
SplitRemove(o) ==
    /\ OpAt(o, "unlink")
    /\ runtime_yml' = NoFile
    /\ IF runtime_yml = NoFile /\ doing[o].for = "deploy" THEN Moves(o, Done)
       ELSE Moves(o, [doing[o] EXCEPT !.at = "config", !.old = {}])
    /\ UNCHANGED <<deploy_app, overlay, container, crossed, blind, calls, bad>>

-----------------------------------------------------------------------------
(* syncRuntimeCompose.  docker compose config says what the main file has; *)
(* extraCompose is the rest.                                               *)
extraCompose(services, main) == services \ main

SyncConfig(o) ==
    /\ OpAt(o, "config") /\ doing[o].for = "deploy"
    /\ Moves(o, [doing[o] EXCEPT !.at = "overlay",
                                 !.todo = extraCompose(doing[o].services, composeProject(doing[o].app))])
    /\ UNCHANGED <<deploy_app, overlay, runtime_yml, container, crossed, blind, calls, bad>>

(* It ends in an error: the command, or the write of an overlay. *)
SyncConfigFails(o) ==
    /\ doing[o].at \in {"config", "overlay"} /\ doing[o].for = "deploy"
    /\ Fails
    /\ Moves(o, Done)
    /\ UNCHANGED <<deploy_app, overlay, runtime_yml, container, crossed, blind, calls>>

(* The compose.yml of the project with the image pinned (composeFromWork,  *)
(* composeFromArtifact, pinRuntimeImage), or runtimeServiceYAML's.         *)
runtimeServiceYAML(a) == [image |-> a, from |-> Label[a]]

Body(a, s) == IF <<a, s>> \in Shipped THEN [image |-> a, from |-> "project"] ELSE runtimeServiceYAML(a)

WriteOverlay(o, s) ==
    /\ OpAt(o, "overlay")
    /\ s \in doing[o].todo
    /\ overlay' = Over([t \in {s} |-> Body(doing[o].app, s)], overlay)
    /\ Moves(o, [doing[o] EXCEPT !.todo = @ \ {s}])
    /\ UNCHANGED <<deploy_app, runtime_yml, container, crossed, blind, calls, bad>>

(* composeUp: all services, or none if one is in no file.  Whoever is      *)
(* removing one of them has been met.                                      *)
composeUp(o) ==
    LET up == doing[o].services
    IN  /\ OpAt(o, "overlay") /\ doing[o].todo = {}
        /\ IF up \subseteq Known(composeProject(doing[o].app))
           THEN /\ container' = Over([s \in up |-> ImageOf(s)], container)
                /\ crossed' = crossed \ up
                /\ blind' = blind \ up
                /\ doing' = [p \in Ops |-> IF p = o THEN Done
                                        ELSE IF doing[p].at \in {"stop", "remove"} THEN [doing[p] EXCEPT !.met = @ \cup up]
                                        ELSE doing[p]]
           ELSE Moves(o, Done) /\ UNCHANGED <<container, crossed, blind>>
        /\ UNCHANGED <<deploy_app, overlay, runtime_yml, calls, bad>>

composeUpFails(o) ==
    /\ OpAt(o, "overlay") /\ doing[o].todo = {}
    /\ Fails
    /\ Moves(o, Done)
    /\ UNCHANGED <<deploy_app, overlay, runtime_yml, container, crossed, blind, calls>>

-----------------------------------------------------------------------------
(* dropExtraRuntime: when docker compose config fails nothing is stopped,  *)
(* and every service counts as an extra one.                               *)
DropConfig(o) ==
    /\ OpAt(o, "config") /\ doing[o].for # "deploy"
    /\ \/ /\ Moves(o, [doing[o] EXCEPT !.at = "stop", !.todo = extraCompose(doing[o].services, RootMain)])
          /\ UNCHANGED bad
       \/ /\ Fails
          /\ Moves(o, [doing[o] EXCEPT !.at = "stop", !.todo = doing[o].services, !.stop = FALSE])
    /\ UNCHANGED <<deploy_app, overlay, runtime_yml, container, crossed, blind, calls>>

Leaves(o, s) == Moves(o, [doing[o] EXCEPT !.at = "remove", !.gone = {s}, !.met = {}])

StopServiceMainOnly(o, s) ==
    /\ OpAt(o, "stop")
    /\ s \in doing[o].todo
    /\ container' = IF doing[o].stop /\ s \in RootMain THEN Without(container, {s}) ELSE container
    /\ Leaves(o, s)
    /\ UNCHANGED <<deploy_app, overlay, runtime_yml, crossed, blind, calls, bad>>

(* compose stop and compose rm, in the main project: no file, no effect. *)
StopService(o, s) ==
    /\ OpAt(o, "stop")
    /\ s \in doing[o].todo
    /\ container' = IF doing[o].stop /\ s \in Known(RootMain) THEN Without(container, {s}) ELSE container
    /\ Leaves(o, s)
    /\ UNCHANGED <<deploy_app, overlay, runtime_yml, crossed, blind, calls, bad>>

(* A command that fails is not looked at. *)
StopFails(o, s) ==
    /\ OpAt(o, "stop")
    /\ s \in doing[o].todo
    /\ Fails
    /\ blind' = blind \cup {s}
    /\ Leaves(o, s)
    /\ UNCHANGED <<deploy_app, overlay, runtime_yml, container, crossed, calls>>

RemoveOverlay(o) ==
    LET gone == doing[o].gone
    IN  /\ OpAt(o, "remove")
        /\ overlay' = Without(overlay, gone)
        /\ crossed' = crossed \cup (gone \cap doing[o].met)
        /\ blind' = IF doing[o].stop THEN blind ELSE blind \cup gone
        /\ Moves(o, [doing[o] EXCEPT !.at = "stop", !.todo = @ \ gone, !.gone = {}])
        /\ UNCHANGED <<deploy_app, runtime_yml, container, calls, bad>>

(* DeleteApp deletes the row at the end. *)
DropEnds(o) ==
    /\ OpAt(o, "stop") /\ doing[o].todo = {}
    /\ deploy_app' = IF doing[o].for = "delete" THEN Without(deploy_app, {doing[o].app}) ELSE deploy_app
    /\ Moves(o, Done)
    /\ UNCHANGED <<overlay, runtime_yml, container, crossed, blind, calls, bad>>

Crash ==
    /\ Fails
    /\ doing' = [o \in Ops |-> Done]
    /\ UNCHANGED <<deploy_app, overlay, runtime_yml, container, crossed, blind, calls>>

-----------------------------------------------------------------------------
ComposeInit ==
    /\ deploy_app = Listed
    /\ overlay = <<>>
    /\ runtime_yml = Combined
    /\ container = [s \in RootMain \cup Combined |-> IF s \in Combined THEN "old" ELSE "main"]
    /\ doing = [o \in Ops |-> Done]
    /\ crossed = {} /\ blind = {}
    /\ calls = 0 /\ bad = 0

ComposeStep(o) ==
    \/ SplitRead(o) \/ SplitWrite(o) \/ SplitRemove(o)
    \/ SyncConfig(o) \/ SyncConfigFails(o) \/ composeUp(o) \/ composeUpFails(o)
    \/ DropConfig(o) \/ RemoveOverlay(o) \/ DropEnds(o)
    \/ \E s \in Services : WriteOverlay(o, s) \/ StopService(o, s) \/ StopFails(o, s)

ComposeNext ==
    \/ Crash
    \/ \E o \in Ops :
          \/ ComposeStep(o)
          \/ \E a \in Apps :
                \/ Deploy(o, a) \/ DeleteApp(o, a)
                \/ \E services \in SUBSET Services \ {{}} : UpdateApp(o, a, services) \/ CreateApp(o, a, services)

-----------------------------------------------------------------------------
(* Every container that runs is of a service that some compose file still  *)
(* has, so that the platform can stop and replace it: overlays are written *)
(* before the service is started and removed after it was stopped, also    *)
(* when deploys and deletions of apps that share services, the split of    *)
(* the old file and a crash come in between.  It is not so when a service  *)
(* is started by one call while another is removing it, and when a docker  *)
(* command of dropExtraRuntime failed, which goes unnoticed.               *)
RunningIsDefined ==
    \A s \in DOMAIN container \ (crossed \cup blind) :
        s \in Known(RootMain) \/ \E a \in DOMAIN WorkMain : s \in WorkMain[a]
=============================================================================
