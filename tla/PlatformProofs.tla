--------------------------- MODULE PlatformProofs ---------------------------
(***************************************************************************)
(* Proofs about the parts of the platform beside releases: the compose     *)
(* files and containers (Compose), for any apps and services; BAM (Bam),   *)
(* for any callers, modules, branches and pushes.  Each part has its own   *)
(* invariant, and they share nothing.                                      *)
(***************************************************************************)
EXTENDS Bam, Compose, SequenceTheorems, TLAPS

-----------------------------------------------------------------------------
(* Compose: the handlers and deploys, and the overlays.                    *)
ComposeSpec == ComposeInit /\ [][ComposeNext]_composeVars

Ats == {"split", "splitting", "unlink", "config", "overlay", "stop", "remove"}

Works == [at : Ats, for : {"deploy", "update", "delete"}, app : Apps, services : SUBSET Services, old : SUBSET Services,
          todo : SUBSET Services, gone : SUBSET Services, met : SUBSET Services, stop : BOOLEAN]

ComposeTyped ==
    /\ DOMAIN deploy_app \subseteq Apps /\ \A a \in DOMAIN deploy_app : deploy_app[a] \subseteq Services
    /\ runtime_yml = NoFile \/ runtime_yml \subseteq Services
    /\ DOMAIN doing = Ops /\ \A o \in Ops : doing[o] = Done \/ doing[o] \in Works

(* Whoever is past the split leaves no runtime.yml behind, and its         *)
(* overlays are there before it goes.                                      *)
SplitOf(w, yml, overlays) ==
    /\ w.at \in {"config", "overlay", "stop", "remove"} => yml = NoFile
    /\ w.at \in {"splitting", "unlink"} /\ yml # NoFile => w.old = yml
    /\ w.at = "unlink" /\ yml # NoFile => yml \subseteq overlays

SplitFirst == \A o \in Ops : SplitOf(doing[o], runtime_yml, DOMAIN overlay)

WorkTrees == UNION {WorkMain[a] : a \in DOMAIN WorkMain}

(* The overlay to be removed is of a service that does not run, unless     *)
(* somebody started it meanwhile, nobody could stop it or some compose     *)
(* file still has it.                                                      *)
GoneOf(w, running, lost) ==
    w.at = "remove" /\ w.stop => (w.gone \cap running) \subseteq w.met \cup lost \cup RootMain \cup WorkTrees

GoneIsStopped == \A o \in Ops : GoneOf(doing[o], DOMAIN container, crossed \cup blind)

ComposeInv == ComposeTyped /\ SplitFirst /\ GoneIsStopped /\ RunningIsDefined

LEMMA DoneAt == Done.at = "done" /\ \A w : w \in Works => w.at # "done"
  BY DEF Done, Works, Ats

LEMMA AtWorks ==
  ASSUME ComposeTyped, NEW o \in Ops, doing[o].at # "done"
  PROVE  doing[o] \in Works
  BY DoneAt DEF ComposeTyped

LEMMA DefinedIs ==
  RunningIsDefined <=> DOMAIN container \subseteq crossed \cup blind \cup RootMain \cup WorkTrees \cup DOMAIN overlay \cup Old
  BY DEF RunningIsDefined, Known, WorkTrees

(* What one handler or deploy does to itself, the containers stopped and   *)
(* the overlays, if the others' promises are kept.                         *)
LEMMA Moved ==
  ASSUME ComposeInv, NEW o \in Ops, NEW rec, Moves(o, rec), rec = Done \/ rec \in Works,
         DOMAIN deploy_app' \subseteq Apps, \A a \in DOMAIN deploy_app' : deploy_app'[a] \subseteq Services,
         runtime_yml' \in {runtime_yml, NoFile}, runtime_yml' # NoFile => DOMAIN overlay \subseteq DOMAIN overlay',
         DOMAIN container' \subseteq DOMAIN container, crossed \subseteq crossed', blind \subseteq blind',
         SplitOf(rec, runtime_yml', DOMAIN overlay'), GoneOf(rec, DOMAIN container', crossed' \cup blind'),
         RunningIsDefined'
  PROVE  ComposeInv'
<1>0. ComposeTyped /\ SplitFirst /\ GoneIsStopped
  BY DEF ComposeInv
<1>1. DOMAIN doing' = Ops /\ doing'[o] = rec /\ \A p \in Ops : p # o => doing'[p] = doing[p]
  BY <1>0 DEF Moves, ComposeTyped
<1>2. ComposeTyped'
  BY <1>0, <1>1 DEF ComposeTyped
<1>3. ASSUME NEW p \in Ops
      PROVE  SplitOf(doing'[p], runtime_yml', DOMAIN overlay') /\ GoneOf(doing'[p], DOMAIN container', crossed' \cup blind')
  <2>1. CASE p = o
    BY <1>1, <2>1
  <2>2. CASE p # o
    <3>1. doing'[p] = doing[p] /\ SplitOf(doing[p], runtime_yml, DOMAIN overlay) /\ GoneOf(doing[p], DOMAIN container, crossed \cup blind)
      BY <1>0, <1>1, <2>2 DEF SplitFirst, GoneIsStopped
    <3>2. SplitOf(doing[p], runtime_yml', DOMAIN overlay')
      BY <3>1 DEF SplitOf
    <3>3. GoneOf(doing[p], DOMAIN container', crossed' \cup blind')
      BY <3>1 DEF GoneOf
    <3> QED
      BY <3>1, <3>2, <3>3
  <2> QED
    BY <2>1, <2>2
<1>4. SplitFirst'
  BY <1>3 DEF SplitFirst
<1>5. GoneIsStopped'
  BY <1>3 DEF GoneIsStopped
<1> QED
  BY <1>2, <1>4, <1>5 DEF ComposeInv

LEMMA InitCompose == ComposeInit => ComposeInv
<1> SUFFICES ASSUME ComposeInit PROVE ComposeInv
  OBVIOUS
<1>1. deploy_app = Listed /\ runtime_yml = Combined /\ DOMAIN container = RootMain \cup Combined
  BY DEF ComposeInit
<1>2. DOMAIN doing = Ops /\ \A o \in Ops : doing[o] = Done
  BY DEF ComposeInit
<1>3. ComposeTyped
  BY <1>1, <1>2, ComposeAssumption DEF ComposeTyped
<1>4. SplitFirst
  BY <1>2, DoneAt DEF SplitFirst, SplitOf
<1>5. GoneIsStopped
  BY <1>2, DoneAt DEF GoneIsStopped, GoneOf
<1>6. Old = Combined
  BY <1>1, ComposeAssumption DEF Old
<1>7. RunningIsDefined
  BY <1>1, <1>6, DefinedIs
<1> QED
  BY <1>3, <1>4, <1>5, <1>7 DEF ComposeInv


(* A step of one that starts, stops and removes nothing. *)
LEMMA MovedQuietly ==
  ASSUME ComposeInv, NEW o \in Ops, NEW rec, Moves(o, rec), rec = Done \/ rec \in Works,
         DOMAIN deploy_app' \subseteq Apps, \A a \in DOMAIN deploy_app' : deploy_app'[a] \subseteq Services,
         UNCHANGED <<runtime_yml, container>>, crossed \subseteq crossed', blind \subseteq blind',
         DOMAIN overlay \subseteq DOMAIN overlay',
         SplitOf(rec, runtime_yml, DOMAIN overlay'), GoneOf(rec, DOMAIN container, crossed' \cup blind')
  PROVE  ComposeInv'
<1>1. RunningIsDefined' <=>
        DOMAIN container' \subseteq crossed' \cup blind' \cup RootMain \cup WorkTrees \cup DOMAIN overlay' \cup Old'
  BY DEF RunningIsDefined, Known, WorkTrees
<1>2. Old' = Old
  BY DEF Old
<1>3. RunningIsDefined
  BY DEF ComposeInv
<1>4. RunningIsDefined'
  BY <1>1, <1>2, <1>3, DefinedIs
<1> QED
  BY <1>4, Moved

LEMMA SplitCompose ==
  ASSUME ComposeInv, NEW o \in Ops, SplitRead(o) \/ SplitWrite(o) \/ SplitRemove(o)
  PROVE  ComposeInv'
<1>0. ComposeTyped /\ SplitFirst /\ RunningIsDefined
  BY DEF ComposeInv
<1>1. doing[o] \in Works
  BY <1>0, AtWorks DEF SplitRead, SplitWrite, SplitRemove, OpAt
<1> DEFINE w == doing[o]
<1>2. SplitOf(w, runtime_yml, DOMAIN overlay)
  BY <1>0 DEF SplitFirst
<1>3. CASE SplitRead(o)
  <2> DEFINE rec == IF runtime_yml = NoFile THEN [w EXCEPT !.at = "config"]
                    ELSE [w EXCEPT !.at = "splitting", !.old = runtime_yml]
  <2>1. Moves(o, rec)
    BY <1>3 DEF SplitRead, Reaches
  <2>2. /\ rec \in Works
        /\ (rec.at = "config" /\ runtime_yml = NoFile) \/ (rec.at = "splitting" /\ rec.old = runtime_yml)
    <3>1. CASE runtime_yml = NoFile
      <4>1. rec = [w EXCEPT !.at = "config"]
        BY <3>1
      <4> QED
        BY <1>1, <3>1, <4>1 DEF Works, Ats
    <3>2. CASE runtime_yml # NoFile
      <4>1. rec = [w EXCEPT !.at = "splitting", !.old = runtime_yml]
        BY <3>2
      <4>2. runtime_yml \subseteq Services
        BY <1>0, <3>2 DEF ComposeTyped
      <4> QED
        BY <1>1, <4>1, <4>2 DEF Works, Ats
    <3> QED
      BY <3>1, <3>2
  <2> HIDE DEF rec
  <2>3. SplitOf(rec, runtime_yml, DOMAIN overlay) /\ GoneOf(rec, DOMAIN container, crossed \cup blind)
    BY <2>2 DEF SplitOf, GoneOf
  <2> QED
    BY <1>0, <1>3, <2>1, <2>2, <2>3, MovedQuietly DEF SplitRead, ComposeTyped
<1>4. CASE SplitWrite(o)
  <2> DEFINE rec == [w EXCEPT !.at = "unlink"]
  <2>1. Moves(o, rec) /\ w.at = "splitting"
    BY <1>4 DEF SplitWrite, Reaches, OpAt
  <2>2. rec \in Works /\ rec.at = "unlink" /\ rec.old = w.old
    BY <1>1 DEF Works, Ats
  <2> HIDE DEF rec
  <2>3. DOMAIN overlay' = w.old \cup DOMAIN overlay
    BY <1>4 DEF SplitWrite, Over
  <2>4. SplitOf(rec, runtime_yml, DOMAIN overlay') /\ GoneOf(rec, DOMAIN container, crossed \cup blind)
    BY <1>2, <2>1, <2>2, <2>3 DEF SplitOf, GoneOf
  <2> QED
    BY <1>0, <1>4, <2>1, <2>2, <2>3, <2>4, MovedQuietly DEF SplitWrite, ComposeTyped
<1>5. CASE SplitRemove(o)
  <2> DEFINE rec == IF runtime_yml = NoFile /\ w.for = "deploy" THEN Done ELSE [w EXCEPT !.at = "config", !.old = {}]
  <2>1. Moves(o, rec) /\ w.at = "unlink" /\ runtime_yml' = NoFile
    BY <1>5 DEF SplitRemove, OpAt
  <2>2. rec = Done \/ (rec \in Works /\ rec.at = "config")
    <3>1. [w EXCEPT !.at = "config", !.old = {}] \in Works /\ [w EXCEPT !.at = "config", !.old = {}].at = "config"
      BY <1>1 DEF Works, Ats
    <3> QED
      BY <3>1
  <2> HIDE DEF rec
  <2>3. SplitOf(rec, runtime_yml', DOMAIN overlay') /\ GoneOf(rec, DOMAIN container', crossed' \cup blind')
    BY <2>1, <2>2, DoneAt DEF SplitOf, GoneOf
  <2>4. Old \subseteq DOMAIN overlay
    BY <1>2, <2>1 DEF SplitOf, Old
  <2>5. RunningIsDefined' <=>
          DOMAIN container' \subseteq crossed' \cup blind' \cup RootMain \cup WorkTrees \cup DOMAIN overlay' \cup Old'
    BY DEF RunningIsDefined, Known, WorkTrees
  <2>6. UNCHANGED <<container, crossed, blind, overlay, deploy_app>>
    BY <1>5 DEF SplitRemove
  <2>7. RunningIsDefined'
    BY <1>0, <2>4, <2>5, <2>6, DefinedIs
  <2> QED
    BY <1>0, <2>1, <2>2, <2>3, <2>6, <2>7, Moved DEF ComposeTyped
<1> QED
  BY <1>3, <1>4, <1>5

LEMMA SyncCompose ==
  ASSUME ComposeInv, NEW o \in Ops, NEW s,
         SyncConfig(o) \/ SyncConfigFails(o) \/ composeUpFails(o) \/ WriteOverlay(o, s)
  PROVE  ComposeInv'
<1>0. ComposeTyped /\ SplitFirst
  BY DEF ComposeInv
<1> DEFINE w == doing[o]
<1>1. w \in Works
  BY <1>0, AtWorks DEF SyncConfig, SyncConfigFails, composeUpFails, WriteOverlay, OpAt
<1>2. SplitOf(w, runtime_yml, DOMAIN overlay)
  BY <1>0 DEF SplitFirst
<1>3. UNCHANGED <<deploy_app, runtime_yml, container, crossed, blind>>
  BY DEF SyncConfig, SyncConfigFails, composeUpFails, WriteOverlay
<1>4. CASE SyncConfigFails(o) \/ composeUpFails(o)
  <2>1. Moves(o, Done) /\ UNCHANGED overlay
    BY <1>4 DEF SyncConfigFails, composeUpFails
  <2>2. SplitOf(Done, runtime_yml, DOMAIN overlay) /\ GoneOf(Done, DOMAIN container, crossed \cup blind)
    BY DoneAt DEF SplitOf, GoneOf
  <2> QED
    BY <1>0, <1>3, <2>1, <2>2, MovedQuietly DEF ComposeTyped
<1>5. CASE SyncConfig(o)
  <2> DEFINE extra == extraCompose(w.services, composeProject(w.app))
             rec == [w EXCEPT !.at = "overlay", !.todo = extra]
  <2>1. Moves(o, rec) /\ w.at = "config" /\ UNCHANGED overlay
    BY <1>5 DEF SyncConfig, OpAt
  <2>2. w.services \subseteq Services
    BY <1>1 DEF Works
  <2>3. extra \subseteq Services
    BY <2>2 DEF extraCompose
  <2> HIDE DEF extra
  <2>4. rec \in Works /\ rec.at = "overlay"
    BY <1>1, <2>3 DEF Works, Ats
  <2> HIDE DEF rec
  <2>5. SplitOf(rec, runtime_yml, DOMAIN overlay) /\ GoneOf(rec, DOMAIN container, crossed \cup blind)
    BY <1>2, <2>1, <2>4 DEF SplitOf, GoneOf
  <2> QED
    BY <1>0, <1>3, <2>1, <2>4, <2>5, MovedQuietly DEF ComposeTyped
<1>6. CASE WriteOverlay(o, s)
  <2> DEFINE rec == [w EXCEPT !.todo = @ \ {s}]
  <2>1. Moves(o, rec) /\ w.at = "overlay"
    BY <1>6 DEF WriteOverlay, OpAt
  <2>2. rec \in Works /\ rec.at = "overlay"
    BY <1>1, <2>1 DEF Works, Ats
  <2> HIDE DEF rec
  <2>3. DOMAIN overlay \subseteq DOMAIN overlay'
    BY <1>6 DEF WriteOverlay, Over
  <2>4. SplitOf(rec, runtime_yml, DOMAIN overlay') /\ GoneOf(rec, DOMAIN container, crossed \cup blind)
    BY <1>2, <2>1, <2>2 DEF SplitOf, GoneOf
  <2> QED
    BY <1>0, <1>3, <2>1, <2>2, <2>3, <2>4, MovedQuietly DEF ComposeTyped
<1> QED
  BY <1>4, <1>5, <1>6

(* A start: whoever is dropping one of the services has met it. *)
LEMMA UpCompose ==
  ASSUME ComposeInv, NEW o \in Ops, composeUp(o)
  PROVE  ComposeInv'
<1>0. ComposeTyped /\ SplitFirst /\ GoneIsStopped /\ RunningIsDefined
  BY DEF ComposeInv
<1> DEFINE up == doing[o].services
           main == composeProject(doing[o].app)
<1>1. doing[o] \in Works
  BY <1>0, AtWorks DEF composeUp, OpAt
<1>2. UNCHANGED <<deploy_app, overlay, runtime_yml>>
  BY DEF composeUp
<1>3. CASE up \subseteq Known(main)
  <2>1. /\ container' = Over([s \in up |-> ImageOf(s)], container)
        /\ crossed' = crossed \ up /\ blind' = blind \ up
        /\ doing' = [p \in Ops |-> IF p = o THEN Done
                                   ELSE IF doing[p].at \in {"stop", "remove"} THEN [doing[p] EXCEPT !.met = @ \cup up]
                                   ELSE doing[p]]
    BY <1>3, Zenon DEF composeUp
  <2>2. DOMAIN container' = up \cup DOMAIN container
    BY <2>1 DEF Over
  <2>3. up \subseteq Services
    BY <1>1 DEF Works
  <2> HIDE DEF up
  <2>4. ASSUME NEW p \in Ops
        PROVE  \/ doing'[p] = Done
               \/ doing'[p] = doing[p] /\ doing[p].at # "remove"
               \/ /\ doing[p] \in Works /\ doing'[p] \in Works /\ doing[p].at \in {"stop", "remove"}
                  /\ doing'[p].at = doing[p].at /\ doing'[p].stop = doing[p].stop /\ doing'[p].gone = doing[p].gone
                  /\ doing'[p].met = doing[p].met \cup up
    <3> DEFINE q == doing[p]
    <3>1. CASE p # o /\ q.at \in {"stop", "remove"}
      <4>1. q \in Works
        BY <1>0, <3>1, AtWorks
      <4>2. doing'[p] = [q EXCEPT !.met = @ \cup up]
        BY <2>1, <3>1
      <4> HIDE DEF q
      <4> DEFINE n == [q EXCEPT !.met = @ \cup up]
      <4>3. n \in Works /\ n.at = q.at /\ n.stop = q.stop /\ n.gone = q.gone /\ n.met = q.met \cup up
        BY <2>3, <4>1 DEF Works
      <4> QED
        BY <3>1, <4>1, <4>2, <4>3 DEF q
    <3>2. CASE ~(p # o /\ q.at \in {"stop", "remove"})
      BY <2>1, <3>2
    <3> QED
      BY <3>1, <3>2
  <2>5. ComposeTyped'
    <3>1. DOMAIN doing' = Ops
      BY <2>1
    <3> QED
      BY <1>0, <1>2, <2>4, <3>1 DEF ComposeTyped
  <2>6. SplitFirst'
    BY <1>0, <1>2, <2>4, DoneAt DEF SplitFirst, SplitOf
  <2>7. GoneIsStopped'
    <3> SUFFICES ASSUME NEW p \in Ops, doing'[p].at = "remove", doing'[p].stop
                 PROVE  (doing'[p].gone \cap DOMAIN container') \subseteq
                           doing'[p].met \cup (crossed' \cup blind') \cup RootMain \cup WorkTrees
      BY DEF GoneIsStopped, GoneOf
    <3>1. /\ doing[p].at = "remove" /\ doing[p].stop /\ doing'[p].gone = doing[p].gone
          /\ doing'[p].met = doing[p].met \cup up
      BY <2>4, DoneAt
    <3>2. (doing[p].gone \cap DOMAIN container) \subseteq doing[p].met \cup (crossed \cup blind) \cup RootMain \cup WorkTrees
      BY <1>0, <3>1 DEF GoneIsStopped, GoneOf
    <3> QED
      BY <2>1, <2>2, <3>1, <3>2
  <2>8. RunningIsDefined'
    <3>1. main \subseteq RootMain \cup WorkTrees
      BY DEF composeProject, WorkTrees
    <3>2. up \subseteq RootMain \cup WorkTrees \cup DOMAIN overlay \cup Old
      BY <1>3, <3>1 DEF Known
    <3>3. RunningIsDefined' <=>
            DOMAIN container' \subseteq crossed' \cup blind' \cup RootMain \cup WorkTrees \cup DOMAIN overlay' \cup Old'
      BY DEF RunningIsDefined, Known, WorkTrees
    <3>4. Old' = Old /\ DOMAIN overlay' = DOMAIN overlay
      BY <1>2 DEF Old
    <3> HIDE DEF main
    <3> QED
      BY <1>0, <2>1, <2>2, <3>2, <3>3, <3>4, DefinedIs
  <2> QED
    BY <2>5, <2>6, <2>7, <2>8 DEF ComposeInv
<1>4. CASE ~(up \subseteq Known(main))
  <2>1. Moves(o, Done) /\ UNCHANGED <<container, crossed, blind>>
    BY <1>4, Zenon DEF composeUp
  <2>2. SplitOf(Done, runtime_yml, DOMAIN overlay) /\ GoneOf(Done, DOMAIN container, crossed \cup blind)
    BY DoneAt DEF SplitOf, GoneOf
  <2> QED
    BY <1>0, <1>2, <2>1, <2>2, MovedQuietly DEF ComposeTyped
<1> QED
  BY <1>3, <1>4
LEMMA StopCompose ==
  ASSUME ComposeInv, NEW o \in Ops, NEW s \in Services, StopService(o, s) \/ StopFails(o, s)
  PROVE  ComposeInv'
<1>0. ComposeTyped /\ SplitFirst /\ RunningIsDefined
  BY DEF ComposeInv
<1> DEFINE w == doing[o]
           rec == [w EXCEPT !.at = "remove", !.gone = {s}, !.met = {}]
<1>1. w \in Works /\ w.at = "stop"
  BY <1>0, AtWorks DEF StopService, StopFails, OpAt
<1>2. SplitOf(w, runtime_yml, DOMAIN overlay)
  BY <1>0 DEF SplitFirst
<1>3. Moves(o, rec) /\ UNCHANGED <<deploy_app, runtime_yml, overlay, crossed>>
  BY DEF StopService, StopFails, Leaves
<1>4. rec \in Works /\ rec.at = "remove" /\ rec.gone = {s} /\ rec.stop = w.stop
  BY <1>1 DEF Works, Ats
<1> HIDE DEF rec
<1>5. runtime_yml = NoFile
  BY <1>1, <1>2 DEF SplitOf
<1>6. SplitOf(rec, runtime_yml', DOMAIN overlay')
  BY <1>3, <1>4, <1>5 DEF SplitOf
<1>7. RunningIsDefined' <=>
        DOMAIN container' \subseteq crossed' \cup blind' \cup RootMain \cup WorkTrees \cup DOMAIN overlay' \cup Old'
  BY DEF RunningIsDefined, Known, WorkTrees
<1>8. Old' = Old /\ DOMAIN overlay' = DOMAIN overlay
  BY <1>3 DEF Old
<1>9. /\ DOMAIN container' \subseteq DOMAIN container /\ blind \subseteq blind'
      /\ w.stop => s \notin DOMAIN container' \cap DOMAIN overlay \/ s \in blind'
  <2>1. CASE StopService(o, s)
    BY <2>1 DEF StopService, Without, Known
  <2>2. CASE StopFails(o, s)
    BY <2>2 DEF StopFails
  <2> QED
    BY <2>1, <2>2
<1>10. RunningIsDefined'
  BY <1>0, <1>3, <1>7, <1>8, <1>9, DefinedIs
<1>11. GoneOf(rec, DOMAIN container', crossed' \cup blind')
  <2>1. Old = {}
    BY <1>5 DEF Old
  <2>2. w.stop /\ s \in DOMAIN container' => s \in crossed' \cup blind' \cup RootMain \cup WorkTrees
    BY <1>7, <1>8, <1>9, <1>10, <2>1
  <2> QED
    BY <1>4, <2>2 DEF GoneOf
<1> QED
  BY <1>0, <1>3, <1>4, <1>6, <1>9, <1>10, <1>11, Moved DEF ComposeTyped

LEMMA RemoveCompose ==
  ASSUME ComposeInv, NEW o \in Ops, RemoveOverlay(o)
  PROVE  ComposeInv'
<1>0. ComposeTyped /\ SplitFirst /\ GoneIsStopped /\ RunningIsDefined
  BY DEF ComposeInv
<1> DEFINE w == doing[o]
           rec == [w EXCEPT !.at = "stop", !.todo = @ \ w.gone, !.gone = {}]
<1>1. w \in Works /\ w.at = "remove"
  BY <1>0, AtWorks DEF RemoveOverlay, OpAt
<1>2. SplitOf(w, runtime_yml, DOMAIN overlay) /\ GoneOf(w, DOMAIN container, crossed \cup blind)
  BY <1>0 DEF SplitFirst, GoneIsStopped
<1>3. /\ Moves(o, rec) /\ UNCHANGED <<deploy_app, runtime_yml, container>>
      /\ crossed' = crossed \cup (w.gone \cap w.met)
      /\ blind' = IF w.stop THEN blind ELSE blind \cup w.gone
      /\ DOMAIN overlay' = DOMAIN overlay \ w.gone
  BY DEF RemoveOverlay, Without
<1>4. rec \in Works /\ rec.at = "stop"
  BY <1>1 DEF Works, Ats
<1> HIDE DEF rec
<1>5. runtime_yml = NoFile
  BY <1>1, <1>2 DEF SplitOf
<1>6. SplitOf(rec, runtime_yml', DOMAIN overlay') /\ GoneOf(rec, DOMAIN container', crossed' \cup blind')
  BY <1>3, <1>4, <1>5 DEF SplitOf, GoneOf
<1>7. RunningIsDefined' <=>
        DOMAIN container' \subseteq crossed' \cup blind' \cup RootMain \cup WorkTrees \cup DOMAIN overlay' \cup Old'
  BY DEF RunningIsDefined, Known, WorkTrees
<1>8. Old' = Old
  BY <1>3 DEF Old
<1>9. (w.gone \cap DOMAIN container) \subseteq crossed' \cup blind' \cup RootMain \cup WorkTrees
  <2>1. CASE w.stop
    BY <1>1, <1>2, <1>3, <2>1 DEF GoneOf
  <2>2. CASE ~w.stop
    BY <1>3, <2>2
  <2> QED
    BY <2>1, <2>2
<1>10. crossed \subseteq crossed' /\ blind \subseteq blind'
  BY <1>3
<1>11. RunningIsDefined'
  BY <1>0, <1>3, <1>7, <1>8, <1>9, <1>10, DefinedIs
<1> QED
  BY <1>0, <1>3, <1>4, <1>5, <1>6, <1>10, <1>11, Moved DEF ComposeTyped

LEMMA DropCompose ==
  ASSUME ComposeInv, NEW o \in Ops, DropConfig(o) \/ DropEnds(o)
  PROVE  ComposeInv'
<1>0. ComposeTyped /\ SplitFirst
  BY DEF ComposeInv
<1> DEFINE w == doing[o]
<1>1. w \in Works
  BY <1>0, AtWorks DEF DropConfig, DropEnds, OpAt
<1>2. SplitOf(w, runtime_yml, DOMAIN overlay)
  BY <1>0 DEF SplitFirst
<1>3. UNCHANGED <<runtime_yml, overlay, container, crossed, blind>>
  BY DEF DropConfig, DropEnds
<1>4. CASE DropConfig(o)
  <2>1. PICK todo, stop : /\ todo \subseteq w.services /\ stop \in BOOLEAN
                          /\ Moves(o, [w EXCEPT !.at = "stop", !.todo = todo, !.stop = stop])
    <3>1. CASE Moves(o, [w EXCEPT !.at = "stop", !.todo = extraCompose(w.services, RootMain)])
      <4> DEFINE todo == extraCompose(w.services, RootMain)
      <4>1. todo \subseteq w.services
        BY DEF extraCompose
      <4> HIDE DEF todo
      <4>2. w.stop \in BOOLEAN /\ [w EXCEPT !.at = "stop", !.todo = todo] = [w EXCEPT !.at = "stop", !.todo = todo, !.stop = w.stop]
        BY <1>1 DEF Works
      <4>3. Moves(o, [w EXCEPT !.at = "stop", !.todo = todo])
        BY <3>1 DEF todo
      <4> QED
        BY <4>1, <4>2, <4>3
    <3>2. CASE Moves(o, [w EXCEPT !.at = "stop", !.todo = w.services, !.stop = FALSE])
      BY <3>2
    <3> QED
      BY <1>4, <3>1, <3>2 DEF DropConfig
  <2> DEFINE rec == [w EXCEPT !.at = "stop", !.todo = todo, !.stop = stop]
  <2>2. rec \in Works /\ rec.at = "stop"
    BY <1>1, <2>1 DEF Works, Ats
  <2>3. Moves(o, rec) /\ w.at = "config" /\ UNCHANGED deploy_app
    BY <1>4, <2>1 DEF DropConfig, OpAt
  <2> HIDE DEF rec
  <2>4. SplitOf(rec, runtime_yml, DOMAIN overlay) /\ GoneOf(rec, DOMAIN container, crossed \cup blind)
    BY <1>2, <2>2, <2>3 DEF SplitOf, GoneOf
  <2> QED
    BY <1>0, <1>3, <2>2, <2>3, <2>4, MovedQuietly DEF ComposeTyped
<1>5. CASE DropEnds(o)
  <2>1. Moves(o, Done)
    BY <1>5 DEF DropEnds
  <2>2. SplitOf(Done, runtime_yml, DOMAIN overlay) /\ GoneOf(Done, DOMAIN container, crossed \cup blind)
    BY DoneAt DEF SplitOf, GoneOf
  <2>3. DOMAIN deploy_app' \subseteq Apps /\ \A a \in DOMAIN deploy_app' : deploy_app'[a] \subseteq Services
    BY <1>0, <1>5 DEF DropEnds, Without, ComposeTyped
  <2> QED
    BY <1>0, <1>3, <2>1, <2>2, <2>3, MovedQuietly
<1> QED
  BY <1>4, <1>5

(* The calls begin at the split. *)
LEMMA CallCompose ==
  ASSUME ComposeInv, NEW o \in Ops, NEW a \in Apps, NEW services \in SUBSET Services,
         Deploy(o, a) \/ DeleteApp(o, a) \/ UpdateApp(o, a, services)
  PROVE  ComposeInv'
<1>0. ComposeTyped /\ a \in DOMAIN deploy_app /\ deploy_app[a] \subseteq Services
  BY DEF ComposeInv, ComposeTyped, Deploy, DeleteApp, UpdateApp
<1>1. UNCHANGED <<runtime_yml, overlay, container, crossed, blind>>
  BY DEF Deploy, DeleteApp, UpdateApp
<1>2. DOMAIN deploy_app' \subseteq Apps /\ \A b \in DOMAIN deploy_app' : deploy_app'[b] \subseteq Services
  <2>1. CASE Deploy(o, a) \/ DeleteApp(o, a)
    BY <1>0, <2>1 DEF Deploy, DeleteApp, ComposeTyped
  <2>2. CASE UpdateApp(o, a, services)
    BY <1>0, <2>2 DEF UpdateApp, ComposeTyped
  <2> QED
    BY <2>1, <2>2
<1>3. PICK for \in {"deploy", "update", "delete"}, of \in SUBSET Services : Begins(o, for, a, of)
  <2>1. composeDropped(deploy_app[a], services) \in SUBSET Services
    BY <1>0 DEF composeDropped
  <2> QED
    BY <1>0, <2>1, Zenon DEF Deploy, DeleteApp, UpdateApp
<1> DEFINE rec == [at |-> "split", for |-> for, app |-> a, services |-> of,
                   old |-> {}, todo |-> {}, gone |-> {}, met |-> {}, stop |-> TRUE]
<1>4. rec \in Works /\ rec.at = "split"
  BY DEF Works, Ats
<1>5. Moves(o, rec)
  BY <1>3 DEF Begins
<1> HIDE DEF rec
<1>6. SplitOf(rec, runtime_yml, DOMAIN overlay) /\ GoneOf(rec, DOMAIN container, crossed \cup blind)
  BY <1>4 DEF SplitOf, GoneOf
<1> QED
  BY <1>1, <1>2, <1>4, <1>5, <1>6, MovedQuietly

LEMMA NextCompose == ComposeInv /\ [ComposeNext]_composeVars => ComposeInv'
<1> SUFFICES ASSUME ComposeInv, [ComposeNext]_composeVars PROVE ComposeInv'
  OBVIOUS
<1>0. ComposeTyped /\ SplitFirst /\ GoneIsStopped /\ RunningIsDefined
  BY DEF ComposeInv
<1>1. ASSUME UNCHANGED <<overlay, runtime_yml, container, crossed, blind>>,
             doing' = doing \/ doing' = [o \in Ops |-> Done],
             DOMAIN deploy_app' \subseteq Apps, \A a \in DOMAIN deploy_app' : deploy_app'[a] \subseteq Services
      PROVE  ComposeInv'
  <2>1. DOMAIN doing' = Ops /\ \A o \in Ops : doing'[o] = Done \/ doing'[o] = doing[o]
    BY <1>0, <1>1 DEF ComposeTyped
  <2>2. ComposeTyped'
    BY <1>0, <1>1, <2>1 DEF ComposeTyped
  <2>3. SplitFirst'
    BY <1>0, <1>1, <2>1, DoneAt DEF SplitFirst, SplitOf
  <2>4. GoneIsStopped'
    BY <1>0, <1>1, <2>1, DoneAt DEF GoneIsStopped, GoneOf
  <2>5. RunningIsDefined'
    BY <1>0, <1>1 DEF RunningIsDefined, Known, Old
  <2> QED
    BY <2>2, <2>3, <2>4, <2>5 DEF ComposeInv
<1>2. CASE UNCHANGED composeVars
  BY <1>0, <1>1, <1>2 DEF composeVars, ComposeTyped
<1>3. CASE Crash
  BY <1>0, <1>1, <1>3 DEF Crash, ComposeTyped
<1>4. ASSUME NEW o \in Ops, NEW a \in Apps, NEW services \in SUBSET Services, CreateApp(o, a, services)
      PROVE  ComposeInv'
  <2>1. DOMAIN deploy_app' \subseteq Apps /\ \A b \in DOMAIN deploy_app' : deploy_app'[b] \subseteq Services
    BY <1>0, <1>4 DEF CreateApp, Over, ComposeTyped
  <2> QED
    BY <1>1, <1>4, <2>1 DEF CreateApp
<1>5. ASSUME NEW o \in Ops, ComposeStep(o) PROVE ComposeInv'
  <2>1. CASE SplitRead(o) \/ SplitWrite(o) \/ SplitRemove(o) \/ composeUp(o) \/ RemoveOverlay(o) \/ DropConfig(o) \/ DropEnds(o)
    BY <2>1, SplitCompose, UpCompose, RemoveCompose, DropCompose, Zenon
  <2>2. CASE SyncConfig(o) \/ SyncConfigFails(o) \/ composeUpFails(o)
    BY <2>2, SyncCompose, Zenon
  <2>3. ASSUME NEW s \in Services, WriteOverlay(o, s) PROVE ComposeInv'
    BY <2>3, SyncCompose, Zenon
  <2>4. ASSUME NEW s \in Services, StopService(o, s) \/ StopFails(o, s) PROVE ComposeInv'
    BY <2>4, StopCompose
  <2> QED
    BY <1>5, <2>1, <2>2, <2>3, <2>4, Zenon DEF ComposeStep
<1> QED
  BY <1>2, <1>3, <1>4, <1>5, CallCompose, Zenon DEF ComposeNext

(* Every container that runs is of a service that some compose file still  *)
(* has, for any number of deploys, changes and deletions at once and any   *)
(* crashes: what writes the overlays before it starts a service and stops  *)
(* the service before it removes one keeps it, except where a service was  *)
(* started while another handler was removing it, or where a docker        *)
(* command of dropExtraRuntime failed unnoticed.                           *)
THEOREM RunningStaysDefined == ComposeSpec => []RunningIsDefined
<1>1. ComposeInv => RunningIsDefined
  BY DEF ComposeInv
<1> QED
  BY <1>1, InitCompose, NextCompose, PTL DEF ComposeSpec

-----------------------------------------------------------------------------
(* BAM: the modules of one repository and the work tree they share.        *)
BamSpec == BamInit /\ [][BamNext]_bamVars

(* What the actors hold while they are at something. *)
Branchy == Branches \cup {NoBranch}
AllDirs == Dirs \cup {NoDir} \cup {Bound[m] : m \in DOMAIN Bound}
Rows    == [version : Nat, dir : AllDirs, branch : Branchy, commit : Nat]
Files   == [from : Int, dir : AllDirs]
Heads   == [Branches -> Nat]
Lines   == [name : Modules, lang : STRING]
Scans   == [at : {"scan"}, for : {"scan"}, all : SUBSET Modules, todo : SUBSET Modules, branch : Branches, commit : Nat,
            ok : Nat, past : Nat, remote : Heads]
Pulled  == [for : {"pull"}, asks : Branchy, lang : STRING, rest : Seq(Lines)]
Backs   == [for : {"user"}] \cup Pulled \cup Scans

Makers  == [at : {"create", "collect"}, m : Modules \ {OwnModule}, dir : Dirs, branch : Branchy]
Headers == [at : {"head"}, m : Modules \ {OwnModule}, dir : Dirs, branch : Branchy, files : Files]
Lockers == [at : {"lock"}, m : Modules, branch : Branchy, back : Backs]
Gens    == [at : {"sync", "decide", "write", "gen"}, m : Modules, row : Rows, genOk : BOOLEAN, version : Nat,
            branch : Branchy, asked : Heads, back : Backs]
Zippers == [at : {"zip"}, m : Modules, version : Nat, branch : Branchy, asked : Heads, back : Pulled]
Polls   == [at : {"poll"}, past : Nat, remote : Heads]
Acting  == {Rest} \cup Makers \cup Headers \cup Lockers \cup Gens \cup Zippers \cup Polls \cup Scans

BamTyped ==
    /\ heads \in Heads /\ commits \in Nat /\ tree \in Nat
    /\ DOMAIN bam_module \subseteq Modules /\ \A m \in DOMAIN bam_module : bam_module[m] \in Rows
    /\ DOMAIN bam_rev \subseteq Modules \X Nat
    /\ \A id \in DOMAIN bam_rev : bam_rev[id] \in [branch : Branchy, commit : Nat, files : Files]
    /\ DOMAIN bam_gen \subseteq DOMAIN bam_rev
    /\ \A id \in DOMAIN bam_gen : bam_gen[id] \in [status : {"ok", "fail"}, code : Files]
    /\ DOMAIN act = Actors /\ \A a \in Actors : act[a] \in Acting

(* The versions: a module's row is that of its latest, none is written     *)
(* twice, and only the own module, which stays, is without a directory.    *)
Versions ==
    /\ OwnModule \in DOMAIN bam_module
    /\ \A m \in DOMAIN bam_module :
          /\ bam_module[m].dir = NoDir <=> m = OwnModule
          /\ <<m, bam_module[m].version>> \in DOMAIN bam_rev
          /\ m # OwnModule =>
                /\ bam_rev[<<m, bam_module[m].version>>].branch = bam_module[m].branch
                /\ bam_rev[<<m, bam_module[m].version>>].commit = bam_module[m].commit
    /\ \A id \in DOMAIN bam_rev :
          /\ id[1] \in DOMAIN bam_module /\ id[2] <= bam_module[id[1]].version
          /\ id[1] # OwnModule => bam_rev[id].commit # 0
          /\ id[1] = OwnModule => bam_rev[id].commit = 0 /\ bam_rev[id].files.dir = NoDir
    /\ \A id \in DOMAIN bam_gen : id[1] = OwnModule => bam_gen[id].code.dir = NoDir

(* Every commit is of one branch. *)
OwnedBy(of) ==
    /\ of \in [1..commits -> Branches]
    /\ tree \in 1..commits
    /\ \A b \in Branches : heads[b] # 0 => heads[b] \in 1..commits /\ of[heads[b]] = b
    /\ \A id \in DOMAIN bam_rev \ blurred : bam_rev[id].commit # 0 =>
          bam_rev[id].commit \in 1..commits /\ of[bam_rev[id].commit] = Branch(bam_rev[id].branch)

(* The version an actor has come to is of its branch, and not older than   *)
(* the branch was when its turn came.                                      *)
Ripe(m, version, branch, asked) ==
    /\ <<m, version>> \in DOMAIN bam_rev
    /\ m # OwnModule =>
          /\ bam_rev[<<m, version>>].branch = branch
          /\ <<m, version>> \notin blurred => bam_rev[<<m, version>>].commit >= asked[Branch(branch)]

(* An actor at work; apart from those that were mixed up with another, it  *)
(* finds the tree as it checked it out.                                    *)
WorkOf(a, of) ==
    LET g == act[a]
        id == <<g.m, g.version>>
        apart == a \notin mixed
    IN  /\ g.at = "lock" => g.m \in DOMAIN bam_module
        /\ g.at \in {"sync", "decide", "write", "gen"} =>
              /\ bamGenMu = a
              /\ g.row.dir = NoDir <=> g.m = OwnModule
              /\ \A b \in Branches : g.asked[b] <= heads[b]
        /\ g.at \in {"sync", "decide", "write"} => g.m # OwnModule
        /\ g.at \in {"sync", "decide"} =>
              /\ id \in DOMAIN bam_rev /\ bam_rev[id].branch = g.row.branch /\ bam_rev[id].commit = g.row.commit
        /\ g.at = "decide" => (of[tree] = Branch(g.branch) => tree >= g.asked[Branch(g.branch)])
        /\ g.at \in {"decide", "write"} /\ apart => of[tree] = Branch(g.branch) /\ tree >= g.asked[Branch(g.branch)]
        /\ g.at = "write" => g.row.commit # 0 /\ (apart => g.row.commit = tree)
        /\ g.at = "gen" /\ g.m # OwnModule /\ apart => bam_rev[id].files = [from |-> tree, dir |-> g.row.dir]
        /\ g.at \in {"gen", "zip"} => Ripe(g.m, g.version, g.branch, g.asked)
        /\ g.at \in {"collect", "head"} /\ apart => of[tree] = Branch(g.branch)
        /\ g.at = "head" /\ apart => g.files.from = tree

(* What a scan has tried. *)
AllTried(s, M) == \A m \in M : <<m, s.branch>> \in DOMAIN tried /\ tried[<<m, s.branch>>] >= s.commit

ScanOf(s) ==
    /\ s.commit <= heads[s.branch]
    /\ s.all \subseteq DOMAIN bam_module \ {OwnModule} /\ s.todo \subseteq s.all

TriedOf(a) ==
    LET g == act[a]
    IN  /\ g.at = "scan" => ScanOf(g) /\ AllTried(g, g.all \ g.todo)
        /\ g.at \in {"lock", "sync", "decide", "write", "gen"} /\ g.back.for = "scan" =>
              /\ ScanOf(g.back) /\ g.branch = g.back.branch /\ g.m # OwnModule
              /\ AllTried(g.back, g.back.all \ (g.back.todo \cup {g.m}))
              /\ g.at \in {"decide", "write", "gen"} => AllTried(g.back, {g.m})
        /\ g.at \in {"poll", "scan"} => \A b \in Branches : g.remote[b] <= heads[b]
        /\ g.at \in {"lock", "sync", "decide", "write", "gen"} /\ g.back.for = "scan" =>
              \A b \in Branches : g.back.remote[b] <= heads[b]

Tries ==
    /\ DOMAIN tried \subseteq Modules \X Branchy
    /\ \A k \in DOMAIN tried : tried[k] \in Nat /\ tried[k] <= heads[Branch(k[2])]

BamBut(of) ==
    /\ BamTyped /\ Versions /\ OwnedBy(of) /\ Tries /\ RevMatchesCommit /\ PullIsOwn
    /\ \A a \in Actors : WorkOf(a, of) /\ TriedOf(a)

BamInv == \E of : BamBut(of)


LEMMA RestAt == Rest.at = "rest"
  BY DEF Rest

LEMMA ActAt ==
  ASSUME BamTyped, NEW a \in Actors
  PROVE  /\ act[a].at \in {"create", "collect"} => act[a] \in Makers
         /\ act[a].at = "head" => act[a] \in Headers
         /\ act[a].at = "lock" => act[a] \in Lockers
         /\ act[a].at \in {"sync", "decide", "write", "gen"} => act[a] \in Gens
         /\ act[a].at = "zip" => act[a] \in Zippers
         /\ act[a].at = "scan" => act[a] \in Scans
         /\ act[a].at = "poll" => act[a] \in Polls
<1>1. act[a] \in Acting
  BY DEF BamTyped
<1>2. /\ \A x \in Makers : x.at \in {"create", "collect"}
      /\ \A x \in Headers : x.at = "head"
      /\ \A x \in Lockers : x.at = "lock"
      /\ \A x \in Gens : x.at \in {"sync", "decide", "write", "gen"}
      /\ \A x \in Zippers : x.at = "zip"
      /\ \A x \in Scans : x.at = "scan"
      /\ \A x \in Polls : x.at = "poll"
  BY DEF Makers, Headers, Lockers, Gens, Zippers, Scans, Polls
<1> QED
  BY <1>1, <1>2, RestAt DEF Acting

LEMMA BranchIs == \A b \in Branchy : Branch(b) \in Branches /\ (b \in Branches => Branch(b) = b)
  BY BamAssumption DEF Branchy, Branch, Branches

(* What only grows in a step. *)
Grows(of, of2) ==
    /\ heads' \in Heads /\ \A b \in Branches : heads[b] <= heads'[b]
    /\ commits <= commits' /\ \A c \in 1..commits : of2[c] = of[c]
    /\ DOMAIN bam_module \subseteq DOMAIN bam_module'
    /\ \A id \in DOMAIN bam_rev : id \in DOMAIN bam_rev' /\ bam_rev'[id] = bam_rev[id]
    /\ blurred \subseteq blurred'
    /\ \A k \in DOMAIN tried : k \in DOMAIN tried' /\ tried'[k] \in Nat /\ tried[k] <= tried'[k]

(* What a step of another may do to an actor: it leaves the tree alone, or *)
(* whoever is busy with the tree is mixed up.                              *)
Spares(o) ==
    /\ act'[o] = act[o]
    /\ bamGenMu = o => bamGenMu' = o
    /\ \/ tree' = tree /\ (o \in mixed => o \in mixed')
       \/ (Busy(o) => o \in mixed') /\ UNCHANGED heads /\ \E b \in Branches : heads[b] # 0 /\ tree' = heads[b]

LEMMA WorkKept ==
  ASSUME BamTyped, NEW of, NEW of2, NEW o \in Actors, OwnedBy(of), WorkOf(o, of), Grows(of, of2), Spares(o)
  PROVE  WorkOf(o, of2)'
<1> DEFINE g == act[o]
           id == <<g.m, g.version>>
<1>0. act'[o] = g
  BY DEF Spares
<1>1. ASSUME g.at \in {"sync", "decide", "write", "gen"}
      PROVE  /\ bamGenMu' = o /\ (g.row.dir = NoDir <=> g.m = OwnModule)
             /\ \A b \in Branches : g.asked[b] \in Nat /\ g.asked[b] <= heads[b] /\ g.asked[b] <= heads'[b]
             /\ g.branch \in Branchy
  <2>1. g \in Gens
    BY <1>1, ActAt
  <2>2. g.asked \in Heads /\ g.branch \in Branchy
    BY <2>1 DEF Gens
  <2>3. bamGenMu = o /\ (g.row.dir = NoDir <=> g.m = OwnModule) /\ \A b \in Branches : g.asked[b] <= heads[b]
    BY <1>1 DEF WorkOf
  <2> QED
    BY <2>2, <2>3 DEF Heads, Spares, Grows, BamTyped
<1>2. g.at \in {"sync", "decide", "write"} => g.m # OwnModule
  BY DEF WorkOf
<1>3. g.at \in {"sync", "decide"} =>
        id \in DOMAIN bam_rev' /\ bam_rev'[id].branch = g.row.branch /\ bam_rev'[id].commit = g.row.commit
  BY DEF WorkOf, Grows
<1>4. Busy(o) /\ o \notin mixed' => tree' = tree /\ o \notin mixed
  BY DEF Spares
<1>5. tree \in 1..commits /\ of2[tree] = of[tree]
  BY DEF OwnedBy, Grows
<1>6. g.at = "decide" => (of2[tree'] = Branch(g.branch) => tree' >= g.asked[Branch(g.branch)])
  <2> SUFFICES ASSUME g.at = "decide", of2[tree'] = Branch(g.branch) PROVE tree' >= g.asked[Branch(g.branch)]
    OBVIOUS
  <2>1. g.branch \in Branchy /\ Branch(g.branch) \in Branches
    BY <1>1, BranchIs
  <2>2. CASE tree' = tree
    BY <1>5, <2>2 DEF WorkOf
  <2>3. CASE \E b \in Branches : heads[b] # 0 /\ tree' = heads[b]
    <3>1. PICK b \in Branches : heads[b] # 0 /\ tree' = heads[b]
      BY <2>3
    <3>2. heads[b] \in 1..commits /\ of[heads[b]] = b
      BY <3>1 DEF OwnedBy
    <3>3. b = Branch(g.branch)
      BY <3>1, <3>2 DEF Grows
    <3>4. g.asked[b] <= heads[b] /\ g.asked[b] \in Nat /\ heads[b] \in Nat
      BY <1>1 DEF BamTyped, Heads
    <3> QED
      BY <3>1, <3>3, <3>4
  <2> QED
    BY <2>2, <2>3 DEF Spares
<1>7. g.at \in {"decide", "write"} /\ o \notin mixed' => of2[tree'] = Branch(g.branch) /\ tree' >= g.asked[Branch(g.branch)]
  BY <1>4, <1>5 DEF WorkOf, Busy
<1>8. g.at = "write" => g.row.commit # 0 /\ (o \notin mixed' => g.row.commit = tree')
  BY <1>4, <1>5 DEF WorkOf, Busy
<1>9. ASSUME g.at \in {"gen", "zip"}
      PROVE  /\ id \in DOMAIN bam_rev /\ id \in DOMAIN bam_rev' /\ bam_rev'[id] = bam_rev[id]
             /\ g.m # OwnModule =>
                   /\ bam_rev[id].branch = g.branch
                   /\ id \notin blurred' => bam_rev[id].commit >= g.asked[Branch(g.branch)]
  <2>1. Ripe(g.m, g.version, g.branch, g.asked)
    BY <1>9 DEF WorkOf
  <2> QED
    BY <2>1 DEF Ripe, Grows
<1>10. g.at = "gen" /\ g.m # OwnModule /\ o \notin mixed' => bam_rev'[id].files = [from |-> tree', dir |-> g.row.dir]
  BY <1>4, <1>9 DEF WorkOf, Busy
<1>11. g.at \in {"collect", "head"} /\ o \notin mixed' => of2[tree'] = Branch(g.branch)
  BY <1>4, <1>5 DEF WorkOf, Busy
<1>12. g.at = "head" /\ o \notin mixed' => g.files.from = tree'
  BY <1>4 DEF WorkOf, Busy
<1>13. g.at \in {"gen", "zip"} => Ripe(g.m, g.version, g.branch, g.asked)'
  BY <1>0, <1>9 DEF Ripe
<1>14. g.at = "lock" => g.m \in DOMAIN bam_module'
  BY DEF WorkOf, Grows
<1> QED
  BY <1>0, <1>1, <1>2, <1>3, <1>6, <1>7, <1>8, <1>10, <1>11, <1>12, <1>13, <1>14 DEF WorkOf

LEMMA ScanKept ==
  ASSUME BamTyped, NEW of, NEW of2, Grows(of, of2), Tries, NEW s \in Scans
  PROVE  /\ ScanOf(s) => ScanOf(s)'
         /\ \A M \in SUBSET Modules : AllTried(s, M) => AllTried(s, M)'
         /\ (\A b \in Branches : s.remote[b] <= heads[b]) => \A b \in Branches : s.remote[b] <= heads'[b]
<1>1. s.branch \in Branches /\ s.commit \in Nat /\ s.remote \in Heads
  BY DEF Scans
<1>2. \A b \in Branches : heads[b] \in Nat /\ heads'[b] \in Nat /\ heads[b] <= heads'[b] /\ s.remote[b] \in Nat
  BY <1>1 DEF BamTyped, Grows, Heads
<1>3. ScanOf(s) => ScanOf(s)'
  BY <1>1, <1>2 DEF ScanOf, Grows
<1>4. ASSUME NEW M \in SUBSET Modules, AllTried(s, M) PROVE AllTried(s, M)'
  <2> SUFFICES ASSUME NEW m \in M PROVE <<m, s.branch>> \in DOMAIN tried' /\ tried'[<<m, s.branch>>] >= s.commit
    BY DEF AllTried
  <2>1. <<m, s.branch>> \in DOMAIN tried /\ tried[<<m, s.branch>>] >= s.commit
    BY <1>4 DEF AllTried
  <2> QED
    BY <1>1, <2>1 DEF Grows, Tries
<1> QED
  BY <1>2, <1>3, <1>4

LEMMA BackAt == \A back \in Backs : back.for = "scan" => back \in Scans
  BY DEF Backs, Pulled

LEMMA TriedKept ==
  ASSUME BamTyped, NEW of, NEW of2, NEW o \in Actors, Grows(of, of2), Tries, TriedOf(o), act'[o] = act[o]
  PROVE  TriedOf(o)'
<1> DEFINE G == act[o]
<1>1. PICK g : g = G
  OBVIOUS
<1>2. act'[o] = g /\ act[o] = g
  BY <1>1
<1>3. CASE g.at = "scan"
  <2>1. g \in Scans
    BY <1>2, <1>3, ActAt
  <2>2. ScanOf(g) /\ AllTried(g, g.all \ g.todo) /\ (\A b \in Branches : g.remote[b] <= heads[b])
    BY <1>2, <1>3 DEF TriedOf
  <2>3. (g.all \ g.todo) \in SUBSET Modules
    BY <2>1 DEF Scans
  <2>4. ScanOf(g)' /\ AllTried(g, g.all \ g.todo)' /\ (\A b \in Branches : g.remote[b] <= heads'[b])
    BY <2>1, <2>2, <2>3, ScanKept
  <2> QED
    BY <1>2, <1>3, <2>4 DEF TriedOf
<1>4. CASE g.at = "poll"
  <2>1. g \in Polls
    BY <1>2, <1>4, ActAt
  <2>2. \A b \in Branches : g.remote[b] <= heads[b] /\ heads[b] \in Nat /\ heads'[b] \in Nat /\ heads[b] <= heads'[b] /\ g.remote[b] \in Nat
    BY <1>2, <1>4, <2>1 DEF TriedOf, Polls, BamTyped, Heads, Grows
  <2>3. \A b \in Branches : g.remote[b] <= heads'[b]
    BY <2>2
  <2> QED
    BY <1>2, <1>4, <2>3 DEF TriedOf
<1>5. CASE g.at \in {"lock", "sync", "decide", "write", "gen"}
  <2>1. g.back \in Backs /\ g.m \in Modules
    BY <1>2, <1>5, ActAt DEF Lockers, Gens
  <2>2. CASE g.back.for = "scan"
    <3> DEFINE s == g.back
               M == s.all \ (s.todo \cup {g.m})
    <3>1. s \in Scans /\ {g.m} \in SUBSET Modules
      BY <2>1, <2>2, BackAt
    <3>2. M \in SUBSET Modules
      BY <3>1 DEF Scans
    <3>3. /\ ScanOf(s) /\ g.branch = s.branch /\ g.m # OwnModule /\ AllTried(s, M)
          /\ \A b \in Branches : s.remote[b] <= heads[b]
          /\ g.at \in {"decide", "write", "gen"} => AllTried(s, {g.m})
      BY <1>2, <1>5, <2>2 DEF TriedOf
    <3> HIDE DEF s, M
    <3>4. /\ ScanOf(s)' /\ AllTried(s, M)' /\ (\A b \in Branches : s.remote[b] <= heads'[b])
          /\ g.at \in {"decide", "write", "gen"} => AllTried(s, {g.m})'
      BY <3>1, <3>2, <3>3, ScanKept
    <3> QED
      BY <1>2, <1>5, <3>3, <3>4 DEF TriedOf, s, M
  <2>3. CASE g.back.for # "scan"
    BY <1>2, <1>5, <2>3 DEF TriedOf
  <2> QED
    BY <2>2, <2>3
<1>6. CASE g.at \notin {"lock", "sync", "decide", "write", "gen", "poll", "scan"}
  BY <1>2, <1>6 DEF TriedOf
<1> QED
  BY <1>3, <1>4, <1>5, <1>6

(* A step of one actor. *)
LEMMA Stepped ==
  ASSUME NEW of, NEW of2, BamBut(of), NEW a \in Actors, Grows(of, of2), \A o \in Actors \ {a} : Spares(o),
         BamTyped', Versions', OwnedBy(of2)', Tries', RevMatchesCommit', PullIsOwn', WorkOf(a, of2)', TriedOf(a)'
  PROVE  BamInv'
<1>1. ASSUME NEW o \in Actors PROVE WorkOf(o, of2)' /\ TriedOf(o)'
  <2>1. CASE o = a
    BY <2>1
  <2>2. CASE o # a
    <3>1. Spares(o) /\ BamTyped /\ OwnedBy(of) /\ WorkOf(o, of) /\ TriedOf(o) /\ Tries
      BY <2>2 DEF BamBut
    <3>2. act'[o] = act[o]
      BY <3>1 DEF Spares
    <3> QED
      BY <3>1, <3>2, WorkKept, TriedKept
  <2> QED
    BY <2>1, <2>2
<1>2. BamBut(of2)'
  BY <1>1 DEF BamBut
<1> QED
  BY <1>2 DEF BamInv

(* A step that changes what one actor is at, and no table. *)
LEMMA Acted ==
  ASSUME NEW of, BamBut(of), NEW a \in Actors, NEW rec \in Acting, Goes(a, rec),
         UNCHANGED <<heads, commits, tree, bam_module, bam_rev, bam_gen, tried, blurred>>, pulls' = pulls \/ PullIsOwn',
         mixed \ {a} \subseteq mixed', bamGenMu \notin {a, Nobody} => bamGenMu' = bamGenMu,
         WorkOf(a, of)', TriedOf(a)'
  PROVE  BamInv'
<1>0. BamTyped /\ Versions /\ OwnedBy(of) /\ Tries /\ RevMatchesCommit /\ PullIsOwn
  BY DEF BamBut
<1>1. DOMAIN act' = Actors /\ act'[a] = rec /\ \A o \in Actors \ {a} : act'[o] = act[o]
  BY <1>0 DEF Goes, BamTyped
<1>2. BamTyped'
  BY <1>0, <1>1 DEF BamTyped
<1>3. Versions' /\ OwnedBy(of)' /\ Tries'
  BY <1>0 DEF Versions, OwnedBy, Tries
<1>4. RevMatchesCommit' /\ PullIsOwn'
  BY <1>0 DEF RevMatchesCommit, PullIsOwn
<1>5. Grows(of, of)
  <2>1. \A b \in Branches : heads[b] <= heads[b]
    BY <1>0 DEF BamTyped, Heads
  <2> QED
    BY <1>0, <2>1 DEF Grows, BamTyped, Tries
<1>6. \A o \in Actors \ {a} : Spares(o)
  BY <1>1, BamAssumption DEF Spares, Actors
<1> QED
  BY <1>2, <1>3, <1>4, <1>5, <1>6, Stepped

LEMMA EasyWork ==
  ASSUME NEW of, NEW a, act'[a].at \in {"rest", "create", "scan", "poll"}
  PROVE  WorkOf(a, of)'
  BY DEF WorkOf

LEMMA EasyTried ==
  ASSUME NEW a, act'[a].at \in {"rest", "create", "collect", "head", "zip"}
  PROVE  TriedOf(a)'
  BY DEF TriedOf

(* What creating a module does before it writes. *)
LEMMA CreateBam ==
  ASSUME NEW of, BamBut(of), NEW u \in Users, NEW m \in Modules, NEW dir \in Dirs, NEW b \in Branchy,
         CreateBamModule(u, m, dir, b) \/ CreateEnds(u) \/ CreateCollect(u)
  PROVE  BamInv'
<1>0. BamTyped /\ Versions /\ OwnedBy(of) /\ WorkOf(u, of) /\ u \in Actors
  BY DEF BamBut, Actors
<1>a. DOMAIN act = Actors
  BY <1>0 DEF BamTyped
<1>1. CASE CreateBamModule(u, m, dir, b)
  <2> DEFINE rec == [at |-> "create", m |-> m, dir |-> dir, branch |-> b]
  <2>1. m # OwnModule
    BY <1>0, <1>1 DEF CreateBamModule, Versions
  <2>2. rec \in Makers /\ rec.at = "create"
    BY <2>1 DEF Makers
  <2> HIDE DEF rec
  <2>3. Goes(u, rec)
    BY <1>1 DEF CreateBamModule, rec
  <2>4. act'[u] = rec
    BY <1>0, <1>a, <2>3 DEF Goes
  <2>5. WorkOf(u, of)' /\ TriedOf(u)'
    BY <2>2, <2>4, EasyWork, EasyTried
  <2> QED
    BY <1>0, <1>1, <2>2, <2>3, <2>5, Acted DEF CreateBamModule, bamTables, bamHist, Acting
<1>2. CASE CreateEnds(u)
  <2>1. Goes(u, Rest)
    BY <1>2 DEF CreateEnds
  <2>2. act'[u] = Rest
    BY <1>0, <1>a, <2>1 DEF Goes
  <2>3. WorkOf(u, of)' /\ TriedOf(u)'
    BY <2>2, RestAt, EasyWork, EasyTried
  <2> QED
    BY <1>0, <1>2, <2>1, <2>3, Acted DEF CreateEnds, bamTables, bamHist, Acting
<1>3. CASE CreateCollect(u)
  <2> DEFINE w == act[u]
             rec == [at |-> "head", m |-> w.m, dir |-> w.dir, branch |-> w.branch, files |-> collectBamFiles(w.dir).files]
  <2>1. w \in Makers /\ w.at = "collect"
    BY <1>0, <1>3, ActAt DEF CreateCollect, Is
  <2>2. collectBamFiles(w.dir).files = [from |-> tree, dir |-> w.dir]
    BY DEF collectBamFiles
  <2>3. /\ rec \in Headers /\ rec.at = "head" /\ rec.files.from = tree /\ rec.branch = w.branch
    BY <1>0, <2>1, <2>2 DEF Makers, Headers, Files, BamTyped, AllDirs
  <2>4. Goes(u, rec)
    BY <1>3 DEF CreateCollect
  <2> HIDE DEF rec
  <2>5. act'[u] = rec
    BY <1>0, <1>a, <2>4 DEF Goes
  <2>6. UNCHANGED <<mixed, tree>>
    BY <1>3 DEF CreateCollect
  <2>7. u \notin mixed => of[tree] = Branch(w.branch)
    BY <1>0, <2>1 DEF WorkOf
  <2>8. WorkOf(u, of)'
    BY <2>3, <2>5, <2>6, <2>7 DEF WorkOf
  <2>9. TriedOf(u)'
    BY <2>3, <2>5, EasyTried
  <2> QED
    BY <1>0, <1>3, <2>3, <2>4, <2>8, <2>9, Acted DEF CreateCollect, bamTables, bamHist, Acting
<1> QED
  BY <1>1, <1>2, <1>3

(* A call of syncAndGen that is no scan's. *)
LEMMA GenOf ==
  ASSUME NEW of, BamBut(of), NEW a \in Actors, NEW m \in DOMAIN bam_module, NEW b \in Branchy, NEW back \in Backs,
         Gen(a, m, b, back), UNCHANGED <<heads, commits, tree, bam_module, bam_rev, bam_gen, tried, blurred, mixed, bamGenMu>>,
         pulls' = pulls \/ PullIsOwn',
         back.for = "scan" => /\ ScanOf(back) /\ b = back.branch /\ m # OwnModule
                              /\ AllTried(back, back.all \ (back.todo \cup {m}))
                              /\ \A c \in Branches : back.remote[c] <= heads[c]
  PROVE  BamInv'
<1> DEFINE rec == [at |-> "lock", m |-> m, branch |-> b, back |-> back]
<1>0. BamTyped /\ DOMAIN act = Actors
  BY DEF BamBut, BamTyped
<1>1. rec \in Lockers /\ rec.at = "lock" /\ rec.m = m /\ rec.branch = b /\ rec.back = back
  BY <1>0 DEF Lockers, BamTyped
<1>2. Goes(a, rec)
  BY DEF Gen
<1> HIDE DEF rec
<1>3. act'[a] = rec
  BY <1>0, <1>2 DEF Goes
<1>4. WorkOf(a, of)'
  BY <1>1, <1>3 DEF WorkOf
<1>5. TriedOf(a)'
  BY <1>1, <1>3 DEF TriedOf, ScanOf, AllTried
<1> QED
  BY <1>1, <1>2, <1>4, <1>5, Acted DEF Acting

LEMMA RestOf ==
  ASSUME NEW of, BamBut(of), NEW a \in Actors, Goes(a, Rest),
         UNCHANGED <<heads, commits, tree, bam_module, bam_rev, bam_gen, tried, blurred, mixed, bamGenMu>>,
         pulls' = pulls \/ PullIsOwn'
  PROVE  BamInv'
<1>0. BamTyped /\ DOMAIN act = Actors
  BY DEF BamBut, BamTyped
<1>1. act'[a] = Rest
  BY <1>0 DEF Goes
<1>2. WorkOf(a, of)' /\ TriedOf(a)'
  BY <1>1, RestAt, EasyWork, EasyTried
<1> QED
  BY <1>2, Acted DEF Acting

LEMMA ScanFor ==
  ASSUME NEW of, BamBut(of), NEW a \in Actors, NEW s \in Scans, Goes(a, s),
         UNCHANGED <<heads, commits, tree, bam_module, bam_rev, bam_gen, tried, pulls, blurred, mixed, bamGenMu>>,
         ScanOf(s), AllTried(s, s.all \ s.todo), \A c \in Branches : s.remote[c] <= heads[c]
  PROVE  BamInv'
<1>0. BamTyped /\ DOMAIN act = Actors /\ s.at = "scan"
  BY DEF BamBut, BamTyped, Scans
<1>1. act'[a] = s
  BY <1>0 DEF Goes
<1>2. WorkOf(a, of)'
  BY <1>0, <1>1, EasyWork
<1>3. TriedOf(a)'
  BY <1>0, <1>1 DEF TriedOf, ScanOf, AllTried
<1> QED
  BY <1>2, <1>3, Acted DEF Acting

LEMMA PollFor ==
  ASSUME NEW of, BamBut(of), NEW a \in Actors, NEW p \in Polls, Goes(a, p),
         UNCHANGED <<heads, commits, tree, bam_module, bam_rev, bam_gen, tried, pulls, blurred, mixed, bamGenMu>>,
         \A c \in Branches : p.remote[c] <= heads[c]
  PROVE  BamInv'
<1>0. BamTyped /\ DOMAIN act = Actors /\ p.at = "poll"
  BY DEF BamBut, BamTyped, Polls
<1>1. act'[a] = p
  BY <1>0 DEF Goes
<1>2. WorkOf(a, of)'
  BY <1>0, <1>1, EasyWork
<1>3. TriedOf(a)'
  BY <1>0, <1>1 DEF TriedOf
<1> QED
  BY <1>2, <1>3, Acted DEF Acting

LEMMA handleBamPullTyped ==
  ASSUME NEW of, BamBut(of), NEW u \in Users, NEW ms \in Seq(Lines) \ {<<>>}, NEW b \in Branchy,
         handleBamPull(u, ms, b)
  PROVE  \/ Goes(u, Rest)
         \/ \E m \in DOMAIN bam_module, back \in Pulled : Gen(u, m, b, back)
<1> DEFINE back == [for |-> "pull", asks |-> b, lang |-> Head(ms).lang, rest |-> Tail(ms)]
<1>1. Head(ms) \in Lines /\ Tail(ms) \in Seq(Lines)
  OBVIOUS
<1>2. Head(ms).name \in Modules /\ Head(ms).lang \in STRING
  BY <1>1 DEF Lines
<1>3. back \in Pulled
  BY <1>1, <1>2 DEF Pulled
<1>4. Goes(u, Rest) \/ (Head(ms).name \in DOMAIN bam_module /\ Gen(u, Head(ms).name, b, back))
  BY DEF handleBamPull
<1> QED
  BY <1>2, <1>3, <1>4

LEMMA PulledIs == \A back \in Pulled : back \in Backs /\ back.for # "scan"
  BY DEF Pulled, Backs

LEMMA GenerateBamBam ==
  ASSUME NEW of, BamBut(of), NEW u \in Users, NEW m \in Modules, GenerateBam(u, m)
  PROVE  BamInv'
<1>1. [for |-> "user"] \in Backs /\ [for |-> "user"].for # "scan" /\ NoBranch \in Branchy /\ u \in Actors
  BY DEF Backs, Branchy, Actors
<1>2. m \in DOMAIN bam_module /\ Gen(u, m, NoBranch, [for |-> "user"])
  BY DEF GenerateBam
<1>3. UNCHANGED <<heads, commits, tree, bam_module, bam_rev, bam_gen, tried, pulls, blurred, mixed, bamGenMu>>
  BY DEF GenerateBam, bamTables, bamHist
<1> QED
  BY <1>1, <1>2, <1>3, GenOf

LEMMA RunUpdateBam ==
  ASSUME NEW of, BamBut(of), NEW u \in Users, NEW b \in Branchy, NEW ms \in Lists, runUpdate(u, ms, b)
  PROVE  BamInv'
<1>1. ms \in Seq(Lines) \ {<<>>} /\ u \in Actors
  BY BamAssumption DEF Lines, Actors
<1>2. UNCHANGED <<heads, commits, tree, bam_module, bam_rev, bam_gen, tried, pulls, blurred, mixed, bamGenMu>>
  BY DEF runUpdate, bamTables, bamHist
<1>3. CASE Goes(u, Rest)
  BY <1>1, <1>2, <1>3, RestOf
<1>4. ASSUME NEW n \in DOMAIN bam_module, NEW back \in Pulled, Gen(u, n, b, back) PROVE BamInv'
  BY <1>1, <1>2, <1>4, PulledIs, GenOf
<1> QED
  BY <1>1, <1>3, <1>4, handleBamPullTyped DEF runUpdate

(* A scan as it begins. *)
LEMMA ScanBegins ==
  ASSUME NEW of, BamBut(of), NEW a \in Actors, NEW b \in Branches, NEW c \in Nat, NEW past \in Nat, NEW remote \in Heads,
         c <= heads[b], \A d \in Branches : remote[d] <= heads[d], Goes(a, Scan(b, c, past, remote)),
         UNCHANGED <<heads, commits, tree, bam_module, bam_rev, bam_gen, tried, pulls, blurred, mixed, bamGenMu>>
  PROVE  BamInv'
<1>1. OfRepo \in SUBSET Modules /\ OwnModule \notin OfRepo /\ OfRepo \subseteq DOMAIN bam_module
  BY DEF OfRepo, BamBut, BamTyped, Versions
<1> DEFINE s == Scan(b, c, past, remote)
<1>2. /\ s \in Scans /\ s.all = OfRepo /\ s.todo = OfRepo /\ s.commit = c /\ s.branch = b /\ s.remote = remote
  BY <1>1 DEF Scan, Scans
<1> HIDE DEF s
<1>3. ScanOf(s) /\ AllTried(s, s.all \ s.todo)
  BY <1>1, <1>2 DEF ScanOf, AllTried
<1>4. Goes(a, s)
  BY DEF s
<1> QED
  BY <1>2, <1>3, <1>4, ScanFor

LEMMA HookBam ==
  ASSUME NEW of, BamBut(of), NEW u \in Users, NEW b \in Branches, NEW c \in Nat, handleBamHook(u, b, c)
  PROVE  BamInv'
<1>1. heads \in Heads /\ u \in Actors
  BY DEF BamBut, BamTyped, Actors
<1>2. \A d \in Branches : heads[d] \in Nat /\ heads[d] <= heads[d]
  BY <1>1 DEF Heads
<1>3. c <= heads[b] /\ Goes(u, Scan(b, c, 0, heads))
  BY <1>2 DEF handleBamHook
<1> QED
  BY <1>1, <1>2, <1>3, ScanBegins DEF handleBamHook, bamTables, bamHist

LEMMA WatchBam ==
  ASSUME NEW of, BamBut(of), pollScm \/ PollBranch \/ PollEnds
  PROVE  BamInv'
<1>0. BamTyped /\ Watcher \in Actors /\ TriedOf(Watcher) /\ heads \in Heads
  BY DEF BamBut, Actors, BamTyped
<1>1. CASE pollScm
  <2> DEFINE p == [at |-> "poll", past |-> 0, remote |-> heads]
  <2>1. p \in Polls /\ p.remote = heads
    BY <1>0 DEF Polls
  <2>2. \A c \in Branches : heads[c] <= heads[c]
    BY <1>0 DEF Heads
  <2> HIDE DEF p
  <2>3. Goes(Watcher, p)
    BY <1>1 DEF pollScm, p
  <2> QED
    BY <1>0, <1>1, <2>1, <2>2, <2>3, PollFor DEF pollScm, bamTables, bamHist
<1>2. CASE PollEnds
  BY <1>0, <1>2, RestOf DEF PollEnds, bamTables, bamHist
<1>3. CASE PollBranch
  <2> DEFINE p == act[Watcher]
  <2>1. p \in Polls /\ p.at = "poll" /\ \A c \in Branches : p.remote[c] <= heads[c]
    BY <1>0, <1>3, ActAt DEF PollBranch, Is, TriedOf
  <2>2. PICK i \in gitLsRemote(p) :
           LET b == Refs[i]
               rest == [p EXCEPT !.past = i]
           IN  Goes(Watcher, rest) \/ Goes(Watcher, Scan(b, p.remote[b], i, p.remote))
    BY <1>3, Zenon DEF PollBranch
  <2>3. i \in DOMAIN Refs /\ i > p.past
    BY DEF gitLsRemote
  <2>4. i \in Nat /\ Refs[i] \in Branches
    BY <2>3, BamAssumption DEF Branches
  <2>5. UNCHANGED <<heads, commits, tree, bam_module, bam_rev, bam_gen, tried, pulls, blurred, mixed, bamGenMu>>
    BY <1>3 DEF PollBranch, bamHist
  <2>6. CASE Goes(Watcher, [p EXCEPT !.past = i])
    <3> DEFINE rest == [p EXCEPT !.past = i]
    <3>1. rest \in Polls /\ rest.remote = p.remote
      BY <2>1, <2>4 DEF Polls
    <3> HIDE DEF rest
    <3>2. Goes(Watcher, rest)
      BY <2>6 DEF rest
    <3> QED
      BY <1>0, <2>1, <2>5, <3>1, <3>2, PollFor
  <2>7. CASE Goes(Watcher, Scan(Refs[i], p.remote[Refs[i]], i, p.remote))
    <3>1. p.remote \in Heads /\ p.remote[Refs[i]] \in Nat
      BY <2>1, <2>4 DEF Polls, Heads
    <3> QED
      BY <1>0, <2>1, <2>4, <2>5, <2>7, <3>1, ScanBegins
  <2> QED
    BY <2>2, <2>6, <2>7
<1> QED
  BY <1>1, <1>2, <1>3

(* Where syncAndGen returns to. *)
LEMMA Returns ==
  ASSUME BamTyped, NEW a \in Actors, NEW g \in Gens, act[a] = g, NEW ok \in BOOLEAN, NEW version \in Nat,
         Goes(a, Returned(a, ok, version))
  PROVE  \E rec \in Acting : Goes(a, rec)
<1>1. /\ g.back \in Backs /\ g.m \in Modules /\ g.branch \in Branchy /\ g.asked \in Heads
  BY DEF Gens
<1>2. CASE g.back.for = "user" \/ (g.back.for = "pull" /\ ~ok)
  <2>1. Returned(a, ok, version) = Rest
    BY <1>2 DEF Returned
  <2> QED
    BY <2>1 DEF Acting
<1>3. CASE g.back.for = "pull" /\ ok
  <2> DEFINE rec == [at |-> "zip", m |-> g.m, version |-> version, branch |-> g.branch, asked |-> g.asked, back |-> g.back]
  <2>1. g.back \in Pulled
    BY <1>1, <1>3 DEF Backs, Scans
  <2>2. Returned(a, ok, version) = rec /\ rec \in Zippers
    BY <1>1, <1>3, <2>1 DEF Returned, Zippers
  <2> HIDE DEF rec
  <2> QED
    BY <2>2 DEF Acting
<1>4. CASE g.back.for = "scan"
  <2> DEFINE rec == [g.back EXCEPT !.ok = IF ok THEN @ + 1 ELSE @]
  <2>1. g.back \in Scans
    BY <1>1, <1>4, BackAt
  <2>2. Returned(a, ok, version) = rec /\ rec \in Scans
    BY <1>4, <2>1 DEF Returned, Scans
  <2> HIDE DEF rec
  <2> QED
    BY <2>2 DEF Acting
<1> QED
  BY <1>1, <1>2, <1>3, <1>4 DEF Backs, Pulled, Scans

LEMMA ScanBam ==
  ASSUME NEW of, BamBut(of), NEW a \in Actors, NEW m \in Modules, ScanModule(a, m) \/ ScanEnds(a)
  PROVE  BamInv'
<1>0. BamTyped /\ TriedOf(a)
  BY DEF BamBut
<1> DEFINE S == act[a]
<1>1. PICK s : s = S
  OBVIOUS
<1>2. s \in Scans /\ s.at = "scan" /\ act[a] = s
  BY <1>0, <1>1, ActAt DEF ScanModule, ScanEnds, Is
<1>3. ScanOf(s) /\ AllTried(s, s.all \ s.todo) /\ (\A c \in Branches : s.remote[c] <= heads[c])
  BY <1>0, <1>2 DEF TriedOf
<1>4. UNCHANGED <<heads, commits, tree, bam_module, bam_rev, bam_gen, tried, pulls, blurred, mixed, bamGenMu>>
  BY DEF ScanModule, ScanEnds, bamTables, bamHist
<1>5. CASE ScanModule(a, m)
  <2> DEFINE back == [s EXCEPT !.todo = @ \ {m}]
  <2>1. m \in s.todo /\ Gen(a, m, s.branch, back)
    BY <1>2, <1>5 DEF ScanModule
  <2>2. /\ back \in Scans /\ back.commit = s.commit /\ back.branch = s.branch /\ back.all = s.all
        /\ back.todo = s.todo \ {m} /\ back.remote = s.remote
    BY <1>2 DEF Scans
  <2> HIDE DEF back
  <2>3. back \in Backs /\ s.branch \in Branchy
    BY <1>2, <2>2 DEF Backs, Branchy, Scans
  <2>4. ScanOf(back) /\ m # OwnModule /\ m \in DOMAIN bam_module
    BY <1>3, <2>1, <2>2 DEF ScanOf
  <2>5. AllTried(back, back.all \ (back.todo \cup {m}))
    BY <1>3, <2>2 DEF AllTried
  <2> QED
    BY <1>3, <1>4, <2>1, <2>2, <2>3, <2>4, <2>5, GenOf
<1>6. CASE ScanEnds(a)
  <2> DEFINE p == [at |-> "poll", past |-> s.past, remote |-> s.remote]
  <2>1. p \in Polls /\ p.remote = s.remote
    BY <1>2 DEF Scans, Polls
  <2>2. PICK fine : Goes(a, Resume(a, fine))
    BY <1>6, Zenon DEF ScanEnds
  <2>3. Goes(a, p) \/ Goes(a, Rest)
    BY <1>2, <2>2 DEF Resume
  <2> HIDE DEF p
  <2> QED
    BY <1>3, <1>4, <2>1, <2>3, PollFor, RestOf
<1> QED
  BY <1>5, <1>6

(* What an actor does when syncAndGen has returned. *)
LEMMA ReturnOf ==
  ASSUME NEW of, NEW of2, BamTyped, Tries, NEW a \in Actors, NEW g \in Gens, act[a] = g, TriedOf(a), Grows(of, of2),
         NEW ok \in BOOLEAN, NEW version \in Nat, Goes(a, Returned(a, ok, version)),
         g.back.for = "scan" => g.at # "sync" \/ AllTried(g.back, {g.m})',
         ok /\ g.back.for = "pull" => Ripe(g.m, version, g.branch, g.asked)'
  PROVE  (\E rec \in Acting : Goes(a, rec)) /\ WorkOf(a, of2)' /\ TriedOf(a)'
<1>0. DOMAIN act = Actors
  BY DEF BamTyped
<1>1. /\ g.back \in Backs /\ g.m \in Modules /\ g.branch \in Branchy /\ g.asked \in Heads
      /\ g.at \in {"sync", "decide", "write", "gen"}
  BY DEF Gens
<1>r. ASSUME Goes(a, Rest) PROVE (\E rec \in Acting : Goes(a, rec)) /\ WorkOf(a, of2)' /\ TriedOf(a)'
  <2>1. act'[a] = Rest
    BY <1>0, <1>r DEF Goes
  <2> QED
    BY <1>r, <2>1, RestAt, EasyWork, EasyTried DEF Acting
<1>2. CASE g.back.for = "user"
  <2>1. Returned(a, ok, version) = Rest
    BY <1>2 DEF Returned
  <2> QED
    BY <1>r, <2>1
<1>3. CASE g.back.for = "pull"
  <2> DEFINE rec == [at |-> "zip", m |-> g.m, version |-> version, branch |-> g.branch, asked |-> g.asked, back |-> g.back]
  <2>1. Returned(a, ok, version) = IF ok THEN rec ELSE Rest
    BY <1>3 DEF Returned
  <2>2. g.back \in Pulled
    BY <1>1, <1>3 DEF Backs, Scans
  <2>3. /\ rec \in Zippers /\ rec.at = "zip" /\ rec.m = g.m /\ rec.version = version /\ rec.branch = g.branch
        /\ rec.asked = g.asked
    BY <1>1, <2>2 DEF Zippers
  <2> HIDE DEF rec
  <2>4. CASE ok
    <3>1. Goes(a, rec)
      BY <2>1, <2>4
    <3>2. act'[a] = rec
      BY <1>0, <3>1 DEF Goes
    <3>3. Ripe(g.m, version, g.branch, g.asked)'
      BY <1>3, <2>4
    <3>4. WorkOf(a, of2)'
      BY <2>3, <3>2, <3>3 DEF WorkOf, Ripe
    <3>5. TriedOf(a)'
      BY <2>3, <3>2, EasyTried
    <3> QED
      BY <2>3, <3>1, <3>4, <3>5 DEF Acting
  <2>5. CASE ~ok
    BY <1>r, <2>1, <2>5
  <2> QED
    BY <2>4, <2>5
<1>4. CASE g.back.for = "scan"
  <2> DEFINE rec == [g.back EXCEPT !.ok = IF ok THEN @ + 1 ELSE @]
  <2>1. Returned(a, ok, version) = rec
    BY <1>4 DEF Returned
  <2>2. g.back \in Scans
    BY <1>1, <1>4, BackAt
  <2>3. /\ rec \in Scans /\ rec.at = "scan" /\ rec.commit = g.back.commit /\ rec.branch = g.back.branch
        /\ rec.all = g.back.all /\ rec.todo = g.back.todo /\ rec.remote = g.back.remote
    BY <2>2 DEF Scans
  <2> HIDE DEF rec
  <2>4. Goes(a, rec) /\ act'[a] = rec
    BY <1>0, <2>1 DEF Goes
  <2>5. /\ ScanOf(g.back) /\ AllTried(g.back, g.back.all \ (g.back.todo \cup {g.m}))
        /\ (\A b \in Branches : g.back.remote[b] <= heads[b])
        /\ g.at # "sync" => AllTried(g.back, {g.m})
    BY <1>1, <1>4 DEF TriedOf
  <2> DEFINE s == g.back
             M == s.all \ (s.todo \cup {g.m})
  <2>6. M \in SUBSET Modules /\ {g.m} \in SUBSET Modules
    BY <1>1, <2>2 DEF Scans
  <2> HIDE DEF M
  <2>7. /\ ScanOf(s)' /\ AllTried(s, M)' /\ (\A b \in Branches : s.remote[b] <= heads'[b])
        /\ g.at # "sync" => AllTried(s, {g.m})'
    BY <2>2, <2>5, <2>6, ScanKept DEF M
  <2>8. AllTried(s, M \cup {g.m})'
    BY <1>4, <2>7 DEF AllTried
  <2>9. AllTried(rec, rec.all \ rec.todo)'
    BY <2>3, <2>8 DEF AllTried, M
  <2>10. ScanOf(rec)'
    BY <2>3, <2>7 DEF ScanOf
  <2>11. TriedOf(a)'
    BY <2>3, <2>4, <2>7, <2>9, <2>10 DEF TriedOf
  <2>12. WorkOf(a, of2)'
    BY <2>3, <2>4, EasyWork
  <2> QED
    BY <2>3, <2>4, <2>11, <2>12 DEF Acting
<1> QED
  BY <1>1, <1>2, <1>3, <1>4 DEF Backs, Pulled, Scans

LEMMA LockBam ==
  ASSUME NEW of, BamBut(of), NEW a \in Actors, Lock(a)
  PROVE  BamInv'
<1>0. BamTyped /\ Versions /\ WorkOf(a, of) /\ TriedOf(a) /\ DOMAIN act = Actors
  BY DEF BamBut, BamTyped
<1> DEFINE G == act[a]
<1>1. PICK g : g = G
  OBVIOUS
<1>2. g \in Lockers /\ g.at = "lock" /\ act[a] = g
  BY <1>0, <1>1, ActAt DEF Lock, Is
<1>a. PICK row : row = bam_module[g.m]
  OBVIOUS
<1>b. PICK genOk : genOk = (/\ <<g.m, bam_module[g.m].version>> \in DOMAIN bam_gen
                            /\ bam_gen[<<g.m, bam_module[g.m].version>>].status = "ok")
  OBVIOUS
<1>c. PICK asked : asked = heads
  OBVIOUS
<1> DEFINE at == IF row.dir = NoDir THEN "gen" ELSE "sync"
           branch == IF g.branch = NoBranch THEN row.branch ELSE g.branch
           rec == [at |-> at, m |-> g.m, row |-> row, genOk |-> genOk, version |-> row.version, branch |-> branch,
                   asked |-> asked, back |-> g.back]
<1>3. g.m \in DOMAIN bam_module /\ g.m \in Modules /\ g.branch \in Branchy /\ g.back \in Backs
  BY <1>0, <1>2 DEF WorkOf, Lockers
<1>4. row \in Rows /\ row.version \in Nat /\ row.branch \in Branchy /\ heads \in Heads /\ asked \in Heads
  BY <1>0, <1>3, <1>a, <1>c DEF BamTyped, Rows
<1>5. Goes(a, rec)
  <2>1. Goes(a, [at |-> IF bam_module[g.m].dir = NoDir THEN "gen" ELSE "sync", m |-> g.m, row |-> bam_module[g.m],
                 genOk |-> /\ <<g.m, bam_module[g.m].version>> \in DOMAIN bam_gen
                           /\ bam_gen[<<g.m, bam_module[g.m].version>>].status = "ok",
                 version |-> bam_module[g.m].version,
                 branch |-> IF g.branch = NoBranch THEN bam_module[g.m].branch ELSE g.branch,
                 asked |-> heads, back |-> g.back])
    BY <1>2 DEF Lock, loadBam
  <2> QED
    BY <2>1, <1>a, <1>b, <1>c, Zenon
<1>6. row.dir = NoDir <=> g.m = OwnModule
  BY <1>0, <1>3, <1>a DEF Versions
<1>7. /\ <<g.m, row.version>> \in DOMAIN bam_rev
      /\ g.m # OwnModule => /\ bam_rev[<<g.m, row.version>>].branch = row.branch
                            /\ bam_rev[<<g.m, row.version>>].commit = row.commit
  BY <1>0, <1>3, <1>a DEF Versions
<1>8. genOk \in BOOLEAN /\ at \in {"sync", "gen"} /\ (at = "gen" <=> g.m = OwnModule) /\ branch \in Branchy
  BY <1>3, <1>4, <1>6, <1>b
<1> HIDE DEF at, branch
<1>9. /\ rec \in Gens /\ rec.at = at /\ rec.m = g.m /\ rec.row = row /\ rec.version = row.version
      /\ rec.branch = branch /\ rec.asked = asked /\ rec.back = g.back
  BY <1>3, <1>4, <1>8 DEF Gens
<1> HIDE DEF rec
<1>10. act'[a] = rec
  BY <1>0, <1>5 DEF Goes
<1>11. /\ UNCHANGED <<heads, commits, tree, bam_module, bam_rev, bam_gen, tried, pulls, blurred, mixed>>
       /\ bamGenMu = Nobody /\ bamGenMu' = a
  BY DEF Lock, bamTables, bamHist
<1>12. WorkOf(a, of)'
  <2>1. \A b \in Branches : asked[b] <= heads[b]
    BY <1>4, <1>c DEF Heads
  <2>2. g.m = OwnModule => Ripe(g.m, row.version, branch, asked)'
    BY <1>7, <1>11 DEF Ripe
  <2> QED
    BY <1>6, <1>7, <1>8, <1>9, <1>10, <1>11, <2>1, <2>2 DEF WorkOf, Ripe
<1>13. TriedOf(a)'
  <2>1. CASE g.back.for = "scan"
    <3>1. /\ ScanOf(g.back) /\ g.branch = g.back.branch /\ g.m # OwnModule
          /\ AllTried(g.back, g.back.all \ (g.back.todo \cup {g.m}))
          /\ \A b \in Branches : g.back.remote[b] <= heads[b]
      BY <1>0, <1>2, <2>1 DEF TriedOf
    <3>2. g.back \in Scans
      BY <1>3, <2>1, BackAt
    <3>3. branch = g.branch
      BY <3>1, <3>2, BamAssumption DEF branch, Scans, Branches
    <3> DEFINE s == g.back
               M == s.all \ (s.todo \cup {g.m})
    <3>4. ScanOf(s)' /\ AllTried(s, M)' /\ (\A b \in Branches : s.remote[b] <= heads'[b])
      BY <1>11, <3>1 DEF ScanOf, AllTried
    <3> HIDE DEF s, M
    <3>5. rec.at = "sync" /\ rec.back = s /\ rec.m # OwnModule /\ rec.branch = s.branch
      BY <1>8, <1>9, <3>1, <3>3 DEF s
    <3>6. AllTried(rec.back, rec.back.all \ (rec.back.todo \cup {rec.m}))'
      BY <1>9, <3>4, <3>5 DEF M, AllTried
    <3> QED
      BY <1>10, <3>4, <3>5, <3>6 DEF TriedOf
  <2>2. CASE g.back.for # "scan"
    BY <1>8, <1>9, <1>10, <2>2 DEF TriedOf
  <2> QED
    BY <2>1, <2>2
<1> QED
  BY <1>5, <1>9, <1>11, <1>12, <1>13, Acted DEF Acting


(* A fetch: the tree is the branch's, and whoever was busy with it is      *)
(* mixed up, unless the lock keeps the two apart.                          *)
LEMMA SyncSpares ==
  ASSUME NEW of, BamBut(of), NEW a \in Actors, NEW b \in Branchy, SyncBamRepo(a, b), UNCHANGED <<heads, bamGenMu>>,
         NEW rec, Goes(a, rec), act[a].at \in {"create", "sync"}
  PROVE  /\ \A o \in Actors \ {a} : Spares(o)
         /\ heads[Branch(b)] # 0 /\ tree' = heads[Branch(b)] /\ of[tree'] = Branch(b) /\ tree' \in 1..commits
         /\ DOMAIN act' = Actors /\ act'[a] = rec
<1>0. BamTyped /\ OwnedBy(of) /\ (\A o \in Actors : WorkOf(o, of)) /\ DOMAIN act = Actors
  BY DEF BamBut, BamTyped
<1> DEFINE met == {o \in Actors \ {a} : Busy(o) /\ (Creating(a) \/ Creating(o))}
<1>1. /\ heads[Branch(b)] # 0 /\ tree' = heads[Branch(b)]
      /\ mixed' = IF met = {} THEN mixed ELSE mixed \cup met \cup {a}
  BY DEF SyncBamRepo
<1>2. Branch(b) \in Branches
  BY BranchIs
<1>3. of[tree'] = Branch(b) /\ tree' \in 1..commits
  BY <1>0, <1>1, <1>2 DEF OwnedBy
<1>4. DOMAIN act' = Actors /\ act'[a] = rec /\ \A o \in Actors \ {a} : act'[o] = act[o]
  BY <1>0 DEF Goes
<1>5. ASSUME NEW o \in Actors \ {a}, Busy(o) PROVE o \in mixed'
  <2>1. o \in met
    <3>1. CASE act[a].at = "create"
      BY <1>5, <3>1 DEF Creating
    <3>2. CASE act[a].at = "sync"
      <4>1. bamGenMu = a
        BY <1>0, <3>2 DEF WorkOf
      <4>2. act[o].at \notin {"decide", "write", "gen"}
        BY <1>0, <4>1 DEF WorkOf
      <4> QED
        BY <1>5, <4>2 DEF Busy, Creating
    <3> QED
      BY <3>1, <3>2
  <2> HIDE DEF met
  <2> QED
    BY <1>1, <2>1
<1>6. \A o \in Actors \ {a} : Spares(o)
  BY <1>1, <1>2, <1>4, <1>5 DEF Spares
<1> QED
  BY <1>1, <1>3, <1>4, <1>6

LEMMA TryGrows ==
  ASSUME NEW of, BamBut(of), NEW m \in Modules, NEW b \in Branchy,
         UNCHANGED <<heads, commits, bam_module, bam_rev, blurred>>,
         tried' \in {tried, Put(tried, <<m, b>>, heads[Branch(b)])}
  PROVE  /\ Grows(of, of) /\ Tries'
         /\ tried' = Put(tried, <<m, b>>, heads[Branch(b)]) =>
               <<m, b>> \in DOMAIN tried' /\ tried'[<<m, b>>] = heads[Branch(b)]
<1>0. BamTyped /\ Tries
  BY DEF BamBut
<1>1. \A c \in Branches : heads[c] \in Nat /\ heads[c] <= heads[c]
  BY <1>0 DEF BamTyped, Heads
<1>2. Branch(b) \in Branches /\ \A k \in Modules \X Branchy : k[2] \in Branchy
  BY BranchIs
<1>5. tried' = Put(tried, <<m, b>>, heads[Branch(b)]) =>
        <<m, b>> \in DOMAIN tried' /\ tried'[<<m, b>>] = heads[Branch(b)]
  BY DEF Put
<1>3. CASE tried' = tried
  <2>1. \A k \in DOMAIN tried : tried[k] \in Nat /\ tried[k] <= tried[k]
    BY <1>0 DEF Tries
  <2>2. Grows(of, of)
    BY <1>0, <1>1, <1>3, <2>1 DEF Grows, BamTyped
  <2>3. Tries'
    BY <1>0, <1>3 DEF Tries, Branch
  <2> QED
    BY <1>5, <2>2, <2>3
<1>4. CASE tried' = Put(tried, <<m, b>>, heads[Branch(b)])
  <2>1. /\ DOMAIN tried' = DOMAIN tried \cup {<<m, b>>}
        /\ \A k \in DOMAIN tried' : tried'[k] = IF k = <<m, b>> THEN heads[Branch(b)] ELSE tried[k]
    BY <1>4 DEF Put
  <2>2. \A k \in DOMAIN tried : tried[k] \in Nat /\ tried[k] <= heads[Branch(k[2])] /\ k \in Modules \X Branchy
    BY <1>0 DEF Tries
  <2>3. ASSUME NEW k \in DOMAIN tried PROVE k \in DOMAIN tried' /\ tried'[k] \in Nat /\ tried[k] <= tried'[k]
    <3>1. CASE k = <<m, b>>
      BY <1>1, <1>2, <2>1, <2>2, <3>1
    <3>2. CASE k # <<m, b>>
      BY <2>1, <2>2, <3>2
    <3> QED
      BY <3>1, <3>2
  <2>4. Tries'
    <3>1. ASSUME NEW k \in DOMAIN tried' PROVE tried'[k] \in Nat /\ tried'[k] <= heads'[Branch(k[2])]
      <4>1. CASE k = <<m, b>>
        BY <1>1, <1>2, <2>1, <4>1
      <4>2. CASE k # <<m, b>>
        BY <2>1, <2>2, <4>2
      <4> QED
        BY <4>1, <4>2
    <3>2. DOMAIN tried' \subseteq Modules \X Branchy
      BY <1>0, <2>1 DEF Tries
    <3> QED
      BY <3>1, <3>2 DEF Tries
  <2> QED
    BY <1>0, <1>1, <2>1, <2>3, <2>4 DEF Grows, BamTyped
<1> QED
  BY <1>3, <1>4, <1>5

LEMMA CreateSyncBam ==
  ASSUME NEW of, BamBut(of), NEW u \in Users, CreateSync(u)
  PROVE  BamInv'
<1>0. BamTyped /\ Versions /\ OwnedBy(of) /\ Tries /\ RevMatchesCommit /\ PullIsOwn /\ u \in Actors
  BY DEF BamBut, Actors
<1> DEFINE w == act[u]
           rec == [w EXCEPT !.at = "collect"]
<1>1. w \in Makers /\ w.at = "create" /\ w.branch \in Branchy
  BY <1>0, ActAt DEF CreateSync, Is, Makers
<1>2. rec \in Makers /\ rec.at = "collect" /\ rec.branch = w.branch
  BY <1>1 DEF Makers
<1> HIDE DEF rec
<1>3. Goes(u, rec) /\ SyncBamRepo(u, w.branch)
  BY DEF CreateSync, rec
<1>4. UNCHANGED <<heads, commits, bam_module, bam_rev, bam_gen, bamGenMu, tried, pulls, blurred>>
  BY DEF CreateSync, bamTables, bamHist
<1>5. /\ \A o \in Actors \ {u} : Spares(o)
      /\ of[tree'] = Branch(w.branch) /\ tree' \in 1..commits /\ DOMAIN act' = Actors /\ act'[u] = rec
  BY <1>0, <1>1, <1>3, <1>4, SyncSpares
<1>6. BamTyped'
  <2>1. tree' \in Nat
    BY <1>0, <1>5 DEF BamTyped
  <2>2. \A o \in Actors : act'[o] \in Acting
    BY <1>0, <1>2, <1>5 DEF Spares, Acting, BamTyped
  <2> QED
    BY <1>0, <1>4, <1>5, <2>1, <2>2 DEF BamTyped
<1>7. Versions' /\ RevMatchesCommit' /\ PullIsOwn'
  BY <1>0, <1>4 DEF Versions, RevMatchesCommit, PullIsOwn
<1>8. OwnedBy(of)'
  BY <1>0, <1>4, <1>5 DEF OwnedBy
<1>9. Grows(of, of) /\ Tries'
  BY <1>0, <1>1, <1>4, TryGrows DEF Makers
<1>10. WorkOf(u, of)'
  BY <1>2, <1>5 DEF WorkOf
<1>11. TriedOf(u)'
  BY <1>2, <1>5, EasyTried
<1> QED
  BY <1>0, <1>5, <1>6, <1>7, <1>8, <1>9, <1>10, <1>11, Stepped

(* Having tried, syncAndGen owes its scan this module no more. *)
LEMMA TriesIt ==
  ASSUME NEW of, BamBut(of), NEW a \in Actors, NEW g \in Gens, act[a] = g, g.at = "sync", g.back.for = "scan",
         UNCHANGED <<heads, commits, bam_module, bam_rev, blurred>>, Tried(a)
  PROVE  /\ ScanOf(g.back)' /\ g.branch = g.back.branch /\ g.m # OwnModule
         /\ AllTried(g.back, g.back.all \ (g.back.todo \cup {g.m}))'
         /\ \A b \in Branches : g.back.remote[b] <= heads'[b]
         /\ AllTried(g.back, {g.m})'
<1>0. BamTyped /\ Tries /\ TriedOf(a)
  BY DEF BamBut
<1>1. g.m \in Modules /\ g.branch \in Branchy /\ g.back \in Backs
  BY DEF Gens
<1>2. PICK s : s = g.back
  OBVIOUS
<1>3. s \in Scans
  BY <1>1, <1>2, BackAt
<1>4. /\ ScanOf(s) /\ g.branch = s.branch /\ g.m # OwnModule
      /\ AllTried(s, s.all \ (s.todo \cup {g.m})) /\ \A b \in Branches : s.remote[b] <= heads[b]
  BY <1>0, <1>2 DEF TriedOf
<1>5. tried' = Put(tried, <<g.m, g.branch>>, heads[Branch(g.branch)])
  BY DEF Tried
<1>6. Grows(of, of) /\ <<g.m, g.branch>> \in DOMAIN tried' /\ tried'[<<g.m, g.branch>>] = heads[Branch(g.branch)]
  BY <1>1, <1>5, TryGrows
<1>7. s.branch \in Branches /\ Branch(s.branch) = s.branch
  BY <1>3, BranchIs DEF Scans, Branchy
<1>8. AllTried(s, {g.m})'
  <2>1. s.commit <= heads[s.branch] /\ heads[s.branch] \in Nat /\ s.commit \in Nat
    BY <1>0, <1>3, <1>4, <1>7 DEF ScanOf, Scans, BamTyped, Heads
  <2> QED
    BY <1>4, <1>6, <1>7, <2>1 DEF AllTried
<1>9. (s.all \ (s.todo \cup {g.m})) \in SUBSET Modules
  BY <1>3 DEF Scans
<1>10. /\ ScanOf(s)' /\ AllTried(s, s.all \ (s.todo \cup {g.m}))'
       /\ \A b \in Branches : s.remote[b] <= heads'[b]
  BY <1>0, <1>3, <1>4, <1>6, <1>9, ScanKept
<1> QED
  BY <1>2, <1>4, <1>8, <1>10

LEMMA GenSyncBam ==
  ASSUME NEW of, BamBut(of), NEW a \in Actors, GenSync(a)
  PROVE  BamInv'
<1>0. BamTyped /\ Versions /\ OwnedBy(of) /\ Tries /\ RevMatchesCommit /\ PullIsOwn /\ WorkOf(a, of)
  BY DEF BamBut
<1>1. PICK g : g = act[a]
  OBVIOUS
<1>2. g \in Gens /\ g.at = "sync" /\ g.branch \in Branchy /\ g.m \in Modules
  BY <1>0, <1>1, ActAt DEF GenSync, Is, Gens
<1> DEFINE R == [g EXCEPT !.at = "decide"]
<1>3. PICK rec : rec = R
  OBVIOUS
<1>4. /\ rec \in Gens /\ rec.at = "decide" /\ rec.m = g.m /\ rec.row = g.row /\ rec.version = g.version
      /\ rec.branch = g.branch /\ rec.asked = g.asked /\ rec.back = g.back
  BY <1>2, <1>3 DEF Gens
<1>5. Goes(a, rec) /\ SyncBamRepo(a, g.branch) /\ Tried(a)
  BY <1>1, <1>3 DEF GenSync
<1>6. UNCHANGED <<heads, commits, bam_module, bam_rev, bam_gen, bamGenMu, pulls, blurred>>
  BY DEF GenSync, bamTables
<1>7. /\ \A o \in Actors \ {a} : Spares(o)
      /\ heads[Branch(g.branch)] # 0 /\ tree' = heads[Branch(g.branch)]
      /\ of[tree'] = Branch(g.branch) /\ tree' \in 1..commits /\ DOMAIN act' = Actors /\ act'[a] = rec
  BY <1>1, <1>2, <1>5, <1>6, SyncSpares
<1>8. BamTyped'
  <2>1. tree' \in Nat
    BY <1>0, <1>7 DEF BamTyped
  <2>2. \A o \in Actors : act'[o] \in Acting
    BY <1>0, <1>4, <1>7 DEF Spares, Acting, BamTyped
  <2> QED
    BY <1>0, <1>6, <1>7, <2>1, <2>2 DEF BamTyped
<1>9. Versions' /\ RevMatchesCommit' /\ PullIsOwn'
  BY <1>0, <1>6 DEF Versions, RevMatchesCommit, PullIsOwn
<1>10. OwnedBy(of)'
  BY <1>0, <1>6, <1>7 DEF OwnedBy
<1>11. Grows(of, of) /\ Tries'
  BY <1>1, <1>2, <1>5, <1>6, TryGrows DEF Tried
<1>12. WorkOf(a, of)'
  <2>1. /\ bamGenMu = a /\ (g.row.dir = NoDir <=> g.m = OwnModule) /\ (\A b \in Branches : g.asked[b] <= heads[b])
        /\ g.m # OwnModule /\ <<g.m, g.version>> \in DOMAIN bam_rev
        /\ bam_rev[<<g.m, g.version>>].branch = g.row.branch /\ bam_rev[<<g.m, g.version>>].commit = g.row.commit
    BY <1>0, <1>1, <1>2 DEF WorkOf
  <2>2. tree' >= g.asked[Branch(g.branch)]
    <3>1. Branch(g.branch) \in Branches /\ g.asked \in Heads
      BY <1>2, BranchIs DEF Gens
    <3> QED
      BY <1>0, <1>7, <2>1, <3>1 DEF Heads, BamTyped
  <2> QED
    BY <1>4, <1>6, <1>7, <2>1, <2>2 DEF WorkOf
<1>13. TriedOf(a)'
  <2>1. CASE g.back.for = "scan"
    <3>1. /\ ScanOf(g.back)' /\ g.branch = g.back.branch /\ g.m # OwnModule
          /\ AllTried(g.back, g.back.all \ (g.back.todo \cup {g.m}))'
          /\ (\A b \in Branches : g.back.remote[b] <= heads'[b])
          /\ AllTried(g.back, {g.m})'
      BY <1>1, <1>2, <1>5, <1>6, <2>1, TriesIt
    <3> QED
      BY <1>4, <1>7, <3>1 DEF TriedOf
  <2>2. CASE g.back.for # "scan"
    BY <1>4, <1>7, <2>2 DEF TriedOf
  <2> QED
    BY <2>1, <2>2
<1> QED
  BY <1>7, <1>8, <1>9, <1>10, <1>11, <1>12, <1>13, Stepped

LEMMA GenSyncFailsBam ==
  ASSUME NEW of, BamBut(of), NEW a \in Actors, GenSyncFails(a)
  PROVE  BamInv'
<1>0. BamTyped /\ Versions /\ OwnedBy(of) /\ Tries /\ RevMatchesCommit /\ PullIsOwn /\ WorkOf(a, of) /\ TriedOf(a)
  BY DEF BamBut
<1>1. PICK g : g = act[a]
  OBVIOUS
<1>2. g \in Gens /\ g.at = "sync" /\ g.branch \in Branchy /\ g.m \in Modules
  BY <1>0, <1>1, ActAt DEF GenSyncFails, Is, Gens
<1>3. Goes(a, Returned(a, FALSE, 0)) /\ bamGenMu' = (IF bamGenMu = a THEN Nobody ELSE bamGenMu) /\ Tried(a)
  BY DEF GenSyncFails, Unlock
<1>4. UNCHANGED <<heads, commits, tree, bam_module, bam_rev, bam_gen, mixed, pulls, blurred>>
  BY DEF GenSyncFails, bamTables
<1>5. Grows(of, of) /\ Tries'
  BY <1>1, <1>2, <1>3, <1>4, TryGrows DEF Tried
<1>6. g.back.for = "scan" => AllTried(g.back, {g.m})'
  BY <1>1, <1>2, <1>3, <1>4, TriesIt
<1>7. (\E rec \in Acting : Goes(a, rec)) /\ WorkOf(a, of)' /\ TriedOf(a)'
  BY <1>0, <1>1, <1>2, <1>3, <1>5, <1>6, ReturnOf
<1>8. DOMAIN act' = Actors /\ act'[a] \in Acting /\ \A o \in Actors \ {a} : act'[o] = act[o]
  BY <1>0, <1>7 DEF Goes, BamTyped
<1>9. BamTyped'
  BY <1>0, <1>4, <1>8 DEF BamTyped
<1>10. Versions' /\ RevMatchesCommit' /\ PullIsOwn' /\ OwnedBy(of)'
  BY <1>0, <1>4 DEF Versions, RevMatchesCommit, PullIsOwn, OwnedBy
<1>11. \A o \in Actors \ {a} : Spares(o)
  BY <1>3, <1>4, <1>8 DEF Spares
<1> QED
  BY <1>5, <1>7, <1>9, <1>10, <1>11, Stepped

LEMMA GenDecideBam ==
  ASSUME NEW of, BamBut(of), NEW a \in Actors, GenDecide(a)
  PROVE  BamInv'
<1>0. BamTyped /\ Versions /\ OwnedBy(of) /\ Tries /\ RevMatchesCommit /\ PullIsOwn /\ WorkOf(a, of) /\ TriedOf(a)
  BY DEF BamBut
<1>1. PICK g : g = act[a]
  OBVIOUS
<1>2. g \in Gens /\ g.at = "decide" /\ g.branch \in Branchy /\ g.m \in Modules /\ g.version \in Nat
  BY <1>0, <1>1, ActAt DEF GenDecide, Is, Gens
<1>3. UNCHANGED <<heads, commits, tree, bam_module, bam_rev, bam_gen, tried, pulls, blurred>>
  BY DEF GenDecide, bamTables, bamHist
<1>4. /\ bamGenMu = a /\ g.m # OwnModule /\ (g.row.dir = NoDir <=> g.m = OwnModule)
      /\ (\A b \in Branches : g.asked[b] <= heads[b])
      /\ <<g.m, g.version>> \in DOMAIN bam_rev /\ bam_rev[<<g.m, g.version>>].branch = g.row.branch
      /\ bam_rev[<<g.m, g.version>>].commit = g.row.commit
      /\ (of[tree] = Branch(g.branch) => tree >= g.asked[Branch(g.branch)])
      /\ a \notin mixed => of[tree] = Branch(g.branch) /\ tree >= g.asked[Branch(g.branch)]
  BY <1>0, <1>1, <1>2 DEF WorkOf
<1>5. tree \in 1..commits /\ tree # 0
  BY <1>0 DEF OwnedBy, BamTyped
<1>g. Grows(of, of)
  BY <1>2, <1>3, TryGrows
<1>6. CASE UpToDate(a)
  <2>1. g.row.commit = tree /\ g.row.branch = g.branch
    BY <1>1, <1>6 DEF UpToDate, gitHead
  <2>2. /\ Goes(a, Returned(a, TRUE, g.version)) /\ bamGenMu' = (IF bamGenMu = a THEN Nobody ELSE bamGenMu)
        /\ mixed' = mixed \ {a}
    BY <1>1, <1>6 DEF GenDecide, Unlock
  <2>3. <<g.m, g.version>> \notin blurred => bam_rev[<<g.m, g.version>>].commit >= g.asked[Branch(g.branch)]
    BY <1>0, <1>4, <1>5, <2>1 DEF OwnedBy
  <2>4. Ripe(g.m, g.version, g.branch, g.asked)'
    BY <1>3, <1>4, <2>1, <2>3 DEF Ripe
  <2>5. (\E rec \in Acting : Goes(a, rec)) /\ WorkOf(a, of)' /\ TriedOf(a)'
    BY <1>0, <1>1, <1>2, <1>g, <2>2, <2>4, ReturnOf
  <2> QED
    BY <1>3, <2>2, <2>5, Acted
<1>7. CASE ~UpToDate(a)
  <2> DEFINE R == [g EXCEPT !.at = "write", !.row.commit = tree]
  <2>1. PICK rec : rec = R
    OBVIOUS
  <2>2. Goes(a, rec) /\ UNCHANGED <<bamGenMu, mixed>>
    BY <1>1, <1>7, <2>1 DEF GenDecide, gitHead
  <2>3. [g.row EXCEPT !.commit = tree] \in Rows /\ [g.row EXCEPT !.commit = tree].commit = tree
        /\ [g.row EXCEPT !.commit = tree].dir = g.row.dir
    BY <1>0, <1>2 DEF Gens, Rows, BamTyped
  <2>4. rec = [g EXCEPT !.at = "write", !.row = [g.row EXCEPT !.commit = tree]]
    BY <1>2, <2>1 DEF Gens
  <2>5. /\ rec \in Gens /\ rec.at = "write" /\ rec.m = g.m /\ rec.version = g.version /\ rec.branch = g.branch
        /\ rec.asked = g.asked /\ rec.back = g.back /\ rec.row = [g.row EXCEPT !.commit = tree]
    BY <1>2, <2>3, <2>4 DEF Gens
  <2>6. act'[a] = rec
    BY <1>0, <2>2 DEF Goes, BamTyped
  <2>7. WorkOf(a, of)'
    BY <1>3, <1>4, <1>5, <2>2, <2>3, <2>5, <2>6 DEF WorkOf
  <2>8. TriedOf(a)'
    <3>1. CASE g.back.for = "scan"
      <4>1. /\ ScanOf(g.back) /\ g.branch = g.back.branch /\ g.m # OwnModule
            /\ AllTried(g.back, g.back.all \ (g.back.todo \cup {g.m}))
            /\ (\A b \in Branches : g.back.remote[b] <= heads[b])
            /\ AllTried(g.back, {g.m})
        BY <1>0, <1>1, <1>2, <3>1 DEF TriedOf
      <4>2. /\ ScanOf(g.back)' /\ AllTried(g.back, g.back.all \ (g.back.todo \cup {g.m}))'
            /\ (\A b \in Branches : g.back.remote[b] <= heads'[b])
            /\ AllTried(g.back, {g.m})'
        BY <1>3, <4>1 DEF ScanOf, AllTried
      <4> QED
        BY <2>5, <2>6, <4>1, <4>2 DEF TriedOf
    <3>2. CASE g.back.for # "scan"
      BY <2>5, <2>6, <3>2 DEF TriedOf
    <3> QED
      BY <3>1, <3>2
  <2> QED
    BY <1>3, <2>2, <2>5, <2>7, <2>8, Acted DEF Acting
<1> QED
  BY <1>6, <1>7

(* writeModule: the next version is new; unless the writer was mixed up    *)
(* with another, its files are those of its commit.                        *)
LEMMA WriteModule ==
  ASSUME NEW of, BamBut(of), NEW a \in Actors, NEW m \in Modules, NEW dir \in AllDirs, NEW branch \in Branchy,
         NEW commit \in Nat, NEW files \in Files, writeModule(a, m, dir, branch, commit, files),
         UNCHANGED <<heads, commits, tree, bam_gen, tried, pulls>>,
         dir = NoDir <=> m = OwnModule,
         m = OwnModule => commit = 0 /\ files.dir = NoDir,
         m # OwnModule => commit # 0,
         m # OwnModule /\ a \notin mixed =>
            files.from = commit /\ commit \in 1..commits /\ of[commit] = Branch(branch),
         DOMAIN act' = Actors, \A o \in Actors : act'[o] \in Acting
  PROVE  /\ BamTyped' /\ Versions' /\ OwnedBy(of)' /\ Tries' /\ RevMatchesCommit' /\ PullIsOwn' /\ Grows(of, of)
         /\ NextVersion(m) \in Nat /\ <<m, NextVersion(m)>> \in DOMAIN bam_rev'
         /\ bam_rev'[<<m, NextVersion(m)>>] = [branch |-> branch, commit |-> commit, files |-> files]
         /\ a \in mixed => <<m, NextVersion(m)>> \in blurred'
<1>0. BamTyped /\ Versions /\ OwnedBy(of) /\ Tries /\ RevMatchesCommit /\ PullIsOwn
  BY DEF BamBut
<1>1. PICK v : v = NextVersion(m)
  OBVIOUS
<1>2. v \in Nat /\ <<m, v>> \notin DOMAIN bam_rev
  <2>1. CASE m \in DOMAIN bam_module
    <3>1. v = bam_module[m].version + 1 /\ bam_module[m].version \in Nat
      BY <1>0, <1>1, <2>1 DEF NextVersion, BamTyped, Rows
    <3>2. <<m, v>> \in DOMAIN bam_rev => v <= bam_module[m].version
      BY <1>0 DEF Versions
    <3> QED
      BY <3>1, <3>2
  <2>2. CASE m \notin DOMAIN bam_module
    BY <1>0, <1>1, <2>2 DEF NextVersion, Versions
  <2> QED
    BY <2>1, <2>2
<1> DEFINE keep == dir = NoDir /\ m \in DOMAIN bam_module
           R == IF keep THEN [bam_module[m] EXCEPT !.version = v]
                ELSE [version |-> v, dir |-> dir, branch |-> branch, commit |-> commit]
           N == [branch |-> branch, commit |-> commit, files |-> files]
<1>3. PICK row : row = R
  OBVIOUS
<1>4. PICK rev : rev = N
  OBVIOUS
<1>5. /\ bam_module' = Put(bam_module, m, row) /\ bam_rev' = Put(bam_rev, <<m, v>>, rev)
      /\ blurred' = IF a \in mixed THEN blurred \cup {<<m, v>>} ELSE blurred
  BY <1>1, <1>3, <1>4, Zenon DEF writeModule
<1>6. /\ DOMAIN bam_module' = DOMAIN bam_module \cup {m}
      /\ \A n \in DOMAIN bam_module' : bam_module'[n] = IF n = m THEN row ELSE bam_module[n]
  BY <1>5 DEF Put
<1>7. /\ DOMAIN bam_rev' = DOMAIN bam_rev \cup {<<m, v>>}
      /\ \A id \in DOMAIN bam_rev' : bam_rev'[id] = IF id = <<m, v>> THEN rev ELSE bam_rev[id]
  BY <1>5 DEF Put
<1>8. /\ row \in Rows /\ row.version = v /\ (row.dir = NoDir <=> m = OwnModule)
      /\ m # OwnModule => row.branch = branch /\ row.commit = commit
  <2>1. CASE keep
    <3>1. bam_module[m] \in Rows /\ (bam_module[m].dir = NoDir <=> m = OwnModule) /\ m = OwnModule
      BY <1>0, <2>1 DEF BamTyped, Versions
    <3> QED
      BY <1>2, <1>3, <2>1, <3>1 DEF Rows
  <2>2. CASE ~keep
    <3>1. row = [version |-> v, dir |-> dir, branch |-> branch, commit |-> commit]
      BY <1>3, <2>2
    <3> QED
      BY <1>2, <3>1 DEF Rows
  <2> QED
    BY <2>1, <2>2
<1>9. rev \in [branch : Branchy, commit : Nat, files : Files] /\ rev.branch = branch /\ rev.commit = commit /\ rev.files = files
  BY <1>4
<1> HIDE DEF R, keep
<1>10. BamTyped'
  <2>1. \A n \in DOMAIN bam_module' : n \in Modules /\ bam_module'[n] \in Rows
    BY <1>0, <1>6, <1>8 DEF BamTyped
  <2>2. \A id \in DOMAIN bam_rev' : id \in Modules \X Nat /\ bam_rev'[id] \in [branch : Branchy, commit : Nat, files : Files]
    BY <1>0, <1>2, <1>7, <1>9 DEF BamTyped
  <2>3. DOMAIN bam_gen' \subseteq DOMAIN bam_rev' /\ \A id \in DOMAIN bam_gen' : bam_gen'[id] \in [status : {"ok", "fail"}, code : Files]
    BY <1>0, <1>7 DEF BamTyped
  <2> QED
    BY <1>0, <2>1, <2>2, <2>3 DEF BamTyped
<1>11. Versions'
  <2>1. OwnModule \in DOMAIN bam_module'
    BY <1>0, <1>6 DEF Versions
  <2>2. ASSUME NEW n \in DOMAIN bam_module'
        PROVE  /\ bam_module'[n].dir = NoDir <=> n = OwnModule
               /\ <<n, bam_module'[n].version>> \in DOMAIN bam_rev'
               /\ n # OwnModule =>
                    /\ bam_rev'[<<n, bam_module'[n].version>>].branch = bam_module'[n].branch
                    /\ bam_rev'[<<n, bam_module'[n].version>>].commit = bam_module'[n].commit
    <3>1. CASE n = m
      <4>1. bam_module'[n] = row /\ bam_rev'[<<m, v>>] = rev /\ <<m, v>> \in DOMAIN bam_rev'
        BY <1>6, <1>7, <3>1
      <4> QED
        BY <1>8, <1>9, <3>1, <4>1
    <3>2. CASE n # m
      <4>1. n \in DOMAIN bam_module /\ bam_module'[n] = bam_module[n]
        BY <1>6, <3>2
      <4>2. <<n, bam_module[n].version>> \in DOMAIN bam_rev /\ <<n, bam_module[n].version>> # <<m, v>>
        BY <1>0, <3>2, <4>1 DEF Versions
      <4>3. bam_rev'[<<n, bam_module[n].version>>] = bam_rev[<<n, bam_module[n].version>>]
        BY <1>7, <4>2
      <4> QED
        BY <1>0, <1>7, <4>1, <4>2, <4>3 DEF Versions
    <3> QED
      BY <3>1, <3>2
  <2>3. ASSUME NEW id \in DOMAIN bam_rev'
        PROVE  /\ id[1] \in DOMAIN bam_module' /\ id[2] <= bam_module'[id[1]].version
               /\ id[1] # OwnModule => bam_rev'[id].commit # 0
               /\ id[1] = OwnModule => bam_rev'[id].commit = 0 /\ bam_rev'[id].files.dir = NoDir
    <3>1. CASE id = <<m, v>>
      BY <1>2, <1>6, <1>7, <1>8, <1>9, <3>1
    <3>2. CASE id # <<m, v>>
      <4>1. id \in DOMAIN bam_rev /\ bam_rev'[id] = bam_rev[id] /\ id \in Modules \X Nat
        BY <1>0, <1>7, <3>2 DEF BamTyped
      <4>2. /\ id[1] \in DOMAIN bam_module /\ id[2] <= bam_module[id[1]].version
            /\ id[1] # OwnModule => bam_rev[id].commit # 0
            /\ id[1] = OwnModule => bam_rev[id].commit = 0 /\ bam_rev[id].files.dir = NoDir
        BY <1>0, <4>1 DEF Versions
      <4>3. id[2] <= bam_module'[id[1]].version
        <5>1. CASE id[1] = m
          <6>1. v = bam_module[m].version + 1 /\ bam_module[m].version \in Nat /\ id[2] \in Nat
            BY <1>0, <1>1, <4>1, <4>2, <5>1 DEF NextVersion, BamTyped, Rows
          <6> QED
            BY <1>6, <1>8, <4>2, <5>1, <6>1
        <5>2. CASE id[1] # m
          BY <1>6, <4>2, <5>2
        <5> QED
          BY <5>1, <5>2
      <4> QED
        BY <1>6, <4>1, <4>2, <4>3
    <3> QED
      BY <3>1, <3>2
  <2>4. \A id \in DOMAIN bam_gen' : id[1] = OwnModule => bam_gen'[id].code.dir = NoDir
    BY <1>0 DEF Versions
  <2> QED
    BY <2>1, <2>2, <2>3, <2>4 DEF Versions
<1>12. blurred \subseteq blurred' /\ (a \in mixed => <<m, v>> \in blurred')
  BY <1>5
<1>13. OwnedBy(of)'
  <2>1. ASSUME NEW id \in DOMAIN bam_rev' \ blurred', bam_rev'[id].commit # 0
        PROVE  bam_rev'[id].commit \in 1..commits /\ of[bam_rev'[id].commit] = Branch(bam_rev'[id].branch)
    <3>1. CASE id = <<m, v>>
      BY <1>7, <1>9, <1>12, <2>1, <3>1
    <3>2. CASE id # <<m, v>>
      <4>1. id \in DOMAIN bam_rev \ blurred /\ bam_rev'[id] = bam_rev[id]
        BY <1>7, <1>12, <3>2
      <4> QED
        BY <1>0, <2>1, <4>1 DEF OwnedBy
    <3> QED
      BY <3>1, <3>2
  <2> QED
    BY <1>0, <2>1 DEF OwnedBy, Branch
<1>14. Tries' /\ PullIsOwn'
  BY <1>0, <1>12 DEF Tries, PullIsOwn, Branch
<1>15. RevMatchesCommit'
  <2>1. ASSUME NEW id \in DOMAIN bam_rev' \ blurred', bam_rev'[id].commit # 0
        PROVE  /\ bam_rev'[id].files.from = bam_rev'[id].commit
               /\ id \in DOMAIN bam_gen /\ bam_gen[id].status = "ok" => bam_gen[id].code = bam_rev'[id].files
    <3>1. CASE id = <<m, v>>
      <4>1. id \notin DOMAIN bam_gen
        BY <1>0, <1>2, <3>1 DEF BamTyped
      <4> QED
        BY <1>7, <1>9, <1>12, <2>1, <3>1, <4>1
    <3>2. CASE id # <<m, v>>
      <4>1. id \in DOMAIN bam_rev \ blurred /\ bam_rev'[id] = bam_rev[id]
        BY <1>7, <1>12, <3>2
      <4> QED
        BY <1>0, <2>1, <4>1 DEF RevMatchesCommit
    <3> QED
      BY <3>1, <3>2
  <2> QED
    BY <2>1 DEF RevMatchesCommit
<1>16. Grows(of, of)
  <2>1. \A b \in Branches : heads[b] <= heads[b]
    BY <1>0 DEF BamTyped, Heads
  <2>2. \A id \in DOMAIN bam_rev : id \in DOMAIN bam_rev' /\ bam_rev'[id] = bam_rev[id]
    BY <1>2, <1>7
  <2>3. \A k \in DOMAIN tried : tried[k] \in Nat /\ tried[k] <= tried[k]
    BY <1>0 DEF Tries
  <2> QED
    BY <1>0, <1>6, <1>12, <2>1, <2>2, <2>3 DEF Grows, BamTyped
<1>17. v \in Nat /\ <<m, v>> \in DOMAIN bam_rev' /\ bam_rev'[<<m, v>>] = [branch |-> branch, commit |-> commit, files |-> files]
  BY <1>2, <1>4, <1>7 DEF N
<1> HIDE DEF N
<1> QED
  BY <1>1, <1>10, <1>11, <1>12, <1>13, <1>14, <1>15, <1>16, <1>17

LEMMA CreateWriteBam ==
  ASSUME NEW of, BamBut(of), NEW u \in Users, CreateWrite(u)
  PROVE  BamInv'
<1>0. BamTyped /\ OwnedBy(of) /\ WorkOf(u, of) /\ u \in Actors /\ DOMAIN act = Actors
  BY DEF BamBut, BamTyped, Actors
<1>1. PICK g : g = act[u]
  OBVIOUS
<1>2. /\ g.at = "head" /\ g.m \in Modules \ {OwnModule} /\ g.dir \in Dirs /\ g.branch \in Branchy /\ g.files \in Files
  BY <1>0, <1>1, ActAt DEF CreateWrite, Is, Headers
<1>3. g.dir \in AllDirs /\ g.dir # NoDir
  BY <1>2, BamAssumption DEF AllDirs
<1>4. u \notin mixed => of[tree] = Branch(g.branch) /\ g.files.from = tree
  BY <1>0, <1>1, <1>2 DEF WorkOf
<1>5. tree \in 1..commits /\ tree \in Nat /\ tree # 0
  BY <1>0 DEF OwnedBy, BamTyped
<1>6. writeModule(u, g.m, g.dir, g.branch, tree, g.files)
  BY <1>1 DEF CreateWrite, gitHead
<1>7. Goes(u, Rest) /\ mixed' = mixed \ {u} /\ UNCHANGED <<heads, commits, tree, bam_gen, bamGenMu, tried, pulls>>
  BY DEF CreateWrite
<1>8. DOMAIN act' = Actors /\ act'[u] = Rest /\ (\A o \in Actors \ {u} : act'[o] = act[o]) /\ \A o \in Actors : act'[o] \in Acting
  BY <1>0, <1>7 DEF Goes, BamTyped, Acting
<1>9. BamTyped' /\ Versions' /\ OwnedBy(of)' /\ Tries' /\ RevMatchesCommit' /\ PullIsOwn' /\ Grows(of, of)
  <2>1. PICK c, m, dir, branch, files : c = tree /\ m = g.m /\ dir = g.dir /\ branch = g.branch /\ files = g.files
    OBVIOUS
  <2>2. m \in Modules /\ m # OwnModule /\ dir \in AllDirs /\ dir # NoDir /\ branch \in Branchy /\ files \in Files
    BY <1>2, <1>3, <2>1
  <2>3. c \in Nat /\ c # 0 /\ writeModule(u, m, dir, branch, c, files)
    BY <1>5, <1>6, <2>1
  <2>4. u \notin mixed => files.from = c /\ c \in 1..commits /\ of[c] = Branch(branch)
    BY <1>4, <1>5, <2>1
  <2> QED
    BY <1>0, <1>7, <1>8, <2>2, <2>3, <2>4, WriteModule
<1>10. \A o \in Actors \ {u} : Spares(o)
  BY <1>7, <1>8 DEF Spares
<1>11. WorkOf(u, of)' /\ TriedOf(u)'
  BY <1>8, RestAt, EasyWork, EasyTried
<1> QED
  BY <1>0, <1>9, <1>10, <1>11, Stepped

LEMMA SaveBam ==
  ASSUME NEW of, BamBut(of), NEW u \in Users, SaveBamModule(u)
  PROVE  BamInv'
<1>0. BamTyped /\ Versions /\ OwnedBy(of) /\ Tries /\ WorkOf(u, of) /\ TriedOf(u) /\ u \in Actors /\ DOMAIN act = Actors
  BY DEF BamBut, BamTyped, Actors
<1>1. PICK files : files = [from |-> -NextVersion(OwnModule), dir |-> NoDir]
  OBVIOUS
<1>2. NextVersion(OwnModule) \in Nat
  BY <1>0 DEF NextVersion, Versions, BamTyped, Rows
<1>3. files \in Files /\ files.dir = NoDir /\ NoDir \in AllDirs /\ NoBranch \in Branchy /\ OwnModule \in Modules
  BY <1>1, <1>2, BamAssumption DEF Files, AllDirs, Branchy
<1>4. writeModule(u, OwnModule, NoDir, NoBranch, 0, files)
  BY <1>1 DEF SaveBamModule
<1>5. UNCHANGED <<heads, commits, tree, bam_gen, bamGenMu, act, tried, mixed, pulls>>
  BY DEF SaveBamModule
<1>6. DOMAIN act' = Actors /\ \A o \in Actors : act'[o] = act[o] /\ act'[o] \in Acting
  BY <1>0, <1>5 DEF BamTyped
<1>7. BamTyped' /\ Versions' /\ OwnedBy(of)' /\ Tries' /\ RevMatchesCommit' /\ PullIsOwn' /\ Grows(of, of)
  BY <1>0, <1>3, <1>4, <1>5, <1>6, WriteModule
<1>8. \A o \in Actors : Spares(o)
  BY <1>5, <1>6 DEF Spares
<1>9. WorkOf(u, of)' /\ TriedOf(u)'
  BY <1>0, <1>6, <1>7, <1>8, WorkKept, TriedKept
<1> QED
  BY <1>0, <1>7, <1>8, <1>9, Stepped

LEMMA GenWriteBam ==
  ASSUME NEW of, BamBut(of), NEW a \in Actors, GenWrite(a)
  PROVE  BamInv'
<1>0. BamTyped /\ Versions /\ OwnedBy(of) /\ Tries /\ WorkOf(a, of) /\ TriedOf(a) /\ DOMAIN act = Actors
  BY DEF BamBut, BamTyped
<1>1. PICK g : g = act[a]
  OBVIOUS
<1>2. /\ g \in Gens /\ g.at = "write" /\ g.branch \in Branchy /\ g.m \in Modules /\ g.row \in Rows /\ g.back \in Backs
      /\ g.asked \in Heads
  BY <1>0, <1>1, ActAt DEF GenWrite, Is, Gens
<1>3. /\ bamGenMu = a /\ g.m # OwnModule /\ (g.row.dir = NoDir <=> g.m = OwnModule)
      /\ (\A b \in Branches : g.asked[b] <= heads[b]) /\ g.row.commit # 0
      /\ a \notin mixed => of[tree] = Branch(g.branch) /\ tree >= g.asked[Branch(g.branch)] /\ g.row.commit = tree
  BY <1>0, <1>1, <1>2 DEF WorkOf
<1>4. g.row.dir \in AllDirs /\ g.row.commit \in Nat /\ tree \in 1..commits /\ tree \in Nat
  BY <1>0, <1>2 DEF Rows, OwnedBy, BamTyped
<1>5. UNCHANGED <<heads, commits, tree, bam_gen, tried, pulls>>
  BY DEF GenWrite
<1> DEFINE F == [from |-> tree, dir |-> g.row.dir]
           ok == collectBamFiles(g.row.dir).ok
<1>6. PICK files : files = F
  OBVIOUS
<1>7. files \in Files /\ files.from = tree
  BY <1>4, <1>6 DEF Files
<1>8. collectBamFiles(g.row.dir).files = files
  BY <1>6 DEF collectBamFiles
<1> HIDE DEF ok
<1>9. IF ok THEN writeModule(a, g.m, g.row.dir, g.branch, g.row.commit, files) ELSE UNCHANGED <<bam_module, bam_rev, blurred>>
  BY <1>1, <1>8 DEF GenWrite, ok
<1>10. CASE ~ok
  <2>1. /\ Goes(a, Returned(a, FALSE, 0)) /\ bamGenMu' = (IF bamGenMu = a THEN Nobody ELSE bamGenMu)
        /\ mixed' = mixed \ {a}
    BY <1>1, <1>10 DEF GenWrite, Unlock, ok
  <2>2. UNCHANGED <<bam_module, bam_rev, blurred>>
    BY <1>9, <1>10
  <2>3. Grows(of, of)
    BY <1>2, <1>5, <2>2, TryGrows
  <2>4. (\E rec \in Acting : Goes(a, rec)) /\ WorkOf(a, of)' /\ TriedOf(a)'
    BY <1>0, <1>1, <1>2, <2>1, <2>3, ReturnOf
  <2> QED
    BY <1>5, <2>1, <2>2, <2>4, Acted
<1>11. CASE ok
  <2>1. writeModule(a, g.m, g.row.dir, g.branch, g.row.commit, files)
    BY <1>9, <1>11
  <2>2. ASSUME NEW rec \in Acting, Goes(a, rec)
        PROVE  /\ BamTyped' /\ Versions' /\ OwnedBy(of)' /\ Tries' /\ RevMatchesCommit' /\ PullIsOwn' /\ Grows(of, of)
               /\ NextVersion(g.m) \in Nat /\ <<g.m, NextVersion(g.m)>> \in DOMAIN bam_rev'
               /\ bam_rev'[<<g.m, NextVersion(g.m)>>] = [branch |-> g.branch, commit |-> g.row.commit, files |-> files]
               /\ a \in mixed => <<g.m, NextVersion(g.m)>> \in blurred'
               /\ act'[a] = rec /\ \A o \in Actors \ {a} : act'[o] = act[o]
    <3>1. DOMAIN act' = Actors /\ act'[a] = rec /\ (\A o \in Actors \ {a} : act'[o] = act[o])
      BY <1>0, <2>2 DEF Goes
    <3>2. \A o \in Actors : act'[o] \in Acting
      BY <1>0, <2>2, <3>1 DEF BamTyped
    <3> QED
      BY <1>2, <1>3, <1>4, <1>5, <1>7, <2>1, <3>1, <3>2, WriteModule
  <2>3. CASE ~compileBam(files)
    <3>1. /\ Goes(a, Returned(a, FALSE, 0)) /\ bamGenMu' = (IF bamGenMu = a THEN Nobody ELSE bamGenMu)
          /\ mixed' = mixed \ {a}
      BY <1>1, <1>8, <2>3 DEF GenWrite, Unlock
    <3>2. Grows(of, of)
      <4>1. \E rec \in Acting : Goes(a, rec)
        BY <1>0, <1>1, <1>2, <3>1, Returns
      <4> QED
        BY <2>2, <4>1
    <3>3. (\E rec \in Acting : Goes(a, rec)) /\ WorkOf(a, of)' /\ TriedOf(a)'
      BY <1>0, <1>1, <1>2, <3>1, <3>2, ReturnOf
    <3>4. PICK rec \in Acting : Goes(a, rec)
      BY <3>3
    <3>5. /\ BamTyped' /\ Versions' /\ OwnedBy(of)' /\ Tries' /\ RevMatchesCommit' /\ PullIsOwn' /\ Grows(of, of)
          /\ \A o \in Actors \ {a} : act'[o] = act[o]
      BY <2>2, <3>4
    <3>6. \A o \in Actors \ {a} : Spares(o)
      BY <1>3, <1>5, <3>1, <3>5 DEF Spares
    <3> QED
      BY <3>3, <3>5, <3>6, Stepped
  <2>4. CASE compileBam(files)
    <3> DEFINE R == [g EXCEPT !.at = "gen", !.version = NextVersion(g.m)]
    <3>1. PICK v : v = NextVersion(g.m)
      OBVIOUS
    <3>2. PICK rec : rec = R
      OBVIOUS
    <3>3. Goes(a, rec) /\ UNCHANGED <<bamGenMu, mixed>>
      BY <1>1, <1>8, <1>11, <2>4, <3>2 DEF GenWrite, ok
    <3>4. v \in Nat
      BY <1>0, <3>1 DEF NextVersion, BamTyped, Rows
    <3>5. /\ rec \in Gens /\ rec.at = "gen" /\ rec.m = g.m /\ rec.version = v /\ rec.branch = g.branch
          /\ rec.asked = g.asked /\ rec.back = g.back /\ rec.row = g.row
      BY <1>2, <3>1, <3>2, <3>4 DEF Gens
    <3>6. /\ BamTyped' /\ Versions' /\ OwnedBy(of)' /\ Tries' /\ RevMatchesCommit' /\ PullIsOwn' /\ Grows(of, of)
          /\ <<g.m, v>> \in DOMAIN bam_rev'
          /\ bam_rev'[<<g.m, v>>] = [branch |-> g.branch, commit |-> g.row.commit, files |-> files]
          /\ a \in mixed => <<g.m, v>> \in blurred'
          /\ act'[a] = rec /\ \A o \in Actors \ {a} : act'[o] = act[o]
      BY <2>2, <3>1, <3>3, <3>5 DEF Acting
    <3>7. \A o \in Actors \ {a} : Spares(o)
      BY <1>5, <3>3, <3>6 DEF Spares
    <3>8. Ripe(g.m, v, g.branch, g.asked)'
      BY <1>3, <3>6 DEF Ripe
    <3>9. WorkOf(a, of)'
      BY <1>3, <1>5, <1>6, <3>3, <3>5, <3>6, <3>8 DEF WorkOf, Ripe
    <3>10. TriedOf(a)'
      <4>1. CASE g.back.for = "scan"
        <5>1. /\ ScanOf(g.back) /\ g.branch = g.back.branch /\ g.m # OwnModule
              /\ AllTried(g.back, g.back.all \ (g.back.todo \cup {g.m}))
              /\ (\A b \in Branches : g.back.remote[b] <= heads[b])
              /\ AllTried(g.back, {g.m})
          BY <1>0, <1>1, <1>2, <4>1 DEF TriedOf
        <5>2. /\ ScanOf(g.back)' /\ AllTried(g.back, g.back.all \ (g.back.todo \cup {g.m}))'
              /\ (\A b \in Branches : g.back.remote[b] <= heads'[b])
              /\ AllTried(g.back, {g.m})'
          BY <1>5, <3>6, <5>1 DEF ScanOf, AllTried, Grows
        <5> QED
          BY <3>5, <3>6, <5>1, <5>2 DEF TriedOf
      <4>2. CASE g.back.for # "scan"
        BY <3>5, <3>6, <4>2 DEF TriedOf
      <4> QED
        BY <4>1, <4>2
    <3> QED
      BY <3>6, <3>7, <3>9, <3>10, Stepped
  <2> QED
    BY <2>3, <2>4
<1> QED
  BY <1>10, <1>11

LEMMA RunBamGenBam ==
  ASSUME NEW of, BamBut(of), NEW a \in Actors, RunBamGen(a)
  PROVE  BamInv'
<1>0. BamTyped /\ Versions /\ OwnedBy(of) /\ Tries /\ RevMatchesCommit /\ PullIsOwn /\ WorkOf(a, of) /\ TriedOf(a) /\ DOMAIN act = Actors
  BY DEF BamBut, BamTyped
<1>1. PICK g : g = act[a]
  OBVIOUS
<1>2. /\ g \in Gens /\ g.at = "gen" /\ g.branch \in Branchy /\ g.m \in Modules /\ g.row \in Rows /\ g.version \in Nat
  BY <1>0, <1>1, ActAt DEF RunBamGen, Is, Gens
<1>3. /\ bamGenMu = a /\ (g.row.dir = NoDir <=> g.m = OwnModule) /\ Ripe(g.m, g.version, g.branch, g.asked)
      /\ g.m # OwnModule /\ a \notin mixed => bam_rev[<<g.m, g.version>>].files = [from |-> tree, dir |-> g.row.dir]
  BY <1>0, <1>1, <1>2 DEF WorkOf
<1>4. PICK id : id = <<g.m, g.version>>
  OBVIOUS
<1>5. id \in DOMAIN bam_rev /\ id[1] = g.m /\ bam_rev[id].files \in Files
  BY <1>0, <1>3, <1>4 DEF Ripe, BamTyped
<1>6. PICK from : from = copyTree(g, id)
  OBVIOUS
<1>7. /\ from \in Files /\ (a \notin mixed => from = bam_rev[id].files) /\ (g.m = OwnModule => from.dir = NoDir)
  <2>1. CASE g.m = OwnModule
    BY <1>0, <1>3, <1>5, <1>6, <2>1 DEF copyTree, Versions
  <2>2. CASE g.m # OwnModule
    <3>1. from = [from |-> tree, dir |-> g.row.dir]
      BY <1>3, <1>6, <2>2 DEF copyTree
    <3> QED
      BY <1>0, <1>2, <1>3, <1>4, <2>2, <3>1 DEF Files, Rows, BamTyped
  <2> QED
    BY <2>1, <2>2
<1>8. PICK st : st = IF buf(from) THEN "ok" ELSE "fail"
  OBVIOUS
<1>9. PICK made : made = [status |-> st, code |-> IF st = "ok" THEN from ELSE Nothing]
  OBVIOUS
<1>10. /\ made \in [status : {"ok", "fail"}, code : Files] /\ (made.status = "ok" => made.code = from)
       /\ (g.m = OwnModule => made.code.dir = NoDir)
  <2>1. Nothing \in Files /\ Nothing.dir = NoDir
    BY DEF Nothing, Files, AllDirs
  <2> QED
    BY <1>7, <1>8, <1>9, <2>1
<1>11. /\ bam_gen' = Put(bam_gen, id, made)
       /\ blurred' = IF a \in mixed THEN blurred \cup {id} ELSE blurred
       /\ Unlock(a, g.back.for # "pull" \/ st = "ok", g.version)
       /\ mixed' = mixed \ {a}
       /\ UNCHANGED <<heads, commits, tree, bam_module, bam_rev, tried, pulls>>
  BY <1>1, <1>4, <1>6, <1>8, <1>9, Zenon DEF RunBamGen
<1>12. /\ DOMAIN bam_gen' = DOMAIN bam_gen \cup {id}
       /\ \A j \in DOMAIN bam_gen' : bam_gen'[j] = IF j = id THEN made ELSE bam_gen[j]
  BY <1>11 DEF Put
<1>13. PICK ok \in BOOLEAN : Goes(a, Returned(a, ok, g.version)) /\ bamGenMu' = IF bamGenMu = a THEN Nobody ELSE bamGenMu
  BY <1>11 DEF Unlock
<1>14. Grows(of, of) /\ blurred \subseteq blurred'
  <2>1. \A b \in Branches : heads[b] <= heads[b]
    BY <1>0 DEF BamTyped, Heads
  <2>2. \A k \in DOMAIN tried : tried[k] \in Nat /\ tried[k] <= tried[k]
    BY <1>0 DEF Tries
  <2> QED
    BY <1>0, <1>11, <2>1, <2>2 DEF Grows, BamTyped
<1>15. Ripe(g.m, g.version, g.branch, g.asked)'
  BY <1>3, <1>11, <1>14 DEF Ripe
<1>16. (\E rec \in Acting : Goes(a, rec)) /\ WorkOf(a, of)' /\ TriedOf(a)'
  BY <1>0, <1>1, <1>2, <1>13, <1>14, <1>15, ReturnOf
<1>17. DOMAIN act' = Actors /\ act'[a] \in Acting /\ \A o \in Actors \ {a} : act'[o] = act[o]
  BY <1>0, <1>16 DEF Goes, BamTyped
<1>18. BamTyped'
  <2>1. DOMAIN bam_gen' \subseteq DOMAIN bam_rev /\ \A j \in DOMAIN bam_gen' : bam_gen'[j] \in [status : {"ok", "fail"}, code : Files]
    BY <1>0, <1>5, <1>10, <1>12 DEF BamTyped
  <2> QED
    BY <1>0, <1>11, <1>17, <2>1 DEF BamTyped
<1>19. Versions'
  <2>1. \A j \in DOMAIN bam_gen' : j[1] = OwnModule => bam_gen'[j].code.dir = NoDir
    BY <1>0, <1>5, <1>10, <1>12 DEF Versions
  <2> QED
    BY <1>0, <1>11, <2>1 DEF Versions
<1>20. OwnedBy(of)' /\ Tries' /\ PullIsOwn'
  BY <1>0, <1>11, <1>14 DEF OwnedBy, Tries, PullIsOwn, Branch
<1>21. RevMatchesCommit'
  <2>1. ASSUME NEW j \in DOMAIN bam_rev \ blurred', bam_rev[j].commit # 0
        PROVE  /\ bam_rev[j].files.from = bam_rev[j].commit
               /\ j \in DOMAIN bam_gen' /\ bam_gen'[j].status = "ok" => bam_gen'[j].code = bam_rev[j].files
    <3>1. /\ bam_rev[j].files.from = bam_rev[j].commit
          /\ j \in DOMAIN bam_gen /\ bam_gen[j].status = "ok" => bam_gen[j].code = bam_rev[j].files
      BY <1>0, <1>14, <2>1 DEF RevMatchesCommit
    <3>2. CASE j = id
      <4>1. a \notin mixed
        BY <1>11, <2>1, <3>2
      <4> QED
        BY <1>7, <1>10, <1>12, <3>1, <3>2, <4>1
    <3>3. CASE j # id
      BY <1>12, <3>1, <3>3
    <3> QED
      BY <3>2, <3>3
  <2> QED
    BY <1>11, <2>1 DEF RevMatchesCommit
<1>22. \A o \in Actors \ {a} : Spares(o)
  BY <1>3, <1>11, <1>13, <1>17 DEF Spares
<1> QED
  BY <1>14, <1>16, <1>18, <1>19, <1>20, <1>21, <1>22, Stepped

LEMMA filterZipLangIs ==
  ASSUME NEW lang \in {"go", "ts"}, filterZipLang(bamGenYAML, lang) # {}
  PROVE  filterZipLang(bamGenYAML, lang) = {lang}
  BY DEF filterZipLang, bamGenYAML

LEMMA BamZipBam ==
  ASSUME NEW of, BamBut(of), NEW u \in Users, bamZip(u)
  PROVE  BamInv'
<1>0. BamTyped /\ Versions /\ RevMatchesCommit /\ PullIsOwn /\ WorkOf(u, of) /\ u \in Actors
  BY DEF BamBut, Actors
<1>1. PICK z : z = act[u]
  OBVIOUS
<1>2. z \in Zippers /\ z.at = "zip" /\ z.back \in Pulled /\ Ripe(z.m, z.version, z.branch, z.asked)
  BY <1>0, <1>1, ActAt DEF bamZip, Is, Zippers, WorkOf
<1>3. /\ z.m \in Modules /\ z.branch \in Branchy /\ z.asked \in Heads
      /\ z.back.asks \in Branchy /\ z.back.rest \in Seq(Lines)
  BY <1>2 DEF Zippers, Pulled
<1>4. PICK id : id = <<z.m, z.version>>
  OBVIOUS
<1>5. PICK langs : langs = filterZipLang(bamGenYAML, z.back.lang)
  OBVIOUS
<1> DEFINE found == id \in DOMAIN bam_gen /\ bam_gen[id].status = "ok" /\ langs # {}
<1>6. /\ pulls' = IF found THEN pulls \cup {extractZip(z, id, zipDir(id), langs)} ELSE pulls
      /\ IF found /\ z.back.rest # <<>> THEN handleBamPull(u, z.back.rest, z.back.asks) ELSE Goes(u, Rest)
  BY <1>1, <1>4, <1>5 DEF bamZip, zipVersion
<1>7. UNCHANGED <<heads, commits, tree, bam_module, bam_rev, bam_gen, tried, blurred, mixed, bamGenMu>>
  BY DEF bamZip, bamTables
<1>8. PullIsOwn'
  <2>1. CASE ~found
    <3>1. UNCHANGED <<pulls, blurred>>
      BY <1>6, <1>7, <2>1
    <3> QED
      BY <1>0, <3>1 DEF PullIsOwn
  <2>2. CASE found
    <3>1. PICK p : p = extractZip(z, id, zipDir(id), langs)
      OBVIOUS
    <3>2. /\ p.lang = z.back.lang /\ p.langs = langs /\ p.id = id /\ p.code = bam_gen[id].code
          /\ p.of = bam_rev[id].branch /\ p.branch = z.branch /\ p.asked = z.asked
      BY <3>1 DEF extractZip, zipDir
    <3>3. p.lang \in {"go", "ts"} => p.langs = {p.lang}
      BY <1>5, <2>2, <3>2, filterZipLangIs
    <3>4. ASSUME id \notin blurred, p.code.dir # NoDir
          PROVE  p.of = p.branch /\ p.code.from >= p.asked[Branch(p.branch)]
      <4>1. id[1] = z.m /\ z.m # OwnModule
        BY <1>0, <1>4, <2>2, <3>2, <3>4 DEF Versions
      <4>2. id \in DOMAIN bam_rev /\ bam_rev[id].branch = z.branch /\ bam_rev[id].commit >= z.asked[Branch(z.branch)]
        BY <1>2, <1>4, <3>4, <4>1 DEF Ripe
      <4>3. bam_rev[id].commit # 0
        BY <1>0, <4>1, <4>2 DEF Versions
      <4>4. bam_rev[id].files.from = bam_rev[id].commit /\ bam_gen[id].code = bam_rev[id].files
        BY <1>0, <2>2, <3>4, <4>2, <4>3 DEF RevMatchesCommit
      <4> QED
        BY <3>2, <4>2, <4>4
    <3>5. pulls' = pulls \cup {p} /\ blurred' = blurred
      BY <1>6, <1>7, <2>2, <3>1
    <3> HIDE DEF found
    <3>6. \A q \in pulls : /\ q.lang \in {"go", "ts"} => q.langs = {q.lang}
                           /\ q.id \notin blurred /\ q.code.dir # NoDir =>
                                 q.of = q.branch /\ q.code.from >= q.asked[Branch(q.branch)]
      BY <1>0 DEF PullIsOwn
    <3>7. ASSUME NEW q \in pulls'
          PROVE  /\ q.lang \in {"go", "ts"} => q.langs = {q.lang}
                 /\ q.id \notin blurred' /\ q.code.dir # NoDir =>
                       q.of = q.branch /\ q.code.from >= q.asked[Branch(q.branch)]
      <4>1. CASE q = p
        BY <3>2, <3>3, <3>4, <3>5, <4>1
      <4>2. CASE q # p
        BY <3>5, <3>6, <4>2
      <4> QED
        BY <4>1, <4>2
    <3> QED
      BY <3>7, Zenon DEF PullIsOwn, Branch
  <2> QED
    BY <2>1, <2>2
<1>9. CASE Goes(u, Rest)
  BY <1>0, <1>7, <1>8, <1>9, RestOf
<1>10. CASE z.back.rest # <<>> /\ handleBamPull(u, z.back.rest, z.back.asks)
  <2>1. z.back.rest \in Seq(Lines) \ {<<>>}
    BY <1>3, <1>10
  <2>2. ASSUME NEW n \in DOMAIN bam_module, NEW back \in Pulled, Gen(u, n, z.back.asks, back) PROVE BamInv'
    BY <1>0, <1>3, <1>7, <1>8, <2>2, PulledIs, GenOf
  <2> QED
    BY <1>3, <1>9, <1>10, <2>1, <2>2, handleBamPullTyped
<1> QED
  BY <1>6, <1>9, <1>10

(* A push: the new commit is the branch's. *)
LEMMA PushBam ==
  ASSUME NEW of, BamBut(of), NEW b \in Branches, Push(b)
  PROVE  BamInv'
<1>0. BamTyped /\ Versions /\ OwnedBy(of) /\ Tries /\ RevMatchesCommit /\ PullIsOwn
  BY DEF BamBut
<1> DEFINE O == [c \in 1..(commits + 1) |-> IF c <= commits THEN of[c] ELSE b]
<1>1. PICK of2 : of2 = O
  OBVIOUS
<1>2. /\ commits \in Nat /\ heads \in Heads /\ commits' = commits + 1 /\ heads' = [heads EXCEPT ![b] = commits + 1]
      /\ UNCHANGED <<tree, bam_module, bam_rev, bam_gen, bamGenMu, act, mixed, tried, pulls, blurred>>
  BY <1>0 DEF Push, BamTyped, bamTables, bamHist
<1>3. /\ of2 \in [1..commits' -> Branches] /\ of2[commits + 1] = b /\ \A c \in 1..commits : of2[c] = of[c]
  BY <1>0, <1>1, <1>2 DEF OwnedBy
<1>4. /\ heads' \in Heads /\ heads'[b] = commits + 1 /\ \A c \in Branches : heads'[c] = (IF c = b THEN commits + 1 ELSE heads[c])
      /\ \A c \in Branches : heads[c] \in Nat /\ heads[c] <= commits
  BY <1>0, <1>2 DEF Heads, OwnedBy
<1>5. \A c \in Branches : heads[c] <= heads'[c]
  BY <1>2, <1>4
<1>6. BamTyped' /\ Versions' /\ RevMatchesCommit' /\ PullIsOwn'
  BY <1>0, <1>2, <1>4 DEF BamTyped, Versions, RevMatchesCommit, PullIsOwn
<1>7. Tries'
  <2> SUFFICES ASSUME NEW k \in DOMAIN tried PROVE tried[k] \in Nat /\ tried[k] <= heads'[Branch(k[2])]
    BY <1>0, <1>2 DEF Tries, Branch
  <2>1. tried[k] \in Nat /\ tried[k] <= heads[Branch(k[2])] /\ Branch(k[2]) \in Branches
    BY <1>0, BranchIs DEF Tries
  <2> QED
    BY <1>2, <1>4, <1>5, <2>1
<1>8. Grows(of, of2)
  <2>1. \A k \in DOMAIN tried : tried[k] \in Nat /\ tried[k] <= tried[k]
    BY <1>0 DEF Tries
  <2> QED
    BY <1>2, <1>3, <1>4, <1>5, <2>1 DEF Grows
<1>9. OwnedBy(of2)'
  <2>1. tree' \in 1..commits'
    BY <1>0, <1>2 DEF OwnedBy
  <2>2. ASSUME NEW c \in Branches, heads'[c] # 0 PROVE heads'[c] \in 1..commits' /\ of2[heads'[c]] = c
    BY <1>0, <1>2, <1>3, <1>4, <2>2 DEF OwnedBy
  <2>3. ASSUME NEW id \in DOMAIN bam_rev \ blurred, bam_rev[id].commit # 0
        PROVE  bam_rev[id].commit \in 1..commits' /\ of2[bam_rev[id].commit] = Branch(bam_rev[id].branch)
    <3>1. bam_rev[id].commit \in 1..commits /\ of[bam_rev[id].commit] = Branch(bam_rev[id].branch)
      BY <1>0, <2>3 DEF OwnedBy
    <3> QED
      BY <1>2, <1>3, <3>1
  <2> QED
    BY <1>2, <1>3, <2>1, <2>2, <2>3 DEF OwnedBy, Branch
<1>10. ASSUME NEW o \in Actors PROVE WorkOf(o, of2)' /\ TriedOf(o)'
  <2>1. Spares(o) /\ act'[o] = act[o] /\ WorkOf(o, of) /\ TriedOf(o)
    BY <1>2 DEF Spares, BamBut
  <2> QED
    BY <1>0, <1>8, <2>1, WorkKept, TriedKept
<1>11. BamBut(of2)'
  BY <1>6, <1>7, <1>9, <1>10 DEF BamBut
<1> QED
  BY <1>11 DEF BamInv

LEMMA InitBam == BamInit => BamInv
<1> SUFFICES ASSUME BamInit PROVE BamInv
  OBVIOUS
<1> DEFINE at0 == DOMAIN Bound \cup {OwnModule}
           row(m) == IF m \in DOMAIN Bound THEN [version |-> 1, dir |-> Bound[m], branch |-> Main, commit |-> 1] ELSE seedBam
<1>1. /\ heads = [b \in Branches |-> IF b = Main THEN 1 ELSE 0] /\ commits = 1 /\ tree = 1
      /\ bam_module = [m \in at0 |-> row(m)]
      /\ bam_rev = [id \in at0 \X {1} |->
                       [branch |-> row(id[1]).branch, commit |-> row(id[1]).commit,
                        files |-> IF id[1] = OwnModule THEN [from |-> -1, dir |-> NoDir]
                                  ELSE [from |-> 1, dir |-> Bound[id[1]]]]]
      /\ bam_gen = <<>> /\ act = [a \in Actors |-> Rest] /\ tried = <<>> /\ mixed = {} /\ pulls = {}
  BY DEF BamInit
<1>2. DOMAIN bam_gen = {} /\ DOMAIN tried = {}
  BY <1>1
<1>3. /\ Main \in Branches /\ NoBranch \in Branchy /\ Main \in Branchy /\ NoDir \in AllDirs /\ OwnModule \in Modules
      /\ OwnModule \notin DOMAIN Bound /\ at0 \subseteq Modules
      /\ \A m \in DOMAIN Bound : Bound[m] \in AllDirs /\ Bound[m] # NoDir
  BY BamAssumption DEF Branches, Branchy, AllDirs
<1>4. /\ row(OwnModule) = [version |-> 1, dir |-> NoDir, branch |-> NoBranch, commit |-> 0]
      /\ \A m \in DOMAIN Bound : row(m) = [version |-> 1, dir |-> Bound[m], branch |-> Main, commit |-> 1]
  BY <1>3 DEF seedBam
<1>5. \A m \in at0 : row(m) \in Rows /\ row(m).version = 1 /\ (row(m).dir = NoDir <=> m = OwnModule)
                     /\ (m # OwnModule => m \in DOMAIN Bound /\ row(m).commit = 1 /\ row(m).branch = Main)
                     /\ (m = OwnModule => row(m).commit = 0)
  BY <1>3, <1>4 DEF Rows
<1> HIDE DEF row
<1>6. DOMAIN bam_module = at0 /\ \A m \in at0 : bam_module[m] = row(m)
  BY <1>1
<1>7. DOMAIN bam_rev = at0 \X {1}
  BY <1>1
<1>8. ASSUME NEW id \in at0 \X {1}
      PROVE  /\ bam_rev[id] \in [branch : Branchy, commit : Nat, files : Files]
             /\ bam_rev[id].branch = row(id[1]).branch /\ bam_rev[id].commit = row(id[1]).commit
             /\ id[1] = OwnModule => bam_rev[id].files.dir = NoDir
             /\ id[1] # OwnModule => bam_rev[id].files.from = 1
             /\ id[1] \in at0 /\ id[2] = 1
  <2>1. id[1] \in at0 /\ id[2] = 1
    OBVIOUS
  <2>2. PICK files : files = IF id[1] = OwnModule THEN [from |-> -1, dir |-> NoDir] ELSE [from |-> 1, dir |-> Bound[id[1]]]
    OBVIOUS
  <2>3. files \in Files
    <3>1. CASE id[1] = OwnModule
      BY <1>3, <2>2, <3>1 DEF Files
    <3>2. CASE id[1] # OwnModule
      BY <1>3, <1>5, <2>1, <2>2, <3>2 DEF Files
    <3> QED
      BY <3>1, <3>2
  <2>4. bam_rev[id] = [branch |-> row(id[1]).branch, commit |-> row(id[1]).commit, files |-> files]
    BY <1>1, <2>2
  <2>5. row(id[1]).branch \in Branchy /\ row(id[1]).commit \in Nat
    BY <1>5, <2>1 DEF Rows
  <2> QED
    BY <2>1, <2>2, <2>3, <2>4, <2>5
<1>9. PICK of : of = [c \in 1..1 |-> Main]
  OBVIOUS
<1>10. BamTyped
  <2>1. heads \in Heads /\ commits \in Nat /\ tree \in Nat
    BY <1>1 DEF Heads
  <2>2. DOMAIN bam_module \subseteq Modules /\ \A m \in DOMAIN bam_module : bam_module[m] \in Rows
    BY <1>3, <1>5, <1>6
  <2>3. DOMAIN bam_rev \subseteq Modules \X Nat
    BY <1>3, <1>7
  <2>4. DOMAIN act = Actors /\ \A a \in Actors : act[a] \in Acting
    BY <1>1 DEF Acting
  <2> QED
    BY <1>2, <1>7, <1>8, <2>1, <2>2, <2>3, <2>4 DEF BamTyped
<1>11. Versions
  <2>1. ASSUME NEW m \in at0
        PROVE  /\ bam_module[m].dir = NoDir <=> m = OwnModule
               /\ <<m, bam_module[m].version>> \in DOMAIN bam_rev
               /\ bam_rev[<<m, bam_module[m].version>>].branch = bam_module[m].branch
               /\ bam_rev[<<m, bam_module[m].version>>].commit = bam_module[m].commit
    <3>1. <<m, 1>> \in at0 \X {1} /\ <<m, 1>>[1] = m
      OBVIOUS
    <3>2. bam_rev[<<m, 1>>].branch = row(m).branch /\ bam_rev[<<m, 1>>].commit = row(m).commit
      BY <1>8, <3>1
    <3> QED
      BY <1>5, <1>6, <1>7, <3>1, <3>2
  <2>2. ASSUME NEW id \in at0 \X {1}
        PROVE  /\ id[1] \in DOMAIN bam_module /\ id[2] <= bam_module[id[1]].version
               /\ id[1] # OwnModule => bam_rev[id].commit # 0
               /\ id[1] = OwnModule => bam_rev[id].commit = 0 /\ bam_rev[id].files.dir = NoDir
    <3>1. id[1] \in at0 /\ id[2] = 1 /\ bam_rev[id].commit = row(id[1]).commit
          /\ (id[1] = OwnModule => bam_rev[id].files.dir = NoDir)
      BY <1>8
    <3>2. PICK m : m = id[1]
      OBVIOUS
    <3>3. row(m).version = 1 /\ (m # OwnModule => row(m).commit = 1) /\ (m = OwnModule => row(m).commit = 0)
      BY <1>5, <3>1, <3>2
    <3> QED
      BY <1>6, <3>1, <3>2, <3>3
  <2>3. OwnModule \in DOMAIN bam_module
    BY <1>6
  <2> QED
    BY <1>2, <1>6, <1>7, <2>1, <2>2, <2>3 DEF Versions
<1>12. OwnedBy(of)
  <2>1. of \in [1..commits -> Branches] /\ of[1] = Main
    BY <1>1, <1>3, <1>9
  <2>2. tree \in 1..commits /\ \A b \in Branches : heads[b] # 0 => heads[b] \in 1..commits /\ of[heads[b]] = b
    BY <1>1, <2>1
  <2>3. ASSUME NEW id \in at0 \X {1}, bam_rev[id].commit # 0
        PROVE  bam_rev[id].commit \in 1..commits /\ of[bam_rev[id].commit] = Branch(bam_rev[id].branch)
    <3>1. id[1] \in at0 /\ bam_rev[id].commit = row(id[1]).commit /\ bam_rev[id].branch = row(id[1]).branch
      BY <1>8
    <3>2. bam_rev[id].commit = 1 /\ bam_rev[id].branch = Main
      BY <1>5, <2>3, <3>1
    <3>3. Branch(Main) = Main
      BY <1>3, BranchIs
    <3> QED
      BY <1>1, <2>1, <3>2, <3>3
  <2> QED
    BY <1>7, <2>1, <2>2, <2>3 DEF OwnedBy
<1>13. Tries /\ PullIsOwn
  BY <1>1, <1>2 DEF Tries, PullIsOwn
<1>14. RevMatchesCommit
  <2>1. ASSUME NEW id \in at0 \X {1}, bam_rev[id].commit # 0 PROVE bam_rev[id].files.from = bam_rev[id].commit
    <3>1. id[1] \in at0 /\ bam_rev[id].commit = row(id[1]).commit /\ (id[1] # OwnModule => bam_rev[id].files.from = 1)
      BY <1>8
    <3>2. id[1] # OwnModule /\ row(id[1]).commit = 1
      BY <1>5, <2>1, <3>1
    <3> QED
      BY <3>1, <3>2
  <2> QED
    BY <1>2, <1>7, <2>1 DEF RevMatchesCommit
<1>15. ASSUME NEW a \in Actors PROVE WorkOf(a, of) /\ TriedOf(a)
  BY <1>1, RestAt DEF WorkOf, TriedOf
<1> QED
  BY <1>10, <1>11, <1>12, <1>13, <1>14, <1>15 DEF BamBut, BamInv

LEMMA NextBam == BamInv /\ [BamNext]_bamVars => BamInv'
<1> SUFFICES ASSUME BamInv, [BamNext]_bamVars PROVE BamInv'
  OBVIOUS
<1>1. PICK of : BamBut(of)
  BY DEF BamInv
<1>2. ASSUME NEW a \in Actors, GenStep(a) PROVE BamInv'
  <2>1. OwnModule \in Modules
    BY BamAssumption
  <2>2. ASSUME NEW m \in Modules, ScanModule(a, m) PROVE BamInv'
    BY <1>1, <2>2, ScanBam
  <2>3. CASE ScanEnds(a)
    BY <1>1, <2>1, <2>3, ScanBam
  <2>4. CASE Lock(a)
    BY <1>1, <2>4, LockBam
  <2>5. CASE GenSync(a)
    BY <1>1, <2>5, GenSyncBam
  <2>6. CASE GenSyncFails(a)
    BY <1>1, <2>6, GenSyncFailsBam
  <2>7. CASE GenDecide(a)
    BY <1>1, <2>7, GenDecideBam
  <2>8. CASE GenWrite(a)
    BY <1>1, <2>8, GenWriteBam
  <2>9. CASE RunBamGen(a)
    BY <1>1, <2>9, RunBamGenBam
  <2> QED
    BY <1>2, <2>2, <2>3, <2>4, <2>5, <2>6, <2>7, <2>8, <2>9 DEF GenStep
<1>3. ASSUME NEW u \in Users, UserStep(u) PROVE BamInv'
  <2>1. u \in Actors
    BY DEF Actors
  <2>2. CASE bamZip(u)
    BY <1>1, <2>2, BamZipBam
  <2>3. CASE CreateSync(u)
    BY <1>1, <2>3, CreateSyncBam
  <2>4. CASE CreateEnds(u) \/ CreateCollect(u)
    <3>1. act[u].at \in {"create", "collect"}
      BY <2>4 DEF CreateEnds, CreateCollect, Is
    <3>2. act[u] \in Makers
      BY <1>1, <2>1, <3>1, ActAt DEF BamBut
    <3>3. \E m \in Modules, dir \in Dirs : TRUE /\ act[u].branch \in Branchy
      BY <3>2 DEF Makers
    <3>4. PICK m \in Modules, dir \in Dirs, b \in Branchy : TRUE
      BY <3>3
    <3> QED
      BY <1>1, <2>4, <3>4, CreateBam
  <2>5. CASE CreateWrite(u)
    BY <1>1, <2>5, CreateWriteBam
  <2> QED
    BY <1>2, <1>3, <2>1, <2>2, <2>3, <2>4, <2>5 DEF UserStep
<1>4. ASSUME NEW u \in Users, UserAsks(u) PROVE BamInv'
  <2>1. CASE SaveBamModule(u)
    BY <1>1, <2>1, SaveBam
  <2>2. ASSUME NEW m \in Modules, GenerateBam(u, m) PROVE BamInv'
    BY <1>1, <2>2, GenerateBamBam
  <2>3. ASSUME NEW b \in Branches \cup {NoBranch}, NEW ms \in Lists, runUpdate(u, ms, b) PROVE BamInv'
    BY <1>1, <2>3, RunUpdateBam DEF Branchy
  <2>4. ASSUME NEW b \in Branches \cup {NoBranch}, NEW m \in Modules, NEW dir \in Dirs, CreateBamModule(u, m, dir, b) PROVE BamInv'
    BY <1>1, <2>4, CreateBam DEF Branchy
  <2>5. ASSUME NEW b \in Branches, NEW c \in 1..MaxCommit, handleBamHook(u, b, c) PROVE BamInv'
    <3>1. c \in Nat
      BY <1>1, <2>5 DEF handleBamHook, BamBut, BamTyped, Heads
    <3> QED
      BY <1>1, <2>5, <3>1, HookBam
  <2> QED
    BY <1>4, <2>1, <2>2, <2>3, <2>4, <2>5 DEF UserAsks
<1>5. CASE WatcherStep
  <2>1. Watcher \in Actors
    BY DEF Actors
  <2> QED
    BY <1>1, <1>2, <1>5, <2>1, WatchBam DEF WatcherStep
<1>6. ASSUME NEW b \in Branches, Push(b) PROVE BamInv'
  BY <1>1, <1>6, PushBam
<1>7. CASE UNCHANGED bamVars
  <2>1. /\ UNCHANGED <<heads, commits, tree, bam_module, bam_rev, bam_gen, bam_git_ref, bamGenMu, act, tried, mixed, pulls, blurred>>
    BY <1>7 DEF bamVars, bamTables
  <2>2. BamBut(of)'
    BY <1>1, <2>1 DEF BamBut, BamTyped, Versions, OwnedBy, Tries, RevMatchesCommit, PullIsOwn, WorkOf, TriedOf,
                      Ripe, ScanOf, AllTried, Branch
  <2> QED
    BY <2>2 DEF BamInv
<1> QED
  BY <1>3, <1>4, <1>5, <1>6, <1>7 DEF BamNext

(* Whatever fails and whoever calls, the files of a version and the code   *)
(* generated from it are of the version's own commit, unless the creation  *)
(* of a module ran into the work tree: syncAndGen's lock is enough.        *)
THEOREM RevisionsMatch == BamSpec => []RevMatchesCommit
<1>1. BamInv => RevMatchesCommit
  BY DEF BamInv, BamBut
<1> QED
  BY <1>1, InitBam, NextBam, PTL DEF BamSpec

(* A pull gets its own branch's code, as new as when syncAndGen's turn     *)
(* came, and of its language, for every number of callers.                 *)
THEOREM PullsAreOwn == BamSpec => []PullIsOwn
<1>1. BamInv => PullIsOwn
  BY DEF BamInv, BamBut
<1> QED
  BY <1>1, InitBam, NextBam, PTL DEF BamSpec

(* Only the end of a scan, and a poll, note a commit. *)
LEMMA WhoNotes ==
  ASSUME [BamNext]_bamVars, bam_git_ref' # bam_git_ref
  PROVE  PollBranch \/ \E a \in Actors : ScanEnds(a)
<1>1. ASSUME NEW a \in Actors, GenStep(a) PROVE ScanEnds(a)
  <2>1. \A m \in Modules : ~ScanModule(a, m)
    BY DEF ScanModule, bamTables
  <2>2. ~Lock(a) /\ ~GenSync(a) /\ ~GenSyncFails(a) /\ ~GenDecide(a)
    BY DEF Lock, GenSync, GenSyncFails, GenDecide, bamTables
  <2>3. ~GenWrite(a) /\ ~RunBamGen(a)
    BY DEF GenWrite, RunBamGen
  <2> QED
    BY <1>1, <2>1, <2>2, <2>3 DEF GenStep
<1>2. ASSUME NEW u \in Users, UserAsks(u) PROVE FALSE
  BY <1>2 DEF UserAsks, SaveBamModule, GenerateBam, runUpdate, CreateBamModule, handleBamHook, bamTables
<1>3. ASSUME NEW u \in Users, UserStep(u) PROVE GenStep(u)
  BY <1>3 DEF UserStep, bamZip, CreateSync, CreateEnds, CreateCollect, CreateWrite, bamTables
<1>4. Users \subseteq Actors /\ Watcher \in Actors
  BY DEF Actors
<1>5. \A b \in Branches : ~Push(b)
  BY DEF Push, bamTables
<1>6. ~pollScm /\ ~PollEnds
  BY DEF pollScm, PollEnds, bamTables
<1>7. ~UNCHANGED bamVars
  BY DEF bamVars, bamTables
<1> QED
  BY <1>1, <1>2, <1>3, <1>4, <1>5, <1>6, <1>7 DEF BamNext, WatcherStep

(* A commit of a branch is noted only when every module of the repository  *)
(* has been tried at it or at a later one: neither a failure of one of     *)
(* them nor what other callers do to them makes genScmBranch skip any.     *)
THEOREM SeenIsTried == BamSpec => SeenWasTried
<1>1. ASSUME BamInv, [BamNext]_bamVars, NEW a \in Actors, Is(a, "scan"), bam_git_ref' # bam_git_ref, act'[a] # act[a]
      PROVE  \A m \in act[a].all : /\ <<m, act[a].branch>> \in DOMAIN tried
                                   /\ tried[<<m, act[a].branch>>] >= act[a].commit
  <2>1. DOMAIN act = Actors /\ TriedOf(a) /\ act[a].at = "scan"
    BY <1>1 DEF BamInv, BamBut, BamTyped, Is
  <2>2. AllTried(act[a], act[a].all \ act[a].todo)
    BY <2>1 DEF TriedOf
  <2>3. ~PollBranch
    <3>1. ASSUME PollBranch PROVE act[Watcher].at = "poll" /\ \A o \in Actors \ {Watcher} : act'[o] = act[o]
      BY <2>1, <3>1 DEF PollBranch, Is, Goes
    <3> QED
      BY <1>1, <2>1, <3>1
  <2>4. PICK o \in Actors : ScanEnds(o)
    BY <1>1, <2>3, WhoNotes
  <2>5. o = a
    BY <1>1, <2>1, <2>4 DEF ScanEnds, Goes
  <2>6. act[a].todo = {}
    BY <2>4, <2>5 DEF ScanEnds
  <2> QED
    BY <2>2, <2>6 DEF AllTried
<1>2. BamInv /\ [BamNext]_bamVars =>
        [\A a \in Actors : (Is(a, "scan") /\ bam_git_ref' # bam_git_ref /\ act'[a] # act[a]) =>
            \A m \in act[a].all : /\ <<m, act[a].branch>> \in DOMAIN tried
                                  /\ tried[<<m, act[a].branch>>] >= act[a].commit]_bamVars
  BY <1>1
<1> QED
  BY <1>2, InitBam, NextBam, PTL DEF BamSpec, SeenWasTried

=============================================================================
