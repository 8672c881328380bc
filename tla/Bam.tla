-------------------------------- MODULE Bam --------------------------------
(***************************************************************************)
(* BAM (platform/server/bam.go, bam_watch.go): modules of .proto files     *)
(* that are taken from a directory of a git repository, kept in versions,  *)
(* and turned into code by buf.  syncAndGen runs under bamGenMu; creating  *)
(* a module fetches into the same work tree without it.  The watcher polls *)
(* the repository every 30 s and a hook tells of pushes.                   *)
(*                                                                         *)
(* There is one repository.  Files and generated code are told apart by    *)
(* the commit and the directory they come from.                            *)
(***************************************************************************)
EXTENDS Integers, FiniteSets, Sequences

CONSTANTS
    Users, Watcher,   \* who acts: callers of the API or of the hook, and the watcher
    Nobody,
    Modules,          \* names
    OwnModule,        \* the module without a repository (seedBam's), whose files are saved
    Dirs, NoDir,      \* directories of the repository
    Refs, NoBranch,   \* branches, in the order of git ls-remote
    Main,             \* the repository's default branch, the one there is at the start
    Trouble,          \* <<directory, commit>> -> "gone" (no .proto), "parse" (does not compile) or "buf" (buf fails)
    Bound,            \* the modules there are at the start, with their directories
    MaxCommit,        \* bound: commits
    MaxVersion,       \* bound: versions of a module
    Lists,            \* bam.yaml: what `bam update` may be run with: sequences of [name, lang]
    HasEs,            \* the platform's container has protoc-gen-es
    MaxEvent          \* bound: calls, hooks and git commands that fail, together

ASSUME BamAssumption ==
    /\ Watcher \notin Users /\ Nobody \notin Users \cup {Watcher}
    /\ OwnModule \in Modules /\ DOMAIN Bound \subseteq Modules \ {OwnModule}
    /\ NoDir \notin Dirs /\ \A m \in DOMAIN Bound : Bound[m] # NoDir
    /\ Refs \in Seq({Refs[i] : i \in DOMAIN Refs})
    /\ Main \in {Refs[i] : i \in DOMAIN Refs} /\ NoBranch \notin {Refs[i] : i \in DOMAIN Refs}
    /\ Lists \subseteq Seq([name : Modules, lang : STRING]) \ {<<>>}

VARIABLES
    heads,        \* the remote: branch -> commit, 0 if there is none
    commits,      \* commits so far
    tree,         \* the work tree bam-<job>: the commit that is checked out
    bam_module,   \* name -> row
    bam_rev,      \* <<name, version>> -> branch, commit and where its files come from
    bam_gen,      \* <<name, version>> -> status, and what its artifact directory holds
    bam_git_ref,  \* branch -> the commit last dealt with, 0 if there is no row
    bamGenMu,     \* who holds it
    act,          \* what each actor is at
    tried,        \* history: <<name, branch>> -> the branch's commit when it was last tried
    mixed,        \* history: actors whose work tree was changed under them, or that changed another's
    pulls,        \* history: the zips that were sent: what was asked, what came
    blurred,      \* history: versions written by such actors
    acts, gitFails

bamTables == <<bam_module, bam_rev, bam_gen, bam_git_ref>>
bamVars == <<heads, commits, tree, bamTables, bamGenMu, act, tried, mixed, pulls, blurred, acts, gitFails>>
bamHist == <<tried, pulls, blurred>>

Branches == {Refs[i] : i \in DOMAIN Refs}
Actors == Users \cup {Watcher}
Rest   == [at |-> "rest"]
Nothing == [from |-> 0, dir |-> NoDir]
State(dir, c) == IF <<dir, c>> \in DOMAIN Trouble THEN Trouble[<<dir, c>>] ELSE "fine"

(* The files of a directory of the work tree, if it has any, and whether   *)
(* files compile.                                                          *)
collectBamFiles(dir) == [ok |-> State(dir, tree) # "gone", files |-> [from |-> tree, dir |-> dir]]
compileBam(files)    == files.dir = NoDir \/ State(files.dir, files.from) # "parse"
gitHead              == tree

(* loadBam of the latest version. *)
loadBam(m) ==
    LET id == <<m, bam_module[m].version>>
    IN  [row |-> bam_module[m], ok |-> id \in DOMAIN bam_gen /\ bam_gen[id].status = "ok"]

Put(f, i, row) == [j \in DOMAIN f \cup {i} |-> IF j = i THEN row ELSE f[j]]
Goes(a, rec) == act' = [act EXCEPT ![a] = rec]
Is(a, at)    == act[a].at = at
Ask(a)       == a \in Users /\ act[a] = Rest /\ acts + gitFails < MaxEvent /\ acts' = acts + 1

-----------------------------------------------------------------------------
(* git. *)
Push(b) ==
    /\ commits < MaxCommit
    /\ commits' = commits + 1
    /\ heads' = [heads EXCEPT ![b] = commits + 1]
    /\ UNCHANGED <<tree, bamTables, bamGenMu, act, mixed, bamHist, acts, gitFails>>

GitFails == acts + gitFails < MaxEvent /\ gitFails' = gitFails + 1

(* No branch: the repository's default one. *)
Branch(b) == IF b = NoBranch THEN Main ELSE b

(* syncBamRepo: gitSync fetches the branch and checks it out.  Creating a  *)
(* module does so without the lock, and whoever works on the tree at that  *)
(* time is mixed up with it.                                               *)
Busy(a)     == act[a].at \in {"collect", "head", "decide", "write", "gen"}
Creating(a) == act[a].at \in {"create", "collect", "head"}

SyncBamRepo(a, b) ==
    LET met == {o \in Actors \ {a} : Busy(o) /\ (Creating(a) \/ Creating(o))}
    IN  /\ heads[Branch(b)] # 0
        /\ tree' = heads[Branch(b)]
        /\ mixed' = IF met = {} THEN mixed ELSE mixed \cup met \cup {a}
        /\ UNCHANGED gitFails

SyncFails(b) == (heads[Branch(b)] = 0 /\ UNCHANGED gitFails) \/ GitFails

-----------------------------------------------------------------------------
(* writeModule, a transaction: the first version, or the next one.  It     *)
(* fails as a whole when another writer of the module is first.            *)
NextVersion(m) == IF m \in DOMAIN bam_module THEN bam_module[m].version + 1 ELSE 1

writeModule(a, m, dir, branch, commit, files) ==
    LET v == NextVersion(m)
    IN  /\ v <= MaxVersion
        /\ bam_module' = Put(bam_module, m,
              IF dir = NoDir /\ m \in DOMAIN bam_module THEN [bam_module[m] EXCEPT !.version = v]
              ELSE [version |-> v, dir |-> dir, branch |-> branch, commit |-> commit])
        /\ bam_rev' = Put(bam_rev, <<m, v>>, [branch |-> branch, commit |-> commit, files |-> files])
        /\ blurred' = IF a \in mixed THEN blurred \cup {<<m, v>>} ELSE blurred

(* CreateBamModule: the name and the directory must be free; then git, the *)
(* files, the commit and the rows.  A failure ends it without a trace.     *)
CreateBamModule(u, m, dir, b) ==
    /\ Ask(u)
    /\ m \notin DOMAIN bam_module
    /\ \A n \in DOMAIN bam_module : bam_module[n].dir # dir
    /\ Goes(u, [at |-> "create", m |-> m, dir |-> dir, branch |-> b])
    /\ UNCHANGED <<heads, commits, tree, bamTables, bamGenMu, mixed, bamHist, gitFails>>

CreateSync(u) ==
    /\ Is(u, "create")
    /\ SyncBamRepo(u, act[u].branch)
    /\ Goes(u, [act[u] EXCEPT !.at = "collect"])
    /\ UNCHANGED <<heads, commits, bamTables, bamGenMu, bamHist, acts>>

CreateEnds(u) ==
    /\ \/ Is(u, "create") /\ SyncFails(act[u].branch)
       \/ Is(u, "collect") /\ ~collectBamFiles(act[u].dir).ok /\ UNCHANGED gitFails
    /\ Goes(u, Rest)
    /\ mixed' = mixed \ {u}
    /\ UNCHANGED <<heads, commits, tree, bamTables, bamGenMu, bamHist, acts>>

CreateCollect(u) ==
    /\ Is(u, "collect")
    /\ collectBamFiles(act[u].dir).ok
    /\ Goes(u, [at |-> "head", m |-> act[u].m, dir |-> act[u].dir, branch |-> act[u].branch,
                files |-> collectBamFiles(act[u].dir).files])
    /\ UNCHANGED <<heads, commits, tree, bamTables, bamGenMu, mixed, bamHist, acts, gitFails>>

(* gitHead, and writeModule: by now the name or the directory may be       *)
(* taken; the row of the name is then written over.                        *)
CreateWrite(u) ==
    /\ Is(u, "head")
    /\ writeModule(u, act[u].m, act[u].dir, act[u].branch, gitHead, act[u].files)
    /\ Goes(u, Rest)
    /\ mixed' = mixed \ {u}
    /\ UNCHANGED <<heads, commits, tree, bam_gen, bam_git_ref, bamGenMu, tried, pulls, acts, gitFails>>

(* SaveBamModule: only a module without a repository; content is one more  *)
(* commit number, so that versions differ.                                 *)
SaveBamModule(u) ==
    /\ Ask(u)
    /\ OwnModule \in DOMAIN bam_module
    /\ writeModule(u, OwnModule, NoDir, NoBranch, 0, [from |-> -NextVersion(OwnModule), dir |-> NoDir])
    /\ UNCHANGED <<heads, commits, tree, bam_gen, bam_git_ref, bamGenMu, act, tried, mixed, pulls, gitFails>>

-----------------------------------------------------------------------------
(* syncAndGen(name, branch), for whoever calls it: back says for what.     *)
Gen(a, m, b, back) == Goes(a, [at |-> "lock", m |-> m, branch |-> b, back |-> back])

LockUnlocked(a) ==
    /\ Is(a, "lock")
    /\ LET m == act[a].m
           d == loadBam(m)
       IN  Goes(a, [at |-> IF d.row.dir = NoDir THEN "gen" ELSE "sync", m |-> m, row |-> d.row, genOk |-> d.ok,
                    version |-> d.row.version,
                    branch |-> IF act[a].branch = NoBranch THEN d.row.branch ELSE act[a].branch,
                    asked |-> heads, back |-> act[a].back])
    /\ UNCHANGED <<heads, commits, tree, bamTables, bamGenMu, mixed, bamHist, acts, gitFails>>

(* The lock, loadBam and the branch: the one given, or the module's. *)
Lock(a) ==
    /\ Is(a, "lock")
    /\ bamGenMu = Nobody
    /\ bamGenMu' = a
    /\ LET m == act[a].m
           d == loadBam(m)
       IN  Goes(a, [at |-> IF d.row.dir = NoDir THEN "gen" ELSE "sync", m |-> m, row |-> d.row, genOk |-> d.ok,
                    version |-> d.row.version,
                    branch |-> IF act[a].branch = NoBranch THEN d.row.branch ELSE act[a].branch,
                    asked |-> heads, back |-> act[a].back])
    /\ UNCHANGED <<heads, commits, tree, bamTables, mixed, bamHist, acts, gitFails>>

(* What an actor does when syncAndGen has returned: a pull sends the zip,  *)
(* genScmBranch goes on with its modules.                                  *)
Returned(a, ok, version) ==
    LET back == act[a].back
    IN  CASE back.for = "user" -> Rest
          [] back.for = "pull" -> IF ok THEN [at |-> "zip", m |-> act[a].m, version |-> version, branch |-> act[a].branch,
                                              asked |-> act[a].asked, back |-> back] ELSE Rest
          [] back.for = "scan" -> [back EXCEPT !.ok = IF ok THEN @ + 1 ELSE @]

Unlock(a, ok, version) ==
    /\ bamGenMu' = IF bamGenMu = a THEN Nobody ELSE bamGenMu
    /\ Goes(a, Returned(a, ok, version))

Tried(a) == tried' = Put(tried, <<act[a].m, act[a].branch>>, heads[Branch(act[a].branch)])

GenSync(a) ==
    /\ Is(a, "sync")
    /\ SyncBamRepo(a, act[a].branch)
    /\ Goes(a, [act[a] EXCEPT !.at = "decide"])
    /\ Tried(a)
    /\ UNCHANGED <<heads, commits, bamTables, bamGenMu, pulls, blurred, acts>>

GenSyncFails(a) ==
    /\ Is(a, "sync")
    /\ SyncFails(act[a].branch)
    /\ Unlock(a, FALSE, 0)
    /\ Tried(a)
    /\ UNCHANGED <<heads, commits, tree, bamTables, mixed, pulls, blurred, acts>>

(* gitHead: nothing to do when the module is at this commit of this branch *)
(* and its code was generated.                                             *)
UpToDate(a) == act[a].row.commit = gitHead /\ act[a].row.branch = act[a].branch /\ act[a].genOk

GenDecide(a) ==
    /\ Is(a, "decide")
    /\ IF UpToDate(a)
       THEN Unlock(a, TRUE, act[a].version) /\ mixed' = mixed \ {a}
       ELSE /\ Goes(a, [act[a] EXCEPT !.at = "write", !.row.commit = gitHead])
            /\ UNCHANGED <<bamGenMu, mixed>>
    /\ UNCHANGED <<heads, commits, tree, bamTables, bamHist, acts, gitFails>>

(* collectBamFiles and writeModule; a version that does not compile is     *)
(* written and not generated.                                              *)
GenWrite(a) ==
    LET g == act[a]
        c == collectBamFiles(g.row.dir)
    IN  /\ Is(a, "write")
        /\ IF c.ok
           THEN writeModule(a, g.m, g.row.dir, g.branch, g.row.commit, c.files)
           ELSE UNCHANGED <<bam_module, bam_rev, blurred>>
        /\ IF ~c.ok \/ ~compileBam(c.files)
           THEN Unlock(a, FALSE, 0) /\ mixed' = mixed \ {a}
           ELSE /\ Goes(a, [g EXCEPT !.at = "gen", !.version = NextVersion(g.m)])
                /\ UNCHANGED <<bamGenMu, mixed>>
        /\ UNCHANGED <<heads, commits, tree, bam_gen, bam_git_ref, tried, pulls, acts, gitFails>>

(* runBamGen: buf on a copy of the tree, or of the saved files; the        *)
(* artifact directory is made anew and the outcome recorded.  A buf that   *)
(* fails is no error of syncAndGen.                                        *)
copyTree(g, id) == IF g.row.dir = NoDir THEN bam_rev[id].files ELSE [from |-> tree, dir |-> g.row.dir]
buf(files)      == files.dir = NoDir \/ State(files.dir, files.from) = "fine"

RunBamGen(a) ==
    LET g == act[a]
        id == <<g.m, g.version>>
        from == copyTree(g, id)
        st == IF buf(from) THEN "ok" ELSE "fail"
    IN  /\ Is(a, "gen")
        /\ bam_gen' = Put(bam_gen, id, [status |-> st, code |-> IF st = "ok" THEN from ELSE Nothing])
        /\ blurred' = IF a \in mixed THEN blurred \cup {id} ELSE blurred
        /\ Unlock(a, g.back.for # "pull" \/ st = "ok", g.version)
        /\ mixed' = mixed \ {a}
        /\ UNCHANGED <<heads, commits, tree, bam_module, bam_rev, bam_git_ref, tried, pulls, acts, gitFails>>

-----------------------------------------------------------------------------
(* The calls: GenerateBam, and `bam update` (cmd/bam), whose pullModule    *)
(* posts to handleBamPull for one module of bam.yaml after the other and   *)
(* stops at the first that fails.                                          *)
GenerateBam(u, m) ==
    /\ Ask(u)
    /\ m \in DOMAIN bam_module
    /\ Gen(u, m, NoBranch, [for |-> "user"])
    /\ UNCHANGED <<heads, commits, tree, bamTables, bamGenMu, mixed, bamHist, gitFails>>

handleBamPull(u, ms, b) ==
    IF Head(ms).name \in DOMAIN bam_module
    THEN Gen(u, Head(ms).name, b, [for |-> "pull", asks |-> b, lang |-> Head(ms).lang, rest |-> Tail(ms)])
    ELSE Goes(u, Rest)

runUpdate(u, ms, b) ==
    /\ Ask(u)
    /\ handleBamPull(u, ms, b)
    /\ UNCHANGED <<heads, commits, tree, bamTables, bamGenMu, mixed, bamHist, gitFails>>

zipVersionLatest(u) == bam_module[act[u].m].version

zipVersion(u) == act[u].version

(* What the artifact directory of a version holds: Go, and TypeScript      *)
(* under ts/ when the plugin is there (bamGenYAML).                        *)
bamGenYAML == {"go"} \cup (IF HasEs THEN {"ts"} ELSE {})
zipDir(id) == bam_gen[id].code

(* What is left of a zip for a language; nothing is an error. *)
filterZipLang(langs, lang) ==
    CASE lang \in {"", "all"} -> langs
      [] lang = "go" -> langs \ {"ts"}
      [] lang = "ts" -> langs \cap {"ts"}
      [] OTHER -> {}

(* bamZip of the version that was generated, with no lock, and extractZip  *)
(* at the client.                                                          *)
extractZip(z, id, zip, langs) ==
    [m |-> z.m, id |-> id, branch |-> z.branch, asked |-> z.asked, lang |-> z.back.lang,
     code |-> zip, langs |-> langs, of |-> bam_rev[id].branch]

bamZip(u) ==
    LET z == act[u]
        id == <<z.m, zipVersion(u)>>
        langs == filterZipLang(bamGenYAML, z.back.lang)
        found == id \in DOMAIN bam_gen /\ bam_gen[id].status = "ok" /\ langs # {}
    IN  /\ Is(u, "zip")
        /\ pulls' = IF found THEN pulls \cup {extractZip(z, id, zipDir(id), langs)} ELSE pulls
        /\ IF found /\ z.back.rest # <<>> THEN handleBamPull(u, z.back.rest, z.back.asks) ELSE Goes(u, Rest)
        /\ UNCHANGED <<heads, commits, tree, bamTables, bamGenMu, tried, mixed, blurred, acts, gitFails>>

-----------------------------------------------------------------------------
(* The watcher and the hook. *)
OfRepo == {m \in DOMAIN bam_module : bam_module[m].dir # NoDir}

(* genScmBranch: all modules of the repository, one after the other. *)
Scan(b, commit, past, remote) ==
    [at |-> "scan", for |-> "scan", all |-> OfRepo, todo |-> OfRepo, branch |-> b, commit |-> commit, ok |-> 0, past |-> past, remote |-> remote]

(* handleBamHook: a push, now or long ago. *)
handleBamHook(u, b, c) ==
    /\ Ask(u)
    /\ c \in 1..heads[b]
    /\ Goes(u, Scan(b, c, 0, heads))
    /\ UNCHANGED <<heads, commits, tree, bamTables, bamGenMu, mixed, bamHist, gitFails>>

(* pollBamGit and pollScm: git ls-remote ... *)
pollScm ==
    /\ act[Watcher] = Rest
    /\ \E b \in Branches : heads[b] # bam_git_ref[b]
    /\ Goes(Watcher, [at |-> "poll", past |-> 0, remote |-> heads])
    /\ UNCHANGED <<heads, commits, tree, bamTables, bamGenMu, mixed, bamHist, acts, gitFails>>

(* gitLsRemote: the branches there were, in their order; of these, where   *)
(* those stand that are still to be looked at.                             *)
gitLsRemote(p) == {i \in DOMAIN Refs : i > p.past /\ p.remote[Refs[i]] # 0}

(* ... and every branch: one that is new is only noted. *)
PollBranch ==
    LET p == act[Watcher]
    IN  /\ Is(Watcher, "poll")
        /\ \E i \in gitLsRemote(p) :
              LET b == Refs[i]
                  rest == [p EXCEPT !.past = i]
              IN  /\ \A j \in gitLsRemote(p) : i <= j
                  /\ IF bam_git_ref[b] = p.remote[b]
                     THEN Goes(Watcher, rest) /\ UNCHANGED bam_git_ref
                     ELSE IF bam_git_ref[b] = 0
                     THEN bam_git_ref' = [bam_git_ref EXCEPT ![b] = p.remote[b]] /\ Goes(Watcher, rest)
                     ELSE Goes(Watcher, Scan(b, p.remote[b], i, p.remote)) /\ UNCHANGED bam_git_ref
        /\ UNCHANGED <<heads, commits, tree, bam_module, bam_rev, bam_gen, bamGenMu, mixed, bamHist, acts, gitFails>>

PollEnds ==
    /\ Is(Watcher, "poll") /\ gitLsRemote(act[Watcher]) = {}
    /\ Goes(Watcher, Rest)
    /\ UNCHANGED <<heads, commits, tree, bamTables, bamGenMu, mixed, bamHist, acts, gitFails>>

ScanModule(a, m) ==
    /\ Is(a, "scan")
    /\ m \in act[a].todo
    /\ Gen(a, m, act[a].branch, [act[a] EXCEPT !.todo = @ \ {m}])
    /\ UNCHANGED <<heads, commits, tree, bamTables, bamGenMu, mixed, bamHist, acts, gitFails>>

Resume(a, fine) ==
    IF a = Watcher /\ fine THEN [at |-> "poll", past |-> act[a].past, remote |-> act[a].remote] ELSE Rest

ScanEndsEarly(a) ==
    /\ Is(a, "scan")
    /\ act[a].ok > 0
    /\ bam_git_ref' = [bam_git_ref EXCEPT ![act[a].branch] = act[a].commit]
    /\ Goes(a, Resume(a, TRUE))
    /\ UNCHANGED <<heads, commits, tree, bam_module, bam_rev, bam_gen, bamGenMu, mixed, bamHist, acts, gitFails>>

(* One that was generated is enough to note the commit; if none was, the   *)
(* poll or the hook ends with an error.                                    *)
ScanEnds(a) ==
    LET s == act[a]
        none == s.ok = 0 /\ OfRepo # {}
    IN  /\ Is(a, "scan")
        /\ s.todo = {}
        /\ bam_git_ref' = IF s.ok > 0 THEN [bam_git_ref EXCEPT ![s.branch] = s.commit] ELSE bam_git_ref
        /\ Goes(a, Resume(a, ~none))
        /\ UNCHANGED <<heads, commits, tree, bam_module, bam_rev, bam_gen, bamGenMu, mixed, bamHist, acts, gitFails>>

-----------------------------------------------------------------------------
(* The modules of Bound have been created, and seedBam's own module saved; *)
(* nothing has been generated and the watcher has not run.                 *)
seedBam == [version |-> 1, dir |-> NoDir, branch |-> NoBranch, commit |-> 0]

BamInit ==
    LET row(m) == IF m \in DOMAIN Bound THEN [version |-> 1, dir |-> Bound[m], branch |-> Main, commit |-> 1]
                  ELSE seedBam
        at0 == DOMAIN Bound \cup {OwnModule}
    IN  /\ heads = [b \in Branches |-> IF b = Main THEN 1 ELSE 0]
        /\ commits = 1 /\ tree = 1
        /\ bam_module = [m \in at0 |-> row(m)]
        /\ bam_rev = [id \in at0 \X {1} |->
                         [branch |-> row(id[1]).branch, commit |-> row(id[1]).commit,
                          files |-> IF id[1] = OwnModule THEN [from |-> -1, dir |-> NoDir]
                                    ELSE [from |-> 1, dir |-> Bound[id[1]]]]]
        /\ bam_gen = <<>>
        /\ bam_git_ref = [b \in Branches |-> 0]
        /\ bamGenMu = Nobody
        /\ act = [a \in Actors |-> Rest]
        /\ tried = <<>> /\ mixed = {} /\ pulls = {} /\ blurred = {}
        /\ acts = 0 /\ gitFails = 0

GenStep(a) ==
    \/ Lock(a) \/ GenSync(a) \/ GenSyncFails(a) \/ GenDecide(a) \/ GenWrite(a) \/ RunBamGen(a)
    \/ ScanEnds(a) \/ \E m \in Modules : ScanModule(a, m)

UserStep(u) == GenStep(u) \/ bamZip(u) \/ CreateSync(u) \/ CreateEnds(u) \/ CreateCollect(u) \/ CreateWrite(u)

WatcherStep == pollScm \/ PollBranch \/ PollEnds \/ GenStep(Watcher)

UserAsks(u) ==
    \/ SaveBamModule(u)
    \/ \E m \in Modules : GenerateBam(u, m)
    \/ \E b \in Branches \cup {NoBranch} :
          \/ \E ms \in Lists : runUpdate(u, ms, b)
          \/ \E m \in Modules, dir \in Dirs : CreateBamModule(u, m, dir, b)
    \/ \E b \in Branches, c \in 1..MaxCommit : handleBamHook(u, b, c)

BamNext ==
    \/ \E b \in Branches : Push(b)
    \/ WatcherStep
    \/ \E u \in Users : UserAsks(u) \/ UserStep(u)

-----------------------------------------------------------------------------
(* Properties. *)

(* The files of a version and the code generated from it are those of the  *)
(* commit that is recorded for it, though all modules share one work tree: *)
(* bamGenMu keeps generating calls apart.  Creating a module fetches into  *)
(* the tree without the lock; versions it was mixed up with may be wrong.  *)
RevMatchesCommit ==
    \A id \in DOMAIN bam_rev \ blurred :
        LET r == bam_rev[id] IN
        r.commit # 0 => /\ r.files.from = r.commit
                        /\ id \in DOMAIN bam_gen /\ bam_gen[id].status = "ok" => bam_gen[id].code = r.files

(* A pull gets the code of the branch it asked for, at the commit that the *)
(* branch had when its turn came or a later one, although pushes to other  *)
(* branches make versions of the same module in between, and of the        *)
(* language it asked for.                                                  *)
PullIsOwn ==
    \A p \in pulls :
        /\ p.lang \in {"go", "ts"} => p.langs = {p.lang}
        /\ p.id \notin blurred /\ p.code.dir # NoDir =>
              p.of = p.branch /\ p.code.from >= p.asked[Branch(p.branch)]

(* A commit is noted only when every module of the repository has been     *)
(* tried at it or at a later one; that some of them failed is forgotten.   *)
SeenWasTried ==
    [][\A a \in Actors : (Is(a, "scan") /\ bam_git_ref' # bam_git_ref /\ act'[a] # act[a]) =>
          \A m \in act[a].all : /\ <<m, act[a].branch>> \in DOMAIN tried
                                /\ tried[<<m, act[a].branch>>] >= act[a].commit]_bamVars
=============================================================================
