# Verification of byte-basic

TLA+ models of the parts of this repository that keep state and act concurrently,
checked with TLC on small instances; the safety properties are proved with TLAPS for
every value of the constants.

## 1. The system and its parts

byte-basic is a small in-house platform: a release service with a web front end,
an RPC framework with example services, a content board, and a few helper daemons.

| part | code | state | operations | hard behaviour |
|---|---|---|---|---|
| SCM (jobs, builds) | `platform/server/ops.go` | tables `scm_job`, `scm_build`; directories `scm-work`, `artifacts` | CreateJob, UpdateJob, DeleteJob, CreateBuild, compileJob | check-then-insert, goroutines sharing one work tree, no recovery after a crash |
| Deploy (apps, rollouts) | `platform/server/ops.go` | tables `deploy_app`, `deploy_record`; docker images and containers | CreateApp, UpdateApp, DeleteApp, CreateDeploy, createBuildDeploy, runDeploy, seedRelease | the same, and a deploy that replaces the process itself |
| live logs | `ops.go` liveRun, `http.go` watchLive | map `lives`, subscriber channels | Write, subscribe, finish, load, poll | join and leave at any time, bounded channels, shared ids |
| compose overlays | `ops.go` syncRuntimeCompose, dropExtraRuntime | `deploy/runtime/*.yml`, containers | deploy, change and delete apps | apps that share services, unnoticed failures |
| BAM (IDL modules) | `bam.go`, `bam_watch.go`, `cmd/bam` | tables `bam_*`, one git tree | Create/Save/Sync, generate, pull, poll, webhook | check-then-write, poller against requests, partial failure |
| TLB (nginx) | `tlb.go` | tables `tlb_site`, `tlb_route`, nginx.conf | CRUD, publish | orphan routes, older snapshot published last |
| board content tree | `projects/board/content_*.go` | tree of nodes, page revisions | PutNode, UpdateNode, DeleteNode, MoveNode, PutPage, RollbackPage | concurrent delete and insert, two implementations |
| board tables | `projects/board/mysql.go`, `mem.go` | kinds and items | CRUD | lost update |
| board tokens | `projects/board/tokens.go`, `file.go` | list in memory, `tokens.json` | Create, Delete, Match | failing saves, crash |
| daily-news-hook | `projects/daily-news-hook/app.py` | Puller flags, git directory | webhook, pull loop | threads, retries, unreliable webhooks |
| cert-renew | `projects/cert-renew/renew.py` | certificates, flag file | renew, reload | a failed step of several |
| dynamic configuration | `config/etcd.go` | `Var`, an etcd key | Watch, Get, Put, Delete | reconnection without loss or replay |
| RPC runtime, gateway, order, discovery | `runtime/`, `example/`, `discovery/` | connections, sequence numbers, address lists | Call, serve, retry, applyAddrs | late replies, stale connections, requests sent twice |
| contracts | `platform/server/main.go`, `ops.go`, `example/gateway` | `order.thrift`, table `agw_publish`, the gateway's routes | SaveIdl, PublishAgw, start | a file read while it is written, a gateway ahead of its services |
| codec, IDL parser, generators | `wire/`, `generic/`, `idl/`, `cmd/` | none | Encode, Decode, Parse | two contracts on one connection |
| front ends, generated Connect code | `*/web`, `gen/platform`, `gen/home` | none | – | – |

How they interact: clients call Connect handlers; handlers share MySQL, the server
root and the docker daemon with the goroutines they start; runs publish their
output through `lives` to the streams; services read etcd; GitHub calls the hooks.

What makes each part correct is stated as the properties below; what can go wrong
where no test would reach it is listed, line by line, under `hazards` in
`PROJECT.json`.

## 2. Modules

| module | models | built from |
|---|---|---|
| `ReleaseState` | tables, directories, docker, requests and goroutines of the release service | – |
| `Scm` | jobs, builds, `compileJob` | `ReleaseState` |
| `Deploy` | apps, deploys, `runDeploy`, restarts | `Scm` |
| `Release` | the two halves, clients, clock and crashes interleaved; properties | `Deploy` |
| `ReleaseProofs`, `ReleaseResults` | proofs about `Release`: its types, who runs what, what runs leave behind | each on the one before, TLAPS |
| `Compose` | compose files, overlays and containers | – |
| `LiveLog` | live logs and the streams that follow them | – |
| `Bam` | IDL modules, generation, watcher, hook, `bam update` | – |
| `Idl`, `Codec` | the IDL parser; wire format, generic and generated codec | `Codec` on `Idl` |
| `Agw` | contracts saved, published, served; a request through both codecs | `Codec` |
| `Tlb` | nginx sites and routes | – |
| `CertRenew` | certificates | `Tlb` |
| `NewsHook` | daily-news-hook | – |
| `ConfigVar` | `config/etcd.go` | – |
| `TokenStore` | board tokens | – |
| `ContentTree` | the abstract content store | – |
| `ContentMysql` | the store in MySQL, shown to implement `ContentTree` | instance of `ContentTree` |
| `ContentBlocks` | what `ContentMysql` keeps of the tree with any number of levels | `ContentMysql` |
| `BoardReads` | what the board shows while the store changes | instance of `ContentTree` |
| `BoardTables` | kinds, items, html fragments | – |
| `Rpc` | connections, frames, calls, spans | – |
| `Order` | order service, user instances, Consul | `Rpc` |
| `Gateway` | the gateway and a direct client | `Order` |
| `OrderPath` | all three together; fairness and properties | `Gateway` |
| `PlatformProofs` | proofs | `Bam`, `Compose`, TLAPS |
| `AgwProofs` | proofs | `Agw` (and `Codec`, `Idl`), TLAPS |
| `NewsSiteProofs` | proofs | `NewsHook`, `CertRenew` (and `Tlb`), TLAPS |
| `WatchProofs` | proofs | `ConfigVar`, `LiveLog`, TLAPS |
| `BoardProofs` | proofs | `TokenStore`, `ContentBlocks`, `BoardTables`, `BoardReads`, TLAPS |
| `OrderPathProofs` | proofs | `OrderPath`, TLAPS |
| `MC*` | the instances for TLC | |

Some modules hold, next to an action, a second form of it with a mistake in it
(`BuildIsIdleUnchecked`, `RenameInPlace`, ...). They are not part of any
specification; `PROJECT.json` pairs each with the property that it breaks, which
shows that the property depends on the code being as it is.

`MCBoard`, `MCPlatform`, `MCNewsSite` and `MCWatch` each check several parts that
share no table, file or lock: a behaviour is chosen at the start to be that of one
part (`part`), the others at rest, so no interleaving that could matter is left out.

### The release service

A Connect handler is a request of a client (`req`), and each access to the
database or the disk is a step of its own, because nothing in `ops.go` uses a
transaction or a lock: `CreateBuild` is `CreateBuild` (getJob), `BuildIsIdle` or
`BuildIsRunning` (idleBuild), `InsertBuild` (INSERT, `lives.Store`, `go`). The
goroutines `compileJob` and `runDeploy` advance one external command at a time
(`comp`, `roll`), and both work in the directory `scm-work/<job>`, whose content is
the commit it is at (`work`).

A crash loses requests and goroutines and keeps tables, files and containers;
`ProcessReplaced` is what the next process does: it runs `seedRelease` (`Reseed`)
and never looks at rows that are still `running`. `RollSwap` is the same crash
caused by the deploy of the platform itself.

The database may fail (`MaxFault`): a handler ends where it is (`RequestFails`),
`createBuildDeploy` undoes its first INSERT (`BuildDeployUndo`), and the UPDATE at
the end of a run is discarded without notice (`CompileRecordLost`, `RecordDeploy`).

History variables: `by` in a row (the client that inserted it), `abandoned` (rows
whose goroutine a crash or a lost UPDATE took away) and `touched` (goroutines whose
tree, image or container another one changed). Abstractions: a label is
`archive` (golang, node, python: the build leaves a file) or `image`; a version is
the second it was made in, taken at the INSERT; an app owns one compose service,
so `UpdateApp` drops no container and the overlay files are left out;
`git rev-parse` of a tree that is there succeeds; a docker command that was running
when the process crashed has no later effect.

### daily-news-hook

`TriggerIdle`/`TriggerBusy` are the locked part of `Puller.trigger`, `StartLoop` the
thread it starts after the lock is released; `PullInit`, `Fetch`, `FetchStored`,
`Reset` are the steps of `git_pull`, each of which may fail, and `LoopAgain`/
`LoopEnds` the locked end of `_loop`. Webhooks are a set of pushes in transit:
any order, any number of times, or never.

### Dynamic configuration

`Get`, `OpenWatch`, `Event` are one run of `Var.sync`; `WatchLost` and `WatchBreaks`
send it back to `Get`. etcd is a history of the key (external). It may be out of
reach (`EtcdDown`), and, as `docker-compose.yml` keeps its data in memory, its
container may stop and come back with nothing, revisions included (`EtcdDies`):
`missing` is the set of instances that had read the old one and not yet asked for a
stream. They ask the new one for a revision it has not come to, and miss what is
written before.

### Live logs

One id, the runs that have it (a build, a deploy, or both: `lives` is keyed by the
bare id) and their streams. Text is a sequence of numbered pieces, so that loss and
duplication are visible. `marred` records the circumstances in which the code does
not deliver the log as it was: full channel, carriage return, lost UPDATE, writes
after `finish`, the other run's entry, and a load torn between SELECT and
`lives.Load`.

### Board tokens

An operation holds the mutex from `Create`/`Delete`/`Match` to `Answer` or
`SaveFails`; `Rename` is the rename of `writeAtomic`, the point at which the file
changes. `told` is what the client knows.

### The content store and its abstraction

`ContentTree` says what a `ContentStore` promises: nodes, page versions and the
version that is online, every operation one step. It is translated from
`content_mem.go`, whose operations hold a mutex. `ContentMysql` has one step per
statement of `content_mysql.go`, or per group of statements that a row lock keeps
together, with InnoDB's rules at REPEATABLE READ: a plain SELECT reads the snapshot
of the transaction's first read, FOR UPDATE and UPDATE wait for the row and read
what is committed, a gap lock keeps others from inserting and not from locking. Any
transaction may fail (`DbError`), the board may die (`Crash`), and it starts with
`flattenLists`.

The refinement mapping (`Tree == INSTANCE ContentTree WITH ...`) takes `board_node`
as the nodes, collects the versions of each path from `board_page_version` and reads
the pointer from `board_page`. `ImplementsTree` is the abstract specification as a
property: each statement is a step of the tree or a stutter. It holds where nodes
have one level below the module; with blocks it does not, which is the run
`content_orphan`. `ContentBlocks` says what holds then. The store is the same, with a
history `late` of what came to life while a call was between the SELECTs of
`DeleteNode` and its UPDATE. `StoreKeepsTree`: every step is one of `ContentTree` or a
stutter, or the UPDATE of a delete that takes nothing but the node and nodes below it,
and of what is live below them leaves only what came late, and what is below that
(`Taken`).

`BoardReads` uses the abstraction: HTTP reads of several statements, without a
transaction, over a store whose changes are the operations of `ContentTree`. The
history in a request says which blocks were there all the time (`kept`), whether
anything was written (`quiet`), and whether a write made the offset of the next page
wrong (`lost`): a block was deleted that the pages so far had passed, or one appeared
between a COUNT and the SELECT of its page.

### Board tables

One step per statement of `mysql.go`. `named` is the history of what agents asked
for, `overlapped` the items whose updates overlapped.

### RPC, gateway, orders

A connection is a queue of frames each way, a mutex and a sequence number. A call is
`CallWrite` and `CallRead` (or a timeout) on the caller's side and
`CanServe`/`Answered` on the server's; a server that dies loses its frames. The order
service calls the user instances while it handles a call, from the list that
`applyAddrs` keeps: it reads the list, dials and writes it back in separate steps
while handlers use it. Values carry the number of the request they answer, spans the
call they were made for. A program beside the gateway calls with a deadline.

An order service that finds nobody when it starts gives up (`GivesUp`), and nothing
starts it again but somebody's hand (`StartOrder`). A client that `applyAddrs` has for
an address stays while the address is listed: if the instance died and was back before
Consul dropped it, the client's connection is dead and every call that `pickUser` sends
there fails until the address leaves the list. `early` is the set of these addresses,
and `PeersFollow` excepts them.

### BAM

All modules share one work tree. `Lock` to `Unlock` is `syncAndGen` under
`bamGenMu`; `CreateBamModule` syncs the same tree outside it. The watcher lists the
branches (`gitLsRemote`) and scans those that moved; a hook scans the branch and the
commit it names, however old. Files and generated code carry the commit and the
directory they are from; `blurred` is the set of versions written by somebody whose
tree was changed under him.

### TLB and certificates

The calls of `tlb.go`, one step per statement; `PublishTlb` continues in the
container with the four commands of its shell line. A configuration is a function
from the ids of the sites that have a server to the host, certificate and routes of
it, and the model says what nginx does with it (external: the longest prefix, the
default server, a host that is too long is refused). `seedTlb` runs at every start. `CertRenew` adds the loop of `renew.py`,
certbot (external) and the flag file; the tlb container may restart at any time.
`SiteSpec` is both together.

### Compose overlays

What deploys, `UpdateApp` and `DeleteApp` do to `deploy/runtime/*.yml` and to
containers; a combined `runtime.yml` of older versions is split by whoever comes
first. It takes up where the deploy of `Release` has built its image.

### Contracts

`Idl.Parse` takes classified lines one by one, as the parser does with its state of
what block it is in (`Scanned`). `Codec` writes and reads bytes: an i64 is a pair of
signed 32-bit words, `Tails` is what a writer still appends from a field on, `Loop`
what `Decode` makes of a body from a byte on. The gateway decodes JSON into `any`, so
every number is a float64 before `asI64` makes an int64 of it: `Float64` rounds an
integer of more than 53 bits to the nearest multiple of its gap, of two to the even one;
of any other number `v` is what its float64 has before the point, and a number that does
not fit is what the machine makes of it (`Beyond`). `Agw` has two editors that save (the
file is emptied and filled) and publish, the gateway that reads the file when it
starts, and requests. The router is `net/http`'s (external): `MatchedBy` says which
requests a pattern matches, none if it is not a valid one. It panics at such a pattern
and at two that overlap when neither is narrower (`Refused`), which nothing before
looks for, and otherwise gives a request to the narrowest. `handle` finds the method of
the route, wraps the body if the
request struct has a token, and encodes it by the gateway's contract (`Attempt`); the
order service decodes it by the code it was built with, and answers from its map of
orders and from the user service (`Register`, `GetOrder`, `CreateOrder`); the answer
goes back the same way. Each stage may be the last: a value of the wrong type, a body
longer than a frame (`Room`), a method nobody registered, an order that is not there.
A call that failed is made once more (`TryTwice`), and what the first has stored stays.
A user's name and an order's status are one letter each, and the suffix that is
configured for names is empty.

## 3. Runs

| run | instance | shows |
|---|---|---|
| `release_race` | 2 clients, 1 job, 1 app, 2 commits, 2 builds, 2 deploys, both labels | `OneRunPerClient`, `UndisturbedBuild`, `UndisturbedRollout` |
| `release_operator` | 1 client making all eight calls, 2 builds, 1 deploy, the self-replacing app, 1 crash, 1 database error | `RunningHasOwner`, `SelfRecordedBeforeSwap`, `OkBuildHasArtifact`, `ResultRecorded` |
| `release_live` | 1 client, all calls, no faults, fairness | `FinalIsFinal`, `RunsEnd` |
| `release_image` | 1 client | **violated**: `ImageAtRecordedCommit` |
| `platform` | BAM: 4 modules, 2 branches, 2 commits, 2 users and the watcher, 2 calls or failures; compose: 2 apps that share a service, 2 calls, 1 failure or crash; contracts: 2 editors, 10 texts, 3 calls, 6 requests, bodies of up to 24 bytes, 1 order made | `RevMatchesCommit`, `PullIsOwn`, `SeenWasTried`; `RunningIsDefined`; `PublishedIsServed`, `KnownFieldsArrive` |
| `news_site` | hook: 2 handlers, 3 pushes, 3 tries, 1 restart, fairness; TLB: 2 callers, 3 calls or starts; certificates: 2 writes, 1 death | `SerialPulls`, `NoLostPush`, `SiteNeverGoesBack`, `PushServed`; `RoutesOfOwnSite`, `UndisturbedPublish`; `ReloadOwed` |
| `tlb_refused` | 1 caller | **violated**: `RefusedHasNoEffect` |
| `watch` | logs: a self-replacing deploy with a channel of 1, 3 pieces, 1 lost UPDATE, 1 deleted row, or a build and a deploy of one id; etcd: 2 instances, 3 writes, 2 outages, 1 loss of its data, 2 broken streams; fairness | `SubscribersOpen`, `WholeLog`, `StreamsEnd`; `NeverBackwards`, `PresentKeyReaches` |
| `config_agree` | 2 instances, 2 writes, fairness | **violated**: `InstancesAgree` |
| `board` | tokens: 3; content: 2 clients, 3 calls, 1 crash, three initial trees; content with three and four levels: 2 clients, 3 calls, two initial trees; tables: 2 agents, 5 calls; reads: 1 reader, 3 changes | `IssuedWorks`, `RefusedNeverWorks`; `ImplementsTree`, `FlattenKeepsDetails`; `StoreKeepsTree`; `UpdatesKept`; `ReadsWhole` |
| `content_orphan` | 2 clients, 2 calls, three levels | **violated**: `NoLiveBelowDeleted` |
| `order_path` | 2 requests or calls with a deadline and 2 deaths, 3 of these together, 2 user instances, 10 connections, fairness | `AnswerIsOwn`, `MadeTwiceOnlyIfLost`, `PeersOpen`, `TraceFollows`, `PeersFollow`, `RequestsEnd` |

Bounds. Two runs of a service are enough for every interference between runs
(they share one tree, one image tag and one container), and one second makes all
versions collide; `release_live` has two so that they also differ. One crash and one
lost statement reach every place where either can happen. Three pushes allow one
served, one being pulled and one pending. A channel of one place is full after one
delta. Two writes after the instances have diverged are enough for a value to be set,
deleted and missed. Three calls of the content store allow a transaction, one that
interferes and one that sees the result; the initial trees are those that
`flattenLists` treats differently. With blocks it leaves out pages, which have no level,
and crashes, and three calls let a block be put under a detail and another be put or
deleted while the module is being deleted; no tree reaches the limit of `DeleteNode`. The
proof covers all three. Five blocks in three pages of two, and three
changes, let a block be put and deleted again between two pages and let one move over
a boundary in either direction. Two requests are enough for
one that breaks the shared connection of another, and two deaths for an instance or the
order service that dies again while the list is catching up. Two commits on two branches and
modules that fail to parse, to generate or to exist make every outcome of a
generation happen. The ten contracts rename, move, add, drop and retype fields, give
two of a struct one name, use an id beyond 16 bits, give two methods one name, a route
that is wider than another, one that overlaps with another or one without a slash, end
in the middle or do not parse. The requests have numbers that are exact, that are
rounded up, to even and over the end of the range, that have a fraction and that are
huge; 24 bytes let every request of `order.thrift`
through, and not one with a long token (answers are far shorter than a frame, which the
model leaves unlimited for them). Clients, commits, tokens, agents, users and editors are symmetric where a
run says so; the runs that check liveness use no symmetry.

`OkBuildHasArtifact` is a claim about one operator. `UndisturbedBuild`,
`UndisturbedRollout` and `UndisturbedPublish` say what holds of one whom nobody came
between; `UpdatesKept`, `RevMatchesCommit`, `RunningIsDefined`, `ReloadOwed`,
`WholeLog` and `ReadsWhole` name, in a history variable, the cases in which the code
gives no guarantee. Each of these exceptions is needed: without it TLC finds the case.

Deadlock is checked in the runs of `Release`. In the others calls, pushes, writes and
faults are bounded and the system may rest.

### Fairness

* `release_live`: a request goes on, and every external command of a goroutine
  returns. `exec.Command` has no deadline here, so this is an assumption about git,
  docker and the build scripts.
* `news_site` (the hook): threads run, and every git command returns: it has a
  timeout of 120 seconds.
* `watch`, `config_agree`: `Watch` retries for ever, and an outage ends, also that of
  an etcd that lost its data; that a
  stream to an etcd that is gone ends with an error is assumed, as `watchc` has no
  timeout. An inserted run goes on to its end, and a stream's client reads.
* `order_path`: weak fairness of `Progress`, the disjunction of all steps of
  handlers, callers, the watch loop (every 2 s), announcing (every 2 s) and Consul's
  clock: as long as one of them can take a step, some step is taken. That is less than
  the scheduler gives each goroutine, and enough. Only Consul's clock runs by itself
  (`Expiry`): otherwise a watch loop that fails to dial a dead instance for ever could
  keep it listed. Deaths, starts, of an instance or of the order service, and deadlines
  need not happen, and `PeersFollow` speaks of an order service that listens.

### The four violated properties

* `release_image`. The comment on `buildImageArtifact` (ops.go:1460) says it builds
  from `scm-work` at the recorded commit. A build of the same job may run
  meanwhile (`idleDeploy` looks at deploys only) and moves the tree between
  `ensureImageWork` and `docker build`. `UndisturbedRollout` is what does hold.
* `config_agree`. `docs/infra-roadmap.md:129` says both user instances change
  together. An instance that was between two streams when the key was deleted finds
  no key, keeps the old value, and is never corrected. `PresentKeyReaches` is what
  does hold: a key that is there reaches everybody.
* `content_orphan`. The comment at `content_mysql.go:189` and
  `docs/board-content-tree.md:28` say that a node is deleted with its whole subtree.
  `DeleteNode` locks its root only, `PutNode` its direct parent only: a block put
  under a detail while the module is deleted stays live. `ImplementsTree` is what
  holds with two levels, where root and parent are the same row; `StoreKeepsTree` is
  what holds with any: nothing else is left behind.
* `tlb_refused`. `docs/news-site.md:97` says that a configuration that `nginx -t`
  refuses does not take effect. It has by then replaced `/generated/nginx.conf`,
  which the container's entrypoint installs at the next start.

## 4. Proofs

Every invariant and every safety action property that a passing run checks is proved
for all values of the constants; the refinement too, under the hypothesis that its run
shows to be needed. The theorems assume what the ASSUMEs
of the modules say of the constants, which TLC evaluates in the runs: names that stand
for "none" are no member of the set they are added to, counters are natural numbers,
sequences are sequences, and the few facts about the installation that the code relies
on (`BeyondAssumption`: an int64 of any float64 is some int64; `ReleaseAssumption`: seeded apps refer to jobs; `OrderAssumption`: a finite set of
addresses; `ContentAssumption`: in the trees the board may find, modules are at the top
and lists hold details only; `GatewayAssumption`: fewer requests than there are
sequence numbers, which are 32 bits wide in `runtime/frame.go`; `AgwAssumption`: what
`LineForms` and `JsonValues` say a line and a JSON value can be, the first contract
parses, a frame has at most 2^20 bytes as in `runtime/frame.go`, and order ids stay
within 31 bits). Two theorems have a
hypothesis of their own: `OneOperator` and `OneLevel`, below.

Only `ReloadOwed` is inductive as it stands. The other theorems rest on an invariant
that says what each caller, goroutine or stream holds between two of its steps; the
larger ones were checked with TLC on the instances of section 3 before they were proved.

**Release service** (`ReleaseProofs`, `ReleaseResults`). `Inv` holds the types
(`TypeCorrect`), `OneRunPerClient` (`OneRunEach`) and `RunningHasOwner`
(`NoForgottenRun`). `Typed` strengthens the types by what a handler or goroutine in a
given place holds; `Waits` says that a deploy that waits has exactly one build
goroutine, and that the handler between the two INSERTs has a build nobody else
compiles; `Claims` that what an idle check found is still true of the rows of that
client when it inserts. Most actions insert no row and end no compile: the invariant is
proved once for each of three kinds of steps (`RequestMoves`, `CompileMoves`,
`RollMoves`), each action is shown to be of one, and the seven that are of none are
taken one by one. On top of it come three more:

* `Ledger` says what the row of a goroutine can be at each of its steps, and gives
  `SelfRecorded` (the row of a platform deploy is final before its process is replaced),
  `RunsStayFinal` and `ResultsAreRecorded`.
* `Trees` says what the tree, the image and the container of a goroutine hold as long
  as no other has changed them, and gives `UndisturbedBuildRecordsItsCommit` and
  `UndisturbedRolloutRunsItsImage`.
* `Files` is about one operator (`OneOperator`: no two clients, which is what
  `OkBuildHasArtifact` is about): a DeleteJob past its DELETE finds no ok build of the
  job, so the files it takes are nobody's (`OkBuildKeepsItsArtifact`).

**BAM, compose** (`PlatformProofs`).

* `BamInv` says that there is a function `of` from commits to the branch each was pushed
  to, such that heads, rows and what every actor holds agree with it: the model has no
  such variable, and without it a commit in a row could be of any branch. `WorkOf` says
  what the owner of `bamGenMu` finds in the tree and what version it has come to,
  `TriedOf` which modules a scan has tried, and at which commit. It gives
  `RevisionsMatch`, `PullsAreOwn` and `SeenIsTried`.
* `ComposeInv`: an overlay is written before `runtime.yml` is unlinked (`SplitFirst`),
  and an overlay about to be removed is of a service that does not run, unless somebody
  has started it meanwhile or nobody could stop it (`GoneIsStopped`). It gives
  `RunningStaysDefined`.

**Contracts and codec** (`AgwProofs`).

* `AgwInv`: `Published` says of a publish that nobody has edited under that the file
  still has its text and that the gateway serves it, is about to, or is down for one of
  three reasons, of which the text itself is one only if the router refuses its routes; the same of the last one recorded (`PublishStaysServed`).
* Loops. The parser, the writer and the reader are recursive functions of a position in
  a text, a list of fields or a body of any length. That the functions satisfy their
  equations is proved first (`ScannedTurn`, `TailsTurn`, `LoopTurn`; for the reader that
  every turn goes further right, `NextOnward`). A property of every turn is then shown by
  `Rises` or `Falls`: the positions that have it are a set, and a position without it
  would have a least or a greatest one, which `NatLessThanWellFounded` and `WFMin`
  exclude. This replaces the induction theorems of the library, which take an operator.
* `ParseChecked`: an accepted contract has fields of the three types, with ids of their
  own in each struct, and the structs that its methods name. `Sound` is the parser's
  invariant: the struct that is open is in the map, and its fields are well formed.
* `RoundTrip`: of two lists of fields that agree, the loop of the reader, at the byte
  where the writer's field `i` begins, reads all values from `i` on whose field it knows
  and skips the others by the type that was written, whatever follows. It rests on
  `ValueBack` (an i64, a string, a bool is read again wherever it is in a body),
  `FieldBack` (type and id before it) and, for the generic and the generated codec as
  writers, on `EncodeParted` and `EncodeGenParted`. It gives `RequestHeard` and
  `ReplyHeard`. What a request's number becomes is an int64 again, the same one if 53 bits
  hold it (`Rounded`, over the gaps there are between float64's neighbours, `GapThere`).
  Where the contracts do not agree, `ReadFits` still says that what a
  reader has is of the types of its own fields.
* `FieldsArrive`. The invariant adds to `AgwInv` and `KnownFieldsArrive` that the
  contract of a gateway that is up has been accepted (`ServesRead`), that orders hold what their types allow
  (`OrdersTyped`: by `ReadFits`, also those made by a request whose contract disagrees),
  and that there are few enough for an id to be one word. The answers of the service are
  short, so their lengths are read back (`GenShort`). `AttemptArrives` is about one
  attempt on any map of orders, hence also about the second one on what the first left.

**News hook, TLB, certificates** (`NewsSiteProofs`).

* The hook: `PullsAreSerial`, `AcceptedPushIsKept`, `ContentOnlyMovesForward`. `Order`
  says that what is served is no newer than what is fetched, which is no newer than the
  branch; that nothing goes back follows from pulls being serial.
* `SiteInv`, of `SiteSpec`: every copy of a configuration, from the one a caller is
  about to write to the one that runs, has only routes of its own site in each server
  (`OwnConfs`, hence `RoutesStayWithSite`), and a publisher that nobody has disturbed
  has, at each of its steps, what the tables say in all the copies it has reached
  (`Calm`, hence `UndisturbedPublishIsServed`).
* `RenewedIsReloaded`: `ReloadOwed` is inductive by itself, over the steps of
  both modules.

**Configuration and live logs** (`WatchProofs`).

* `ConfigNeverGoesBack`: an instance that is past its GET waits for the revision right
  after the one it has taken into account, or for a later one if it read the key from an
  etcd that is gone (`InStep`). Within one life of etcd it never goes back.
* `LogInv`: what a stream has been sent, with what is still in its channel, is the text
  of the run up to a point, and the row in the table, if it is what the stream was given
  first, ends at such a point as well. Pieces are numbered in the order of writing, so
  "up to a point" is "all numbers below one", and concatenation is arithmetic on these
  cuts. With it come who is subscribed and which channels are open. It gives
  `LogTypeCorrect`, `OpenSubscribers` and `WholeLogDelivered`.

**Board** (`BoardProofs`).

* Tokens: `IssuedTokenWorks`, `RefusedTokenNeverWorks`, from
  `InFlight`, what list and file hold while an operation is between its change of the
  list and its answer, and `Unasked`.
* `UpdatesAreKept`, from `TableInv`: rows and history speak of the same items.
* `ReadsAreWhole`, from `ReadInv`: at each page of `writeDetail`, a block that was there
  from the start has been sent or is at or beyond the offset of the next page (`Going`);
  `servePage` has not passed a page longer than the ones it has still to try
  (`Looking`).
* `FlatteningKeepsDetails`, from `ContentInv`: while `flattenLists` looks at a list,
  every detail that is still in it is among those it has yet to look at, unless it has
  counted one that could not be moved (`BootOk`), whatever died and was repeated before.
* `MysqlImplementsTree`: every statement of the MySQL store is an operation of
  `ContentTree` or a stutter. It assumes `OneLevel`: clients write modules and
  details, no tree the board finds is deeper than module, list and detail, and there are
  fewer nodes than `DeleteNode` collects. `content_orphan` shows that it fails with a
  further level. Three invariants carry it: no row is locked by two transactions, while
  a gap may be (`Locked`); what a call has read under its locks is still so when it
  writes (`TreeInv`), in particular the ids that `DeleteNode` has collected are still
  all that is live below the node, since whoever puts a node there needs the lock on the
  parent; and the number that `PutPage` has worked out is still the next one when it
  inserts, the versions of a path having no gaps (`PageInv`).
* `BlocksKeepTree`: `StoreKeepsTree` (the run `board` checks it of its second store,
  `Deep`), for any number of levels, with no hypothesis like `OneLevel`. In place of `TreeInv` there is `BlockInv`: what `LockParent` and `LockSlug`
  have read stays so until the write, and what a delete has collected stays below its
  node, while everything that is live below those ids is among them or came late
  (`Protected`); rows never lose their parent but by `flattenLists`, which runs while
  no call is open (`Stays`). That the SELECTs of `DeleteNode` end, with fewer ids than
  its limit only when no live child is left (`CollectedTaken`), is by pigeonhole: a
  round that finds nothing new ends the search, and each other one adds an id.

**Order path** (`OrderPathProofs`). `HandedOutIsOpen` needs only the shape of the state
(`PathShape`): the new list is in place before old connections are closed. The others
match answers and spans with requests, and connections carry nothing but sequence
numbers. `PathLedger` says that there are functions `who` and `turn` that give, for each
number ever used on a connection, the request and the try that used it; frames, spans,
orders and callers agree with them. Each call takes one number, and there are fewer
requests than numbers (`MaxAsk < SeqLimit`, by pigeonhole), so none is used again. It
gives `AnswersAreOwn`, `TracesFollow` and, with `Held` (one call at a time on a
connection), `MadeOnce`.

Proving showed that `ReadsWhole` has one more exception than the instance of the run
used to reach: a block that is put and deleted again between two pages shifts another
one past the offset. The property names it, and the shelf has three pages so that TLC
meets it.

So did `KnownFieldsArrive`. `validate` rejects two fields of a struct with one id and not
two with one name: on the way back such values overwrite each other in the map that
`Decode` fills, which `Alone` excepts. The proof also asked which method is called when
a contract gives two one name (`generic.Client.Call` takes the first), and what becomes
of ids beyond 16 bits, which meet others when they are cut; the contracts of the run
have both, and two fields of one name.

Model-checked only:

* the liveness properties `RunsEnd`, `PushServed`, `PresentKeyReaches`, `StreamsEnd`,
  `PeersFollow`, `RequestsEnd`: fairness and ENABLED are beyond this prover;
* the four violated properties, each refuted by a trace.

## 5. Not modelled

* Calls that only read for display: lists of jobs, builds, apps, modules, sites and
  items, `Summary`, `Runtime`, `ListTlbUpstreams`, the schema browser, the
  description of .proto fields.
* `ssePoll` of the gateway, which repeats a call until its client goes; `serveNav`
  and `pagesHandler`, which format the result of one call.
* Validation of names, scripts, branches and dates beyond its effect (a refused call
  changes nothing), log wording, headers, CORS, login and bearer tokens of requests,
  metrics.
* `mem.go` of the board's tables, a store for tests. `content_mem.go` is the abstract
  specification of the content store.
* The web front ends, and generated and vendored code: `platform.pb.go` and
  `platform.connect.go` alone are 9285 of the 21158 lines and hold message types and
  dispatch. Of `gen/`, the codec written by `cmd/gen` is modelled.

`components` in `PROJECT.json` lists every part with its status.

## 6. Plan

All parts that keep state are modelled, and the safety properties of the runs are
proved. What could still be stated as theorems of their own are the type invariants of
`Bam`, `Tlb`, `Compose` and the board; they are conjuncts of the invariants above.
