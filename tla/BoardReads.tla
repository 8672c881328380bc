----------------------------- MODULE BoardReads -----------------------------
(***************************************************************************)
(* What the board shows of its content (projects/board/content_http.go):   *)
(* modules, details, blocks and uploaded pages.  A request is several      *)
(* statements without a transaction, and tools change the store between    *)
(* any two of them; a change is a whole operation of ContentTree, which is *)
(* what ContentMysql is shown to implement.                                *)
(***************************************************************************)
EXTENDS Integers, Sequences, FiniteSets, SequencesExt

CONSTANTS
    Readers,              \* requests that may run at once
    Shelf,                \* the nodes at the start
    Names3,               \* slugs asked for and written
    Addresses,            \* paths of pages, sequences of segments
    BadSegments,          \* segments that pageSegRe does not match
    Uploads,              \* sets of file names (sequences too) that a client sends as a page
    Asked,                \* the paths below /pages/ that are asked for: [segs, trailing]
    Queries,              \* page and size of a query, 0 if not given: <<page, size>>
    DefaultSize, MaxSize, \* nodePageArgs (20, 100)
    MaxPage,              \* writeDetail asks for no more pages (10)
    MaxPageDepth,         \* maxPageDepth (4)
    MaxShelf,             \* bound: nodes
    MaxPrint,             \* bound: versions of a page
    MaxEdit               \* bound: changes

ASSUME ReadAssumption ==
    /\ Shelf \in Seq([parent : Nat, type : {"module", "detail", "block"}, slug : STRING,
                       data : {"d"}, sv : {1}, deleted : BOOLEAN])
    /\ Names3 \subseteq STRING
    /\ Addresses \subseteq Seq(STRING)
    /\ Asked \subseteq [segs : Seq(STRING), trailing : BOOLEAN]
    /\ Queries \subseteq Nat \X Nat
    /\ {DefaultSize, MaxSize, MaxPage, MaxPageDepth} \subseteq Nat \ {0}
    /\ DefaultSize <= MaxSize

VARIABLES
    shelf, prints, online,  \* the store
    reader,                 \* the request each reader is in
    edits

readVars == <<shelf, prints, online, reader, edits>>

Store == INSTANCE ContentTree
           WITH nodes <- shelf, pages <- prints, current <- online,
                Types <- {"detail", "block"}, Slugs <- Names3, Reserved <- {}, Data <- {"d"}, Versions <- {1},
                Paths <- Addresses, Files <- Uploads, InitialTrees <- {Shelf},
                MaxNodes <- MaxShelf, MaxVersions <- MaxPrint

Resting == [at |-> "rest"]
LevelType == <<"module", "detail", "block">>

(* Statements. *)
FindChild(par, type, slug) == {i \in Store!At(shelf, par, slug) : Store!Live(shelf, i) /\ shelf[i].type = type}
Listed(par, type) == {i \in Store!Children(shelf, {par}) : shelf[i].type = type}

nodePageArgs(page, size) ==
    [page |-> IF page < 1 THEN 1 ELSE page,
     size |-> IF size < 1 THEN DefaultSize ELSE IF size > MaxSize THEN MaxSize ELSE size]

(* ORDER BY created_at DESC, id DESC LIMIT size OFFSET (page - 1) * size:  *)
(* the newest first.                                                       *)
Newer(ids, i) == Cardinality({j \in ids : j > i})
Newest(ids)   == [k \in 1..Cardinality(ids) |-> CHOOSE i \in ids : Newer(ids, i) = k - 1]

PageOfFromNext(ids, page, size) == Newest({i \in ids : Newer(ids, i) \div size = page})

PageOf(ids, page, size) == Newest({i \in ids : Newer(ids, i) \div size = page - 1})

PageFiles(p) == IF p \in Addresses /\ online[p] # 0 THEN {prints[p][online[p]]} ELSE {}

cleanPagePath(p) == Len(p) \in 1..MaxPageDepth /\ ToSet(p) \cap BadSegments = {}
cleanPageFiles(f) == <<"index.html">> \in f

-----------------------------------------------------------------------------
Sees(r, rec) == reader' = [reader EXCEPT ![r] = rec] /\ UNCHANGED <<shelf, prints, online, edits>>

(* What the listing must not miss: the nodes that were there all the time. *)
Fresh(par, type) == [kept |-> Listed(par, type), lost |-> FALSE, quiet |-> TRUE]

(* GET /data/modules, /data/{module}, /data/{module}/{slug} and            *)
(* .../blocks/{block}: names are looked up one below the other; then the   *)
(* children are listed, one page as the query says, or all blocks.         *)
Get(r, names, q) ==
    /\ reader[r] = Resting
    /\ Len(names) < 2 \/ q = <<0, 0>>
    /\ Sees(r, [at |-> "find", names |-> names, par |-> 0, depth |-> 1,
                all |-> Len(names) = 2, q |-> nodePageArgs(q[1], IF Len(names) = 2 THEN MaxSize ELSE q[2])])

NotFound(r) == Sees(r, [at |-> "404"])

(* namedDetail. *)
namedDetail(r) ==
    LET g == reader[r] IN
    /\ g.at = "find" /\ g.names # <<>>
    /\ LET found == FindChild(g.par, LevelType[g.depth], Head(g.names))
       IN  IF found = {} THEN NotFound(r)
           ELSE \E i \in found : Sees(r, [g EXCEPT !.par = i, !.names = Tail(@), !.depth = @ + 1])

(* A block is the answer; of anything else the children are listed. *)
Resolved(r) ==
    LET g == reader[r] IN
    /\ g.at = "find" /\ g.names = <<>>
    /\ IF g.depth = 4 THEN Sees(r, [at |-> "block", id |-> g.par])
       ELSE Sees(r, [at |-> "count", par |-> g.par, type |-> LevelType[g.depth], all |-> g.all, page |-> g.q.page,
                     size |-> g.q.size, items |-> <<>>, total |-> 0, seen |-> Fresh(g.par, LevelType[g.depth])])

(* ListChildren: SELECT COUNT( * ) ... *)
Count(r) ==
    LET g == reader[r] IN
    /\ g.at = "count"
    /\ Sees(r, [g EXCEPT !.at = "select", !.total = Cardinality(Listed(g.par, g.type))])

(* ... and SELECT of the page; writeDetail goes on to the next one. *)
ListChildren(r) ==
    LET g == reader[r]
        items == g.items \o PageOf(Listed(g.par, g.type), g.page, g.size)
        more == g.all /\ g.page < MaxPage /\ g.page * g.size < g.total
    IN  /\ g.at = "select"
        /\ Sees(r, [g EXCEPT !.items = items, !.at = IF more THEN "count" ELSE "listed",
                             !.page = IF more THEN @ + 1 ELSE @])

-----------------------------------------------------------------------------
(* servePage: the longest part of the path that is a page; the rest is the *)
(* file.  Each part is looked up by a statement of its own.                *)
GetPage(r, ask) ==
    /\ reader[r] = Resting
    /\ ask.segs # <<>>
    /\ Sees(r, [at |-> "page", ask |-> ask, had |-> {p \in Addresses : online[p] # 0}, 
                k |-> IF Len(ask.segs) > MaxPageDepth THEN MaxPageDepth ELSE Len(ask.segs)])

servePage(r) ==
    LET g == reader[r]
        p == SubSeq(g.ask.segs, 1, g.k)
        rest == SubSeq(g.ask.segs, g.k + 1, Len(g.ask.segs))
        name == IF rest = <<>> THEN <<"index.html">> ELSE rest
        done(what) == [at |-> what, page |-> p, name |-> name, ask |-> g.ask, had |-> g.had]
    IN  /\ g.at = "page"
        /\ IF ~cleanPagePath(p) \/ PageFiles(p) = {}
           THEN Sees(r, IF g.k = 1 THEN [done("nopage") EXCEPT !.page = <<>>] ELSE [g EXCEPT !.k = @ - 1])
           ELSE \E files \in PageFiles(p) :
                   Sees(r, done(IF rest = <<>> /\ ~g.ask.trailing THEN "301"
                                ELSE IF name \in files THEN "file" ELSE "nofile"))

-----------------------------------------------------------------------------
(* A tool changes the store.  History: which of the nodes that are being   *)
(* listed stay, and whether the listing was upset: a node that stood       *)
(* before what is still to be fetched goes, and the rest moves up; or one  *)
(* appears after the count, and the last moves beyond it.                  *)
Upset(g) ==
    IF g.at \notin {"count", "select"} THEN g
    ELSE LET now  == {i \in Store!Children(shelf', {g.par}) : shelf'[i].type = g.type}
             gone == Listed(g.par, g.type) \ now
             new  == now \ Listed(g.par, g.type)
         IN  [g EXCEPT !.seen = [kept  |-> @.kept \cap now,
                                 lost  |-> \/ @.lost
                                           \/ \E i \in gone : Newer(Listed(g.par, g.type), i) < (g.page - 1) * g.size
                                           \/ new # {} /\ g.at = "select",
                                 quiet |-> @.quiet /\ gone = {} /\ new = {}]]

Block(slug, par) == [parent |-> par, type |-> "block", slug |-> slug, data |-> "d", sv |-> 1]

Edit ==
    /\ edits < MaxEdit
    /\ edits' = edits + 1
    /\ \/ \E s \in Names3, par \in DOMAIN shelf : Store!PutNode(Block(s, par))
       \/ \E id \in DOMAIN shelf : Store!DeleteNode(id)
       \/ \E p \in Addresses, f \in Uploads : cleanPagePath(p) /\ cleanPageFiles(f) /\ Store!PutPage(p, f)
       \/ \E p \in Addresses, v \in 1..MaxPrint : Store!RollbackPage(p, v)
    /\ reader' = [r \in Readers |-> Upset(reader[r])]

ReadInit ==
    /\ Store!TreeInit
    /\ reader = [r \in Readers |-> Resting]
    /\ edits = 0

ReadNext ==
    \/ Edit
    \/ \E r \in Readers :
          \/ \E q \in Queries :
                \/ Get(r, <<>>, q)
                \/ \E m \in Names3 : Get(r, <<m>>, q) \/ \E d \in Names3 : Get(r, <<m, d>>, q) \/ \E b \in Names3 : Get(r, <<m, d, b>>, q)
          \/ namedDetail(r) \/ Resolved(r) \/ Count(r) \/ ListChildren(r)
          \/ \E ask \in Asked : GetPage(r, ask)
          \/ servePage(r)

ReadSpec == ReadInit /\ [][ReadNext]_readVars

-----------------------------------------------------------------------------
(* Properties. *)

(* The blocks of a detail are all shown although they are fetched page by  *)
(* page while others write: one that was there from the first count to the *)
(* last page is in the answer, unless a block that stood before what was   *)
(* still to be fetched was deleted meanwhile, or one appeared between a    *)
(* count and its page.  When nothing changed, each is shown once, the      *)
(* newest first.                                                           *)
DetailWhole ==
    \A r \in Readers : LET g == reader[r] IN
        g.at = "listed" /\ g.all /\ g.total <= MaxPage * MaxSize =>
            /\ ~g.seen.lost => g.seen.kept \subseteq ToSet(g.items)
            /\ g.seen.quiet => /\ ToSet(g.items) = g.seen.kept
                               /\ \A i, j \in DOMAIN g.items : i < j => g.items[i] > g.items[j]

(* A request is answered by the longest page on its path, though pages are *)
(* looked up one after the other: by one that is at least as long as every *)
(* page that was online when the request came.                             *)
PageWhole ==
    \A r \in Readers : LET g == reader[r] IN
        g.at \in {"301", "file", "nofile", "nopage"} =>
            \A p \in g.had : IsPrefix(p, g.ask.segs) => Len(p) <= Len(g.page)

(* Both: what a reader is shown is whole. *)
ReadsWhole == DetailWhole /\ PageWhole
=============================================================================
