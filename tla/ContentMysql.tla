---------------------------- MODULE ContentMysql ----------------------------
(***************************************************************************)
(* The content store in MySQL (projects/board/content_mysql.go) behind the *)
(* tools of the board (content_mcp.go): a step is one statement, or the    *)
(* statements nobody can come between because of the row locks held.       *)
(*                                                                         *)
(* Transactions are InnoDB's at REPEATABLE READ.  A plain SELECT reads     *)
(* what is committed when the transaction first does one; SELECT ... FOR   *)
(* UPDATE and UPDATE wait for the row and then read what is committed.  A  *)
(* locked gap keeps others from inserting, not from locking it too.  What  *)
(* a transaction wrote appears when it commits, so its last statement and  *)
(* the commit are one step.  A deadlock or a lost connection ends it with  *)
(* an error: DbError.                                                      *)
(***************************************************************************)
EXTENDS Integers, Sequences, FiniteSets

CONSTANTS
    Clients,       \* agents that call the tools
    Types, Slugs, Reserved, Data, Versions, Paths, Files, InitialTrees,
    MaxNodes, MaxVersions,
    DeleteLimit,   \* DeleteNode looks no further when it has found so many (100000)
    MaxCall,       \* bound: tool calls
    MaxCrash       \* bound: restarts of the board

(* A list, of an older version of the board, holds details only            *)
(* (content_flatten.go:8); modules are at the top.                         *)
ASSUME ContentAssumption ==
    /\ {MaxNodes, MaxVersions, DeleteLimit} \subseteq Nat
    /\ Versions \subseteq Int
    /\ Slugs \subseteq STRING
    /\ \A t \in InitialTrees :
          /\ t \in Seq([parent : 0..MaxNodes, type : {"module", "list", "detail", "block"}, slug : Slugs,
                        data : Data, sv : Int, deleted : BOOLEAN])
          /\ Len(t) <= MaxNodes
          /\ \A i \in DOMAIN t :
                /\ t[i].parent \in {0} \cup DOMAIN t
                /\ t[i].type = "module" => t[i].parent = 0
                /\ t[i].parent # 0 => (t[t[i].parent].type = "list" => t[i].type = "detail")

VARIABLES
    board_node,          \* rows by id
    board_page,          \* path -> current_version, for the paths that have a row
    board_page_version,  \* rows
    call,                \* the tool call each client is in
    rows,                \* the locks of its transaction
    boot,                \* flattenLists in main, before the board serves
    calls, crashes

tables == <<board_node, board_page, board_page_version>>
contentVars == <<tables, call, rows, boot, calls, crashes>>

FilesOf(p)    == [v \in {r.version : r \in {q \in board_page_version : q.path = p}} |->
                     (CHOOSE r \in board_page_version : r.path = p /\ r.version = v).files]
CurrentOf(p)  == IF p \in DOMAIN board_page THEN board_page[p] ELSE 0

(* The store of which this is an implementation. *)
Tree == INSTANCE ContentTree
          WITH nodes <- board_node,
               pages <- [p \in Paths |-> FilesOf(p)],
               current <- [p \in Paths |-> CurrentOf(p)]

IdleCall == [at |-> "idle"]
Serving  == boot.at = "serve"
Free(c, lock) == \A d \in Clients \ {c} : lock \notin rows[d]

NodeRow(id)   == <<"node", id>>
Gap(in)       == <<"gap", in.parent, in.slug>>
PageRow(p)    == <<"page", p>>

ContentInit ==
    /\ board_node \in InitialTrees
    /\ board_page = [p \in {} |-> 0] /\ board_page_version = {}
    /\ call = [c \in Clients |-> IdleCall] /\ rows = [c \in Clients |-> {}]
    /\ boot = [at |-> "modules"]
    /\ calls = 0 /\ crashes = 0

(* A client makes a call; the step is the first statement of it. *)
Enter(c) ==
    /\ Serving
    /\ call[c] = IdleCall
    /\ calls < MaxCall
    /\ calls' = calls + 1
    /\ UNCHANGED <<boot, crashes>>

Goes(c, at) ==
    /\ call[c].at = at
    /\ UNCHANGED <<boot, calls, crashes>>

Locks(c, ls)  == rows' = [rows EXCEPT ![c] = @ \cup ls]
Continue(c, k) == call' = [call EXCEPT ![c] = k]
(* The call is over and its transaction with it. *)
End(c) == /\ call' = [call EXCEPT ![c] = IdleCall]
          /\ rows' = [rows EXCEPT ![c] = {}]

(* DbError: a statement fails. *)
DbError(c) ==
    /\ call[c] # IdleCall
    /\ End(c)
    /\ UNCHANGED <<tables, boot, calls, crashes>>

-----------------------------------------------------------------------------
(* put_node.  The parent is given by id, or by the names on the way to it. *)
put_node(c, in, names) ==
    /\ Enter(c)
    /\ in.sv >= 0
    /\ names # <<>> => in.parent = 0
    /\ Continue(c, [at |-> IF names = <<>> THEN "lock" ELSE "resolve", in |-> in, names |-> names])
    /\ UNCHANGED <<tables, rows>>

(* FindChild, of the module and then of the detail. *)
resolveNamedParent(c) ==
    /\ Goes(c, "resolve")
    /\ LET k == call[c]
           found == {i \in Tree!At(board_node, k.in.parent, Head(k.names)) :
                        /\ ~board_node[i].deleted
                        /\ board_node[i].type = IF k.in.parent = 0 THEN "module" ELSE "detail"}
       IN  IF found = {}
           THEN End(c)
           ELSE /\ \E i \in found :
                      Continue(c, [k EXCEPT !.in.parent = i, !.names = Tail(@),
                                            !.at = IF Tail(k.names) = <<>> THEN "lock" ELSE "resolve"])
                /\ UNCHANGED rows
    /\ UNCHANGED tables

LockParentUnlocked(c) ==
    /\ Goes(c, "lock")
    /\ IF Tree!Acceptable(board_node, call[c].in)
       THEN Continue(c, [call[c] EXCEPT !.at = "find"]) /\ UNCHANGED rows
       ELSE End(c)
    /\ UNCHANGED tables

(* SELECT the parent FOR UPDATE, and the checks. *)
LockParent(c) ==
    /\ Goes(c, "lock")
    /\ LET in == call[c].in
           parent == IF in.parent = 0 THEN {} ELSE {NodeRow(in.parent)}
       IN  /\ \A l \in parent : Free(c, l)
           /\ IF Tree!Acceptable(board_node, in)
              THEN Continue(c, [call[c] EXCEPT !.at = "find"]) /\ Locks(c, parent)
              ELSE End(c)
    /\ UNCHANGED tables

(* SELECT the node of that name FOR UPDATE, deleted or not. *)
LockSlug(c) ==
    /\ Goes(c, "find")
    /\ LET in == call[c].in
           same == Tree!At(board_node, in.parent, in.slug)
       IN  /\ \A i \in same : Free(c, NodeRow(i))
           /\ Locks(c, IF same = {} THEN {Gap(in)} ELSE {NodeRow(i) : i \in same})
    /\ Continue(c, [call[c] EXCEPT !.at = "write"])
    /\ UNCHANGED tables

(* INSERT or UPDATE, and COMMIT. *)
WriteNode(c) ==
    /\ Goes(c, "write")
    /\ LET in == call[c].in
       IN  /\ Gap(in) \in rows[c] => Free(c, Gap(in))
           /\ board_node' = Tree!Upsert(board_node, in)
    /\ Len(board_node') <= MaxNodes
    /\ End(c)
    /\ UNCHANGED <<board_page, board_page_version>>

-----------------------------------------------------------------------------
(* update_node: validated, then three statements without a transaction;    *)
(* the last only reads the answer.                                         *)
update_node(c, id, data, sv) ==
    /\ Enter(c)
    /\ \A v \in sv : v >= 0
    /\ Tree!Live(board_node, id)
    /\ Continue(c, [at |-> "update", id |-> id, data |-> data, sv |-> sv])
    /\ UNCHANGED <<tables, rows>>

UpdateWrite(c) ==
    /\ Goes(c, "update")
    /\ Free(c, NodeRow(call[c].id))
    /\ LET k == call[c]
       IN  board_node' = IF Tree!Live(board_node, k.id)
                         THEN [board_node EXCEPT ![k.id] = Tree!Updated(@, k.data, k.sv)]
                         ELSE board_node
    /\ End(c)
    /\ UNCHANGED <<board_page, board_page_version>>

-----------------------------------------------------------------------------
(* delete_node: only the root of the subtree is locked while the rest is   *)
(* collected, level by level, from one snapshot.                           *)
delete_node(c, id) ==
    /\ Enter(c)
    /\ Free(c, NodeRow(id))
    /\ Tree!Live(board_node, id)
    /\ Continue(c, [at |-> "collect", id |-> id])
    /\ Locks(c, {NodeRow(id)})
    /\ UNCHANGED tables

Collected(ns, id) ==
    LET found[k \in 0..Len(ns)] ==
            IF k = 0 THEN [all |-> {id}, frontier |-> {id}]
            ELSE LET f == found[k - 1]
                     next == Tree!Children(ns, f.frontier)
                 IN  IF Cardinality(f.all) < DeleteLimit
                     THEN [all |-> f.all \cup next, frontier |-> next]
                     ELSE f
    IN  found[Len(ns)].all

CollectSubtree(c) ==
    /\ Goes(c, "collect")
    /\ Continue(c, [at |-> "sweep", id |-> call[c].id, ids |-> Collected(board_node, call[c].id)])
    /\ UNCHANGED <<tables, rows>>

(* UPDATE ... WHERE deleted_at IS NULL AND id IN (...), and COMMIT. *)
SweepSubtree(c) ==
    /\ Goes(c, "sweep")
    /\ \A i \in call[c].ids : Free(c, NodeRow(i))
    /\ board_node' = Tree!Deleted(board_node, call[c].ids)
    /\ End(c)
    /\ UNCHANGED <<board_page, board_page_version>>

-----------------------------------------------------------------------------
(* put_page: the row of the path is made or locked first. *)
put_page(c, p, f) ==
    /\ Enter(c)
    /\ Free(c, PageRow(p))
    /\ Continue(c, [at |-> "max", path |-> p, files |-> f])
    /\ Locks(c, {PageRow(p)})
    /\ UNCHANGED tables

MaxVersion(c) ==
    /\ Goes(c, "max")
    /\ LET vs == DOMAIN FilesOf(call[c].path)
           max == IF vs = {} THEN 0 ELSE CHOOSE v \in vs : \A w \in vs : w <= v
       IN  /\ max < MaxVersions
           /\ Continue(c, [at |-> "insert", path |-> call[c].path, files |-> call[c].files, version |-> max + 1])
    /\ UNCHANGED <<tables, rows>>

SetCurrent(p, v) == [q \in DOMAIN board_page \cup {p} |-> IF q = p THEN v ELSE board_page[q]]

(* INSERT the version (uk_path_version refuses a second one of the same    *)
(* number), UPDATE the pointer, COMMIT.                                    *)
InsertVersion(c) ==
    /\ Goes(c, "insert")
    /\ LET k == call[c]
       IN  IF k.version \in DOMAIN FilesOf(k.path)
           THEN UNCHANGED <<board_page, board_page_version>>
           ELSE /\ board_page_version' = board_page_version
                      \cup {[path |-> k.path, version |-> k.version, files |-> k.files]}
                /\ board_page' = SetCurrent(k.path, k.version)
    /\ End(c)
    /\ UNCHANGED board_node

(* rollback_page: two statements without a transaction. *)
rollback_page(c, p, v) ==
    /\ Enter(c)
    /\ v \in DOMAIN FilesOf(p)
    /\ Continue(c, [at |-> "point", path |-> p, version |-> v])
    /\ UNCHANGED <<tables, rows>>

PointTo(c) ==
    /\ Goes(c, "point")
    /\ Free(c, PageRow(call[c].path))
    /\ board_page' = SetCurrent(call[c].path, call[c].version)
    /\ End(c)
    /\ UNCHANGED <<board_node, board_page_version>>

-----------------------------------------------------------------------------
(* flattenLists.  Nobody else uses the tables: the board does not listen   *)
(* yet, and the container it replaces has stopped.                         *)
Booting(at) ==
    /\ boot.at = at
    /\ UNCHANGED <<board_page, board_page_version, call, rows, calls, crashes>>

LiveOfType(parent, type) == {i \in Tree!Children(board_node, {parent}) : board_node[i].type = type}

FlattenModules ==
    /\ Booting("modules")
    /\ boot' = [at |-> "module", mods |-> LiveOfType(0, "module")]
    /\ UNCHANGED board_node

FlattenModule ==
    /\ Booting("module")
    /\ IF boot.mods = {}
       THEN boot' = [at |-> "serve"]
       ELSE \E m \in boot.mods :
               boot' = [at |-> "list", mods |-> boot.mods \ {m}, mod |-> m,
                        lists |-> LiveOfType(m, Tree!legacyList)]
    /\ UNCHANGED board_node

FlattenList ==
    /\ Booting("list")
    /\ IF boot.lists = {}
       THEN boot' = [at |-> "module", mods |-> boot.mods]
       ELSE \E l \in boot.lists :
               boot' = [at |-> "detail", mods |-> boot.mods, mod |-> boot.mod, lists |-> boot.lists \ {l},
                        list |-> l, details |-> LiveOfType(l, "detail"), left |-> 0]
    /\ UNCHANGED board_node

FlattenDetailUncounted ==
    /\ Booting("detail")
    /\ \E d \in boot.details :
          /\ board_node' = IF Tree!At(board_node, boot.mod, board_node[d].slug) = {}
                           THEN [board_node EXCEPT ![d].parent = boot.mod] ELSE board_node
          /\ boot' = [boot EXCEPT !.details = @ \ {d}]

(* MoveNode, or errConflict. *)
FlattenDetail ==
    /\ Booting("detail")
    /\ \E d \in boot.details :
          IF Tree!At(board_node, boot.mod, board_node[d].slug) = {}
          THEN /\ board_node' = [board_node EXCEPT ![d].parent = boot.mod]
               /\ boot' = [boot EXCEPT !.details = @ \ {d}]
          ELSE /\ boot' = [boot EXCEPT !.details = @ \ {d}, !.left = @ + 1]
               /\ UNCHANGED board_node

FlattenListDone ==
    /\ Booting("detail")
    /\ boot.details = {}
    /\ board_node' = IF boot.left = 0 THEN Tree!Deleted(board_node, Collected(board_node, boot.list))
                                      ELSE board_node
    /\ boot' = [at |-> "list", mods |-> boot.mods, mod |-> boot.mod, lists |-> boot.lists]

(* The board dies, or flattenLists fails, and it is started again: open    *)
(* transactions are rolled back.                                           *)
Crash ==
    /\ crashes < MaxCrash
    /\ crashes' = crashes + 1
    /\ boot' = [at |-> "modules"]
    /\ call' = [c \in Clients |-> IdleCall] /\ rows' = [c \in Clients |-> {}]
    /\ UNCHANGED <<tables, calls>>

Flatten == FlattenModules \/ FlattenModule \/ FlattenList \/ FlattenDetail \/ FlattenListDone

ContentNext ==
    \/ Flatten \/ Crash
    \/ \E c \in Clients :
          \/ \E in \in Tree!Input, names \in {<<>>} \cup {<<m>> : m \in Slugs} \cup {<<m, d>> : m, d \in Slugs} :
                put_node(c, in, names)
          \/ resolveNamedParent(c) \/ LockParent(c) \/ LockSlug(c) \/ WriteNode(c)
          \/ \E id \in DOMAIN board_node :
                \/ \E d \in Tree!Singletons(Data), v \in Tree!Singletons(Versions) : update_node(c, id, d, v)
                \/ delete_node(c, id)
          \/ UpdateWrite(c) \/ CollectSubtree(c) \/ SweepSubtree(c)
          \/ \E p \in Paths : \/ \E f \in Files : put_page(c, p, f)
                              \/ \E v \in 1..MaxVersions : rollback_page(c, p, v)
          \/ MaxVersion(c) \/ InsertVersion(c) \/ PointTo(c)
          \/ DbError(c)

ContentSpec == ContentInit /\ [][ContentNext]_contentVars

-----------------------------------------------------------------------------
(* Properties. *)

(* The statements of concurrent calls, however they interleave and         *)
(* wherever one fails or the board dies, change the tables as whole        *)
(* operations of the in-memory store would: content_mem.go:10 says that    *)
(* the two mean the same.  True as long as nodes have one level below the  *)
(* module (Types without block): there the lock on the parent that PutNode *)
(* takes is the lock that DeleteNode takes on its root.                    *)
ImplementsTree == Tree!TreeSpec

(* However often flattenLists is interrupted and run again, it deletes no  *)
(* detail, not even one it could not move because of its name.             *)
FlattenKeepsDetails ==
    [][~Serving => \A i \in DOMAIN board_node :
          board_node[i].type = "detail" /\ ~board_node[i].deleted => ~board_node'[i].deleted]_contentVars

(* DeleteNode's comment (content_mysql.go:189) and the documentation:      *)
(* deleting a node deletes its whole subtree, so that no live node is      *)
(* below a deleted one.                                                    *)
NoLiveBelowDeleted ==
    \A i \in DOMAIN board_node :
        ~board_node[i].deleted /\ board_node[i].parent # 0 => Tree!Live(board_node, board_node[i].parent)
=============================================================================
