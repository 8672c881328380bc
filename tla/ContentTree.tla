----------------------------- MODULE ContentTree -----------------------------
(***************************************************************************)
(* What a ContentStore of the board promises: a tree of nodes and pages    *)
(* with numbered versions, every operation atomic.  It is the in-memory    *)
(* store (projects/board/content_mem.go), whose operations hold a mutex;   *)
(* the MySQL store, which has no test of its own, is ContentMysql.         *)
(*                                                                         *)
(* A node's id is its place in nodes; its title is left out.  An operation *)
(* that returns an error and changes nothing is a stuttering step.         *)
(***************************************************************************)
EXTENDS Integers, Sequences

CONSTANTS
    Types,         \* the node types clients write: module, detail, block
    Slugs,         \* names of nodes
    Reserved,      \* reservedModuleSlugs
    Data,          \* values of a node's data
    Versions,      \* schema versions a client sends; 0 stands for none
    Paths,         \* page paths
    Files,         \* valid uploads of a page
    InitialTrees,  \* what an older version of the board left in board_node
    MaxNodes,      \* bound: nodes
    MaxVersions    \* bound: versions of a page

(* parentType; list is the level that flattenLists removes. *)
parentType == [module |-> "", detail |-> "module", block |-> "detail"]
legacyList == "list"

VARIABLES
    nodes,     \* every node ever made, the deleted ones too
    pages,     \* the versions of each path
    current    \* the version that is online, 0 if none

treeVars == <<nodes, pages, current>>

Live(ns, id)       == id \in DOMAIN ns /\ ~ns[id].deleted
Children(ns, ids)  == {i \in DOMAIN ns : ~ns[i].deleted /\ ns[i].parent \in ids}
At(ns, par, slug)  == {i \in DOMAIN ns : ns[i].parent = par /\ ns[i].slug = slug}

(* A node and all that is live below it. *)
Subtree(ns, id) ==
    LET level[k \in 0..Len(ns)] ==
            IF k = 0 THEN {id} ELSE level[k - 1] \cup Children(ns, level[k - 1])
    IN  level[Len(ns)]

checkModuleSlug(type, slug) == type = "module" => slug \notin Reserved

(* p is 0 or a live node. *)
checkParent(ns, type, p) ==
    /\ type \in DOMAIN parentType
    /\ IF parentType[type] = "" THEN p = 0 ELSE p # 0 /\ ns[p].type = parentType[type]

cleanSchemaVersion(v) == IF v = 0 THEN 1 ELSE v

(* What PutNode is asked for. *)
Input == [parent : 0..MaxNodes, type : Types, slug : Slugs, data : Data, sv : Versions]

Acceptable(ns, in) ==
    /\ in.sv >= 0
    /\ in.parent = 0 \/ Live(ns, in.parent)
    /\ checkModuleSlug(in.type, in.slug)
    /\ checkParent(ns, in.type, in.parent)

(* Insert, or overwrite the node that has the name, deleted or not. *)
Upsert(ns, in) ==
    LET n == [parent |-> in.parent, type |-> in.type, slug |-> in.slug, data |-> in.data,
              sv |-> cleanSchemaVersion(in.sv), deleted |-> FALSE]
    IN  IF At(ns, in.parent, in.slug) = {}
        THEN Append(ns, n)
        ELSE [i \in DOMAIN ns |-> IF i \in At(ns, in.parent, in.slug) THEN n ELSE ns[i]]

Deleted(ns, ids) == [i \in DOMAIN ns |-> IF i \in ids THEN [ns[i] EXCEPT !.deleted = TRUE] ELSE ns[i]]

TreeInit ==
    /\ nodes \in InitialTrees
    /\ pages = [p \in Paths |-> <<>>]
    /\ current = [p \in Paths |-> 0]

PutNode(in) ==
    /\ Acceptable(nodes, in)
    /\ nodes' = Upsert(nodes, in)
    /\ Len(nodes') <= MaxNodes
    /\ UNCHANGED <<pages, current>>

(* The fields that are sent are replaced; {} is a field not sent.  The     *)
(* data is stored before the schema version is looked at, so a refused     *)
(* update may have stored it.                                              *)
Updated(n, data, sv) ==
    [n EXCEPT !.data = IF data = {} THEN @ ELSE CHOOSE d \in data : TRUE,
              !.sv = IF \E v \in sv : v >= 0 THEN cleanSchemaVersion(CHOOSE v \in sv : TRUE) ELSE @]

UpdateNode(id, data, sv) ==
    /\ Live(nodes, id)
    /\ nodes' = [nodes EXCEPT ![id] = Updated(@, data, sv)]
    /\ UNCHANGED <<pages, current>>

DeleteNode(id) ==
    /\ Live(nodes, id)
    /\ nodes' = Deleted(nodes, Subtree(nodes, id))
    /\ UNCHANGED <<pages, current>>

(* The type is not checked; a deleted node keeps its name. *)
MoveNode(id, par) ==
    /\ Live(nodes, id)
    /\ nodes[id].parent # par
    /\ At(nodes, par, nodes[id].slug) = {}
    /\ nodes' = [nodes EXCEPT ![id].parent = par]
    /\ UNCHANGED <<pages, current>>

PutPage(p, f) ==
    /\ Len(pages[p]) < MaxVersions
    /\ pages' = [pages EXCEPT ![p] = Append(@, f)]
    /\ current' = [current EXCEPT ![p] = Len(pages'[p])]
    /\ UNCHANGED nodes

RollbackPage(p, v) ==
    /\ v \in DOMAIN pages[p]
    /\ current' = [current EXCEPT ![p] = v]
    /\ UNCHANGED <<nodes, pages>>

Singletons(S) == {{x} : x \in S} \cup {{}}

TreeNext ==
    \/ \E in \in Input : PutNode(in)
    \/ \E id \in DOMAIN nodes :
          \/ \E d \in Singletons(Data), v \in Singletons(Versions) : UpdateNode(id, d, v)
          \/ DeleteNode(id)
          \/ \E par \in 0..MaxNodes : MoveNode(id, par)
    \/ \E p \in Paths : \/ \E f \in Files : PutPage(p, f)
                        \/ \E v \in 1..MaxVersions : RollbackPage(p, v)

TreeSpec == TreeInit /\ [][TreeNext]_treeVars
=============================================================================
