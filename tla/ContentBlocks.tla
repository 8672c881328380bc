---------------------------- MODULE ContentBlocks ----------------------------
(***************************************************************************)
(* The content store in MySQL with every level of the board, blocks below  *)
(* details too.  There DeleteNode, which locks only the node it is asked   *)
(* to delete, is no operation of ContentTree: a block may be put below a   *)
(* node it has already collected.  late is a history of what came to life  *)
(* while a call was between its SELECTs and its UPDATE; the store is       *)
(* ContentMysql as it is.                                                  *)
(***************************************************************************)
EXTENDS ContentMysql

VARIABLE late

blockVars == <<contentVars, late>>

(* Put by this step, or put again after it had been deleted. *)
Revived == {i \in DOMAIN board_node' : ~board_node'[i].deleted /\ ~Tree!Live(board_node, i)}

BlockInit == ContentInit /\ late = [c \in Clients |-> {}]

BlockNext ==
    /\ ContentNext
    /\ late' = [c \in Clients |-> IF call[c].at = "sweep" /\ call'[c].at = "sweep" THEN late[c] \cup Revived ELSE {}]

BlockSpec == BlockInit /\ [][BlockNext]_blockVars

-----------------------------------------------------------------------------
(* Below a node, whether or not what is between is deleted. *)
Below(ns, id) ==
    {i \in DOMAIN ns : \A S \in SUBSET DOMAIN ns :
        id \in S /\ (\A j \in DOMAIN ns : ns[j].parent \in S => j \in S) => i \in S}

(* What a delete takes: the node, and of what is below it everything that  *)
(* is live, but for nodes that came while it was under way and what is     *)
(* below those; DeleteNode stops when it has found DeleteLimit.            *)
Taken(ns, id, ids, new) ==
    /\ id \in ids /\ ids \subseteq Below(ns, id)
    /\ Cardinality(ids) < DeleteLimit => Tree!Children(ns, ids) \subseteq ids \cup new

SweepsTaken(c) ==
    /\ call[c].at = "sweep"
    /\ Tree!Live(board_node, call[c].id)
    /\ Taken(board_node, call[c].id, call[c].ids, late[c])
    /\ board_node' = Tree!Deleted(board_node, call[c].ids)
    /\ UNCHANGED <<board_page, board_page_version>>

KeepsTree == Tree!TreeNext \/ \E c \in Clients : SweepsTaken(c)

(* The statements of concurrent calls, wherever one fails or the board     *)
(* dies, are whole operations of the in-memory store with any levels,      *)
(* except that what DeleteNode leaves behind below the nodes it deletes    *)
(* was put there while it was under way; and it deletes nothing that is    *)
(* not below the node it was asked to delete.                              *)
StoreKeepsTree == [][KeepsTree]_(Tree!treeVars)
=============================================================================
