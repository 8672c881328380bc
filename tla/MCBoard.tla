------------------------------- MODULE MCBoard -------------------------------
(* The stores of the board for TLC.  Tokens, content and tables share no   *)
(* table, file or lock, and every property is about one of them: a         *)
(* behaviour is therefore that of one part, the others at rest.  The       *)
(* content store is there a second time (Deep), with blocks below details  *)
(* and without pages, which have no levels.                                *)
EXTENDS TokenStore, ContentMysql, BoardTables, BoardReads, TLC

CONSTANT Parts

VARIABLES part, node, page, pageVersion, asks, locks, start, asked, deaths, late

deepVars == <<node, page, pageVersion, asks, locks, start, asked, deaths, late>>
boardVars == <<part, vars, contentVars, tableVars, readVars, deepVars>>

Row(parent, type, slug) ==
    [parent |-> parent, type |-> type, slug |-> slug, data |-> "d", sv |-> 1, deleted |-> FALSE]

(* A module with a detail and a block, and another detail that is deleted; *)
(* and what an older version left: a detail with a block in a list.        *)
DeepTrees ==
    {<<Row(0, "module", "a"), Row(1, "detail", "a"), Row(2, "block", "a"),
       [Row(1, "detail", "b") EXCEPT !.deleted = TRUE]>>,
     <<Row(0, "module", "a"), Row(1, "list", "b"), Row(2, "detail", "a"), Row(3, "block", "b")>>}

Deep == INSTANCE ContentBlocks WITH
    board_node <- node, board_page <- page, board_page_version <- pageVersion,
    call <- asks, rows <- locks, boot <- start, calls <- asked, crashes <- deaths,
    Types <- {"module", "detail", "block"}, Reserved <- {"b"}, Paths <- {},
    InitialTrees <- DeepTrees, MaxNodes <- 6, MaxVersions <- 1, MaxCrash <- 0

BoardInit ==
    /\ part \in Parts
    /\ Init /\ ContentInit /\ TableInit /\ ReadInit /\ Deep!BlockInit
    /\ part = "content" \/ board_node = CHOOSE t \in InitialTrees : TRUE
    /\ part = "blocks" \/ node = CHOOSE t \in DeepTrees : TRUE

BoardNext ==
    /\ \/ part = "tokens"  /\ Next        /\ UNCHANGED <<contentVars, tableVars, readVars, deepVars>>
       \/ part = "content" /\ ContentNext /\ UNCHANGED <<vars, tableVars, readVars, deepVars>>
       \/ part = "tables"  /\ TableNext   /\ UNCHANGED <<vars, contentVars, readVars, deepVars>>
       \/ part = "reads"   /\ ReadNext    /\ UNCHANGED <<vars, contentVars, tableVars, deepVars>>
       \/ part = "blocks"  /\ Deep!BlockNext /\ UNCHANGED <<vars, contentVars, tableVars, readVars>>
    /\ UNCHANGED part

BoardSpec == BoardInit /\ [][BoardNext]_boardVars

(* What the store with blocks keeps of the tree, Deep!StoreKeepsTree; part *)
(* only spares TLC the steps that change nothing of that store.            *)
StoreKeepsTree == [][part = "blocks" => Deep!KeepsTree]_(Deep!Tree!treeVars)

(* Nothing; a detail in a list that can be moved; one whose name is taken  *)
(* by a deleted node.                                                      *)
MCInitialTrees ==
    {<<>>,
     <<Row(0, "module", "a"), Row(1, "list", "a"), Row(2, "detail", "b")>>,
     <<Row(0, "module", "a"), Row(1, "list", "a"), Row(2, "detail", "b"),
       [Row(1, "detail", "b") EXCEPT !.deleted = TRUE]>>}

(* For readers: a module with a detail of three pages of blocks, so that a *)
(* block may come and go again between two of them.                        *)
MCShelf == <<Row(0, "module", "a"), Row(1, "detail", "b"), Row(2, "block", "a"), Row(2, "block", "d"),
             Row(2, "block", "e"), Row(2, "block", "f"), Row(2, "block", "g")>>
MCAddresses == {<<"a">>, <<"a", "b">>}
MCUploads == {{<<"index.html">>}, {<<"index.html">>, <<"b">>, <<"app.js">>}, {<<"b">>}}
MCAsked == {[segs |-> s, trailing |-> t] :
              s \in {<<"a">>, <<"a", "b">>, <<"a", "app.js">>, <<"a", "b", "app.js">>}, t \in BOOLEAN}
MCQueries == {<<0, 0>>, <<2, 3>>}

(* A module with a detail. *)
MCSmallTree == {<<Row(0, "module", "a"), Row(1, "detail", "a")>>}

Symmetry == Permutations(Tokens) \cup Permutations(Clients) \cup Permutations(Agents)
=============================================================================
