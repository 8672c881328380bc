----------------------------- MODULE BoardTables -----------------------------
(***************************************************************************)
(* Kinds, items and html fragments of the board (projects/board/mysql.go)  *)
(* behind its tools (mcp.go).  There are no transactions: a call is        *)
(* several statements, each a step, and calls interleave.  The last SELECT *)
(* of a call, which only reads the answer, is left out; so are list_items, *)
(* get_kind_html and Summary, which change nothing.  Names and contents    *)
(* that cleanName, cleanContent, parseDay or parseKindHTML refuse have no  *)
(* effect.                                                                 *)
(***************************************************************************)
EXTENDS Naturals, Sequences

CONSTANTS
    Agents,     \* clients that call the tools
    Names,      \* names of kinds
    Columns,    \* columns of an item besides its kind: content, type, date, extra
    Values,     \* what they hold
    Htmls,      \* html fragments
    MaxItem,    \* bound: items
    MaxHtml,    \* bound: fragments
    MaxTool     \* bound: tool calls

VARIABLES
    board_kind,       \* names, by id
    board_item,       \* id -> row, for the rows there are
    board_kind_html,  \* id -> row
    lastItem, lastHtml,  \* AUTO_INCREMENT
    tool,             \* the tool call each agent is in
    tools,
    named,            \* history: item -> what was last asked for, column by column
    overlapped        \* history: items an update wrote over that had changed since it read them

tableVars == <<board_kind, board_item, board_kind_html, lastItem, lastHtml, tool, tools, named, overlapped>>
itemVars  == <<board_item, lastItem, named, overlapped>>
htmlVars  == <<board_kind_html, lastHtml>>

IdleTool == [at |-> "idle"]

kindByName(n) == {k \in DOMAIN board_kind : board_kind[k] = n}
htmlByKindID(k) == {h \in DOMAIN board_kind_html : board_kind_html[h].kind = k}

With(f, x, y)  == [z \in DOMAIN f \cup {x} |-> IF z = x THEN y ELSE f[z]]
Without(f, x)  == [z \in DOMAIN f \ {x} |-> f[z]]
Over(row, change) == [col \in DOMAIN row |-> IF col \in DOMAIN change THEN change[col] ELSE row[col]]

TableInit ==
    /\ board_kind = <<>>
    /\ board_item = <<>> /\ board_kind_html = <<>> /\ lastItem = 0 /\ lastHtml = 0
    /\ tool = [a \in Agents |-> IdleTool] /\ tools = 0
    /\ named = <<>> /\ overlapped = {}

Ask(a) ==
    /\ tool[a] = IdleTool
    /\ tools < MaxTool
    /\ tools' = tools + 1

At(a, place) == tool[a].at = place /\ UNCHANGED tools
Then(a, t)   == tool' = [tool EXCEPT ![a] = t]
Done(a)      == Then(a, IdleTool)

(* The statement fails, or the board dies. *)
ToolFails(a) ==
    /\ tool[a] # IdleTool
    /\ Done(a)
    /\ UNCHANGED <<board_kind, itemVars, htmlVars, tools>>

(* INSERT; a name that is there is refused by its key, and read. *)
create_kind(a, n) ==
    /\ Ask(a)
    /\ board_kind' = IF kindByName(n) = {} THEN Append(board_kind, n) ELSE board_kind
    /\ UNCHANGED <<itemVars, htmlVars, tool>>

add_item(a, n, row) ==
    /\ Ask(a)
    /\ \E k \in kindByName(n) : Then(a, [at |-> "add", row |-> With(row, "kind", k)])
    /\ UNCHANGED <<board_kind, itemVars, htmlVars>>

InsertItem(a) ==
    /\ At(a, "add")
    /\ lastItem < MaxItem
    /\ lastItem' = lastItem + 1
    /\ board_item' = With(board_item, lastItem', tool[a].row)
    /\ named' = With(named, lastItem', tool[a].row)
    /\ Done(a)
    /\ UNCHANGED <<board_kind, htmlVars, overlapped>>

(* UpdateItem reads the row, then the kind if one is given ... *)
update_item(a, i, n, change) ==
    /\ Ask(a)
    /\ i \in DOMAIN board_item
    /\ Then(a, [at |-> IF n = {} THEN "write" ELSE "kind", id |-> i, name |-> n, cur |-> board_item[i], change |-> change])
    /\ UNCHANGED <<board_kind, itemVars, htmlVars>>

UpdateKind(a) ==
    /\ At(a, "kind")
    /\ LET ks == UNION {kindByName(n) : n \in tool[a].name}
       IN  IF ks = {} THEN Done(a)
           ELSE \E k \in ks : Then(a, [tool[a] EXCEPT !.at = "write", !.change = With(@, "kind", k)])
    /\ UNCHANGED <<board_kind, itemVars, htmlVars>>

WriteItemFirst(a) ==
    /\ At(a, "write")
    /\ LET t == tool[a]
           blank == [col \in DOMAIN t.cur |-> IF col = "kind" THEN t.cur[col] ELSE CHOOSE v \in Values : TRUE]
       IN  IF t.id \in DOMAIN board_item
           THEN /\ board_item' = [board_item EXCEPT ![t.id] = Over(blank, t.change)]
                /\ named' = [named EXCEPT ![t.id] = Over(@, t.change)]
                /\ overlapped' = IF board_item[t.id] = t.cur THEN overlapped ELSE overlapped \cup {t.id}
           ELSE UNCHANGED <<board_item, named, overlapped>>
    /\ Done(a)
    /\ UNCHANGED <<board_kind, htmlVars, lastItem>>

(* ... and writes every column, those not given as it read them. *)
WriteItem(a) ==
    /\ At(a, "write")
    /\ LET t == tool[a]
       IN  IF t.id \in DOMAIN board_item
           THEN /\ board_item' = [board_item EXCEPT ![t.id] = Over(t.cur, t.change)]
                /\ named' = [named EXCEPT ![t.id] = Over(@, t.change)]
                /\ overlapped' = IF board_item[t.id] = t.cur THEN overlapped ELSE overlapped \cup {t.id}
           ELSE UNCHANGED <<board_item, named, overlapped>>
    /\ Done(a)
    /\ UNCHANGED <<board_kind, htmlVars, lastItem>>

delete_item(a, i) ==
    /\ Ask(a)
    /\ i \in DOMAIN board_item
    /\ board_item' = Without(board_item, i)
    /\ named' = Without(named, i)
    /\ UNCHANGED <<board_kind, lastItem, overlapped, htmlVars, tool>>

create_kind_html(a, n, h) ==
    /\ Ask(a)
    /\ \E k \in kindByName(n) : Then(a, [at |-> "insert html", kind |-> k, text |-> h])
    /\ UNCHANGED <<board_kind, itemVars, htmlVars>>

(* kind_id is UNIQUE. *)
InsertHtml(a) ==
    /\ At(a, "insert html")
    /\ IF htmlByKindID(tool[a].kind) = {}
       THEN /\ lastHtml < MaxHtml
            /\ lastHtml' = lastHtml + 1
            /\ board_kind_html' = With(board_kind_html, lastHtml', [kind |-> tool[a].kind, text |-> tool[a].text])
       ELSE UNCHANGED htmlVars
    /\ Done(a)
    /\ UNCHANGED <<board_kind, itemVars>>

(* GetKindHTML finds the row's id, by which it is then changed. *)
update_kind_html(a, n, h) ==
    /\ Ask(a)
    /\ \E k \in kindByName(n) : \E id \in htmlByKindID(k) :
          Then(a, [at |-> "update html", id |-> id, text |-> h])
    /\ UNCHANGED <<board_kind, itemVars, htmlVars>>

WriteHtml(a) ==
    /\ At(a, "update html")
    /\ board_kind_html' = IF tool[a].id \in DOMAIN board_kind_html
                          THEN [board_kind_html EXCEPT ![tool[a].id].text = tool[a].text]
                          ELSE board_kind_html
    /\ Done(a)
    /\ UNCHANGED <<board_kind, itemVars, lastHtml>>

delete_kind_html(a, n) ==
    /\ Ask(a)
    /\ \E k \in kindByName(n) : \E id \in htmlByKindID(k) : Then(a, [at |-> "delete html", id |-> id, kind |-> k])
    /\ UNCHANGED <<board_kind, itemVars, htmlVars>>

RemoveHtml(a) ==
    /\ At(a, "delete html")
    /\ board_kind_html' = Without(board_kind_html, tool[a].id)
    /\ Done(a)
    /\ UNCHANGED <<board_kind, itemVars, lastHtml>>

Changes == UNION {[cols -> Values] : cols \in SUBSET Columns}

TableNext ==
    \E a \in Agents :
        \/ \E n \in Names : \/ create_kind(a, n)
                            \/ \E row \in [Columns -> Values] : add_item(a, n, row)
                            \/ \E h \in Htmls : create_kind_html(a, n, h) \/ update_kind_html(a, n, h)
                            \/ delete_kind_html(a, n)
        \/ \E i \in 1..MaxItem : \/ \E n \in {{}} \cup {{m} : m \in Names}, ch \in Changes : update_item(a, i, n, ch)
                                 \/ delete_item(a, i)
        \/ InsertItem(a) \/ UpdateKind(a) \/ WriteItem(a)
        \/ InsertHtml(a) \/ WriteHtml(a) \/ RemoveHtml(a)
        \/ ToolFails(a)

TableSpec == TableInit /\ [][TableNext]_tableVars

-----------------------------------------------------------------------------
(* Properties. *)

(* update_item changes the fields it is sent (mcp.go:87): every column of  *)
(* an item has the value last asked for, whatever calls came before,       *)
(* unless two updates of it overlapped.  When they do, the one that writes *)
(* last puts back the columns it had read: UpdateItem takes no lock.       *)
UpdatesKept == \A i \in DOMAIN board_item \ overlapped : board_item[i] = named[i]
=============================================================================
