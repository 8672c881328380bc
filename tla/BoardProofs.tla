----------------------------- MODULE BoardProofs -----------------------------
(***************************************************************************)
(* Proofs about the stores of the board:                                   *)
(*   TokenStore, for every set of tokens and any number of operations,     *)
(*     failed saves and restarts;                                          *)
(*   BoardTables, for any number of agents, kinds, items and tool calls;   *)
(*   BoardReads, for every shelf, page size and number of pages;           *)
(*   ContentMysql, for any number of clients, calls, crashes and failed    *)
(*     statements: what flattenLists keeps, and that the store implements  *)
(*     ContentTree where nodes have one level below the module;            *)
(*   ContentBlocks: what the same store keeps of the tree with any number  *)
(*     of levels.                                                          *)
(*                                                                         *)
(* The two promises about tokens are not inductive: what SaveFails may   *)
(* do depends on how far the operation that holds the mutex has come       *)
(* (InFlight), and a token nobody created must not be in the list or in    *)
(* the file (Unasked). The other invariants precede their theorems.        *)
(***************************************************************************)
EXTENDS TokenStore, ContentBlocks, BoardTables, BoardReads, FiniteSetTheorems, SequenceTheorems,
        WellFoundedInduction, TLAPS

(* The operation in flight: an unsaved Create is in the list and not yet   *)
(* in the file; a Delete has left the list; a saved one, the file too.     *)
InFlight ==
    op # None =>
        /\ op.kind = "Create" =>
             /\ told[op.token] = "asked"
             /\ op.token \in items
             /\ IF op.saved THEN op.token \in file ELSE op.token \notin file
        /\ op.kind = "Delete" =>
             /\ told[op.token] = "revoking"
             /\ op.token \notin items
             /\ op.saved => op.token \notin file

(* A token that was never asked for is nowhere. *)
Unasked == \A t \in Tokens : told[t] = "unused" => t \notin items \cup file

Promises == IssuedWorks /\ RefusedNeverWorks

(* The inductive invariant. *)
Inv == TypeOK /\ InFlight /\ Unasked /\ Promises

USE DEF Ops

LEMMA InitInv == Init => Inv
BY TokenAssumption
   DEF Init, Inv, TypeOK, InFlight, Unasked, Promises, IssuedWorks, RefusedNeverWorks

(* Every action preserves the types. *)
LEMMA NextTypes == ASSUME TypeOK, [Next]_vars PROVE TypeOK'
<1>1. CASE UNCHANGED vars
  BY <1>1 DEF TypeOK, vars
<1>2. ASSUME NEW t \in Tokens, Create(t) PROVE TypeOK'
  BY <1>2 DEF TypeOK, Create, Begin
<1>3. ASSUME NEW t \in Tokens, Delete(t) PROVE TypeOK'
  BY <1>3 DEF TypeOK, Delete, Begin
<1>4. ASSUME NEW t \in Tokens, Match(t) PROVE TypeOK'
  BY <1>4 DEF TypeOK, Match, Begin
<1>5. CASE Rename
  BY <1>5 DEF TypeOK, Rename
<1>6. CASE Answer
  BY <1>6 DEF TypeOK, Answer
<1>7. CASE SaveFails
  BY <1>7 DEF TypeOK, SaveFails
<1>8. CASE Restart
  BY <1>8 DEF TypeOK, Restart
<1> QED
  BY <1>1, <1>2, <1>3, <1>4, <1>5, <1>6, <1>7, <1>8 DEF Next

(* Every action preserves the invariant. *)
LEMMA NextInv == ASSUME Inv, [Next]_vars PROVE Inv'
<1> USE DEF Unasked, Promises, IssuedWorks, RefusedNeverWorks
<1>0. TypeOK /\ InFlight /\ Unasked /\ Promises /\ TypeOK'
  BY NextTypes DEF Inv
<1>1. CASE UNCHANGED vars
  BY <1>0, <1>1 DEF Inv, InFlight, vars
<1>2. ASSUME NEW t \in Tokens, Create(t) PROVE Inv'
  BY <1>0, <1>2, TokenAssumption DEF Inv, TypeOK, InFlight, Create, Begin
<1>3. ASSUME NEW t \in Tokens, Delete(t) PROVE Inv'
  BY <1>0, <1>3, TokenAssumption DEF Inv, TypeOK, InFlight, Delete, Begin
<1>4. ASSUME NEW t \in Tokens, Match(t) PROVE Inv'
  BY <1>0, <1>4, TokenAssumption DEF Inv, TypeOK, InFlight, Match, Begin
<1>5. CASE Rename
  BY <1>0, <1>5, TokenAssumption DEF Inv, TypeOK, InFlight, Rename
<1>6. CASE Answer
  BY <1>0, <1>6, TokenAssumption DEF Inv, TypeOK, InFlight, Answer
<1>7. CASE SaveFails
  BY <1>0, <1>7, TokenAssumption DEF Inv, TypeOK, InFlight, SaveFails
<1>8. CASE Restart
  BY <1>0, <1>8, TokenAssumption DEF Inv, TypeOK, InFlight, Restart
<1> QED
  BY <1>1, <1>2, <1>3, <1>4, <1>5, <1>6, <1>7, <1>8 DEF Next

(* Inv holds in every reachable state of the token store. *)
THEOREM Invariant == Spec => []Inv
<1>1. Init => Inv
  BY InitInv
<1>2. Inv /\ [Next]_vars => Inv'
  BY NextInv
<1> QED
  BY <1>1, <1>2, PTL DEF Spec

(* Whatever saves fail and whenever the process dies, a token handed out   *)
(* is in the list and in tokens.json until somebody asks to delete it.     *)
THEOREM IssuedTokenWorks == Spec => []IssuedWorks
<1>1. Inv => IssuedWorks
  BY DEF Inv, Promises
<1> QED
  BY <1>1, Invariant, PTL

(* A token whose creation failed or whose deletion was acknowledged never  *)
(* works, after any later save or restart.                                 *)
THEOREM RefusedTokenNeverWorks == Spec => []RefusedNeverWorks
<1>1. Inv => RefusedNeverWorks
  BY DEF Inv, Promises
<1> QED
  BY <1>1, Invariant, PTL

-----------------------------------------------------------------------------
(* Kinds, items and html fragments. *)

(* The rows and the history of what was asked for speak of the same items. *)
SameItems == DOMAIN board_item = DOMAIN named

TableInv == SameItems /\ UpdatesKept

LEMMA TableInitially == TableInit => TableInv
  BY DEF TableInit, TableInv, SameItems, UpdatesKept

LEMMA TableInStep == TableInv /\ [TableNext]_tableVars => TableInv'
<1> SUFFICES ASSUME TableInv, [TableNext]_tableVars PROVE TableInv'
  OBVIOUS
<1>0. /\ DOMAIN board_item = DOMAIN named
      /\ \A i \in DOMAIN board_item : i \in overlapped \/ board_item[i] = named[i]
  BY DEF TableInv, SameItems, UpdatesKept
<1>1. CASE UNCHANGED itemVars
  BY <1>0, <1>1 DEF TableInv, SameItems, UpdatesKept, itemVars
<1>2. ASSUME NEW a \in Agents, InsertItem(a) PROVE TableInv'
  <2>1. /\ overlapped' = overlapped
        /\ board_item' = [z \in DOMAIN board_item \cup {lastItem'} |->
                            IF z = lastItem' THEN tool[a].row ELSE board_item[z]]
        /\ named' = [z \in DOMAIN named \cup {lastItem'} |->
                       IF z = lastItem' THEN tool[a].row ELSE named[z]]
    BY <1>2 DEF InsertItem, With
  <2> QED
    BY <1>0, <2>1 DEF TableInv, SameItems, UpdatesKept
<1>3. ASSUME NEW a \in Agents, WriteItem(a) PROVE TableInv'
  <2> DEFINE i == tool[a].id
             put == Over(tool[a].cur, tool[a].change)
             ask == Over(named[i], tool[a].change)
  <2>1. CASE i \notin DOMAIN board_item
    <3>1. UNCHANGED itemVars
      BY <1>3, <2>1 DEF WriteItem, itemVars
    <3> QED
      BY <1>1, <3>1
  <2>2. CASE i \in DOMAIN board_item
    <3>1. /\ board_item' = [board_item EXCEPT ![i] = put] /\ named' = [named EXCEPT ![i] = ask]
          /\ overlapped' = IF board_item[i] = tool[a].cur THEN overlapped ELSE overlapped \cup {i}
      BY <1>3, <2>2 DEF WriteItem
    <3>2. i \notin overlapped' => put = ask
      BY <1>0, <2>2, <3>1
    <3> HIDE DEF i, put, ask
    <3> QED
      BY <1>0, <2>2, <3>1, <3>2 DEF TableInv, SameItems, UpdatesKept
  <2> QED
    BY <2>1, <2>2
<1>4. ASSUME NEW a \in Agents, NEW i \in 1..MaxItem, delete_item(a, i) PROVE TableInv'
  <2>1. /\ board_item' = [z \in DOMAIN board_item \ {i} |-> board_item[z]]
        /\ named' = [z \in DOMAIN named \ {i} |-> named[z]]
        /\ overlapped' = overlapped
    BY <1>4 DEF delete_item, Without
  <2> QED
    BY <1>0, <2>1 DEF TableInv, SameItems, UpdatesKept
<1>5. ASSUME NEW a \in Agents,
             \/ \E n \in Names : \/ create_kind(a, n)
                                 \/ \E row \in [Columns -> Values] : add_item(a, n, row)
                                 \/ \E h \in Htmls : create_kind_html(a, n, h) \/ update_kind_html(a, n, h)
                                 \/ delete_kind_html(a, n)
             \/ \E i \in 1..MaxItem, n \in {{}} \cup {{m} : m \in Names}, change \in Changes :
                   update_item(a, i, n, change)
             \/ UpdateKind(a) \/ InsertHtml(a) \/ WriteHtml(a) \/ RemoveHtml(a) \/ ToolFails(a)
      PROVE  UNCHANGED itemVars
  BY <1>5 DEF create_kind, add_item, create_kind_html, update_kind_html, delete_kind_html, update_item,
     UpdateKind, InsertHtml, WriteHtml, RemoveHtml, ToolFails
<1>6. CASE UNCHANGED tableVars
  BY <1>1, <1>6 DEF tableVars, itemVars
<1> QED
  BY <1>1, <1>2, <1>3, <1>4, <1>5, <1>6 DEF TableNext

(* The tools of any number of agents interleave statement by statement,    *)
(* fail and repeat: an item that no overlapping update has written over    *)
(* holds in every column what update_item or add_item last named for it.   *)
THEOREM UpdatesAreKept == TableSpec => []UpdatesKept
<1>1. TableInv => UpdatesKept
  BY DEF TableInv
<1> QED
  BY <1>1, TableInitially, TableInStep, PTL DEF TableSpec

-----------------------------------------------------------------------------
(* Requests for content: sets of nodes, the newest first. *)

\* A node has more newer ones than a node that is newer than it.
LEMMA NewerDiffer ==
  ASSUME NEW S \in SUBSET Nat, IsFiniteSet(S), NEW a \in S, NEW b \in S, a > b
  PROVE  Newer(S, a) < Newer(S, b)
<1> DEFINE A == {c \in S : c > a}
           B == {c \in S : c > b}
<1>1. A \subseteq B /\ B \subseteq S /\ a \in B /\ a \notin A
  <2>1. \A c \in A : c \in B
    BY SMT
  <2>2. a \in B /\ a \notin A
    BY SMT
  <2>3. B \subseteq S
    OBVIOUS
  <2> HIDE DEF A, B
  <2> QED
    BY <2>1, <2>2, <2>3
<1>2. IsFiniteSet(B) /\ IsFiniteSet(A) /\ Cardinality(A) <= Cardinality(B)
      /\ (Cardinality(B) = Cardinality(A) => A = B)
  BY <1>1, FS_Subset
<1>3. Cardinality(A) \in Nat /\ Cardinality(B) \in Nat
  BY <1>2, FS_CardinalityType
<1> QED
  BY <1>1, <1>2, <1>3 DEF Newer

LEMMA NewerBound ==
  ASSUME NEW S \in SUBSET Nat, IsFiniteSet(S), NEW a \in S
  PROVE  Newer(S, a) \in 0 .. Cardinality(S) - 1 /\ Newer(S, a) \in Nat /\ Cardinality(S) \in Nat
<1> DEFINE A == {c \in S : c > a}
<1>1. A \subseteq S /\ A # S
  BY SMT
<1>2. IsFiniteSet(A) /\ Cardinality(A) <= Cardinality(S) /\ (Cardinality(S) = Cardinality(A) => S = A)
  BY <1>1, FS_Subset
<1>3. Cardinality(A) \in Nat /\ Cardinality(S) \in Nat
  BY <1>2, FS_CardinalityType
<1> QED
  BY <1>1, <1>2, <1>3 DEF Newer

LEMMA NewerOrder ==
  ASSUME NEW S \in SUBSET Nat, IsFiniteSet(S)
  PROVE  /\ \A a, b \in S : Newer(S, a) < Newer(S, b) <=> a > b
         /\ \A a, b \in S : Newer(S, a) = Newer(S, b) => a = b
<1>1. \A a, b \in S : a > b => Newer(S, a) < Newer(S, b)
  BY NewerDiffer
<1>2. \A a \in S : Newer(S, a) \in Nat /\ a \in Nat
  BY NewerBound
<1>3. \A a, b \in S : a > b \/ b > a \/ a = b
  BY <1>2
<1> QED
  BY <1>1, <1>2, <1>3

\* Every number of newer ones below the size of the set is that of a node.
LEMMA NewerOnto ==
  ASSUME NEW S \in SUBSET Nat, IsFiniteSet(S)
  PROVE  \A n \in 0 .. Cardinality(S) - 1 : \E a \in S : Newer(S, a) = n
<1> DEFINE T == 0 .. Cardinality(S) - 1
           f == [a \in S |-> Newer(S, a)]
<1>0. Cardinality(S) \in Nat
  BY FS_CardinalityType
<1>1. \A a, b \in S : Newer(S, a) = Newer(S, b) => a = b
  BY NewerOrder
<1>2. f \in Injection(S, T)
  BY <1>1, NewerBound DEF Injection, IsInjective
<1>3. IsFiniteSet(T) /\ Cardinality(T) = Cardinality(S)
  <2>1. 0 \in Int /\ Cardinality(S) - 1 \in Int
    BY <1>0
  <2>2. IsFiniteSet(T) /\ Cardinality(T) = IF 0 > Cardinality(S) - 1 THEN 0 ELSE (Cardinality(S) - 1) - 0 + 1
    BY <2>1, FS_Interval
  <2> QED
    BY <1>0, <2>2
<1>4. f \in Surjection(S, T)
  BY <1>2, <1>3, FS_Injection
<1> QED
  BY <1>4 DEF Surjection

\* The list of a set, the newest first.
LEMMA NewestLists ==
  ASSUME NEW S \in SUBSET Nat, IsFiniteSet(S)
  PROVE  /\ Newest(S) \in Seq(Nat) /\ Len(Newest(S)) = Cardinality(S)
         /\ ToSet(Newest(S)) = S
         /\ \A i, j \in 1 .. Cardinality(S) : i < j => Newest(S)[i] > Newest(S)[j]
<1> DEFINE n == Cardinality(S)
<1>0. n \in Nat
  BY FS_CardinalityType
<1>1. ASSUME NEW k \in 1 .. n PROVE Newest(S)[k] \in S /\ Newer(S, Newest(S)[k]) = k - 1
  <2>1. k - 1 \in 0 .. n - 1
    BY <1>0
  <2>2. \E a \in S : Newer(S, a) = k - 1
    BY <2>1, NewerOnto
  <2>3. Newest(S)[k] = CHOOSE i \in S : Newer(S, i) = k - 1
    BY DEF Newest
  <2> QED
    BY <2>2, <2>3
<1>2. DOMAIN Newest(S) = 1 .. n /\ Newest(S) = [k \in 1 .. n |-> Newest(S)[k]]
  BY DEF Newest
<1> HIDE DEF n
<1>3. Newest(S) \in [1 .. n -> Nat]
  BY <1>1, <1>2
<1>4. Newest(S) \in Seq(Nat) /\ Len(Newest(S)) = n
  BY <1>0, <1>3, SeqDef, LenProperties
<1>5. ASSUME NEW a \in S PROVE a \in ToSet(Newest(S))
  <2>1. Newer(S, a) + 1 \in 1 .. n /\ Newer(S, a) \in Nat
    BY <1>0, NewerBound DEF n
  <2>2. PICK k : k = Newer(S, a) + 1
    OBVIOUS
  <2>3. PICK b : b = Newest(S)[k]
    OBVIOUS
  <2>4. k \in 1 .. n /\ b \in S /\ Newer(S, b) = Newer(S, a)
    BY <1>1, <2>1, <2>2, <2>3
  <2>5. b = a
    BY <2>4, NewerOrder
  <2> QED
    BY <1>2, <2>3, <2>4, <2>5 DEF ToSet
<1>6. \A a \in ToSet(Newest(S)) : a \in S
  BY <1>1, <1>2 DEF ToSet
<1>7. ASSUME NEW i \in 1 .. n, NEW j \in 1 .. n, i < j PROVE Newest(S)[i] > Newest(S)[j]
  <2>1. PICK a : a = Newest(S)[i]
    OBVIOUS
  <2>2. PICK b : b = Newest(S)[j]
    OBVIOUS
  <2>3. a \in S /\ b \in S /\ Newer(S, a) < Newer(S, b)
    BY <1>1, <1>7, <2>1, <2>2
  <2>4. a > b
    BY <2>3, NewerOrder
  <2> QED
    BY <2>1, <2>2, <2>4
<1> QED
  BY <1>4, <1>5, <1>6, <1>7 DEF n

LEMMA Quotient ==
  ASSUME NEW n \in Nat, NEW m \in Nat \ {0}, NEW q \in Nat
  PROVE  n \div m = q <=> q * m <= n /\ n < (q + 1) * m
<1>0. PICK d : d = n \div m
  OBVIOUS
<1>1. d \in Int
  BY <1>0
<1>2. d * m <= n /\ n < d * m + m
  <2>1. (n \div m) * m <= n
    OBVIOUS
  <2>2. n < (n \div m) * m + m
    OBVIOUS
  <2> QED
    BY <1>0, <2>1, <2>2
<1>3. (q + 1) * m = q * m + m
  OBVIOUS
<1>4. ASSUME q < d PROVE q * m + m <= d * m
  <2>1. PICK e \in Nat : d = q + 1 + e
    <3>1. d - q - 1 \in Nat /\ d = q + 1 + (d - q - 1)
      BY <1>1, <1>4
    <3> QED
      BY <3>1
  <2>2. d * m = q * m + m + e * m /\ e * m >= 0
    BY <2>1
  <2> QED
    BY <1>1, <2>2
<1>5. ASSUME d < q PROVE d * m + m <= q * m
  <2>1. PICK e \in Nat : q = d + 1 + e
    <3>1. q - d - 1 \in Nat /\ q = d + 1 + (q - d - 1)
      BY <1>1, <1>5
    <3> QED
      BY <3>1
  <2>2. q * m = d * m + m + e * m /\ e * m >= 0
    BY <1>1, <2>1
  <2> QED
    BY <1>1, <2>2
<1>6. q * m \in Int /\ d * m \in Int
  BY <1>1
<1>7. d = q <=> q * m <= n /\ n < q * m + m
  BY <1>1, <1>2, <1>4, <1>5, <1>6
<1> QED
  BY <1>0, <1>3, <1>7

\* A page holds the nodes that have so many newer ones; the page after the
\* nodes with fewer than F newer ones goes on with them.
LEMMA PageHolds ==
  ASSUME NEW S \in SUBSET Nat, IsFiniteSet(S), NEW page \in Nat \ {0}, NEW size \in Nat \ {0}
  PROVE  /\ PageOf(S, page, size) \in Seq(Nat)
         /\ ToSet(PageOf(S, page, size)) = {i \in S : (page - 1) * size <= Newer(S, i) /\ Newer(S, i) < page * size}
         /\ \A i, j \in 1 .. Len(PageOf(S, page, size)) :
               i < j => PageOf(S, page, size)[i] > PageOf(S, page, size)[j]
<1> DEFINE P == {i \in S : Newer(S, i) \div size = page - 1}
           Q == {i \in S : (page - 1) * size <= Newer(S, i) /\ Newer(S, i) < page * size}
<1>1. page - 1 \in Nat /\ (page - 1) + 1 = page
  OBVIOUS
<1>2. ASSUME NEW i \in S
      PROVE  Newer(S, i) \div size = page - 1 <=> (page - 1) * size <= Newer(S, i) /\ Newer(S, i) < page * size
  <2>1. PICK q : q = page - 1
    OBVIOUS
  <2>2. q \in Nat /\ q + 1 = page /\ Newer(S, i) \in Nat
    BY <1>1, <2>1, NewerBound
  <2>3. PICK n : n = Newer(S, i)
    OBVIOUS
  <2>4. n \div size = q <=> q * size <= n /\ n < (q + 1) * size
    BY <2>2, <2>3, Quotient
  <2> QED
    BY <2>1, <2>2, <2>3, <2>4
<1>3. P = Q
  BY <1>2
<1>4. P \in SUBSET Nat /\ IsFiniteSet(P)
  <2>1. P \subseteq S
    OBVIOUS
  <2> HIDE DEF P
  <2> QED
    BY <2>1, FS_Subset
<1>5. PageOf(S, page, size) = Newest(P)
  BY DEF PageOf
<1> HIDE DEF P, Q
<1>6. /\ Newest(P) \in Seq(Nat) /\ Len(Newest(P)) = Cardinality(P)
      /\ ToSet(Newest(P)) = P
      /\ \A i, j \in 1 .. Cardinality(P) : i < j => Newest(P)[i] > Newest(P)[j]
  BY <1>4, NewestLists
<1> QED
  BY <1>3, <1>5, <1>6 DEF Q

\* Where the nodes that go have at least F newer ones, the others keep F.
LEMMA NewerKept ==
  ASSUME NEW S \in SUBSET Nat, IsFiniteSet(S), NEW R \in SUBSET Nat, IsFiniteSet(R), NEW F \in Nat,
         \A j \in S \ R : Newer(S, j) >= F,
         NEW i \in S, i \in R, Newer(S, i) >= F
  PROVE  Newer(R, i) >= F
<1> DEFINE T == {j \in S : Newer(S, j) < F}
           U == {j \in R : j > i}
           f == [j \in T |-> Newer(S, j)]
<1>1. T \subseteq U
  <2>1. ASSUME NEW j \in T PROVE j \in R /\ j > i
    <3>1. Newer(S, j) \in Nat /\ Newer(S, i) \in Nat /\ j \in S /\ Newer(S, j) < F
      BY NewerBound
    <3>2. Newer(S, j) < Newer(S, i) /\ j \in R
      BY <3>1
    <3> QED
      BY <3>1, <3>2, NewerOrder
  <2> QED
    BY <2>1
<1>2. IsFiniteSet(U) /\ IsFiniteSet(T) /\ Cardinality(T) <= Cardinality(U)
  <2>1. U \subseteq R
    OBVIOUS
  <2> HIDE DEF T, U
  <2> QED
    BY <1>1, <2>1, FS_Subset
<1>3. f \in Surjection(T, 0 .. F - 1)
  <2>1. \A j \in T : Newer(S, j) \in 0 .. F - 1
    BY NewerBound
  <2>2. ASSUME NEW n \in 0 .. F - 1 PROVE \E j \in T : f[j] = n
    <3>1. Newer(S, i) \in 0 .. Cardinality(S) - 1 /\ Cardinality(S) \in Nat
      BY NewerBound
    <3>2. n \in 0 .. Cardinality(S) - 1 /\ n < F
      BY <3>1
    <3>3. PICK j \in S : Newer(S, j) = n
      BY <3>2, NewerOnto
    <3> QED
      BY <3>2, <3>3
  <2>3. f \in [T -> 0 .. F - 1]
    BY <2>1
  <2> HIDE DEF f
  <2> QED
    BY <2>2, <2>3 DEF Surjection
<1>4. Cardinality(0 .. F - 1) = F /\ IsFiniteSet(0 .. F - 1)
  <2>1. IsFiniteSet(0 .. F - 1) /\ Cardinality(0 .. F - 1) = IF 0 > F - 1 THEN 0 ELSE (F - 1) - 0 + 1
    BY FS_Interval
  <2> QED
    BY <2>1
<1>5. Cardinality(0 .. F - 1) <= Cardinality(T)
  <2> HIDE DEF T, f
  <2> QED
    BY <1>2, <1>3, FS_Surjection
<1>6. Cardinality(U) = Newer(R, i) /\ Cardinality(T) \in Nat /\ Cardinality(U) \in Nat
  <2>1. Cardinality(U) = Newer(R, i)
    BY DEF Newer
  <2> HIDE DEF T, U
  <2> QED
    BY <1>2, <2>1, FS_CardinalityType
<1> QED
  <2> HIDE DEF T, U
  <2> QED
    BY <1>2, <1>4, <1>5, <1>6

-----------------------------------------------------------------------------
(* What a request has seen.                                                *)
(*                                                                         *)
(* ReadsWhole speaks of the answers only.  While the blocks are being      *)
(* fetched, those that were there all the time and have not been shown     *)
(* have at least as many newer ones as the pages shown can hold, and the   *)
(* count is not short of them (Going); while a page is being looked for,   *)
(* the pages that were online still are, and those on the path are not     *)
(* longer than what is looked up next (Looking).                           *)

Levels == {"module", "detail", "block"}
Node   == [parent : Nat, type : Levels, slug : STRING, data : {"d"}, sv : {1}, deleted : BOOLEAN]
Asks   == [page : Nat \ {0}, size : 1 .. MaxSize]

Finding == [at : {"find"}, names : Seq(Names3), par : Nat, depth : 1 .. 4, all : BOOLEAN, q : Asks]
Listing == [at : {"count", "select", "listed"}, par : Nat, type : Levels, all : BOOLEAN,
            page : Nat \ {0}, size : 1 .. MaxSize, items : Seq(Nat), total : Nat,
            seen : [kept : SUBSET Nat, lost : BOOLEAN, quiet : BOOLEAN]]
Paging  == [at : {"page"}, ask : Asked, had : SUBSET Addresses, k : 1 .. MaxPageDepth]

StoreTyped ==
    /\ shelf \in Seq(Node)
    /\ prints \in [Addresses -> Seq(Uploads)]
    /\ online \in [Addresses -> Nat]
    /\ \A p \in Addresses : prints[p] # <<>> \/ online[p] # 0 => cleanPagePath(p)

RequestTyped(g) ==
    /\ g.at \in {"rest", "404", "block", "301", "file", "nofile", "nopage", "find", "count", "select", "listed", "page"}
    /\ g.at = "find" => /\ g \in Finding /\ g.depth + Len(g.names) <= 4
                        /\ g.all => g.q = [page |-> 1, size |-> MaxSize]
    /\ g.at \in {"count", "select", "listed"} => g \in Listing
    /\ g.at = "page" => g \in Paging /\ g.k <= Len(g.ask.segs)

(* How many the pages before the next one hold. *)
Before(g) == (g.page - 1) * g.size

Going(g, now) ==
    g.at \in {"count", "select"} /\ g.all =>
        /\ g.size = MaxSize
        /\ g.seen.kept \subseteq now
        /\ g.seen.quiet => /\ ~g.seen.lost
                           /\ g.seen.kept = now
                           /\ ToSet(g.items) = {i \in now : Newer(now, i) < Before(g)}
                           /\ \A i, j \in DOMAIN g.items : i < j => g.items[i] > g.items[j]
        /\ ~g.seen.lost => /\ \A i \in g.seen.kept : i \in ToSet(g.items) \/ Newer(now, i) >= Before(g)
                           /\ g.at = "select" => Cardinality(now) <= g.total

Looking(g, on) ==
    g.at = "page" =>
        \A p \in g.had : on[p] # 0 /\ (IsPrefix(p, g.ask.segs) => Len(p) <= g.k)

ShownWhole(g) ==
    g.at = "listed" /\ g.all /\ g.total <= MaxPage * MaxSize =>
        /\ ~g.seen.lost => g.seen.kept \subseteq ToSet(g.items)
        /\ g.seen.quiet => /\ ToSet(g.items) = g.seen.kept
                           /\ \A i, j \in DOMAIN g.items : i < j => g.items[i] > g.items[j]

ServedWhole(g) ==
    g.at \in {"301", "file", "nofile", "nopage"} =>
        \A p \in g.had : IsPrefix(p, g.ask.segs) => Len(p) <= Len(g.page)

Request(g, now, on) == RequestTyped(g) /\ Going(g, now) /\ Looking(g, on) /\ ShownWhole(g) /\ ServedWhole(g)

ReadInv ==
    /\ StoreTyped
    /\ DOMAIN reader = Readers
    /\ \A r \in Readers : Request(reader[r], Listed(reader[r].par, reader[r].type), online)

Those(ns, par, type) == {i \in Store!Children(ns, {par}) : ns[i].type = type}

LEMMA ThoseFinite ==
  ASSUME NEW ns \in Seq(Node), NEW par, NEW type
  PROVE  Those(ns, par, type) \in SUBSET Nat /\ IsFiniteSet(Those(ns, par, type))
<1> DEFINE L == Those(ns, par, type)
<1>1. Len(ns) \in Nat /\ DOMAIN ns = 1 .. Len(ns)
  BY LenProperties
<1>2. L \subseteq 1 .. Len(ns)
  BY <1>1 DEF Those, Store!Children
<1>3. IsFiniteSet(1 .. Len(ns))
  BY <1>1, FS_Interval
<1> HIDE DEF L
<1>4. L \in SUBSET Nat
  <2>1. \A i \in 1 .. Len(ns) : i \in Nat
    BY <1>1
  <2> QED
    BY <1>2, <2>1, Zenon
<1>5. IsFiniteSet(L)
  BY <1>2, <1>3, FS_Subset
<1> QED
  BY <1>4, <1>5 DEF L

LEMMA ListedFinite ==
  ASSUME StoreTyped, NEW par, NEW type
  PROVE  Listed(par, type) \in SUBSET Nat /\ IsFiniteSet(Listed(par, type)) /\ Cardinality(Listed(par, type)) \in Nat
<1>1. Listed(par, type) = Those(shelf, par, type)
  BY DEF Listed, Those
<1>2. Those(shelf, par, type) \in SUBSET Nat /\ IsFiniteSet(Those(shelf, par, type))
  BY ThoseFinite DEF StoreTyped
<1> QED
  BY <1>1, <1>2, FS_CardinalityType

\* A step of one request.
LEMMA SeesKeeps ==
  ASSUME ReadInv, NEW r \in Readers, NEW rec, Sees(r, rec), Request(rec, Listed(rec.par, rec.type), online)
  PROVE  ReadInv'
<1>1. /\ reader' = [reader EXCEPT ![r] = rec] /\ shelf' = shelf /\ prints' = prints /\ online' = online
      /\ DOMAIN reader = Readers
  BY DEF Sees, ReadInv
<1>2. StoreTyped'
  BY <1>1 DEF ReadInv, StoreTyped
<1>3. ASSUME NEW x \in Readers, NEW g, g = reader'[x]
      PROVE  Request(g, Listed(g.par, g.type)', online')
  <2>2. Listed(g.par, g.type)' = Listed(g.par, g.type)
    BY <1>1 DEF Listed
  <2>3. Request(g, Listed(g.par, g.type), online)
    BY <1>1, <1>3 DEF ReadInv
  <2> QED
    BY <1>1, <2>2, <2>3
<1> QED
  BY <1>1, <1>2, <1>3 DEF ReadInv, Listed

LEMMA ArgsTyped ==
  /\ \A p, n \in Nat : nodePageArgs(p, n) \in Asks
  /\ nodePageArgs(0, MaxSize) = [page |-> 1, size |-> MaxSize]
BY ReadAssumption DEF nodePageArgs, Asks

LEMMA GetKeeps ==
  ASSUME ReadInv, NEW r \in Readers, NEW names \in Seq(Names3), Len(names) <= 3, NEW q \in Queries, Get(r, names, q)
  PROVE  ReadInv'
<1>0. PICK rec : rec = [at |-> "find", names |-> names, par |-> 0, depth |-> 1, all |-> Len(names) = 2,
                       q |-> nodePageArgs(q[1], IF Len(names) = 2 THEN MaxSize ELSE q[2])]
  OBVIOUS
<1>1. Sees(r, rec) /\ (Len(names) < 2 \/ q = <<0, 0>>)
  BY <1>0 DEF Get
<1>2. q[1] \in Nat /\ q[2] \in Nat /\ MaxSize \in Nat /\ Len(names) \in Nat
  BY ReadAssumption, LenProperties
<1>3. rec.q \in Asks /\ (Len(names) = 2 => rec.q = [page |-> 1, size |-> MaxSize])
  <2>1. Len(names) = 2 => q[1] = 0
    BY <1>1, <1>2
  <2>2. rec.q = nodePageArgs(q[1], IF Len(names) = 2 THEN MaxSize ELSE q[2])
    BY <1>0
  <2> QED
    BY <1>2, <2>1, <2>2, ArgsTyped
<1>4. /\ rec \in Finding /\ rec.at = "find" /\ rec.depth = 1 /\ rec.names = names
      /\ rec.all = (Len(names) = 2)
  <2>1. PICK a : a = rec.q
    OBVIOUS
  <2>2. rec = [at |-> "find", names |-> names, par |-> 0, depth |-> 1, all |-> Len(names) = 2, q |-> a]
    BY <1>0, <2>1
  <2> QED
    BY <1>3, <2>1, <2>2 DEF Finding
<1>5. rec.depth + Len(rec.names) <= 4 /\ (rec.all => rec.q = [page |-> 1, size |-> MaxSize])
  <2>1. rec.depth + Len(rec.names) = 1 + Len(names)
    BY <1>4
  <2>2. rec.all => Len(names) = 2
    BY <1>4, Zenon
  <2> QED
    BY <1>2, <1>3, <2>1, <2>2
<1>6. Request(rec, Listed(rec.par, rec.type), online)
  BY <1>4, <1>5 DEF Request, RequestTyped, Going, Looking, ShownWhole, ServedWhole
<1> QED
  BY <1>1, <1>6, SeesKeeps

LEMMA NotFoundKeeps ==
  ASSUME ReadInv, NEW r \in Readers, NEW rec, Sees(r, rec), rec.at \in {"404", "block"}
  PROVE  ReadInv'
<1>1. Request(rec, Listed(rec.par, rec.type), online)
  BY DEF Request, RequestTyped, Going, Looking, ShownWhole, ServedWhole
<1> QED
  BY <1>1, SeesKeeps

LEMMA namedDetailKeeps ==
  ASSUME ReadInv, NEW r \in Readers, namedDetail(r)
  PROVE  ReadInv'
<1>0. PICK g : g = reader[r]
  OBVIOUS
<1>1. g.at = "find" /\ g.names # <<>>
  BY <1>0, Zenon DEF namedDetail
<1>6. \/ NotFound(r)
      \/ \E i \in FindChild(g.par, LevelType[g.depth], Head(g.names)) :
            Sees(r, [g EXCEPT !.par = i, !.names = Tail(g.names), !.depth = g.depth + 1])
  BY <1>0, Zenon DEF namedDetail
<1>2. RequestTyped(g)
  BY <1>0 DEF ReadInv, Request
<1>3. g \in Finding /\ g.depth + Len(g.names) <= 4 /\ (g.all => g.q = [page |-> 1, size |-> MaxSize])
  BY <1>1, <1>2 DEF RequestTyped
<1>4. CASE NotFound(r)
  <2>1. Sees(r, [at |-> "404"]) /\ [at |-> "404"].at = "404"
    BY <1>4 DEF NotFound
  <2> QED
    BY <2>1, NotFoundKeeps
<1>5. ASSUME NEW i \in FindChild(g.par, LevelType[g.depth], Head(g.names)),
             Sees(r, [g EXCEPT !.par = i, !.names = Tail(g.names), !.depth = g.depth + 1])
      PROVE  ReadInv'
  <2>1. PICK rec : rec = [g EXCEPT !.par = i, !.names = Tail(g.names), !.depth = g.depth + 1]
    OBVIOUS
  <2>2. i \in Nat
    <3>1. i \in DOMAIN shelf /\ DOMAIN shelf = 1 .. Len(shelf)
      BY LenProperties DEF FindChild, Store!At, ReadInv, StoreTyped
    <3> QED
      BY <3>1
  <2>3. g.names \in Seq(Names3) /\ g.depth \in 1 .. 4 /\ g.all \in BOOLEAN /\ g.q \in Asks
    BY <1>3 DEF Finding
  <2>4. Tail(g.names) \in Seq(Names3) /\ Len(Tail(g.names)) = Len(g.names) - 1 /\ Len(g.names) \in Nat /\ Len(g.names) >= 1
    <3>1. Len(g.names) \in Nat /\ Len(g.names) # 0
      BY <1>1, <2>3, EmptySeq, LenProperties
    <3> QED
      BY <1>1, <2>3, <3>1, HeadTailProperties
  <2>5. g.depth + 1 \in 1 .. 4
    BY <1>3, <2>3, <2>4
  <2>6. PICK t : t = Tail(g.names)
    OBVIOUS
  <2>7. PICK d : d = g.depth + 1
    OBVIOUS
  <2>8. rec = [g EXCEPT !.par = i, !.names = t, !.depth = d] /\ t \in Seq(Names3) /\ d \in 1 .. 4
    BY <2>1, <2>4, <2>5, <2>6, <2>7
  <2>9. rec \in Finding /\ rec.at = "find" /\ rec.depth = d /\ rec.names = t /\ rec.all = g.all /\ rec.q = g.q
    BY <1>1, <1>3, <2>2, <2>8 DEF Finding
  <2>10. rec.depth + Len(rec.names) <= 4
    <3>1. rec.depth + Len(rec.names) = g.depth + 1 + Len(Tail(g.names))
      BY <2>6, <2>7, <2>9
    <3> QED
      BY <1>3, <2>3, <2>4, <3>1
  <2>11. Request(rec, Listed(rec.par, rec.type), online)
    BY <1>3, <2>9, <2>10 DEF Request, RequestTyped, Going, Looking, ShownWhole, ServedWhole
  <2> QED
    BY <1>5, <2>1, <2>11, SeesKeeps
<1> QED
  BY <1>4, <1>5, <1>6, Zenon

LEMMA ResolvedKeeps ==
  ASSUME ReadInv, NEW r \in Readers, Resolved(r)
  PROVE  ReadInv'
<1> DEFINE g == reader[r]
<1>1. g.at = "find" /\ g.names = <<>> /\ g \in Finding /\ (g.all => g.q = [page |-> 1, size |-> MaxSize])
  BY DEF Resolved, ReadInv, Request, RequestTyped
<1>2. CASE g.depth = 4
  <2>1. Sees(r, [at |-> "block", id |-> g.par]) /\ [at |-> "block", id |-> g.par].at = "block"
    BY <1>2 DEF Resolved
  <2> QED
    BY <2>1, NotFoundKeeps
<1>3. CASE g.depth # 4
  <2>1. PICK type : type = LevelType[g.depth]
    OBVIOUS
  <2>2. PICK now : now = Listed(g.par, type)
    OBVIOUS
  <2>3. PICK rec : rec = [at |-> "count", par |-> g.par, type |-> type, all |-> g.all, page |-> g.q.page,
                          size |-> g.q.size, items |-> <<>>, total |-> 0,
                          seen |-> [kept |-> now, lost |-> FALSE, quiet |-> TRUE]]
    OBVIOUS
  <2>4. Sees(r, rec)
    BY <1>3, <2>1, <2>2, <2>3 DEF Resolved, Fresh
  <2> HIDE DEF g
  <2>5. g.par \in Nat /\ g.depth \in 1 .. 4 /\ g.all \in BOOLEAN /\ g.q \in Asks
    BY <1>1 DEF Finding
  <2>6. type \in Levels
    BY <1>3, <2>1, <2>5 DEF LevelType, Levels
  <2>7. now \in SUBSET Nat /\ IsFiniteSet(now)
    BY <2>2, ListedFinite DEF ReadInv
  <2>8. <<>> \in Seq(Nat) /\ ToSet(<<>>) = {} /\ DOMAIN <<>> = {}
    BY EmptySeq DEF ToSet
  <2>9. rec \in Listing
    BY <2>3, <2>5, <2>6, <2>7, <2>8 DEF Listing, Asks
  <2>10. /\ rec.at = "count" /\ rec.par = g.par /\ rec.type = type /\ rec.all = g.all
         /\ rec.page = g.q.page /\ rec.size = g.q.size /\ rec.items = <<>>
         /\ rec.seen = [kept |-> now, lost |-> FALSE, quiet |-> TRUE]
    BY <2>3
  <2>11. Going(rec, now)
    <3>1. ASSUME rec.all PROVE rec.page = 1 /\ rec.size = MaxSize /\ Before(rec) = 0
      <4>1. rec.page = 1 /\ rec.size = MaxSize
        BY <1>1, <2>10, <3>1
      <4> QED
        BY <4>1, ReadAssumption DEF Before
    <3>2. \A i \in now : Newer(now, i) \in Nat
      BY <2>7, NewerBound
    <3> QED
      BY <2>8, <2>10, <3>1, <3>2 DEF Going
  <2>12. Request(rec, Listed(rec.par, rec.type), online)
    BY <2>2, <2>9, <2>10, <2>11 DEF Request, RequestTyped, Looking, ShownWhole, ServedWhole
  <2> QED
    BY <2>4, <2>12, SeesKeeps
<1> QED
  BY <1>2, <1>3

LEMMA CountKeeps ==
  ASSUME ReadInv, NEW r \in Readers, Count(r)
  PROVE  ReadInv'
<1>1. PICK g : g = reader[r]
  OBVIOUS
<1>2. PICK now : now = Listed(g.par, g.type)
  OBVIOUS
<1>3. PICK rec : rec = [g EXCEPT !.at = "select", !.total = Cardinality(now)]
  OBVIOUS
<1>4. g.at = "count" /\ Sees(r, rec)
  BY <1>1, <1>2, <1>3 DEF Count
<1>5. g \in Listing /\ Going(g, now)
  BY <1>1, <1>2, <1>4 DEF ReadInv, Request, RequestTyped
<1>6. Cardinality(now) \in Nat
  BY <1>2, ListedFinite DEF ReadInv
<1>7. /\ rec \in Listing /\ rec.at = "select" /\ rec.par = g.par /\ rec.type = g.type /\ rec.all = g.all
      /\ rec.page = g.page /\ rec.size = g.size /\ rec.items = g.items /\ rec.seen = g.seen
      /\ rec.total = Cardinality(now)
  BY <1>3, <1>5, <1>6 DEF Listing
<1>8. Going(rec, now)
  BY <1>4, <1>5, <1>6, <1>7 DEF Going, Before
<1>9. Request(rec, Listed(rec.par, rec.type), online)
  BY <1>2, <1>7, <1>8 DEF Request, RequestTyped, Looking, ShownWhole, ServedWhole
<1> QED
  BY <1>4, <1>9, SeesKeeps

LEMMA ConcatShows ==
  ASSUME NEW s \in Seq(Nat), NEW t \in Seq(Nat)
  PROVE  /\ s \o t \in Seq(Nat)
         /\ ToSet(s \o t) = ToSet(s) \cup ToSet(t)
         /\ (/\ \A i, j \in DOMAIN s : i < j => s[i] > s[j]
             /\ \A i, j \in DOMAIN t : i < j => t[i] > t[j]
             /\ \A a \in ToSet(s), b \in ToSet(t) : a > b)
            => \A i, j \in DOMAIN (s \o t) : i < j => (s \o t)[i] > (s \o t)[j]
<1>1. PICK u : u = s \o t
  OBVIOUS
<1>2. PICK m, n \in Nat : m = Len(s) /\ n = Len(t) /\ DOMAIN s = 1 .. m /\ DOMAIN t = 1 .. n
  BY LenProperties
<1>3. /\ u \in Seq(Nat) /\ Len(u) = m + n
      /\ \A i \in 1 .. m + n : u[i] = IF i <= m THEN s[i] ELSE t[i - m]
  BY <1>1, <1>2, ConcatProperties
<1>4. DOMAIN u = 1 .. m + n
  BY <1>3, LenProperties
<1>5. ASSUME NEW i \in 1 .. m PROVE i \in 1 .. m + n /\ u[i] = s[i]
  BY <1>2, <1>3
<1>6. ASSUME NEW i \in 1 .. n PROVE i + m \in 1 .. m + n /\ u[i + m] = t[i]
  <2>1. i + m \in 1 .. m + n /\ ~(i + m <= m) /\ (i + m) - m = i
    BY <1>2
  <2> QED
    BY <1>3, <2>1
<1>7. ToSet(u) = ToSet(s) \cup ToSet(t)
  <2>1. ASSUME NEW a \in ToSet(s) PROVE a \in ToSet(u)
    BY <1>2, <1>4, <1>5 DEF ToSet
  <2>2. ASSUME NEW a \in ToSet(t) PROVE a \in ToSet(u)
    <3>1. PICK i \in 1 .. n : t[i] = a
      BY <1>2 DEF ToSet
    <3>2. i + m \in DOMAIN u /\ u[i + m] = a
      BY <1>4, <1>6, <3>1
    <3> QED
      BY <3>2 DEF ToSet
  <2>3. ASSUME NEW a \in ToSet(u) PROVE a \in ToSet(s) \cup ToSet(t)
    <3>1. PICK i \in 1 .. m + n : u[i] = a
      BY <1>4 DEF ToSet
    <3>2. CASE i <= m
      <4>1. i \in 1 .. m /\ s[i] = a
        BY <1>2, <1>3, <3>1, <3>2
      <4> QED
        BY <1>2, <4>1 DEF ToSet
    <3>3. CASE ~(i <= m)
      <4>1. i - m \in 1 .. n
        BY <3>3
      <4>2. t[i - m] = a
        BY <1>3, <3>1, <3>3
      <4> QED
        BY <1>2, <4>1, <4>2 DEF ToSet
    <3> QED
      BY <3>2, <3>3
  <2> QED
    BY <2>1, <2>2, <2>3
<1>8. ASSUME \A i, j \in DOMAIN s : i < j => s[i] > s[j],
             \A i, j \in DOMAIN t : i < j => t[i] > t[j],
             \A a \in ToSet(s), b \in ToSet(t) : a > b,
             NEW i \in DOMAIN u, NEW j \in DOMAIN u, i < j
      PROVE  u[i] > u[j]
  <2>1. i \in 1 .. m + n /\ j \in 1 .. m + n
    BY <1>4
  <2>2. CASE j <= m
    <3>1. i \in 1 .. m /\ j \in 1 .. m
      BY <1>2, <1>8, <2>1, <2>2
    <3> QED
      BY <1>2, <1>5, <1>8, <3>1
  <2>3. CASE i <= m /\ ~(j <= m)
    <3>1. i \in 1 .. m /\ j - m \in 1 .. n
      BY <2>1, <2>3
    <3>2. u[i] = s[i] /\ u[j] = t[j - m]
      BY <1>3, <2>1, <2>3
    <3>3. s[i] \in ToSet(s) /\ t[j - m] \in ToSet(t)
      BY <1>2, <3>1 DEF ToSet
    <3> QED
      BY <1>8, <3>2, <3>3
  <2>4. CASE ~(i <= m) /\ ~(j <= m)
    <3>1. i - m \in 1 .. n /\ j - m \in 1 .. n /\ i - m < j - m
      BY <1>2, <1>8, <2>1, <2>4
    <3>2. u[i] = t[i - m] /\ u[j] = t[j - m]
      BY <1>3, <2>1, <2>4
    <3> QED
      BY <1>2, <1>8, <3>1, <3>2
  <2> QED
    BY <1>2, <1>8, <2>1, <2>2, <2>3, <2>4
<1> QED
  BY <1>1, <1>3, <1>7, <1>8

\* What has been shown after one more page.
LEMMA PageShown ==
  ASSUME NEW g \in Listing, NEW now \in SUBSET Nat, IsFiniteSet(now), g.at = "select", g.all, Going(g, now),
         NEW more, more = g.items \o PageOf(now, g.page, g.size)
  PROVE  /\ ~g.seen.lost => \A i \in g.seen.kept : i \in ToSet(more) \/ Newer(now, i) >= g.page * g.size
         /\ g.seen.quiet => /\ ToSet(more) = {i \in now : Newer(now, i) < g.page * g.size}
                            /\ \A i, j \in DOMAIN more : i < j => more[i] > more[j]
<1>1. g.page \in Nat \ {0} /\ g.size \in Nat \ {0} /\ g.items \in Seq(Nat) /\ g.seen.kept \subseteq now
  BY ReadAssumption DEF Listing, Going
<1>2. PICK new : new = PageOf(now, g.page, g.size)
  OBVIOUS
<1>3. PICK F : F = Before(g)
  OBVIOUS
<1>4. PICK H : H = g.page * g.size
  OBVIOUS
<1>5. /\ F \in Nat /\ H \in Nat /\ F <= H
  <2>1. PICK k \in Nat : g.page = k + 1
    <3>1. g.page - 1 \in Nat /\ g.page = (g.page - 1) + 1
      BY <1>1
    <3> QED
      BY <3>1
  <2>2. PICK m \in Nat : m = g.size
    BY <1>1
  <2>3. (k + 1) - 1 = k /\ (k + 1) * m = k * m + m /\ k * m \in Nat
    OBVIOUS
  <2>4. F = k * m /\ H = k * m + m
    BY <1>3, <1>4, <2>1, <2>2, <2>3 DEF Before
  <2> QED
    BY <2>3, <2>4
<1>6. /\ new \in Seq(Nat)
      /\ ToSet(new) = {i \in now : F <= Newer(now, i) /\ Newer(now, i) < H}
      /\ \A i, j \in DOMAIN new : i < j => new[i] > new[j]
  <2>1. /\ PageOf(now, g.page, g.size) \in Seq(Nat)
        /\ ToSet(PageOf(now, g.page, g.size)) =
             {i \in now : (g.page - 1) * g.size <= Newer(now, i) /\ Newer(now, i) < g.page * g.size}
        /\ \A i, j \in 1 .. Len(PageOf(now, g.page, g.size)) :
              i < j => PageOf(now, g.page, g.size)[i] > PageOf(now, g.page, g.size)[j]
    BY <1>1, PageHolds
  <2>2. DOMAIN new = 1 .. Len(new)
    BY <1>2, <2>1, LenProperties
  <2> QED
    BY <1>2, <1>3, <1>4, <2>1, <2>2 DEF Before
<1>7. ToSet(more) = ToSet(g.items) \cup ToSet(new)
  BY <1>1, <1>2, <1>6, ConcatShows
<1>8. \A i \in now : Newer(now, i) \in Nat
  BY NewerBound
<1>9. ASSUME ~g.seen.lost, NEW i \in g.seen.kept PROVE i \in ToSet(more) \/ Newer(now, i) >= H
  <2>1. i \in now /\ (i \in ToSet(g.items) \/ Newer(now, i) >= F)
    BY <1>1, <1>3, <1>9 DEF Going
  <2> QED
    BY <1>5, <1>6, <1>7, <1>8, <2>1
<1>10. ASSUME g.seen.quiet
       PROVE  /\ ToSet(more) = {i \in now : Newer(now, i) < H}
              /\ \A i, j \in DOMAIN more : i < j => more[i] > more[j]
  <2>1. /\ ToSet(g.items) = {i \in now : Newer(now, i) < F}
        /\ \A i, j \in DOMAIN g.items : i < j => g.items[i] > g.items[j]
    BY <1>3, <1>10 DEF Going
  <2>2. ToSet(more) = {i \in now : Newer(now, i) < H}
    <3>1. ASSUME NEW i \in now
          PROVE  Newer(now, i) < H <=> Newer(now, i) < F \/ (F <= Newer(now, i) /\ Newer(now, i) < H)
      BY <1>5, <1>8
    <3>2. ToSet(more) = {i \in now : Newer(now, i) < F} \cup {i \in now : F <= Newer(now, i) /\ Newer(now, i) < H}
      BY <1>6, <1>7, <2>1
    <3> QED
      BY <3>1, <3>2
  <2>3. ASSUME NEW a \in ToSet(g.items), NEW b \in ToSet(new) PROVE a > b
    <3>1. a \in now /\ b \in now /\ Newer(now, a) < F /\ F <= Newer(now, b)
      BY <1>6, <2>1
    <3>2. Newer(now, a) < Newer(now, b)
      BY <1>5, <1>8, <3>1
    <3> QED
      BY <3>1, <3>2, NewerOrder
  <2> QED
    BY <1>1, <1>2, <1>6, <2>1, <2>2, <2>3, ConcatShows
<1> QED
  BY <1>4, <1>9, <1>10

LEMMA TimesGrows ==
  ASSUME NEW a \in Nat, NEW b \in Nat, NEW m \in Nat, a >= b
  PROVE  b * m <= a * m
<1>1. PICK k \in Nat : a = b + k
  <2>1. a - b \in Nat /\ a = b + (a - b)
    OBVIOUS
  <2> QED
    BY <2>1
<1>2. (b + k) * m = b * m + k * m /\ k * m \in Nat /\ b * m \in Nat
  OBVIOUS
<1> QED
  BY <1>1, <1>2

LEMMA ListChildrenKeeps ==
  ASSUME ReadInv, NEW r \in Readers, ListChildren(r)
  PROVE  ReadInv'
<1>1. PICK g : g = reader[r]
  OBVIOUS
<1>2. PICK now : now = Listed(g.par, g.type)
  OBVIOUS
<1>3. PICK more : more = g.items \o PageOf(now, g.page, g.size)
  OBVIOUS
<1>4. PICK rec : \/ /\ g.all /\ g.page < MaxPage /\ g.page * g.size < g.total
                    /\ rec = [g EXCEPT !.items = more, !.at = "count", !.page = g.page + 1]
                 \/ /\ ~(g.all /\ g.page < MaxPage /\ g.page * g.size < g.total)
                    /\ rec = [g EXCEPT !.items = more, !.at = "listed", !.page = g.page]
  OBVIOUS
<1>5. g.at = "select" /\ Sees(r, rec)
  BY <1>1, <1>2, <1>3, <1>4 DEF ListChildren
<1>6. g \in Listing /\ Going(g, now)
  BY <1>1, <1>2, <1>5 DEF ReadInv, Request, RequestTyped
<1>7. now \in SUBSET Nat /\ IsFiniteSet(now) /\ Cardinality(now) \in Nat
  BY <1>2, ListedFinite DEF ReadInv
<1>8. /\ g.page \in Nat \ {0} /\ g.size \in Nat \ {0} /\ g.items \in Seq(Nat) /\ g.total \in Nat
      /\ g.size <= MaxSize /\ MaxSize \in Nat /\ MaxPage \in Nat
  BY <1>6, ReadAssumption DEF Listing
<1>9. more \in Seq(Nat)
  <2>1. PageOf(now, g.page, g.size) \in Seq(Nat)
    BY <1>7, <1>8, PageHolds
  <2> QED
    BY <1>3, <1>8, <2>1, ConcatShows
<1>10. /\ rec \in Listing /\ rec.par = g.par /\ rec.type = g.type /\ rec.all = g.all /\ rec.size = g.size
       /\ rec.total = g.total /\ rec.seen = g.seen /\ rec.items = more
  <2>1. ASSUME NEW at \in {"count", "listed"}, NEW page \in Nat \ {0},
               rec = [g EXCEPT !.items = more, !.at = at, !.page = page]
        PROVE  /\ rec \in Listing /\ rec.par = g.par /\ rec.type = g.type /\ rec.all = g.all /\ rec.size = g.size
               /\ rec.total = g.total /\ rec.seen = g.seen /\ rec.items = more
    BY <1>6, <1>9, <2>1 DEF Listing
  <2>2. g.page \in Nat \ {0} /\ g.page + 1 \in Nat \ {0}
    BY <1>8
  <2> QED
    BY <1>4, <2>1, <2>2, Zenon
<1>11. g.all => g.size = MaxSize /\ g.seen.kept \subseteq now
  BY <1>5, <1>6 DEF Going
<1>12. ASSUME g.all
       PROVE  /\ ~g.seen.lost => \A i \in g.seen.kept : i \in ToSet(more) \/ Newer(now, i) >= g.page * g.size
              /\ g.seen.quiet => /\ ToSet(more) = {i \in now : Newer(now, i) < g.page * g.size}
                                 /\ \A i, j \in DOMAIN more : i < j => more[i] > more[j]
  BY <1>3, <1>5, <1>6, <1>7, <1>12, PageShown
<1>13. CASE /\ g.all /\ g.page < MaxPage /\ g.page * g.size < g.total
            /\ rec = [g EXCEPT !.items = more, !.at = "count", !.page = g.page + 1]
  <2>1. rec.at = "count" /\ rec.page = g.page + 1
    BY <1>6, <1>13 DEF Listing
  <2>2. Before(rec) = g.page * g.size
    <3>1. (g.page + 1) - 1 = g.page
      BY <1>8
    <3> QED
      BY <1>10, <2>1, <3>1 DEF Before
  <2>3. g.seen.quiet => ~g.seen.lost /\ g.seen.kept = now
    BY <1>5, <1>6, <1>13 DEF Going
  <2>4. Going(rec, now)
    BY <1>10, <1>11, <1>12, <1>13, <2>1, <2>2, <2>3 DEF Going
  <2>5. Request(rec, Listed(rec.par, rec.type), online)
    BY <1>2, <1>10, <2>1, <2>4 DEF Request, RequestTyped, Looking, ShownWhole, ServedWhole
  <2> QED
    BY <1>5, <2>5, SeesKeeps
<1>14. CASE /\ ~(g.all /\ g.page < MaxPage /\ g.page * g.size < g.total)
            /\ rec = [g EXCEPT !.items = more, !.at = "listed", !.page = g.page]
  <2>1. rec.at = "listed"
    BY <1>6, <1>14 DEF Listing
  <2>2. ASSUME g.all, g.total <= MaxPage * MaxSize
        PROVE  /\ ~g.seen.lost => g.seen.kept \subseteq ToSet(more)
               /\ g.seen.quiet => /\ ToSet(more) = g.seen.kept
                                  /\ \A i, j \in DOMAIN more : i < j => more[i] > more[j]
    <3>1. PICK H : H = g.page * g.size
      OBVIOUS
    <3>2. H \in Nat /\ g.total <= H
      <4>1. CASE g.page < MaxPage
        BY <1>8, <1>14, <2>2, <3>1, <4>1
      <4>2. CASE g.page >= MaxPage
        <5>1. MaxPage * MaxSize <= g.page * MaxSize
          BY <1>8, <4>2, TimesGrows
        <5>2. g.page * MaxSize = H
          BY <1>11, <2>2, <3>1
        <5>3. H \in Nat /\ MaxPage * MaxSize \in Nat
          BY <1>8, <3>1
        <5> QED
          BY <1>8, <2>2, <5>1, <5>2, <5>3
      <4> QED
        BY <1>8, <4>1, <4>2
    <3>3. g.seen.quiet => ~g.seen.lost /\ g.seen.kept = now
      BY <1>5, <1>6, <2>2 DEF Going
    <3>4. ASSUME ~g.seen.lost PROVE \A i \in now : Newer(now, i) < H
      <4>1. Cardinality(now) <= g.total
        BY <1>5, <1>6, <2>2, <3>4 DEF Going
      <4>2. \A i \in now : Newer(now, i) \in 0 .. Cardinality(now) - 1
        BY <1>7, NewerBound
      <4> QED
        BY <1>7, <1>8, <3>2, <4>1, <4>2
    <3>5. \A i \in now : Newer(now, i) \in Nat
      BY <1>7, NewerBound
    <3>6. ASSUME ~g.seen.lost PROVE g.seen.kept \subseteq ToSet(more)
      BY <1>11, <1>12, <2>2, <3>1, <3>2, <3>4, <3>5, <3>6
    <3>7. ASSUME g.seen.quiet PROVE ToSet(more) = g.seen.kept
      <4>1. ToSet(more) = {i \in now : Newer(now, i) < H} /\ g.seen.kept = now /\ ~g.seen.lost
        BY <1>12, <2>2, <3>1, <3>3, <3>7
      <4>2. {i \in now : Newer(now, i) < H} = now
        BY <3>4, <4>1
      <4> QED
        BY <4>1, <4>2
    <3> QED
      BY <1>12, <2>2, <3>6, <3>7
  <2>3. ShownWhole(rec)
    BY <1>10, <2>2 DEF ShownWhole
  <2>4. Request(rec, Listed(rec.par, rec.type), online)
    BY <1>10, <2>1, <2>3 DEF Request, RequestTyped, Going, Looking, ServedWhole
  <2> QED
    BY <1>5, <2>4, SeesKeeps
<1> QED
  BY <1>4, <1>13, <1>14

LEMMA PrefixLength ==
  ASSUME NEW p, NEW s, IsPrefix(p, s)
  PROVE  Len(p) <= Len(s) /\ SubSeq(p, 1, Len(p)) = SubSeq(s, 1, Len(p))
BY DEF IsPrefix

LEMMA GetPageKeeps ==
  ASSUME ReadInv, NEW r \in Readers, NEW ask \in Asked, GetPage(r, ask)
  PROVE  ReadInv'
<1>1. PICK had : had = {p \in Addresses : online[p] # 0}
  OBVIOUS
<1>2. PICK n : n = Len(ask.segs)
  OBVIOUS
<1>3. PICK k : k = IF n > MaxPageDepth THEN MaxPageDepth ELSE n
  OBVIOUS
<1>4. PICK rec : rec = [at |-> "page", ask |-> ask, had |-> had, k |-> k]
  OBVIOUS
<1>5. Sees(r, rec) /\ ask.segs # <<>>
  BY <1>1, <1>2, <1>3, <1>4 DEF GetPage
<1>6. n \in Nat /\ n # 0 /\ MaxPageDepth \in Nat \ {0}
  <2>1. ask.segs \in Seq(STRING)
    BY ReadAssumption
  <2> QED
    BY <1>2, <1>5, <2>1, ReadAssumption, EmptySeq, LenProperties
<1>7. k \in 1 .. MaxPageDepth /\ k <= n
  BY <1>3, <1>6
<1>8. /\ rec \in Paging /\ rec.at = "page" /\ rec.ask = ask /\ rec.had = had /\ rec.k = k
  BY <1>1, <1>4, <1>7 DEF Paging
<1>9. ASSUME NEW p \in had, IsPrefix(p, ask.segs) PROVE Len(p) <= k
  <2>1. p \in Addresses /\ online[p] # 0
    BY <1>1
  <2>2. Len(p) \in 1 .. MaxPageDepth
    BY <2>1 DEF ReadInv, StoreTyped, cleanPagePath
  <2>3. Len(p) <= n
    BY <1>2, <1>9, PrefixLength
  <2> QED
    BY <1>3, <1>6, <2>2, <2>3
<1>10. Looking(rec, online)
  BY <1>1, <1>8, <1>9 DEF Looking
<1>11. Request(rec, Listed(rec.par, rec.type), online)
  BY <1>2, <1>7, <1>8, <1>10 DEF Request, RequestTyped, Going, ShownWhole, ServedWhole
<1> QED
  BY <1>5, <1>11, SeesKeeps

LEMMA servePageKeeps ==
  ASSUME ReadInv, NEW r \in Readers, servePage(r)
  PROVE  ReadInv'
<1>1. PICK g : g = reader[r]
  OBVIOUS
<1>2. PICK p : p = SubSeq(g.ask.segs, 1, g.k)
  OBVIOUS
<1>3. PICK rest : rest = SubSeq(g.ask.segs, g.k + 1, Len(g.ask.segs))
  OBVIOUS
<1>4. PICK name : name = IF rest = <<>> THEN <<"index.html">> ELSE rest
  OBVIOUS
<1> DEFINE done(what) == [at |-> what, page |-> p, name |-> name, ask |-> g.ask, had |-> g.had]
<1>5. g.at = "page"
  BY <1>1 DEF servePage
<1>6. \/ /\ ~cleanPagePath(p) \/ PageFiles(p) = {}
         /\ g.k = 1
         /\ Sees(r, [done("nopage") EXCEPT !.page = <<>>])
      \/ /\ ~cleanPagePath(p) \/ PageFiles(p) = {}
         /\ g.k # 1
         /\ Sees(r, [g EXCEPT !.k = g.k - 1])
      \/ \E at \in {"301", "file", "nofile"} : Sees(r, done(at))
  BY <1>1, <1>2, <1>3, <1>4 DEF servePage
<1> HIDE DEF done
<1>7. g \in Paging /\ g.k <= Len(g.ask.segs) /\ Looking(g, online)
  BY <1>1, <1>5 DEF ReadInv, Request, RequestTyped
<1>8. g.k \in 1 .. MaxPageDepth /\ g.had \subseteq Addresses /\ MaxPageDepth \in Nat /\ g.ask \in Asked
  BY <1>7, ReadAssumption DEF Paging
<1>9. g.ask.segs \in Seq(STRING) /\ Len(g.ask.segs) \in Nat /\ DOMAIN g.ask.segs = 1 .. Len(g.ask.segs)
  <2>1. g.ask.segs \in Seq(STRING)
    BY <1>8, ReadAssumption
  <2> QED
    BY <2>1, LenProperties
<1>10. Len(p) = g.k
  <2>1. \A i \in 1 .. g.k : g.ask.segs[i] \in STRING
    <3>1. \A i \in 1 .. g.k : i \in 1 .. Len(g.ask.segs)
      BY <1>7, <1>8, <1>9
    <3>2. \A i \in 1 .. Len(g.ask.segs) : g.ask.segs[i] \in STRING
      BY <1>9, ElementOfSeq
    <3> QED
      BY <3>1, <3>2
  <2>2. Len(SubSeq(g.ask.segs, 1, g.k)) = IF 1 <= g.k THEN g.k - 1 + 1 ELSE 0
    BY <1>8, <2>1, SubSeqProperties
  <2> QED
    BY <1>2, <1>8, <2>2
<1>11. \A q \in g.had : online[q] # 0 /\ (IsPrefix(q, g.ask.segs) => Len(q) <= g.k)
  BY <1>5, <1>7 DEF Looking
<1>12. \A q \in g.had : q \in Seq(STRING) /\ Len(q) \in Nat
  BY <1>8, ReadAssumption, LenProperties
<1>13. ASSUME ~cleanPagePath(p) \/ PageFiles(p) = {}, NEW q \in g.had, IsPrefix(q, g.ask.segs)
       PROVE  Len(q) <= g.k - 1
  <2>1. Len(q) # g.k
    <3>1. SUFFICES ASSUME Len(q) = g.k PROVE FALSE
      OBVIOUS
    <3>2. SubSeq(q, 1, g.k) = p
      BY <1>2, <1>13, <3>1, PrefixLength
    <3>3. SubSeq(q, 1, Len(q)) = q
      BY <1>12, SubSeqFull
    <3>4. q = p /\ q \in Addresses /\ online[q] # 0
      BY <1>8, <1>11, <3>1, <3>2, <3>3
    <3>5. cleanPagePath(q)
      BY <3>4 DEF ReadInv, StoreTyped
    <3>6. PageFiles(q) # {}
      BY <3>4 DEF PageFiles
    <3> QED
      BY <1>13, <3>4, <3>5, <3>6
  <2> QED
    BY <1>8, <1>11, <1>12, <1>13, <2>1
<1>14. CASE /\ ~cleanPagePath(p) \/ PageFiles(p) = {}
            /\ g.k = 1
            /\ Sees(r, [done("nopage") EXCEPT !.page = <<>>])
  <2>1. PICK rec : rec = [done("nopage") EXCEPT !.page = <<>>]
    OBVIOUS
  <2>2. rec.at = "nopage" /\ rec.page = <<>> /\ rec.ask = g.ask /\ rec.had = g.had
    BY <2>1 DEF done
  <2>3. Len(<<>>) = 0
    BY EmptySeq
  <2>4. ServedWhole(rec)
    BY <1>12, <1>13, <1>14, <2>2, <2>3 DEF ServedWhole
  <2>5. Request(rec, Listed(rec.par, rec.type), online)
    BY <2>2, <2>4 DEF Request, RequestTyped, Going, Looking, ShownWhole
  <2> QED
    BY <1>14, <2>1, <2>5, SeesKeeps
<1>15. CASE /\ ~cleanPagePath(p) \/ PageFiles(p) = {}
            /\ g.k # 1
            /\ Sees(r, [g EXCEPT !.k = g.k - 1])
  <2>1. PICK k : k = g.k - 1
    OBVIOUS
  <2>2. PICK rec : rec = [g EXCEPT !.k = k]
    OBVIOUS
  <2>3. k \in 1 .. MaxPageDepth /\ k <= Len(g.ask.segs)
    BY <1>7, <1>8, <1>9, <1>15, <2>1
  <2>4. rec \in Paging /\ rec.at = "page" /\ rec.k = k /\ rec.ask = g.ask /\ rec.had = g.had
    BY <1>7, <2>2, <2>3 DEF Paging
  <2>5. Looking(rec, online)
    BY <1>11, <1>13, <1>15, <2>1, <2>4 DEF Looking
  <2>6. Request(rec, Listed(rec.par, rec.type), online)
    BY <2>3, <2>4, <2>5 DEF Request, RequestTyped, Going, ShownWhole, ServedWhole
  <2> QED
    BY <1>15, <2>1, <2>2, <2>6, SeesKeeps
<1>16. ASSUME NEW at \in {"301", "file", "nofile"}, Sees(r, done(at)) PROVE ReadInv'
  <2>1. PICK rec : rec = done(at)
    OBVIOUS
  <2>2. rec.at = at /\ rec.page = p /\ rec.ask = g.ask /\ rec.had = g.had
    BY <2>1 DEF done
  <2>3. Request(rec, Listed(rec.par, rec.type), online)
    BY <1>10, <1>11, <2>2 DEF Request, RequestTyped, Going, Looking, ShownWhole, ServedWhole
  <2> QED
    BY <1>16, <2>1, <2>3, SeesKeeps
<1> QED
  BY <1>6, <1>14, <1>15, <1>16

\* The tools leave the store well formed and no page that was online goes
\* offline.
LEMMA EditStore ==
  ASSUME StoreTyped, Edit
  PROVE  StoreTyped' /\ \A p \in Addresses : online[p] # 0 => online'[p] # 0
<1>1. /\ shelf \in Seq(Node) /\ prints \in [Addresses -> Seq(Uploads)] /\ online \in [Addresses -> Nat]
      /\ \A p \in Addresses : prints[p] # <<>> \/ online[p] # 0 => cleanPagePath(p)
  BY DEF StoreTyped
<1>2. DOMAIN shelf = 1 .. Len(shelf) /\ Len(shelf) \in Nat /\ \A i \in 1 .. Len(shelf) : shelf[i] \in Node
  BY <1>1, LenProperties, ElementOfSeq
<1>3. ASSUME NEW f \in [1 .. Len(shelf) -> Node] PROVE f \in Seq(Node)
  BY <1>2, <1>3, SeqDef
<1>4. ASSUME UNCHANGED <<prints, online>>, shelf' \in Seq(Node)
      PROVE  StoreTyped' /\ \A p \in Addresses : online[p] # 0 => online'[p] # 0
  BY <1>1, <1>4 DEF StoreTyped, cleanPagePath
<1>5. ASSUME NEW s \in Names3, NEW par \in DOMAIN shelf, Store!PutNode(Block(s, par))
      PROVE  UNCHANGED <<prints, online>> /\ shelf' \in Seq(Node)
  <2>1. PICK in : in = Block(s, par)
    OBVIOUS
  <2>2. PICK n : n = [parent |-> in.parent, type |-> in.type, slug |-> in.slug, data |-> in.data,
                      sv |-> Store!cleanSchemaVersion(in.sv), deleted |-> FALSE]
    OBVIOUS
  <2>3. n \in Node
    <3>1. par \in Nat /\ s \in STRING
      BY <1>2, ReadAssumption
    <3>2. n = [parent |-> par, type |-> "block", slug |-> s, data |-> "d", sv |-> 1, deleted |-> FALSE]
      BY <2>1, <2>2 DEF Block, Store!cleanSchemaVersion
    <3> QED
      BY <3>1, <3>2 DEF Node, Levels
  <2>4. shelf' = Store!Upsert(shelf, in) /\ UNCHANGED <<prints, online>>
    BY <1>5, <2>1 DEF Store!PutNode
  <2>5. PICK S : S = Store!At(shelf, in.parent, in.slug)
    OBVIOUS
  <2>6. shelf' = IF S = {} THEN Append(shelf, n) ELSE [i \in DOMAIN shelf |-> IF i \in S THEN n ELSE shelf[i]]
    BY <2>2, <2>4, <2>5 DEF Store!Upsert
  <2>7. Append(shelf, n) \in Seq(Node)
    BY <1>1, <2>3, AppendProperties
  <2>8. [i \in DOMAIN shelf |-> IF i \in S THEN n ELSE shelf[i]] \in [1 .. Len(shelf) -> Node]
    BY <1>2, <2>3
  <2> QED
    BY <1>3, <2>4, <2>6, <2>7, <2>8
<1>6. ASSUME NEW id \in DOMAIN shelf, Store!DeleteNode(id)
      PROVE  UNCHANGED <<prints, online>> /\ shelf' \in Seq(Node)
  <2>1. shelf' = Store!Deleted(shelf, Store!Subtree(shelf, id)) /\ UNCHANGED <<prints, online>>
    BY <1>6 DEF Store!DeleteNode
  <2>2. PICK S : S = Store!Subtree(shelf, id)
    OBVIOUS
  <2>3. shelf' = [i \in DOMAIN shelf |-> IF i \in S THEN [shelf[i] EXCEPT !.deleted = TRUE] ELSE shelf[i]]
    BY <2>1, <2>2 DEF Store!Deleted
  <2>4. \A i \in 1 .. Len(shelf) : [shelf[i] EXCEPT !.deleted = TRUE] \in Node
    BY <1>2 DEF Node
  <2>5. shelf' \in [1 .. Len(shelf) -> Node]
    BY <1>2, <2>3, <2>4
  <2> QED
    BY <1>3, <2>1, <2>5
<1>7. ASSUME NEW p \in Addresses, NEW f \in Uploads, cleanPagePath(p), Store!PutPage(p, f)
      PROVE  StoreTyped' /\ \A q \in Addresses : online[q] # 0 => online'[q] # 0
  <2>1. /\ prints' = [prints EXCEPT ![p] = Append(prints[p], f)]
        /\ online' = [online EXCEPT ![p] = Len(prints'[p])] /\ shelf' = shelf
    BY <1>7 DEF Store!PutPage
  <2>2. PICK s : s = Append(prints[p], f)
    OBVIOUS
  <2>3. s \in Seq(Uploads) /\ Len(s) = Len(prints[p]) + 1 /\ Len(prints[p]) \in Nat
    BY <1>1, <2>2, AppendProperties, LenProperties
  <2>4. prints' = [prints EXCEPT ![p] = s] /\ online' = [online EXCEPT ![p] = Len(s)] /\ Len(s) \in Nat /\ Len(s) # 0
    BY <1>1, <2>1, <2>2, <2>3
  <2> QED
    BY <1>1, <1>7, <2>1, <2>3, <2>4 DEF StoreTyped, cleanPagePath
<1>8. ASSUME NEW p \in Addresses, NEW v \in 1 .. MaxPrint, Store!RollbackPage(p, v)
      PROVE  StoreTyped' /\ \A q \in Addresses : online[q] # 0 => online'[q] # 0
  <2>1. v \in DOMAIN prints[p] /\ online' = [online EXCEPT ![p] = v] /\ shelf' = shelf /\ prints' = prints
    BY <1>8 DEF Store!RollbackPage
  <2>2. v \in 1 .. Len(prints[p]) /\ Len(prints[p]) \in Nat
    BY <1>1, <2>1, LenProperties
  <2>3. v \in Nat /\ v # 0 /\ prints[p] # <<>>
    BY <2>2, EmptySeq
  <2> QED
    BY <1>1, <2>1, <2>3 DEF StoreTyped, cleanPagePath
<1> QED
  BY <1>4, <1>5, <1>6, <1>7, <1>8 DEF Edit

\* What a change does to a listing that is under way.
LEMMA ListingUpset ==
  ASSUME NEW g \in Listing, g.at \in {"count", "select"},
         NEW now \in SUBSET Nat, IsFiniteSet(now), NEW then \in SUBSET Nat, IsFiniteSet(then),
         Going(g, now), NEW rec,
         rec = [g EXCEPT !.seen = [kept  |-> g.seen.kept \cap then,
                                   lost  |-> \/ g.seen.lost
                                             \/ \E i \in now \ then : Newer(now, i) < (g.page - 1) * g.size
                                             \/ then \ now # {} /\ g.at = "select",
                                   quiet |-> g.seen.quiet /\ now \ then = {} /\ then \ now = {}]]
  PROVE  /\ rec \in Listing /\ rec.at = g.at /\ rec.par = g.par /\ rec.type = g.type
         /\ Going(rec, then)
<1>1. PICK kept : kept = g.seen.kept \cap then
  OBVIOUS
<1>2. PICK lost \in BOOLEAN : lost <=> \/ g.seen.lost
                                       \/ \E i \in now \ then : Newer(now, i) < (g.page - 1) * g.size
                                       \/ then \ now # {} /\ g.at = "select"
  OBVIOUS
<1>3. PICK quiet \in BOOLEAN : quiet <=> g.seen.quiet /\ now \ then = {} /\ then \ now = {}
  OBVIOUS
<1>4. g.seen.kept \in SUBSET Nat /\ g.seen.lost \in BOOLEAN /\ g.seen.quiet \in BOOLEAN
      /\ g.page \in Nat \ {0} /\ g.size \in Nat \ {0}
  BY ReadAssumption DEF Listing
<1>5. rec = [g EXCEPT !.seen = [kept |-> kept, lost |-> lost, quiet |-> quiet]]
  <2>1. lost = (\/ g.seen.lost
                \/ \E i \in now \ then : Newer(now, i) < (g.page - 1) * g.size
                \/ then \ now # {} /\ g.at = "select")
    BY <1>2, <1>4
  <2>2. quiet = (g.seen.quiet /\ now \ then = {} /\ then \ now = {})
    BY <1>3, <1>4
  <2> QED
    BY <1>1, <2>1, <2>2, Zenon
<1>6. kept \in SUBSET Nat
  BY <1>1, <1>4
<1>7. /\ rec \in Listing /\ rec.at = g.at /\ rec.par = g.par /\ rec.type = g.type /\ rec.all = g.all
      /\ rec.page = g.page /\ rec.size = g.size /\ rec.items = g.items /\ rec.total = g.total
      /\ rec.seen = [kept |-> kept, lost |-> lost, quiet |-> quiet]
  <2>1. [kept |-> kept, lost |-> lost, quiet |-> quiet] \in [kept : SUBSET Nat, lost : BOOLEAN, quiet : BOOLEAN]
    BY <1>6
  <2> QED
    BY <1>5, <2>1 DEF Listing
<1>8. PICK F : F = Before(g)
  OBVIOUS
<1>9. F \in Nat /\ F = (g.page - 1) * g.size
  <2>1. g.page - 1 \in Nat
    BY <1>4
  <2> QED
    BY <1>4, <1>8, <2>1 DEF Before
<1>10. ASSUME g.all PROVE Going(rec, then)
  <2>1. g.size = MaxSize /\ g.seen.kept \subseteq now
    BY <1>10 DEF Going
  <2>2. ASSUME quiet
        PROVE  /\ ~lost /\ kept = then
               /\ ToSet(g.items) = {i \in then : Newer(then, i) < F}
               /\ \A i, j \in DOMAIN g.items : i < j => g.items[i] > g.items[j]
    <3>1. g.seen.quiet /\ now = then
      BY <1>3, <2>2
    <3>2. /\ ~g.seen.lost /\ g.seen.kept = now
          /\ ToSet(g.items) = {i \in now : Newer(now, i) < F}
          /\ \A i, j \in DOMAIN g.items : i < j => g.items[i] > g.items[j]
      BY <1>8, <1>10, <3>1 DEF Going
    <3> QED
      BY <1>1, <1>2, <3>1, <3>2
  <2>3. ASSUME ~lost
        PROVE  /\ \A i \in kept : i \in ToSet(g.items) \/ Newer(then, i) >= F
               /\ g.at = "select" => Cardinality(then) <= g.total
    <3>1. /\ ~g.seen.lost
          /\ \A i \in now \ then : ~(Newer(now, i) < F)
          /\ g.at = "select" => then \ now = {}
      BY <1>2, <1>9, <2>3
    <3>2. /\ \A i \in g.seen.kept : i \in ToSet(g.items) \/ Newer(now, i) >= F
          /\ g.at = "select" => Cardinality(now) <= g.total
      BY <1>8, <1>10, <3>1 DEF Going
    <3>3. \A i \in now : Newer(now, i) \in Nat
      BY NewerBound
    <3>4. \A i \in now \ then : Newer(now, i) >= F
      BY <1>9, <3>1, <3>3
    <3>5. ASSUME NEW i \in kept, i \notin ToSet(g.items) PROVE Newer(then, i) >= F
      <4>1. i \in now /\ i \in then /\ Newer(now, i) >= F
        BY <1>1, <2>1, <3>2, <3>5
      <4> QED
        BY <1>9, <3>4, <4>1, NewerKept
    <3>6. ASSUME g.at = "select" PROVE Cardinality(then) <= g.total
      <4>1. then \subseteq now
        BY <3>1, <3>6
      <4>2. Cardinality(then) <= Cardinality(now) /\ Cardinality(then) \in Nat /\ Cardinality(now) \in Nat
        BY <4>1, FS_Subset, FS_CardinalityType
      <4>3. g.total \in Nat
        BY DEF Listing
      <4> QED
        BY <3>2, <3>6, <4>2, <4>3
    <3> QED
      BY <3>5, <3>6
  <2>4. rec.seen.kept = kept /\ rec.seen.lost = lost /\ rec.seen.quiet = quiet /\ Before(rec) = F
    BY <1>7, <1>8 DEF Before
  <2>5. kept \subseteq then
    BY <1>1
  <2> QED
    BY <1>7, <2>1, <2>2, <2>3, <2>4, <2>5 DEF Going
<1>11. ~g.all => Going(rec, then)
  BY <1>7 DEF Going
<1> QED
  BY <1>7, <1>10, <1>11

LEMMA EditKeeps == ASSUME ReadInv, Edit PROVE ReadInv'
<1>1. StoreTyped /\ DOMAIN reader = Readers
  BY DEF ReadInv
<1>2. StoreTyped' /\ \A p \in Addresses : online[p] # 0 => online'[p] # 0
  BY <1>1, EditStore
<1>3. reader' = [r \in Readers |-> Upset(reader[r])]
  BY DEF Edit
<1>4. ASSUME NEW r \in Readers
      PROVE  Request(reader'[r], Those(shelf', reader'[r].par, reader'[r].type), online')
  <2>1. PICK g : g = reader[r]
    OBVIOUS
  <2>2. PICK rec : rec = reader'[r]
    OBVIOUS
  <2>3. rec = Upset(g)
    BY <1>3, <2>1, <2>2
  <2>4. PICK now : now = Listed(g.par, g.type)
    OBVIOUS
  <2>5. PICK then : then = Those(shelf', g.par, g.type)
    OBVIOUS
  <2>6. RequestTyped(g) /\ Going(g, now) /\ Looking(g, online) /\ ShownWhole(g) /\ ServedWhole(g)
    BY <2>1, <2>4 DEF ReadInv, Request
  <2>7. now \in SUBSET Nat /\ IsFiniteSet(now) /\ then \in SUBSET Nat /\ IsFiniteSet(then)
    <3>1. now \in SUBSET Nat /\ IsFiniteSet(now)
      BY <1>1, <2>4, ListedFinite
    <3>2. shelf' \in Seq(Node)
      BY <1>2 DEF StoreTyped
    <3>3. Those(shelf', g.par, g.type) \in SUBSET Nat /\ IsFiniteSet(Those(shelf', g.par, g.type))
      BY <3>2, ThoseFinite
    <3> QED
      BY <2>5, <3>1, <3>3
  <2>8. CASE g.at \notin {"count", "select"}
    <3>1. rec = g
      BY <2>3, <2>8 DEF Upset
    <3>2. Going(g, then)
      BY <2>8 DEF Going
    <3>3. Looking(g, online')
      <4>1. g.at = "page" => g.had \subseteq Addresses
        BY <2>6 DEF RequestTyped, Paging
      <4> QED
        BY <1>2, <2>6, <4>1 DEF Looking
    <3> QED
      BY <2>2, <2>5, <2>6, <3>1, <3>2, <3>3 DEF Request
  <2>9. CASE g.at \in {"count", "select"}
    <3>1. g \in Listing
      BY <2>6, <2>9 DEF RequestTyped
    <3>2. rec = [g EXCEPT !.seen = [kept  |-> g.seen.kept \cap then,
                                    lost  |-> \/ g.seen.lost
                                              \/ \E i \in now \ then : Newer(now, i) < (g.page - 1) * g.size
                                              \/ then \ now # {} /\ g.at = "select",
                                    quiet |-> g.seen.quiet /\ now \ then = {} /\ then \ now = {}]]
      BY <2>3, <2>4, <2>5, <2>9, Zenon DEF Upset, Those
    <3>3. /\ rec \in Listing /\ rec.at = g.at /\ rec.par = g.par /\ rec.type = g.type
          /\ Going(rec, then)
      BY <2>6, <2>7, <2>9, <3>1, <3>2, ListingUpset
    <3> QED
      BY <2>2, <2>5, <2>9, <3>3 DEF Request, RequestTyped, Looking, ShownWhole, ServedWhole
  <2> QED
    BY <2>8, <2>9
<1> QED
  BY <1>1, <1>2, <1>3, <1>4 DEF ReadInv, Listed, Those

LEMMA ReadStep == ReadInv /\ [ReadNext]_readVars => ReadInv'
<1> SUFFICES ASSUME ReadInv, [ReadNext]_readVars PROVE ReadInv'
  OBVIOUS
<1>1. CASE UNCHANGED readVars
  BY <1>1 DEF ReadInv, StoreTyped, readVars, Listed, cleanPagePath
<1>2. CASE Edit
  BY <1>2, EditKeeps
<1>3. ASSUME NEW r \in Readers, NEW q \in Queries,
             \/ Get(r, <<>>, q)
             \/ \E m \in Names3 : Get(r, <<m>>, q) \/ \E d \in Names3 : Get(r, <<m, d>>, q) \/ \E b \in Names3 : Get(r, <<m, d, b>>, q)
      PROVE  ReadInv'
  <2>1. ASSUME NEW names \in Seq(Names3), Len(names) <= 3, Get(r, names, q) PROVE ReadInv'
    BY <2>1, GetKeeps
  <2>2. <<>> \in Seq(Names3) /\ Len(<<>>) <= 3
    OBVIOUS
  <2>3. \A m \in Names3 : <<m>> \in Seq(Names3) /\ Len(<<m>>) <= 3
    OBVIOUS
  <2>4. \A m, d \in Names3 : <<m, d>> \in Seq(Names3) /\ Len(<<m, d>>) <= 3
    OBVIOUS
  <2>5. \A m, d, b \in Names3 : <<m, d, b>> \in Seq(Names3) /\ Len(<<m, d, b>>) <= 3
    OBVIOUS
  <2> QED
    BY <1>3, <2>1, <2>2, <2>3, <2>4, <2>5, Zenon
<1>4. ASSUME NEW r \in Readers,
             \/ namedDetail(r) \/ Resolved(r) \/ Count(r) \/ ListChildren(r)
             \/ \E ask \in Asked : GetPage(r, ask)
             \/ servePage(r)
      PROVE  ReadInv'
  BY <1>4, namedDetailKeeps, ResolvedKeeps, CountKeeps, ListChildrenKeeps, GetPageKeeps, servePageKeeps
<1> QED
  BY <1>1, <1>2, <1>3, <1>4 DEF ReadNext

LEMMA ReadInitially == ReadInit => ReadInv
<1> SUFFICES ASSUME ReadInit PROVE ReadInv
  OBVIOUS
<1>1. shelf \in Seq(Node)
  BY ReadAssumption DEF ReadInit, Store!TreeInit, Node, Levels
<1>2. prints = [p \in Addresses |-> <<>>] /\ online = [p \in Addresses |-> 0]
  BY DEF ReadInit, Store!TreeInit
<1>3. <<>> \in Seq(Uploads)
  OBVIOUS
<1>4. StoreTyped
  BY <1>1, <1>2, <1>3 DEF StoreTyped
<1>5. \A r \in Readers : reader[r].at = "rest"
  BY DEF ReadInit, Resting
<1>6. DOMAIN reader = Readers
  BY DEF ReadInit
<1> QED
  BY <1>4, <1>5, <1>6 DEF ReadInv, Request, RequestTyped, Going, Looking, ShownWhole, ServedWhole

(* However the tools change the content between the statements of a        *)
(* request, its answer is whole: writeDetail leaves out no block that was  *)
(* there from the first count on, unless one was deleted among those that  *)
(* had been passed or appeared between a count and its page; and servePage *)
(* answers with a page no shorter than the longest that was online.        *)
THEOREM ReadsAreWhole == ReadSpec => []ReadsWhole
<1>1. ReadInv => ReadsWhole
  BY DEF ReadInv, Request, ReadsWhole, DetailWhole, PageWhole, ShownWhole, ServedWhole
<1> QED
  BY <1>1, ReadInitially, ReadStep, PTL DEF ReadSpec

-----------------------------------------------------------------------------
(* The content in MySQL: what the statements that write do to the rows.    *)

Stored == [parent : 0 .. MaxNodes, type : {"module", "list", "detail", "block"}, slug : Slugs,
           data : Data, sv : Int, deleted : BOOLEAN]

(* Modules are at the top and lists hold details.                          *)
TreeTyped(ns) ==
    /\ ns \in Seq(Stored) /\ Len(ns) <= MaxNodes
    /\ \A i \in DOMAIN ns :
          /\ ns[i].parent \in {0} \cup DOMAIN ns
          /\ ns[i].type = "module" => ns[i].parent = 0
          /\ ns[i].parent # 0 => (ns[ns[i].parent].type = "list" => ns[i].type = "detail")

(* A node that may be put where it is asked for. *)
Fits(ns, in) ==
    /\ in \in Tree!Input /\ in.sv >= 0
    /\ in.type \in {"module", "detail", "block"}
    /\ in.parent = 0 <=> in.type = "module"
    /\ in.parent # 0 => in.parent \in DOMAIN ns /\ ns[in.parent].type # "list"

Grown(ns, ms, in) ==
    /\ DOMAIN ns \subseteq DOMAIN ms
    /\ \A i \in DOMAIN ns :
          \/ ms[i] = ns[i]
          \/ /\ ns[i].parent = in.parent /\ ns[i].slug = in.slug
             /\ ms[i].parent = in.parent /\ ms[i].slug = in.slug
             /\ ms[i].type = in.type /\ ~ms[i].deleted
    /\ \A i \in DOMAIN ms : i \notin DOMAIN ns =>
          ms[i].parent = in.parent /\ ms[i].slug = in.slug /\ ms[i].type = in.type /\ ~ms[i].deleted

(* The same tree, in which these are deleted. *)
Trimmed(ns, ms, ids) ==
    /\ DOMAIN ms = DOMAIN ns
    /\ \A i \in DOMAIN ns : /\ ms[i].parent = ns[i].parent /\ ms[i].slug = ns[i].slug /\ ms[i].type = ns[i].type
                            /\ ms[i].deleted <=> ns[i].deleted \/ i \in ids

LEMMA TreeIsSeq ==
  ASSUME NEW ns, TreeTyped(ns)
  PROVE  /\ DOMAIN ns = 1 .. Len(ns) /\ Len(ns) \in Nat /\ Len(ns) <= MaxNodes
         /\ \A i \in DOMAIN ns : ns[i] \in Stored /\ i \in Nat /\ i # 0 /\ i \in 0 .. MaxNodes
         /\ \A f \in [DOMAIN ns -> Stored] : f \in Seq(Stored) /\ Len(f) = Len(ns) /\ DOMAIN f = DOMAIN ns
<1>1. ns \in Seq(Stored) /\ Len(ns) <= MaxNodes /\ MaxNodes \in Nat
  BY ContentAssumption DEF TreeTyped
<1>2. DOMAIN ns = 1 .. Len(ns) /\ Len(ns) \in Nat /\ \A i \in 1 .. Len(ns) : ns[i] \in Stored
  BY <1>1, LenProperties, ElementOfSeq
<1>3. \A i \in DOMAIN ns : i \in Nat /\ i # 0 /\ i \in 0 .. MaxNodes
  BY <1>1, <1>2
<1>4. ASSUME NEW f \in [DOMAIN ns -> Stored] PROVE f \in Seq(Stored) /\ Len(f) = Len(ns)
  <2>1. f \in [1 .. Len(ns) -> Stored]
    BY <1>2
  <2>2. f \in Seq(Stored)
    BY <1>2, <2>1, SeqDef
  <2> QED
    BY <1>2, <2>1, <2>2, LenProperties
<1> QED
  BY <1>1, <1>2, <1>3, <1>4

LEMMA GrownTyped ==
  ASSUME NEW ns, TreeTyped(ns), NEW in, Fits(ns, in), NEW ms \in Seq(Stored), Len(ms) <= MaxNodes, Grown(ns, ms, in)
  PROVE  TreeTyped(ms)
<1> SUFFICES ASSUME NEW i \in DOMAIN ms
             PROVE  /\ ms[i].parent \in {0} \cup DOMAIN ms
                    /\ ms[i].type = "module" => ms[i].parent = 0
                    /\ ms[i].parent # 0 => (ms[ms[i].parent].type = "list" => ms[i].type = "detail")
  BY DEF TreeTyped
<1>1. PICK p : p = ms[i].parent
  OBVIOUS
<1>2. DOMAIN ns \subseteq DOMAIN ms
  BY DEF Grown
<1>3. in.parent = 0 <=> in.type = "module"
  BY DEF Fits
<1>4. in.parent # 0 => in.parent \in DOMAIN ns /\ ns[in.parent].type # "list"
  BY DEF Fits
<1>5. in.type # "list"
  BY DEF Fits
<1>6. ASSUME NEW j \in DOMAIN ns, ms[j].type = "list" PROVE ns[j].type = "list"
  BY <1>5, <1>6 DEF Grown
<1>7. CASE i \in DOMAIN ns /\ ms[i] = ns[i]
  BY <1>1, <1>2, <1>6, <1>7 DEF TreeTyped
<1>8. CASE ms[i].parent = in.parent /\ ms[i].type = in.type
  BY <1>2, <1>3, <1>4, <1>6, <1>8
<1> QED
  BY <1>7, <1>8 DEF Grown

LEMMA UpsertTree ==
  ASSUME NEW ns, TreeTyped(ns), NEW in, Fits(ns, in), NEW ms, ms = Tree!Upsert(ns, in), Len(ms) <= MaxNodes
  PROVE  TreeTyped(ms) /\ Grown(ns, ms, in)
<1>1. /\ DOMAIN ns = 1 .. Len(ns) /\ Len(ns) \in Nat /\ Len(ns) <= MaxNodes
      /\ \A i \in DOMAIN ns : ns[i] \in Stored /\ i # 0
      /\ \A f \in [DOMAIN ns -> Stored] : f \in Seq(Stored) /\ Len(f) = Len(ns) /\ DOMAIN f = DOMAIN ns
  BY TreeIsSeq
<1>2. PICK n : n = [parent |-> in.parent, type |-> in.type, slug |-> in.slug, data |-> in.data,
                    sv |-> Tree!cleanSchemaVersion(in.sv), deleted |-> FALSE]
  OBVIOUS
<1>3. PICK S : S = Tree!At(ns, in.parent, in.slug)
  OBVIOUS
<1>4. /\ in.parent \in 0 .. MaxNodes /\ in.type \in {"module", "detail", "block"} /\ in.slug \in Slugs
      /\ in.data \in Data /\ in.sv \in Int
  BY ContentAssumption DEF Fits, Tree!Input
<1>5. n \in Stored /\ n.parent = in.parent /\ n.slug = in.slug /\ n.type = in.type /\ ~n.deleted
  <2>1. Tree!cleanSchemaVersion(in.sv) \in Int
    BY <1>4 DEF Tree!cleanSchemaVersion
  <2> QED
    BY <1>2, <1>4, <2>1 DEF Stored
<1>6. S \subseteq DOMAIN ns /\ \A i \in S : ns[i].parent = in.parent /\ ns[i].slug = in.slug
  BY <1>3 DEF Tree!At
<1>7. ms = IF S = {} THEN Append(ns, n) ELSE [i \in DOMAIN ns |-> IF i \in S THEN n ELSE ns[i]]
  BY <1>2, <1>3 DEF Tree!Upsert
<1>8. CASE S = {}
  <2>1. ns \in Seq(Stored)
    BY DEF TreeTyped
  <2>2. /\ ms \in Seq(Stored) /\ Len(ms) = Len(ns) + 1
        /\ \A i \in 1 .. Len(ns) : ms[i] = ns[i]
        /\ ms[Len(ns) + 1] = n
    BY <1>5, <1>7, <1>8, <2>1, AppendProperties
  <2>3. DOMAIN ms = 1 .. Len(ns) + 1
    BY <2>2, LenProperties
  <2>4. DOMAIN ns \subseteq DOMAIN ms /\ \A i \in DOMAIN ms : i \notin DOMAIN ns => i = Len(ns) + 1
    BY <1>1, <2>3
  <2>5. Grown(ns, ms, in)
    BY <1>1, <1>5, <2>2, <2>4 DEF Grown
  <2> QED
    BY <2>2, <2>5, GrownTyped
<1>9. CASE S # {}
  <2>1. ms = [i \in DOMAIN ns |-> IF i \in S THEN n ELSE ns[i]]
    BY <1>7, <1>9
  <2>2. \A i \in DOMAIN ns : (IF i \in S THEN n ELSE ns[i]) \in Stored
    BY <1>1, <1>5
  <2>3. ms \in [DOMAIN ns -> Stored]
    BY <2>1, <2>2
  <2>4. ms \in Seq(Stored) /\ DOMAIN ms = DOMAIN ns
    BY <1>1, <2>3
  <2>5. Grown(ns, ms, in)
    BY <1>5, <1>6, <2>1, <2>4 DEF Grown
  <2> QED
    BY <2>4, <2>5, GrownTyped
<1> QED
  BY <1>8, <1>9

LEMMA TrimmedTyped ==
  ASSUME NEW ns, TreeTyped(ns), NEW ids, NEW ms \in [DOMAIN ns -> Stored], Trimmed(ns, ms, ids)
  PROVE  TreeTyped(ms)
<1>1. ms \in Seq(Stored) /\ Len(ms) = Len(ns) /\ DOMAIN ms = DOMAIN ns
  BY TreeIsSeq
<1>2. Len(ms) <= MaxNodes
  BY <1>1 DEF TreeTyped
<1> QED
  BY <1>1, <1>2 DEF TreeTyped, Trimmed

LEMMA DeletedTree ==
  ASSUME NEW ns, TreeTyped(ns), NEW ids, NEW ms, ms = Tree!Deleted(ns, ids)
  PROVE  TreeTyped(ms) /\ Trimmed(ns, ms, ids)
<1>1. \A i \in DOMAIN ns : ns[i] \in Stored
  BY TreeIsSeq
<1>2. ms = [i \in DOMAIN ns |-> IF i \in ids THEN [ns[i] EXCEPT !.deleted = TRUE] ELSE ns[i]]
  BY DEF Tree!Deleted
<1>3. ASSUME NEW i \in DOMAIN ns
      PROVE  /\ ms[i] \in Stored
             /\ ms[i].parent = ns[i].parent /\ ms[i].slug = ns[i].slug /\ ms[i].type = ns[i].type
             /\ ms[i].deleted <=> ns[i].deleted \/ i \in ids
  <2>1. PICK n : n = ns[i]
    OBVIOUS
  <2>2. n \in Stored
    BY <1>1, <2>1
  <2>3. CASE i \in ids
    <3>1. ms[i] = [n EXCEPT !.deleted = TRUE]
      BY <1>2, <2>1, <2>3
    <3>2. /\ ms[i] \in Stored /\ ms[i].parent = n.parent /\ ms[i].slug = n.slug /\ ms[i].type = n.type
          /\ ms[i].deleted = TRUE
      BY <2>2, <3>1 DEF Stored
    <3> QED
      BY <2>1, <2>3, <3>2
  <2>4. CASE i \notin ids
    BY <1>2, <2>1, <2>2, <2>4
  <2> QED
    BY <2>3, <2>4
<1>4. ms \in [DOMAIN ns -> Stored]
  BY <1>2, <1>3
<1>5. Trimmed(ns, ms, ids)
  BY <1>3, <1>4 DEF Trimmed
<1> QED
  BY <1>4, <1>5, TrimmedTyped

LEMMA UpdatedTree ==
  ASSUME NEW ns, TreeTyped(ns), NEW id \in DOMAIN ns,
         NEW d \in Tree!Singletons(Data), NEW v \in Tree!Singletons(Versions),
         NEW ms, ms = [ns EXCEPT ![id] = Tree!Updated(ns[id], d, v)]
  PROVE  TreeTyped(ms) /\ Trimmed(ns, ms, {})
<1>1. \A i \in DOMAIN ns : ns[i] \in Stored
  BY TreeIsSeq
<1>2. PICK n : n = Tree!Updated(ns[id], d, v)
  OBVIOUS
<1>3. PICK x : x = IF d = {} THEN ns[id].data ELSE CHOOSE y \in d : TRUE
  OBVIOUS
<1>4. PICK y : y = IF \E z \in v : z >= 0 THEN Tree!cleanSchemaVersion(CHOOSE z \in v : TRUE) ELSE ns[id].sv
  OBVIOUS
<1>5. n = [ns[id] EXCEPT !.data = x, !.sv = y]
  BY <1>2, <1>3, <1>4 DEF Tree!Updated
<1>6. x \in Data
  <2>1. d \subseteq Data
    BY DEF Tree!Singletons
  <2>2. ns[id].data \in Data
    BY <1>1 DEF Stored
  <2>3. d # {} => (CHOOSE z \in d : TRUE) \in d
    OBVIOUS
  <2> QED
    BY <1>3, <2>1, <2>2, <2>3
<1>7. y \in Int
  <2>1. v \subseteq Versions /\ Versions \subseteq Int
    BY ContentAssumption DEF Tree!Singletons
  <2>2. ns[id].sv \in Int
    BY <1>1 DEF Stored
  <2>3. v # {} => (CHOOSE z \in v : TRUE) \in v
    OBVIOUS
  <2>4. \A z \in Int : Tree!cleanSchemaVersion(z) \in Int
    BY DEF Tree!cleanSchemaVersion
  <2> QED
    BY <1>4, <2>1, <2>2, <2>3, <2>4
<1>8. /\ n \in Stored /\ n.parent = ns[id].parent /\ n.slug = ns[id].slug /\ n.type = ns[id].type
      /\ n.deleted = ns[id].deleted
  BY <1>1, <1>5, <1>6, <1>7 DEF Stored
<1>9. ms = [ns EXCEPT ![id] = n]
  BY <1>2
<1>10. ms \in [DOMAIN ns -> Stored]
  BY <1>1, <1>8, <1>9
<1>11. Trimmed(ns, ms, {})
  BY <1>8, <1>9 DEF Trimmed
<1> QED
  BY <1>10, <1>11, TrimmedTyped

Moved(ns, d, m) == [ns EXCEPT ![d].parent = m]

LEMMA MovedTree ==
  ASSUME NEW ns, TreeTyped(ns), NEW d \in DOMAIN ns, ns[d].type = "detail",
         NEW m \in DOMAIN ns, ns[m].type = "module",
         NEW ms, ms = Moved(ns, d, m)
  PROVE  /\ TreeTyped(ms) /\ DOMAIN ms = DOMAIN ns /\ ms[d].parent = m
         /\ \A i \in DOMAIN ns : ms[i].type = ns[i].type /\ ms[i].deleted = ns[i].deleted /\ (i # d => ms[i] = ns[i])
<1>1. \A i \in DOMAIN ns : ns[i] \in Stored /\ i \in 0 .. MaxNodes /\ i # 0
  BY TreeIsSeq
<1>2. PICK n : n = [ns[d] EXCEPT !.parent = m]
  OBVIOUS
<1>3. n \in Stored /\ n.parent = m /\ n.type = "detail" /\ n.deleted = ns[d].deleted
  BY <1>1, <1>2 DEF Stored
<1>4. ms = [ns EXCEPT ![d] = n]
  BY <1>2 DEF Moved
<1>5. ms \in [DOMAIN ns -> Stored] /\ \A i \in DOMAIN ns : ms[i] = IF i = d THEN n ELSE ns[i]
  BY <1>1, <1>3, <1>4
<1>6. ms \in Seq(Stored) /\ Len(ms) = Len(ns) /\ DOMAIN ms = DOMAIN ns
  BY <1>5, TreeIsSeq
<1>7. Len(ms) <= MaxNodes
  BY <1>6 DEF TreeTyped
<1>8. ASSUME NEW i \in DOMAIN ms
      PROVE  /\ ms[i].parent \in {0} \cup DOMAIN ms
             /\ ms[i].type = "module" => ms[i].parent = 0
             /\ ms[i].parent # 0 => (ms[ms[i].parent].type = "list" => ms[i].type = "detail")
  <2>1. \A j \in DOMAIN ns : ms[j].type = ns[j].type
    BY <1>3, <1>5
  <2>2. CASE i = d
    BY <1>3, <1>5, <1>6, <2>1, <2>2
  <2>3. CASE i # d
    BY <1>5, <1>6, <2>1, <2>3 DEF TreeTyped
  <2> QED
    BY <2>2, <2>3
<1>9. TreeTyped(ms)
  BY <1>6, <1>7, <1>8 DEF TreeTyped
<1> QED
  BY <1>3, <1>5, <1>6, <1>9

-----------------------------------------------------------------------------
(* A subtree of three levels is collected in three rounds.                 *)

LEMMA LeastOf == ASSUME NEW S \in SUBSET Nat, S # {} PROVE \E m \in S : \A x \in S : m <= x
<1> DEFINE R == {p \in Nat \X Nat : p[1] < p[2]}
<1>1. IsWellFoundedOn(R, Nat)
  BY NatLessThanWellFounded DEF OpToRel
<1> HIDE DEF R
<1>2. PICK m \in S : \A x \in S : ~(<<x, m>> \in R)
  BY <1>1, WFMin
<1>3. ASSUME NEW x \in S PROVE m <= x
  <2>1. x \in Nat /\ m \in Nat /\ (x < m => <<x, m>> \in R)
    BY DEF R
  <2> QED
    BY <1>2, <2>1
<1> QED
  BY <1>3

\* Something that goes from a to b, c and d and stays there.
Goes4(n, h, a, b, c, d) ==
    \A k \in 1 .. n : /\ h[k - 1] = a => h[k] = b
                      /\ h[k - 1] = b => h[k] = c
                      /\ h[k - 1] = c => h[k] = d
                      /\ h[k - 1] = d => h[k] = d

Went4(n, h, a, b, c, d) ==
    \A k \in 0 .. n : /\ k = 0 => h[k] = a
                      /\ k = 1 => h[k] = b
                      /\ k = 2 => h[k] = c
                      /\ k >= 3 => h[k] = d

LEMMA Settles ==
  ASSUME NEW n \in Nat, NEW h, NEW a, NEW b, NEW c, NEW d, h[0] = a, Goes4(n, h, a, b, c, d)
  PROVE  Went4(n, h, a, b, c, d)
<1> USE DEF Goes4, Went4
<1>1. n >= 1 => h[1] = b
  BY 1 \in 1 .. n \/ ~(n >= 1), 1 - 1 = 0
<1>2. n >= 2 => h[2] = c
  BY <1>1, 2 \in 1 .. n \/ ~(n >= 2), 2 - 1 = 1
<1>3. n >= 3 => h[3] = d
  BY <1>2, 3 \in 1 .. n \/ ~(n >= 3), 3 - 1 = 2
<1>4. ASSUME NEW k \in 0 .. n, k >= 3 PROVE h[k] = d
  <2> DEFINE S == {j \in 3 .. n : h[j] # d}
  <2>1. SUFFICES ASSUME S # {} PROVE FALSE
    BY <1>4
  <2>2. S \in SUBSET Nat
    OBVIOUS
  <2>3. PICK m \in S : \A x \in S : m <= x
    <3> HIDE DEF S
    <3> QED
      BY <2>1, <2>2, LeastOf
  <2>4. m \in 3 .. n /\ h[m] # d
    OBVIOUS
  <2>5. m # 3
    BY <1>3, <2>4
  <2>6. m - 1 \in 3 .. n /\ ~(m <= m - 1) /\ m \in 1 .. n
    BY <2>4, <2>5
  <2>7. h[m - 1] = d
    BY <2>3, <2>6
  <2> QED
    BY <2>4, <2>6, <2>7
<1> QED
  BY <1>1, <1>2, <1>3, <1>4

Rounds(ns, e) ==
    IF Cardinality(e.all) < DeleteLimit
    THEN [all |-> e.all \cup Tree!Children(ns, e.frontier), frontier |-> Tree!Children(ns, e.frontier)]
    ELSE e

RoundsOf(ns, n, e0, h) == h = [k \in 0 .. n |-> IF k = 0 THEN e0 ELSE Rounds(ns, h[k - 1])]

LEMMA RoundsExist == ASSUME NEW ns, NEW n \in Nat, NEW e0 PROVE \E h : RoundsOf(ns, n, e0, h)
<1> DEFINE Good(m, h) == DOMAIN h = 0 .. m /\ h[0] = e0 /\ \A k \in 1 .. m : h[k] = Rounds(ns, h[k - 1])
           S == {m \in 0 .. n : \A h : ~Good(m, h)}
<1>1. S = {}
  <2>1. SUFFICES ASSUME S # {} PROVE FALSE
    OBVIOUS
  <2>2. PICK m \in S : \A x \in S : m <= x
    <3>1. S \in SUBSET Nat
      OBVIOUS
    <3> HIDE DEF S
    <3> QED
      BY <2>1, <3>1, LeastOf
  <2>3. m \in 0 .. n /\ \A h : ~Good(m, h)
    OBVIOUS
  <2>4. m # 0
    <3>1. PICK h : h = [k \in 0 .. 0 |-> e0]
      OBVIOUS
    <3>2. Good(0, h)
      BY <3>1
    <3> HIDE DEF Good
    <3> QED
      BY <2>3, <3>2
  <2>5. m - 1 \in 0 .. n /\ ~(m <= m - 1)
    BY <2>3, <2>4
  <2>6. PICK h : Good(m - 1, h)
    <3>1. m - 1 \notin S
      BY <2>2, <2>5
    <3> HIDE DEF Good
    <3> QED
      BY <2>5, <3>1
  <2>7. PICK e : e = Rounds(ns, h[m - 1])
    OBVIOUS
  <2>8. PICK g : g = [k \in 0 .. m |-> IF k = m THEN e ELSE h[k]]
    OBVIOUS
  <2>9. DOMAIN g = 0 .. m /\ g[0] = e0
    BY <2>3, <2>4, <2>6, <2>8
  <2>10. ASSUME NEW k \in 1 .. m PROVE g[k] = Rounds(ns, g[k - 1])
    <3>1. k - 1 \in 0 .. m /\ k - 1 # m /\ k \in 0 .. m
      BY <2>3
    <3>2. g[k - 1] = h[k - 1]
      BY <2>8, <3>1
    <3>3. CASE k = m
      BY <2>7, <2>8, <3>1, <3>2, <3>3
    <3>4. CASE k # m
      <4>1. k \in 1 .. m - 1
        BY <2>3, <3>4
      <4> QED
        BY <2>6, <2>8, <3>1, <3>2, <3>4, <4>1
    <3> QED
      BY <3>3, <3>4
  <2>11. Good(m, g)
    BY <2>9, <2>10
  <2> HIDE DEF Good
  <2> QED
    BY <2>3, <2>11
<1>2. PICK h : Good(n, h)
  <2>1. n \in 0 .. n /\ n \notin S
    BY <1>1
  <2> HIDE DEF Good
  <2> QED
    BY <2>1
<1>3. PICK g : g = [k \in 0 .. n |-> h[k]]
  OBVIOUS
<1>4. ASSUME NEW k \in 0 .. n PROVE g[k] = IF k = 0 THEN e0 ELSE Rounds(ns, g[k - 1])
  <2>1. CASE k = 0
    BY <1>2, <1>3, <2>1
  <2>2. CASE k # 0
    <3>1. k \in 1 .. n /\ k - 1 \in 0 .. n
      BY <2>2
    <3>2. g[k - 1] = h[k - 1] /\ g[k] = h[k]
      BY <1>3, <3>1
    <3> QED
      BY <1>2, <2>2, <3>1, <3>2
  <2> QED
    BY <2>1, <2>2
<1>5. RoundsOf(ns, n, e0, g)
  BY <1>3, <1>4 DEF RoundsOf
<1> QED
  BY <1>5, Zenon

LEMMA CollectedFunction ==
  ASSUME NEW ns, NEW n \in Nat, n = Len(ns), NEW id, NEW e0, e0 = [all |-> {id}, frontier |-> {id}]
  PROVE  \E h : h[0] = e0 /\ Collected(ns, id) = h[n].all /\ \A k \in 1 .. n : h[k] = Rounds(ns, h[k - 1])
<1>1. \E h : h = [k \in 0 .. n |-> IF k = 0 THEN e0 ELSE Rounds(ns, h[k - 1])]
  <2>1. PICK h : RoundsOf(ns, n, e0, h)
    BY RoundsExist
  <2>2. h = [k \in 0 .. n |-> IF k = 0 THEN e0 ELSE Rounds(ns, h[k - 1])]
    BY <2>1 DEF RoundsOf
  <2> QED
    BY <2>2, Zenon
<1> DEFINE found[k \in 0..Len(ns)] ==
            IF k = 0 THEN [all |-> {id}, frontier |-> {id}]
            ELSE LET f == found[k - 1]
                     next == Tree!Children(ns, f.frontier)
                 IN  IF Cardinality(f.all) < DeleteLimit
                     THEN [all |-> f.all \cup next, frontier |-> next]
                     ELSE f
<1>2. Collected(ns, id) = found[Len(ns)].all
  BY DEF Collected
<1>3. found = [k \in 0 .. Len(ns) |-> IF k = 0 THEN [all |-> {id}, frontier |-> {id}]
                                      ELSE LET f == found[k - 1]
                                               next == Tree!Children(ns, f.frontier)
                                           IN  IF Cardinality(f.all) < DeleteLimit
                                               THEN [all |-> f.all \cup next, frontier |-> next]
                                               ELSE f]
  <2>1. \E h : h = [k \in 0 .. Len(ns) |-> IF k = 0 THEN [all |-> {id}, frontier |-> {id}]
                                      ELSE LET f == h[k - 1]
                                               next == Tree!Children(ns, f.frontier)
                                           IN  IF Cardinality(f.all) < DeleteLimit
                                               THEN [all |-> f.all \cup next, frontier |-> next]
                                               ELSE f]
    <3>1. \E h : h = [k \in 0 .. Len(ns) |-> IF k = 0 THEN [all |-> {id}, frontier |-> {id}] ELSE Rounds(ns, h[k - 1])]
      BY <1>1, Zenon
    <3> QED
      BY <3>1, Zenon DEF Rounds
  <2> QED
    BY <2>1, Zenon
<1> HIDE DEF found
<1>4. found = [k \in 0 .. n |-> IF k = 0 THEN e0 ELSE Rounds(ns, found[k - 1])]
  BY <1>3, Zenon DEF Rounds
<1>5. 0 \in 0 .. n /\ \A k \in 1 .. n : k \in 0 .. n /\ k # 0
  OBVIOUS
<1>6. found[0] = e0
  BY <1>4, <1>5, Zenon
<1>7. ASSUME NEW k \in 1 .. n PROVE found[k] = Rounds(ns, found[k - 1])
  <2>1. k \in 0 .. n /\ k # 0
    BY <1>5
  <2>2. PICK i : i = k - 1
    OBVIOUS
  <2>3. found[k] = Rounds(ns, found[i])
    BY <1>4, <2>1, <2>2, Zenon
  <2> QED
    BY <2>2, <2>3
<1> QED
  BY <1>2, <1>6, <1>7, Zenon

RoundsAre(ns, id, e0, e1, e2, e3) ==
    /\ e0 = [all |-> {id}, frontier |-> {id}]
    /\ e1 = Rounds(ns, e0) /\ e2 = Rounds(ns, e1) /\ e3 = Rounds(ns, e2) /\ e3 = Rounds(ns, e3)

LEMMA CollectedRounds ==
  ASSUME NEW ns, Len(ns) \in Nat, NEW id, NEW e0, NEW e1, NEW e2, NEW e3, RoundsAre(ns, id, e0, e1, e2, e3)
  PROVE  /\ Len(ns) = 1 => Collected(ns, id) = e1.all
         /\ Len(ns) = 2 => Collected(ns, id) = e2.all
         /\ Len(ns) >= 3 => Collected(ns, id) = e3.all
<1>1. PICK n \in Nat : n = Len(ns)
  OBVIOUS
<1>2. /\ e0 = [all |-> {id}, frontier |-> {id}]
      /\ e1 = Rounds(ns, e0) /\ e2 = Rounds(ns, e1) /\ e3 = Rounds(ns, e2) /\ e3 = Rounds(ns, e3)
  BY DEF RoundsAre
<1>3. PICK h : h[0] = e0 /\ Collected(ns, id) = h[n].all /\ \A k \in 1 .. n : h[k] = Rounds(ns, h[k - 1])
  BY <1>1, <1>2, CollectedFunction
<1>4. Goes4(n, h, e0, e1, e2, e3)
  BY <1>2, <1>3, Zenon DEF Goes4
<1>5. Went4(n, h, e0, e1, e2, e3)
  BY <1>3, <1>4, Settles, Zenon
<1>6. n \in 0 .. n
  OBVIOUS
<1> QED
  BY <1>1, <1>3, <1>5, <1>6, Zenon DEF Went4

LevelsAre(ns, id, s0, s1, s2) ==
    /\ s0 = {id}
    /\ s1 = s0 \cup Tree!Children(ns, s0)
    /\ s2 = s1 \cup Tree!Children(ns, s1)
    /\ s2 = s2 \cup Tree!Children(ns, s2)

LEMMA SubtreeRounds ==
  ASSUME NEW ns, Len(ns) \in Nat, NEW id, NEW s0, NEW s1, NEW s2, LevelsAre(ns, id, s0, s1, s2)
  PROVE  /\ Len(ns) = 1 => Tree!Subtree(ns, id) = s1
         /\ Len(ns) >= 2 => Tree!Subtree(ns, id) = s2
<1>0. /\ s0 = {id} /\ s1 = s0 \cup Tree!Children(ns, s0) /\ s2 = s1 \cup Tree!Children(ns, s1)
      /\ s2 = s2 \cup Tree!Children(ns, s2)
  BY DEF LevelsAre
<1> USE <1>0
<1> DEFINE level[k \in 0..Len(ns)] ==
            IF k = 0 THEN {id} ELSE level[k - 1] \cup Tree!Children(ns, level[k - 1])
<1>1. Tree!Subtree(ns, id) = level[Len(ns)]
  BY DEF Tree!Subtree
<1>2. PICK g : g = [k \in 0 .. Len(ns) |-> IF k = 0 THEN s0 ELSE IF k = 1 THEN s1 ELSE s2]
  OBVIOUS
<1>3. g = [k \in 0 .. Len(ns) |-> IF k = 0 THEN {id} ELSE g[k - 1] \cup Tree!Children(ns, g[k - 1])]
  <2>1. ASSUME NEW k \in 0 .. Len(ns)
        PROVE  g[k] = IF k = 0 THEN {id} ELSE g[k - 1] \cup Tree!Children(ns, g[k - 1])
    <3>1. CASE k = 0
      BY <1>2, <3>1
    <3>2. CASE k # 0
      <4>1. k - 1 \in 0 .. Len(ns) /\ k # 0
        BY <3>2
      <4>2. g[k - 1] = IF k = 1 THEN s0 ELSE IF k = 2 THEN s1 ELSE s2
        BY <1>2, <4>1
      <4>3. g[k] = IF k = 1 THEN s1 ELSE s2
        BY <1>2, <4>1
      <4> QED
        BY <4>1, <4>2, <4>3
    <3> QED
      BY <3>1, <3>2
  <2>2. PICK f : f = [k \in 0 .. Len(ns) |-> IF k = 0 THEN {id} ELSE g[k - 1] \cup Tree!Children(ns, g[k - 1])]
    OBVIOUS
  <2>3. \A k \in 0 .. Len(ns) : f[k] = g[k]
    BY <2>1, <2>2, Zenon
  <2>4. f = [k \in 0 .. Len(ns) |-> f[k]] /\ g = [k \in 0 .. Len(ns) |-> g[k]]
    BY <1>2, <2>2, Zenon
  <2>5. f = g
    BY <2>3, <2>4
  <2> QED
    BY <2>2, <2>5, Zenon
<1>4. level = [k \in 0 .. Len(ns) |-> IF k = 0 THEN {id} ELSE level[k - 1] \cup Tree!Children(ns, level[k - 1])]
  <2>1. \E h : h = [k \in 0 .. Len(ns) |-> IF k = 0 THEN {id} ELSE h[k - 1] \cup Tree!Children(ns, h[k - 1])]
    BY <1>3, Zenon
  <2> QED
    BY <2>1, Zenon
<1> HIDE DEF level
<1>5. 0 \in 0 .. Len(ns) /\ \A k \in 1 .. Len(ns) : k \in 0 .. Len(ns) /\ k # 0
  OBVIOUS
<1>6. level[0] = s0
  BY <1>4, <1>5, Zenon
<1>7. ASSUME NEW k \in 1 .. Len(ns) PROVE level[k] = level[k - 1] \cup Tree!Children(ns, level[k - 1])
  <2>1. k \in 0 .. Len(ns) /\ k # 0
    BY <1>5
  <2>2. PICK i : i = k - 1
    OBVIOUS
  <2>3. level[k] = level[i] \cup Tree!Children(ns, level[i])
    BY <1>4, <2>1, <2>2, Zenon
  <2> QED
    BY <2>2, <2>3, Zenon
<1>8. PICK n \in Nat : n = Len(ns)
  OBVIOUS
<1>9. Goes4(n, level, s0, s1, s2, s2)
  <2>1. SUFFICES ASSUME NEW k \in 1 .. n
                 PROVE  /\ level[k - 1] = s0 => level[k] = s1
                        /\ level[k - 1] = s1 => level[k] = s2
                        /\ level[k - 1] = s2 => level[k] = s2
    BY Zenon DEF Goes4
  <2>2. PICK x : x = level[k - 1]
    OBVIOUS
  <2>3. PICK y : y = level[k]
    OBVIOUS
  <2>4. y = x \cup Tree!Children(ns, x)
    BY <1>7, <1>8, <2>2, <2>3, Zenon
  <2>5. (x = s0 => y = s1) /\ (x = s1 => y = s2) /\ (x = s2 => y = s2)
    BY <2>4
  <2> QED
    BY <2>2, <2>3, <2>5, Zenon
<1>10. Went4(n, level, s0, s1, s2, s2)
  BY <1>6, <1>9, Settles, Zenon
<1>11. n \in 0 .. n /\ (n = 2 \/ n >= 3 \/ ~(n >= 2))
  OBVIOUS
<1> QED
  BY <1>1, <1>8, <1>10, <1>11, Zenon DEF Went4

LEMMA CollectedAlone ==
  ASSUME NEW ns, Len(ns) \in Nat, Len(ns) # 0, NEW id, Tree!Children(ns, {id}) = {}
  PROVE  Collected(ns, id) = {id}
<1>1. Tree!Children(ns, {}) = {}
  BY DEF Tree!Children
<1>2. PICK e0 : e0 = [all |-> {id}, frontier |-> {id}]
  OBVIOUS
<1>3. PICK x : x = [all |-> {id}, frontier |-> {}]
  OBVIOUS
<1>4. PICK e1 : e1 = Rounds(ns, e0)
  OBVIOUS
<1>5. e1 = e0 \/ e1 = x
  BY <1>2, <1>3, <1>4 DEF Rounds
<1>6. Rounds(ns, e1) = e1
  <2>1. Rounds(ns, x) = x
    BY <1>1, <1>3 DEF Rounds
  <2>2. e1 = e0 => Rounds(ns, e0) = e0
    BY <1>4
  <2> QED
    BY <1>5, <2>1, <2>2, Zenon
<1>7. /\ Len(ns) = 1 => Collected(ns, id) = e1.all
      /\ Len(ns) = 2 => Collected(ns, id) = e1.all
      /\ Len(ns) >= 3 => Collected(ns, id) = e1.all
  <2>1. e1 = Rounds(ns, e1)
    BY <1>6, Zenon
  <2> QED
    <3>1. RoundsAre(ns, id, e0, e1, e1, e1)
      BY <1>2, <1>4, <2>1, Zenon DEF RoundsAre
    <3> QED
      BY <3>1, CollectedRounds
<1>8. e1.all = {id}
  BY <1>2, <1>3, <1>5
<1>9. \A n \in Nat : n = 0 \/ n = 1 \/ n = 2 \/ n >= 3
  OBVIOUS
<1> QED
  BY <1>7, <1>8, <1>9, Zenon

LEMMA SubtreeAlone ==
  ASSUME NEW ns, Len(ns) \in Nat, Len(ns) # 0, NEW id, Tree!Children(ns, {id}) = {}
  PROVE  Tree!Subtree(ns, id) = {id}
<1>1. PICK s : s = {id}
  OBVIOUS
<1>2. LevelsAre(ns, id, s, s, s)
  BY <1>1 DEF LevelsAre
<1>3. (Len(ns) = 1 => Tree!Subtree(ns, id) = s) /\ (Len(ns) >= 2 => Tree!Subtree(ns, id) = s)
  BY <1>2, SubtreeRounds
<1>4. \A n \in Nat : n = 0 \/ n = 1 \/ n >= 2
  OBVIOUS
<1> QED
  BY <1>1, <1>3, <1>4, Zenon

-----------------------------------------------------------------------------
(* flattenLists deletes no detail.                                         *)

(* A tool call between two of its statements.                              *)
CallOk(k, ns) ==
    \/ k = IdleCall
    \/ /\ k.at \in {"resolve", "lock", "find", "write"}
       /\ k = [at |-> k.at, in |-> k.in, names |-> k.names]
       /\ k.in \in Tree!Input /\ k.in.sv >= 0
       /\ k.at \in {"find", "write"} => Fits(ns, k.in) /\ Tree!checkModuleSlug(k.in.type, k.in.slug)
    \/ /\ k.at = "update"
       /\ k.id \in DOMAIN ns /\ k.data \in Tree!Singletons(Data) /\ k.sv \in Tree!Singletons(Versions)
    \/ k.at \in {"collect", "sweep"} /\ k.id \in DOMAIN ns
    \/ k.at \in {"max", "insert", "point"}

Ids(ns, type) == {i \in DOMAIN ns : ns[i].type = type}

(* flattenLists between two statements.  As long as every detail could be  *)
(* moved, those of the list are the ones it has still to look at.          *)
BootOk(b, ns) ==
    /\ b.at \in {"modules", "module", "list", "detail", "serve"}
    /\ b.at \in {"module", "list", "detail"} => b.mods \subseteq Ids(ns, "module")
    /\ b.at \in {"list", "detail"} =>
          /\ b.mod \in Ids(ns, "module") /\ b.lists \subseteq Ids(ns, "list")
          /\ \A i \in b.lists : ~ns[i].deleted
    /\ b.at = "detail" =>
          /\ b = [at |-> "detail", mods |-> b.mods, mod |-> b.mod, lists |-> b.lists,
                  list |-> b.list, details |-> b.details, left |-> b.left]
          /\ b.list \in Ids(ns, "list") /\ b.list \notin b.lists /\ ~ns[b.list].deleted
          /\ b.details \subseteq Ids(ns, "detail")
          /\ \A i \in b.details : ns[i].parent = b.list /\ ~ns[i].deleted
          /\ b.left \in Nat
          /\ b.left = 0 => Tree!Children(ns, {b.list}) \subseteq b.details

ContentInv ==
    /\ TreeTyped(board_node)
    /\ DOMAIN call = Clients
    /\ \A c \in Clients : CallOk(call[c], board_node)
    /\ ~Serving => \A c \in Clients : call[c] = IdleCall
    /\ BootOk(boot, board_node)

(* Ids stay, and no node becomes a list.                                   *)
Later(ns, ms) == DOMAIN ns \subseteq DOMAIN ms /\ \A i \in DOMAIN ns : ms[i].type = "list" => ns[i].type = "list"

LEMMA CallLasts ==
  ASSUME NEW ns, NEW ms, Later(ns, ms), NEW k, CallOk(k, ns)
  PROVE  CallOk(k, ms)
<1>1. ASSUME Fits(ns, k.in) PROVE Fits(ms, k.in)
  BY <1>1 DEF Fits, Later
<1>2. k.id \in DOMAIN ns => k.id \in DOMAIN ms
  BY DEF Later
<1> QED
  BY <1>1, <1>2, Zenon DEF CallOk

LEMMA ContentInitially == ContentInit => ContentInv
<1> SUFFICES ASSUME ContentInit PROVE ContentInv
  OBVIOUS
<1>1. TreeTyped(board_node)
  BY ContentAssumption DEF ContentInit, TreeTyped, Stored
<1>2. DOMAIN call = Clients /\ \A c \in Clients : call[c] = IdleCall
  BY DEF ContentInit
<1>3. BootOk(boot, board_node)
  BY DEF ContentInit, BootOk
<1> QED
  BY <1>1, <1>2, <1>3 DEF ContentInv, CallOk

LEMMA GoesWhenServing ==
  ASSUME ContentInv, NEW c \in Clients, call[c].at # "idle" PROVE Serving /\ CallOk(call[c], board_node)
BY DEF ContentInv, IdleCall

LEMMA CallGoes ==
  ASSUME ContentInv, NEW c \in Clients, Serving, UNCHANGED boot,
         NEW k, call' = [call EXCEPT ![c] = k], CallOk(k, board_node'),
         TreeTyped(board_node'), Later(board_node, board_node')
  PROVE  ContentInv'
<1>1. DOMAIN call' = Clients
  BY DEF ContentInv
<1>2. ASSUME NEW d \in Clients PROVE CallOk(call'[d], board_node')
  <2>1. CASE d = c
    BY <2>1 DEF ContentInv
  <2>2. CASE d # c
    <3>1. call'[d] = call[d] /\ CallOk(call[d], board_node)
      BY <2>2 DEF ContentInv
    <3> QED
      BY <3>1, CallLasts
  <2> QED
    BY <2>1, <2>2
<1>3. boot'.at = "serve"
  BY DEF Serving
<1>4. BootOk(boot', board_node')
  BY <1>3 DEF BootOk
<1> QED
  BY <1>1, <1>2, <1>3, <1>4 DEF ContentInv, Serving

LEMMA CallReads ==
  ASSUME ContentInv, NEW c \in Clients, Serving, UNCHANGED <<boot, board_node>>,
         NEW k, call' = [call EXCEPT ![c] = k], CallOk(k, board_node)
  PROVE  ContentInv'
<1>1. TreeTyped(board_node') /\ Later(board_node, board_node') /\ CallOk(k, board_node')
  BY DEF ContentInv, Later
<1> QED
  BY <1>1, CallGoes

LEMMA CallEnds ==
  ASSUME ContentInv, NEW c \in Clients, Serving, UNCHANGED boot, End(c),
         TreeTyped(board_node'), Later(board_node, board_node')
  PROVE  ContentInv'
<1>1. CallOk(IdleCall, board_node')
  BY DEF CallOk
<1>2. call' = [call EXCEPT ![c] = IdleCall]
  BY DEF End
<1> QED
  BY <1>1, <1>2, CallGoes

LEMMA CallFails ==
  ASSUME ContentInv, NEW c \in Clients, Serving, UNCHANGED <<boot, board_node>>, End(c) PROVE ContentInv'
<1>1. TreeTyped(board_node') /\ Later(board_node, board_node')
  BY DEF ContentInv, Later
<1> QED
  BY <1>1, CallEnds

LEMMA AcceptedFits ==
  ASSUME NEW ns, TreeTyped(ns), NEW in \in Tree!Input, Tree!Acceptable(ns, in)
  PROVE  Fits(ns, in) /\ Tree!checkModuleSlug(in.type, in.slug)
<1>1. in.parent \in Nat
  BY ContentAssumption DEF Tree!Input
<1>2. in.parent # 0 => in.parent \in DOMAIN ns
  BY DEF Tree!Acceptable, Tree!Live
<1>3. in.type \in {"module", "detail", "block"} /\ (in.parent = 0 <=> in.type = "module")
      /\ (in.parent # 0 => ns[in.parent].type # "list")
  <2>1. PICK above : above = [module |-> "", detail |-> "module", block |-> "detail"]
    BY Zenon
  <2>2. /\ DOMAIN above = {"module", "detail", "block"}
        /\ above["module"] = "" /\ above["detail"] = "module" /\ above["block"] = "detail"
    BY <2>1, Zenon
  <2>3. PICK t : t = in.type
    OBVIOUS
  <2>4. PICK p : p = in.parent
    OBVIOUS
  <2>5. t \in DOMAIN above /\ IF above[t] = "" THEN p = 0 ELSE p # 0 /\ ns[p].type = above[t]
    BY <2>1, <2>3, <2>4, Zenon DEF Tree!Acceptable, Tree!checkParent, Tree!parentType
  <2>6. PICK top : top = above["module"]
    OBVIOUS
  <2>7. top # "module" /\ top # "detail"
    BY <2>2, <2>6, Zenon
  <2>8. /\ DOMAIN above = {"module", "detail", "block"}
        /\ above["module"] = top /\ above["detail"] = "module" /\ above["block"] = "detail"
        /\ t \in DOMAIN above /\ IF above[t] = top THEN p = 0 ELSE p # 0 /\ ns[p].type = above[t]
    BY <2>2, <2>5, <2>6, Zenon
  <2> HIDE <2>1, <2>2, <2>5
  <2> QED
    BY <2>3, <2>4, <2>7, <2>8
<1> QED
  BY <1>2, <1>3 DEF Fits, Tree!Acceptable

LEMMA PutKeeps ==
  ASSUME ContentInv, NEW c \in Clients,
         \/ \E in \in Tree!Input : \E names : put_node(c, in, names)
         \/ resolveNamedParent(c) \/ LockParent(c) \/ LockSlug(c)
  PROVE  ContentInv'
<1>1. ASSUME NEW in \in Tree!Input, NEW names, put_node(c, in, names) PROVE ContentInv'
  <2>1. PICK k : k = [at |-> IF names = <<>> THEN "lock" ELSE "resolve", in |-> in, names |-> names]
    OBVIOUS
  <2>2. Serving /\ call' = [call EXCEPT ![c] = k] /\ UNCHANGED <<boot, board_node>> /\ in.sv >= 0
    BY <1>1, <2>1 DEF put_node, Enter, Continue, tables
  <2>3. k.at \in {"lock", "resolve"} /\ k.in = in /\ k = [at |-> k.at, in |-> k.in, names |-> k.names]
    BY <2>1
  <2>4. CallOk(k, board_node)
    BY <2>2, <2>3 DEF CallOk
  <2> QED
    BY <2>2, <2>4, CallReads
<1>2. ASSUME call[c].at \in {"resolve", "lock", "find", "write"}
      PROVE  /\ Serving /\ call[c] = [at |-> call[c].at, in |-> call[c].in, names |-> call[c].names]
             /\ call[c].in \in Tree!Input /\ call[c].in.sv >= 0
             /\ call[c].at \in {"find", "write"} => Fits(board_node, call[c].in) /\ Tree!checkModuleSlug(call[c].in.type, call[c].in.slug)
  <2>1. call[c].at # "idle" /\ call[c] # IdleCall
    BY <1>2 DEF IdleCall
  <2>2. Serving /\ CallOk(call[c], board_node)
    BY <2>1, GoesWhenServing
  <2> QED
    BY <1>2, <2>1, <2>2 DEF CallOk
<1>3. CASE resolveNamedParent(c)
  <2>1. UNCHANGED <<boot, board_node>> /\ call[c].at = "resolve"
    BY <1>3, Zenon DEF resolveNamedParent, Goes, tables
  <2>2. CASE End(c)
    BY <1>2, <2>1, <2>2, CallFails
  <2>3. ASSUME NEW i \in DOMAIN board_node,
               Continue(c, [call[c] EXCEPT !.in.parent = i, !.names = Tail(@),
                                           !.at = IF Tail(call[c].names) = <<>> THEN "lock" ELSE "resolve"])
        PROVE  ContentInv'
    <3>1. PICK old : old = call[c]
      OBVIOUS
    <3>2. PICK k : k = [old EXCEPT !.in.parent = i, !.names = Tail(@),
                                   !.at = IF Tail(old.names) = <<>> THEN "lock" ELSE "resolve"]
      BY Zenon
    <3>3. old = [at |-> old.at, in |-> old.in, names |-> old.names] /\ old.in \in Tree!Input /\ old.in.sv >= 0 /\ Serving
      BY <1>2, <2>1, <3>1, Zenon
    <3>4. i \in 0 .. MaxNodes
      BY TreeIsSeq DEF ContentInv
    <3>5. PICK in : in = [old.in EXCEPT !.parent = i]
      OBVIOUS
    <3>6. in \in Tree!Input /\ in.sv = old.in.sv
      BY <3>3, <3>4, <3>5 DEF Tree!Input
    <3>7. k.in = in /\ k.at \in {"lock", "resolve"} /\ k = [at |-> k.at, in |-> k.in, names |-> k.names]
      BY <3>2, <3>3, <3>5
    <3>8. CallOk(k, board_node)
      BY <3>3, <3>6, <3>7 DEF CallOk
    <3>9. call' = [call EXCEPT ![c] = k]
      BY <2>3, <3>1, <3>2 DEF Continue
    <3> QED
      BY <2>1, <3>3, <3>8, <3>9, CallReads
  <2>4. PICK found : found = {i \in Tree!At(board_node, call[c].in.parent, Head(call[c].names)) :
                                 /\ ~board_node[i].deleted
                                 /\ board_node[i].type = IF call[c].in.parent = 0 THEN "module" ELSE "detail"}
    OBVIOUS
  <2>5. \/ End(c)
        \/ \E i \in found :
               Continue(c, [call[c] EXCEPT !.in.parent = i, !.names = Tail(@),
                                           !.at = IF Tail(call[c].names) = <<>> THEN "lock" ELSE "resolve"])
    BY <1>3, <2>4, Zenon DEF resolveNamedParent
  <2>6. found \subseteq DOMAIN board_node
    BY <2>4 DEF Tree!At
  <2>7. \A i \in found : i \in DOMAIN board_node
    BY <2>6
  <2> QED
    BY <2>2, <2>3, <2>5, <2>7, Zenon
<1>4. CASE LockParent(c)
  <2>1. UNCHANGED <<boot, board_node>> /\ call[c].at = "lock"
    BY <1>4 DEF LockParent, Goes, tables
  <2>2. CASE End(c)
    BY <1>2, <2>1, <2>2, CallFails
  <2>3. CASE Tree!Acceptable(board_node, call[c].in) /\ Continue(c, [call[c] EXCEPT !.at = "find"])
    <3>1. PICK k : k = [call[c] EXCEPT !.at = "find"]
      OBVIOUS
    <3>2. k.at = "find" /\ k.in = call[c].in /\ k = [at |-> k.at, in |-> k.in, names |-> k.names]
      BY <1>2, <2>1, <3>1
    <3>3. Fits(board_node, k.in) /\ Tree!checkModuleSlug(k.in.type, k.in.slug)
      BY <1>2, <2>1, <2>3, <3>2, AcceptedFits DEF ContentInv
    <3>4. CallOk(k, board_node)
      BY <1>2, <2>1, <3>2, <3>3 DEF CallOk
    <3>5. call' = [call EXCEPT ![c] = k]
      BY <2>3, <3>1 DEF Continue
    <3> QED
      BY <1>2, <2>1, <3>4, <3>5, CallReads
  <2> QED
    BY <1>4, <2>2, <2>3 DEF LockParent
<1>5. CASE LockSlug(c)
  <2>1. UNCHANGED <<boot, board_node>> /\ call[c].at = "find" /\ Continue(c, [call[c] EXCEPT !.at = "write"])
    BY <1>5 DEF LockSlug, Goes, tables
  <2>2. PICK k : k = [call[c] EXCEPT !.at = "write"]
    OBVIOUS
  <2>3. k.at = "write" /\ k.in = call[c].in /\ k = [at |-> k.at, in |-> k.in, names |-> k.names]
    BY <1>2, <2>1, <2>2
  <2>4. CallOk(k, board_node)
    BY <1>2, <2>1, <2>3 DEF CallOk
  <2>5. call' = [call EXCEPT ![c] = k]
    BY <2>1, <2>2 DEF Continue
  <2> QED
    BY <1>2, <2>1, <2>4, <2>5, CallReads
<1> QED
  BY <1>1, <1>3, <1>4, <1>5

LEMMA WriteKeeps == ASSUME ContentInv, NEW c \in Clients, WriteNode(c) PROVE ContentInv'
<1>1. call[c].at = "write" /\ UNCHANGED boot /\ End(c)
      /\ board_node' = Tree!Upsert(board_node, call[c].in) /\ Len(board_node') <= MaxNodes
  BY DEF WriteNode, Goes
<1>2. Serving /\ CallOk(call[c], board_node)
  BY <1>1, GoesWhenServing
<1>3. Fits(board_node, call[c].in) /\ TreeTyped(board_node)
  BY <1>1, <1>2 DEF CallOk, IdleCall, ContentInv
<1>4. TreeTyped(board_node') /\ Grown(board_node, board_node', call[c].in)
  BY <1>1, <1>3, UpsertTree
<1>5. Later(board_node, board_node')
  BY <1>3, <1>4 DEF Grown, Later, Fits
<1> QED
  BY <1>1, <1>2, <1>4, <1>5, CallEnds

LEMMA TrimmedLater == ASSUME NEW ns, NEW ms, NEW ids, Trimmed(ns, ms, ids) PROVE Later(ns, ms)
BY DEF Trimmed, Later

LEMMA UpdateKeeps ==
  ASSUME ContentInv, NEW c \in Clients,
         \/ \E id \in DOMAIN board_node, d \in Tree!Singletons(Data), v \in Tree!Singletons(Versions) :
               update_node(c, id, d, v)
         \/ UpdateWrite(c)
  PROVE  ContentInv'
<1>1. ASSUME NEW id \in DOMAIN board_node, NEW d \in Tree!Singletons(Data), NEW v \in Tree!Singletons(Versions),
             update_node(c, id, d, v)
      PROVE  ContentInv'
  <2>1. PICK k : k = [at |-> "update", id |-> id, data |-> d, sv |-> v]
    OBVIOUS
  <2>2. Serving /\ call' = [call EXCEPT ![c] = k] /\ UNCHANGED <<boot, board_node>>
    BY <1>1, <2>1 DEF update_node, Enter, Continue, tables
  <2>3. CallOk(k, board_node)
    BY <2>1 DEF CallOk
  <2> QED
    BY <2>2, <2>3, CallReads
<1>2. CASE UpdateWrite(c)
  <2>1. call[c].at = "update" /\ UNCHANGED boot /\ End(c)
        /\ board_node' = IF Tree!Live(board_node, call[c].id)
                         THEN [board_node EXCEPT ![call[c].id] = Tree!Updated(@, call[c].data, call[c].sv)]
                         ELSE board_node
    BY <1>2, Zenon DEF UpdateWrite, Goes
  <2>2. Serving /\ CallOk(call[c], board_node)
    BY <2>1, GoesWhenServing
  <2>3. TreeTyped(board_node) /\ call[c].id \in DOMAIN board_node
        /\ call[c].data \in Tree!Singletons(Data) /\ call[c].sv \in Tree!Singletons(Versions)
    BY <2>1, <2>2 DEF CallOk, IdleCall, ContentInv
  <2>4. CASE Tree!Live(board_node, call[c].id)
    <3>1. board_node' = [board_node EXCEPT ![call[c].id] = Tree!Updated(board_node[call[c].id], call[c].data, call[c].sv)]
      BY <2>1, <2>4, Zenon
    <3>2. TreeTyped(board_node') /\ Trimmed(board_node, board_node', {})
      BY <2>3, <3>1, UpdatedTree
    <3>3. Later(board_node, board_node')
      BY <3>2, TrimmedLater
    <3> QED
      BY <2>1, <2>2, <3>2, <3>3, CallEnds
  <2>5. CASE ~Tree!Live(board_node, call[c].id)
    <3>1. UNCHANGED board_node
      BY <2>1, <2>5, Zenon
    <3> QED
      BY <2>1, <2>2, <3>1, CallFails
  <2> QED
    BY <2>4, <2>5
<1> QED
  BY <1>1, <1>2

LEMMA DeleteKeeps ==
  ASSUME ContentInv, NEW c \in Clients,
         \/ \E id \in DOMAIN board_node : delete_node(c, id)
         \/ CollectSubtree(c) \/ SweepSubtree(c)
  PROVE  ContentInv'
<1>1. ASSUME NEW id \in DOMAIN board_node, delete_node(c, id) PROVE ContentInv'
  <2>1. PICK k : k = [at |-> "collect", id |-> id]
    OBVIOUS
  <2>2. Serving /\ call' = [call EXCEPT ![c] = k] /\ UNCHANGED <<boot, board_node>>
    BY <1>1, <2>1 DEF delete_node, Enter, Continue, tables
  <2>3. CallOk(k, board_node)
    BY <2>1 DEF CallOk
  <2> QED
    BY <2>2, <2>3, CallReads
<1>2. CASE CollectSubtree(c)
  <2>1. PICK k : k = [at |-> "sweep", id |-> call[c].id, ids |-> Collected(board_node, call[c].id)]
    OBVIOUS
  <2>2. call[c].at = "collect" /\ call' = [call EXCEPT ![c] = k] /\ UNCHANGED <<boot, board_node>>
    BY <1>2, <2>1 DEF CollectSubtree, Goes, Continue, tables
  <2>3. Serving /\ CallOk(call[c], board_node)
    BY <2>2, GoesWhenServing
  <2>4. call[c].id \in DOMAIN board_node
    BY <2>2, <2>3 DEF CallOk, IdleCall
  <2>5. CallOk(k, board_node)
    BY <2>1, <2>4 DEF CallOk
  <2> QED
    BY <2>2, <2>3, <2>5, CallReads
<1>3. CASE SweepSubtree(c)
  <2>1. call[c].at = "sweep" /\ UNCHANGED boot /\ End(c) /\ board_node' = Tree!Deleted(board_node, call[c].ids)
    BY <1>3 DEF SweepSubtree, Goes
  <2>2. Serving /\ TreeTyped(board_node)
    BY <2>1, GoesWhenServing DEF ContentInv
  <2>3. TreeTyped(board_node') /\ Trimmed(board_node, board_node', call[c].ids)
    BY <2>1, <2>2, DeletedTree
  <2>4. Later(board_node, board_node')
    BY <2>3, TrimmedLater
  <2> QED
    BY <2>1, <2>2, <2>3, <2>4, CallEnds
<1> QED
  BY <1>1, <1>2, <1>3

LEMMA PagesKeep ==
  ASSUME ContentInv, NEW c \in Clients,
         \/ \E p \in Paths : \/ \E f \in Files : put_page(c, p, f)
                             \/ \E v \in 1 .. MaxVersions : rollback_page(c, p, v)
         \/ MaxVersion(c) \/ InsertVersion(c) \/ PointTo(c)
  PROVE  ContentInv'
<1>1. ASSUME NEW k, Serving, UNCHANGED <<boot, board_node>>, call' = [call EXCEPT ![c] = k],
             k.at \in {"max", "insert", "point"}
      PROVE  ContentInv'
  BY <1>1, CallReads DEF CallOk
<1>2. ASSUME NEW p \in Paths, NEW f \in Files, put_page(c, p, f) PROVE ContentInv'
  <2>1. PICK k : k = [at |-> "max", path |-> p, files |-> f]
    OBVIOUS
  <2>2. Serving /\ call' = [call EXCEPT ![c] = k] /\ UNCHANGED <<boot, board_node>>
    BY <1>2, <2>1 DEF put_page, Enter, Continue, tables
  <2> QED
    BY <1>1, <2>1, <2>2
<1>3. ASSUME NEW p \in Paths, NEW v \in 1 .. MaxVersions, rollback_page(c, p, v) PROVE ContentInv'
  <2>1. PICK k : k = [at |-> "point", path |-> p, version |-> v]
    OBVIOUS
  <2>2. Serving /\ call' = [call EXCEPT ![c] = k] /\ UNCHANGED <<boot, board_node>>
    BY <1>3, <2>1 DEF rollback_page, Enter, Continue, tables
  <2> QED
    BY <1>1, <2>1, <2>2
<1>4. CASE MaxVersion(c)
  <2>1. PICK k : /\ call' = [call EXCEPT ![c] = k] /\ k.at = "insert"
    <3>1. PICK max : max = LET vs == DOMAIN FilesOf(call[c].path)
                           IN  IF vs = {} THEN 0 ELSE CHOOSE v \in vs : \A w \in vs : w <= v
      OBVIOUS
    <3>2. PICK k : k = [at |-> "insert", path |-> call[c].path, files |-> call[c].files, version |-> max + 1]
      OBVIOUS
    <3>3. call' = [call EXCEPT ![c] = k]
      BY <1>4, <3>1, <3>2, Zenon DEF MaxVersion, Continue
    <3>4. k.at = "insert"
      BY <3>2, Zenon
    <3> QED
      BY <3>3, <3>4, Zenon
  <2>2. call[c].at = "max" /\ UNCHANGED <<boot, board_node>>
    BY <1>4 DEF MaxVersion, Goes, tables
  <2>3. Serving
    BY <2>2, GoesWhenServing
  <2> QED
    BY <1>1, <2>1, <2>2, <2>3
<1>5. CASE InsertVersion(c) \/ PointTo(c)
  <2>1. call[c].at \in {"insert", "point"} /\ UNCHANGED <<boot, board_node>> /\ End(c)
    BY <1>5 DEF InsertVersion, PointTo, Goes
  <2>2. Serving
    BY <2>1, GoesWhenServing
  <2> QED
    BY <2>1, <2>2, CallFails
<1> QED
  BY <1>2, <1>3, <1>4, <1>5

KeepsDetails(ns, ms) == \A i \in DOMAIN ns : ns[i].type = "detail" /\ ~ns[i].deleted => ~ms[i].deleted

LEMMA FlattenStays ==
  ASSUME ContentInv, ~Serving, UNCHANGED call, TreeTyped(board_node'), BootOk(boot', board_node')
  PROVE  ContentInv'
BY DEF ContentInv, CallOk

LEMMA FlattenLooks ==
  ASSUME ContentInv, FlattenModules \/ FlattenModule \/ FlattenList
  PROVE  ContentInv' /\ KeepsDetails(board_node, board_node')
<1>1. UNCHANGED <<board_node, call>> /\ ~Serving /\ TreeTyped(board_node) /\ BootOk(boot, board_node)
  BY DEF FlattenModules, FlattenModule, FlattenList, Booting, Serving, ContentInv
<1> SUFFICES BootOk(boot', board_node)
  BY <1>1, FlattenStays DEF KeepsDetails
<1>2. CASE FlattenModules
  <2>1. boot' = [at |-> "module", mods |-> LiveOfType(0, "module")]
    BY <1>2 DEF FlattenModules
  <2>2. LiveOfType(0, "module") \subseteq Ids(board_node, "module")
    BY DEF LiveOfType, Tree!Children, Ids
  <2> QED
    BY <2>1, <2>2 DEF BootOk
<1>3. CASE FlattenModule
  <2>1. boot.at = "module" /\ boot.mods \subseteq Ids(board_node, "module")
    BY <1>1, <1>3 DEF FlattenModule, Booting, BootOk
  <2>2. CASE boot' = [at |-> "serve"]
    BY <2>2 DEF BootOk
  <2>3. ASSUME NEW m \in boot.mods,
               boot' = [at |-> "list", mods |-> boot.mods \ {m}, mod |-> m, lists |-> LiveOfType(m, Tree!legacyList)]
        PROVE  BootOk(boot', board_node)
    <3>1. \A i \in LiveOfType(m, Tree!legacyList) : i \in Ids(board_node, "list") /\ ~board_node[i].deleted
      BY DEF LiveOfType, Tree!Children, Ids, Tree!legacyList
    <3> QED
      BY <2>1, <2>3, <3>1 DEF BootOk
  <2> QED
    BY <1>3, <2>2, <2>3 DEF FlattenModule
<1>4. CASE FlattenList
  <2>1. /\ boot.at = "list" /\ boot.mods \subseteq Ids(board_node, "module")
        /\ boot.mod \in Ids(board_node, "module") /\ boot.lists \subseteq Ids(board_node, "list")
        /\ \A i \in boot.lists : ~board_node[i].deleted
    BY <1>1, <1>4 DEF FlattenList, Booting, BootOk
  <2>2. CASE boot' = [at |-> "module", mods |-> boot.mods]
    BY <2>1, <2>2 DEF BootOk
  <2>3. ASSUME NEW l \in boot.lists,
               boot' = [at |-> "detail", mods |-> boot.mods, mod |-> boot.mod, lists |-> boot.lists \ {l},
                        list |-> l, details |-> LiveOfType(l, "detail"), left |-> 0]
        PROVE  BootOk(boot', board_node)
    <3>1. l \in Ids(board_node, "list") /\ l # 0 /\ l \in DOMAIN board_node /\ board_node[l].type = "list"
      BY <1>1, <2>1, TreeIsSeq DEF Ids
    <3>2. \A i \in LiveOfType(l, "detail") : /\ i \in Ids(board_node, "detail") /\ ~board_node[i].deleted
                                              /\ board_node[i].parent = l
      BY DEF LiveOfType, Tree!Children, Ids
    <3>3. Tree!Children(board_node, {l}) \subseteq LiveOfType(l, "detail")
      BY <1>1, <3>1 DEF TreeTyped, LiveOfType, Tree!Children
    <3>4. ~board_node[l].deleted
      BY <2>1
    <3>5. PICK D : D = LiveOfType(l, "detail")
      OBVIOUS
    <3>6. /\ boot'.at = "detail" /\ boot'.mods = boot.mods /\ boot'.mod = boot.mod /\ boot'.lists = boot.lists \ {l}
          /\ boot'.list = l /\ boot'.details = D /\ boot'.left = 0
          /\ boot' = [at |-> "detail", mods |-> boot'.mods, mod |-> boot'.mod, lists |-> boot'.lists,
                      list |-> boot'.list, details |-> boot'.details, left |-> boot'.left]
      BY <2>3, <3>5
    <3> HIDE <2>3
    <3>7. \A i \in boot.lists \ {l} : ~board_node[i].deleted
      BY <2>1
    <3>8. /\ D \subseteq Ids(board_node, "detail") /\ Tree!Children(board_node, {l}) \subseteq D
          /\ \A i \in D : board_node[i].parent = l /\ ~board_node[i].deleted
      BY <3>2, <3>3, <3>5
    <3>9. boot.lists \ {l} \subseteq Ids(board_node, "list") /\ l \notin boot.lists \ {l} /\ 0 \in Nat
      BY <2>1
    <3> HIDE <3>5
    <3> QED
      BY <2>1, <3>1, <3>4, <3>6, <3>7, <3>8, <3>9, Zenon DEF BootOk
  <2> QED
    BY <1>4, <2>2, <2>3 DEF FlattenList
<1> QED
  BY <1>2, <1>3, <1>4

LEMMA BootAtDetail ==
  ASSUME ContentInv, boot.at = "detail"
  PROVE  /\ ~Serving /\ TreeTyped(board_node)
         /\ boot = [at |-> "detail", mods |-> boot.mods, mod |-> boot.mod, lists |-> boot.lists,
                    list |-> boot.list, details |-> boot.details, left |-> boot.left]
         /\ boot.mods \subseteq Ids(board_node, "module")
         /\ boot.mod \in Ids(board_node, "module") /\ boot.lists \subseteq Ids(board_node, "list")
         /\ \A i \in boot.lists : ~board_node[i].deleted
         /\ boot.list \in Ids(board_node, "list") /\ boot.list \notin boot.lists /\ ~board_node[boot.list].deleted
         /\ boot.details \subseteq Ids(board_node, "detail")
         /\ \A i \in boot.details : board_node[i].parent = boot.list /\ ~board_node[i].deleted
         /\ boot.left \in Nat
         /\ boot.left = 0 => Tree!Children(board_node, {boot.list}) \subseteq boot.details
BY DEF ContentInv, BootOk, Serving

LEMMA FlattenDetailKeeps ==
  ASSUME ContentInv, FlattenDetail PROVE ContentInv' /\ KeepsDetails(board_node, board_node')
<1>1. boot.at = "detail" /\ UNCHANGED call
  BY DEF FlattenDetail, Booting
<1>2. PICK d \in boot.details :
          IF Tree!At(board_node, boot.mod, board_node[d].slug) = {}
          THEN /\ board_node' = [board_node EXCEPT ![d].parent = boot.mod]
               /\ boot' = [boot EXCEPT !.details = @ \ {d}]
          ELSE /\ boot' = [boot EXCEPT !.details = @ \ {d}, !.left = @ + 1]
               /\ UNCHANGED board_node
  BY Zenon DEF FlattenDetail
<1>3. d \in DOMAIN board_node /\ board_node[d].type = "detail" /\ board_node[d].parent = boot.list /\ ~board_node[d].deleted
  BY <1>1, BootAtDetail DEF Ids
<1>4. boot.mod \in DOMAIN board_node /\ board_node[boot.mod].type = "module"
      /\ boot.list \in DOMAIN board_node /\ board_node[boot.list].type = "list"
  BY <1>1, BootAtDetail DEF Ids
<1>5. CASE board_node' = [board_node EXCEPT ![d].parent = boot.mod] /\ boot' = [boot EXCEPT !.details = @ \ {d}]
  <2>1. PICK ms : ms = board_node'
    OBVIOUS
  <2>2. /\ TreeTyped(ms) /\ DOMAIN ms = DOMAIN board_node /\ ms[d].parent = boot.mod
        /\ \A i \in DOMAIN board_node : /\ ms[i].type = board_node[i].type /\ ms[i].deleted = board_node[i].deleted
                                        /\ i # d => ms[i] = board_node[i]
    <3>1. ms = Moved(board_node, d, boot.mod)
      BY <1>5, <2>1, Zenon DEF Moved
    <3>2. TreeTyped(board_node)
      BY <1>1, BootAtDetail
    <3> QED
      BY <1>3, <1>4, <3>1, <3>2, MovedTree
  <2>3. PICK b : b = boot'
    OBVIOUS
  <2>4. /\ b.at = "detail" /\ b.mods = boot.mods /\ b.mod = boot.mod /\ b.lists = boot.lists
        /\ b.list = boot.list /\ b.details = boot.details \ {d} /\ b.left = boot.left
        /\ b = [at |-> "detail", mods |-> b.mods, mod |-> b.mod, lists |-> b.lists,
                list |-> b.list, details |-> b.details, left |-> b.left]
    BY <1>1, <1>5, <2>3, BootAtDetail
  <2>5. \A t : Ids(ms, t) = Ids(board_node, t)
    BY <2>2 DEF Ids
  <2>6. Tree!Children(ms, {boot.list}) \subseteq Tree!Children(board_node, {boot.list}) \ {d}
    <3>1. boot.mod # boot.list
      BY <1>4
    <3> QED
      BY <2>2, <3>1 DEF Tree!Children
  <2>7. BootOk(b, ms)
    <3>1. \A i \in b.lists : i \in DOMAIN board_node
      BY <1>1, <2>4, BootAtDetail DEF Ids
    <3>2. \A i \in b.details : i \in DOMAIN board_node
      BY <1>1, <2>4, BootAtDetail DEF Ids
    <3>3. /\ b.mods \subseteq Ids(ms, "module") /\ b.mod \in Ids(ms, "module") /\ b.lists \subseteq Ids(ms, "list")
          /\ b.list \in Ids(ms, "list") /\ b.details \subseteq Ids(ms, "detail") /\ b.list \notin b.lists /\ b.left \in Nat
      BY <1>1, <2>4, <2>5, BootAtDetail
    <3>4. \A i \in b.lists : ~ms[i].deleted
      BY <1>1, <2>2, <2>4, <3>1, BootAtDetail
    <3>5. \A i \in b.details : ms[i].parent = b.list /\ ~ms[i].deleted
      BY <1>1, <2>2, <2>4, <3>2, BootAtDetail
    <3>6. ~ms[b.list].deleted
      BY <1>1, <1>4, <2>2, <2>4, BootAtDetail
    <3>7. b.left = 0 => Tree!Children(ms, {b.list}) \subseteq b.details
      BY <1>1, <2>4, <2>6, BootAtDetail
    <3> QED
      BY <2>4, <3>3, <3>4, <3>5, <3>6, <3>7, Zenon DEF BootOk
  <2> QED
    BY <1>1, <2>1, <2>2, <2>3, <2>7, FlattenStays, BootAtDetail DEF KeepsDetails
<1>6. CASE boot' = [boot EXCEPT !.details = @ \ {d}, !.left = @ + 1] /\ UNCHANGED board_node
  <2>1. PICK b : b = boot'
    OBVIOUS
  <2>2. /\ b.at = "detail" /\ b.mods = boot.mods /\ b.mod = boot.mod /\ b.lists = boot.lists
        /\ b.list = boot.list /\ b.details = boot.details \ {d} /\ b.left = boot.left + 1
        /\ b = [at |-> "detail", mods |-> b.mods, mod |-> b.mod, lists |-> b.lists,
                list |-> b.list, details |-> b.details, left |-> b.left]
    BY <1>1, <1>6, <2>1, BootAtDetail
  <2>3. b.left \in Nat /\ b.left # 0
    BY <1>1, <2>2, BootAtDetail
  <2>4. BootOk(b, board_node)
    BY <1>1, <2>2, <2>3, BootAtDetail DEF BootOk
  <2> QED
    BY <1>1, <1>6, <2>1, <2>4, FlattenStays, BootAtDetail DEF KeepsDetails
<1> QED
  BY <1>2, <1>5, <1>6

LEMMA FlattenListKeeps ==
  ASSUME ContentInv, FlattenListDone PROVE ContentInv' /\ KeepsDetails(board_node, board_node')
<1>1. /\ boot.at = "detail" /\ UNCHANGED call /\ boot.details = {}
      /\ board_node' = IF boot.left = 0 THEN Tree!Deleted(board_node, Collected(board_node, boot.list)) ELSE board_node
      /\ boot' = [at |-> "list", mods |-> boot.mods, mod |-> boot.mod, lists |-> boot.lists]
  BY DEF FlattenListDone, Booting
<1>2. PICK ms : ms = board_node'
  OBVIOUS
<1>3. boot.list \in DOMAIN board_node /\ board_node[boot.list].type = "list"
  BY <1>1, BootAtDetail DEF Ids
<1>4. ms = board_node \/ (TreeTyped(ms) /\ Trimmed(board_node, ms, {boot.list}))
  <2>1. CASE boot.left = 0
    <3>1. Tree!Children(board_node, {boot.list}) = {}
      BY <1>1, <2>1, BootAtDetail
    <3>2. Len(board_node) \in Nat /\ Len(board_node) # 0
      <4>1. DOMAIN board_node = 1 .. Len(board_node) /\ Len(board_node) \in Nat
        BY <1>1, BootAtDetail, TreeIsSeq
      <4> QED
        BY <1>3, <4>1
    <3>3. Collected(board_node, boot.list) = {boot.list}
      BY <3>1, <3>2, CollectedAlone
    <3>4. ms = Tree!Deleted(board_node, {boot.list})
      BY <1>1, <1>2, <2>1, <3>3
    <3> QED
      BY <1>1, <3>4, BootAtDetail, DeletedTree
  <2>2. CASE boot.left # 0
    BY <1>1, <1>2, <2>2, Zenon
  <2> QED
    BY <2>1, <2>2
<1>5. /\ TreeTyped(ms) /\ DOMAIN ms = DOMAIN board_node
      /\ \A i \in DOMAIN board_node : /\ ms[i].type = board_node[i].type
                                      /\ i # boot.list => (ms[i].deleted <=> board_node[i].deleted)
  BY <1>1, <1>4, BootAtDetail DEF Trimmed
<1>6. \A t : Ids(ms, t) = Ids(board_node, t)
  BY <1>5 DEF Ids
<1>7. \A i \in boot.lists : ~ms[i].deleted
  BY <1>1, <1>5, BootAtDetail DEF Ids
<1>8. BootOk(boot', ms)
  BY <1>1, <1>6, <1>7, BootAtDetail DEF BootOk
<1>9. KeepsDetails(board_node, ms)
  BY <1>3, <1>5 DEF KeepsDetails
<1> QED
  BY <1>1, <1>2, <1>5, <1>8, <1>9, FlattenStays, BootAtDetail

Puts(c) ==
    \/ \E in \in Tree!Input : \E names : put_node(c, in, names)
    \/ resolveNamedParent(c) \/ LockParent(c) \/ LockSlug(c)

Updates(c) ==
    \/ \E id \in DOMAIN board_node, d \in Tree!Singletons(Data), v \in Tree!Singletons(Versions) : update_node(c, id, d, v)
    \/ UpdateWrite(c)

Deletes(c) ==
    \/ \E id \in DOMAIN board_node : delete_node(c, id)
    \/ CollectSubtree(c) \/ SweepSubtree(c)

PageSteps(c) ==
    \/ \E p \in Paths : \/ \E f \in Files : put_page(c, p, f)
                        \/ \E v \in 1 .. MaxVersions : rollback_page(c, p, v)
    \/ MaxVersion(c) \/ InsertVersion(c) \/ PointTo(c)

LEMMA NextIs ==
  ContentNext => \/ Flatten \/ Crash
                 \/ \E c \in Clients : Puts(c) \/ WriteNode(c) \/ Updates(c) \/ Deletes(c) \/ PageSteps(c) \/ DbError(c)
<1>1. ASSUME NEW c \in Clients, NEW in \in Tree!Input, NEW names, put_node(c, in, names) PROVE Puts(c)
  BY <1>1, Zenon DEF Puts
<1>2. ASSUME NEW c \in Clients, NEW id \in DOMAIN board_node, NEW d \in Tree!Singletons(Data),
             NEW v \in Tree!Singletons(Versions), update_node(c, id, d, v)
      PROVE  Updates(c)
  BY <1>2, Zenon DEF Updates
<1>3. ASSUME NEW c \in Clients, NEW id \in DOMAIN board_node, delete_node(c, id) PROVE Deletes(c)
  BY <1>3, Zenon DEF Deletes
<1> QED
  BY <1>1, <1>2, <1>3 DEF ContentNext, Puts, Updates, Deletes, PageSteps

LEMMA ServingWhenBusy ==
  ASSUME ContentInv, NEW c \in Clients,
         Puts(c) \/ WriteNode(c) \/ Updates(c) \/ Deletes(c) \/ PageSteps(c) \/ DbError(c)
  PROVE  Serving
<1>1. ASSUME call[c].at = "idle" PROVE DbError(c) \/ Serving
  <2>1. \A at : Goes(c, at) => at = "idle"
    BY <1>1 DEF Goes
  <2>2. Enter(c) => Serving
    BY DEF Enter
  <2>3. Puts(c) => Serving
    BY <2>1, <2>2, Zenon DEF Puts, put_node, resolveNamedParent, LockParent, LockSlug
  <2>4. Updates(c) \/ WriteNode(c) => Serving
    BY <2>1, <2>2, Zenon DEF Updates, update_node, UpdateWrite, WriteNode
  <2>5. Deletes(c) => Serving
    BY <2>1, <2>2, Zenon DEF Deletes, delete_node, CollectSubtree, SweepSubtree
  <2>6. PageSteps(c) => Serving
    BY <2>1, <2>2, Zenon DEF PageSteps, put_page, rollback_page, MaxVersion, InsertVersion, PointTo
  <2> QED
    BY <2>3, <2>4, <2>5, <2>6
<1>2. DbError(c) => Serving
  BY DEF DbError, ContentInv
<1>3. call[c].at # "idle" => Serving
  BY GoesWhenServing
<1> QED
  BY <1>1, <1>2, <1>3

LEMMA ContentStep ==
  ContentInv /\ [ContentNext]_contentVars => ContentInv' /\ (~Serving => KeepsDetails(board_node, board_node'))
<1> SUFFICES ASSUME ContentInv, [ContentNext]_contentVars
             PROVE  ContentInv' /\ (~Serving => KeepsDetails(board_node, board_node'))
  OBVIOUS
<1>1. CASE Flatten
  BY <1>1, FlattenLooks, FlattenDetailKeeps, FlattenListKeeps DEF Flatten
<1>2. CASE Crash
  <2>1. UNCHANGED board_node /\ boot' = [at |-> "modules"] /\ call' = [c \in Clients |-> IdleCall]
    BY <1>2 DEF Crash, tables
  <2>2. BootOk(boot', board_node) /\ ~(boot'.at = "serve")
    BY <2>1 DEF BootOk
  <2> QED
    BY <2>1, <2>2 DEF ContentInv, CallOk, Serving, KeepsDetails
<1>3. ASSUME UNCHANGED contentVars PROVE ContentInv' /\ KeepsDetails(board_node, board_node')
  BY <1>3 DEF contentVars, tables, ContentInv, Serving, KeepsDetails
<1>4. ASSUME NEW c \in Clients,
             Puts(c) \/ WriteNode(c) \/ Updates(c) \/ Deletes(c) \/ PageSteps(c) \/ DbError(c)
      PROVE  ContentInv' /\ Serving
  <2>1. Serving
    BY <1>4, ServingWhenBusy
  <2>2. ASSUME DbError(c) PROVE ContentInv'
    <3>1. End(c) /\ UNCHANGED <<boot, board_node>>
      BY <2>2 DEF DbError, tables
    <3> QED
      BY <2>1, <3>1, CallFails
  <2>3. ASSUME Puts(c) PROVE ContentInv'
    BY <2>3, PutKeeps, Zenon DEF Puts
  <2>4. ASSUME WriteNode(c) PROVE ContentInv'
    BY <2>4, WriteKeeps, Zenon
  <2>5. ASSUME Updates(c) PROVE ContentInv'
    BY <2>5, UpdateKeeps, Zenon DEF Updates
  <2>6. ASSUME Deletes(c) PROVE ContentInv'
    BY <2>6, DeleteKeeps, Zenon DEF Deletes
  <2>7. ASSUME PageSteps(c) PROVE ContentInv'
    BY <2>7, PagesKeep, Zenon DEF PageSteps
  <2> QED
    BY <1>4, <2>1, <2>2, <2>3, <2>4, <2>5, <2>6, <2>7, Zenon
<1> QED
  BY <1>1, <1>2, <1>3, <1>4, NextIs, Zenon

(* However often flattenLists (content_flatten.go) is interrupted and run  *)
(* again, before the board serves, it never deletes a detail: a list that  *)
(* goes is empty by then, and one with a detail that could not be moved    *)
(* stays.                                                                  *)
THEOREM FlatteningKeepsDetails == ContentSpec => FlattenKeepsDetails
<1>1. ContentInv /\ [ContentNext]_contentVars =>
         [~Serving => \A i \in DOMAIN board_node :
             board_node[i].type = "detail" /\ ~board_node[i].deleted => ~board_node'[i].deleted]_contentVars
  BY ContentStep DEF KeepsDetails
<1> QED
  BY <1>1, ContentInitially, ContentStep, PTL DEF ContentSpec, FlattenKeepsDetails

-----------------------------------------------------------------------------
(* The MySQL store does what the in-memory store does.                     *)

(* At most three levels, the uppermost being modules.                      *)
Shallow(ns) ==
    \A i \in DOMAIN ns :
        ns[i].parent # 0 => (ns[ns[i].parent].parent # 0 => ns[ns[ns[i].parent].parent].parent = 0)

(* Clients write modules and details only; the three levels are those that *)
(* lists left, which a put_node of their name may turn into details.       *)
OneLevel ==
    /\ Types \subseteq {"module", "detail"}
    /\ MaxNodes < DeleteLimit
    /\ \A t \in InitialTrees : Shallow(t)

Under(ns, id) == Tree!Children(ns, {id}) \cup Tree!Children(ns, Tree!Children(ns, {id}))

(* ids are what is live below id, and what was when they were collected.   *)
Whole(ns, id, ids) ==
    /\ {id} \cup Under(ns, id) \subseteq ids
    /\ \A i \in ids : /\ i \in DOMAIN ns
                      /\ ~ns[i].deleted => i \in {id} \cup Under(ns, id)
                      /\ \/ i = id
                         \/ ns[i].parent = id
                         \/ ns[i].parent \in DOMAIN ns /\ ns[ns[i].parent].parent = id

(* What the row locks of a call protect. *)
Guarded(k, held, ns) ==
    /\ k.at \in {"find", "write"} =>
          \/ k.in.parent = 0
          \/ /\ NodeRow(k.in.parent) \in held
             /\ Tree!Live(ns, k.in.parent) /\ ns[k.in.parent].type = "module"
    /\ k.at \in {"collect", "sweep"} => NodeRow(k.id) \in held /\ Tree!Live(ns, k.id)
    /\ k.at = "sweep" => Whole(ns, k.id, k.ids)

VersionsIn(all, p) == {r.version : r \in {q \in all : q.path = p}}

(* The versions of a path are numbered from 1 on, without a gap.           *)
RowsTyped(all) ==
    /\ all \subseteq [path : Paths, version : 1 .. MaxVersions, files : Files]
    /\ \A q, r \in all : q.path = r.path /\ q.version = r.version => q = r
    /\ \A p \in Paths : \E n \in 0 .. MaxVersions : VersionsIn(all, p) = 1 .. n

(* The number a call has worked out is still the next one. *)
PageCall(k, held, all) ==
    /\ k.at \in {"max", "insert"} => k.path \in Paths /\ k.files \in Files /\ PageRow(k.path) \in held
    /\ k.at = "insert" => k.version \in 1 .. MaxVersions /\ VersionsIn(all, k.path) = 1 .. k.version - 1
    /\ k.at = "point" => /\ k.path \in Paths /\ k.version \in 1 .. MaxVersions
                         /\ k.version \in VersionsIn(all, k.path)

(* Only a gap can be locked by two. *)
Locked ==
    /\ DOMAIN rows = Clients
    /\ \A c, d \in Clients : c # d => \A l \in rows[c] \cap rows[d] : l[1] = "gap"

TreeInv ==
    /\ Shallow(board_node)
    /\ \A c \in Clients : Guarded(call[c], rows[c], board_node)

PageInv ==
    /\ DOMAIN board_page \subseteq Paths
    /\ RowsTyped(board_page_version)
    /\ \A c \in Clients : PageCall(call[c], rows[c], board_page_version)

LEMMA Depth ==
  ASSUME NEW ns, TreeTyped(ns), Shallow(ns), NEW id \in DOMAIN ns
  PROVE  /\ id \notin Tree!Children(ns, {id})
         /\ Tree!Children(ns, Tree!Children(ns, Tree!Children(ns, {id}))) = {}
<1>1. id # 0
  BY TreeIsSeq
<1>2. \A i \in DOMAIN ns : i # 0
  BY TreeIsSeq
<1>3. id \notin Tree!Children(ns, {id})
  BY <1>1 DEF Shallow, Tree!Children
<1>4. ASSUME NEW x \in Tree!Children(ns, Tree!Children(ns, Tree!Children(ns, {id}))) PROVE FALSE
  <2>1. PICK a \in Tree!Children(ns, Tree!Children(ns, {id})) : x \in DOMAIN ns /\ ns[x].parent = a
    BY DEF Tree!Children
  <2>2. PICK b \in Tree!Children(ns, {id}) : a \in DOMAIN ns /\ ns[a].parent = b
    BY DEF Tree!Children
  <2>3. b \in DOMAIN ns /\ ns[b].parent = id
    BY DEF Tree!Children
  <2> QED
    BY <1>1, <1>2, <2>1, <2>2, <2>3 DEF Shallow
<1> QED
  BY <1>3, <1>4

LEMMA FiniteIds ==
  ASSUME NEW ns, TreeTyped(ns), NEW S \in SUBSET DOMAIN ns
  PROVE  IsFiniteSet(S) /\ Cardinality(S) \in Nat /\ Cardinality(S) <= Len(ns)
<1>1. DOMAIN ns = 1 .. Len(ns) /\ Len(ns) \in Nat
  BY TreeIsSeq
<1>2. IsFiniteSet(1 .. Len(ns)) /\ Cardinality(1 .. Len(ns)) = Len(ns)
  <2>1. 1 \in Int /\ Len(ns) \in Int
    BY <1>1
  <2>2. IsFiniteSet(1 .. Len(ns)) /\ Cardinality(1 .. Len(ns)) = IF 1 > Len(ns) THEN 0 ELSE Len(ns) - 1 + 1
    BY <2>1, FS_Interval
  <2> QED
    BY <1>1, <2>2
<1>3. IsFiniteSet(S) /\ Cardinality(S) <= Cardinality(1 .. Len(ns))
  BY <1>1, <1>2, FS_Subset
<1> QED
  BY <1>2, <1>3, FS_CardinalityType

LEMMA FewFound ==
  ASSUME NEW ns, TreeTyped(ns), MaxNodes < DeleteLimit, NEW S \in SUBSET DOMAIN ns
  PROVE  Cardinality(S) < DeleteLimit
<1>1. Len(ns) \in Nat /\ Len(ns) <= MaxNodes
  BY TreeIsSeq
<1>2. Cardinality(S) \in Nat /\ Cardinality(S) <= Len(ns)
  BY FiniteIds
<1>3. MaxNodes \in Nat /\ DeleteLimit \in Nat
  BY ContentAssumption
<1> QED
  BY <1>1, <1>2, <1>3

LEMMA BelowFound ==
  ASSUME NEW ns, TreeTyped(ns), Shallow(ns), MaxNodes < DeleteLimit, NEW id \in DOMAIN ns
  PROVE  /\ Collected(ns, id) = {id} \cup Under(ns, id)
         /\ Tree!Subtree(ns, id) = {id} \cup Under(ns, id)
<1>1. PICK C1 : C1 = Tree!Children(ns, {id})
  OBVIOUS
<1>2. PICK C2 : C2 = Tree!Children(ns, C1)
  OBVIOUS
<1>3. Tree!Children(ns, C2) = {} /\ id \notin C1
  BY <1>1, <1>2, Depth
<1>4. Under(ns, id) = C1 \cup C2
  BY <1>1, <1>2 DEF Under
<1>5. C1 \subseteq DOMAIN ns /\ C2 \subseteq DOMAIN ns
  BY <1>1, <1>2 DEF Tree!Children
<1>6. DOMAIN ns = 1 .. Len(ns) /\ Len(ns) \in Nat
  BY TreeIsSeq
<1>7. Len(ns) = 1 => C2 = {}
  <2>1. ASSUME Len(ns) = 1 PROVE C1 = {}
    BY <1>3, <1>5, <1>6, <2>1
  <2> QED
    BY <1>2, <2>1 DEF Tree!Children
<1>8. Len(ns) = 1 \/ Len(ns) = 2 \/ Len(ns) >= 3
  <2>1. \A n \in Nat : n = 0 \/ n = 1 \/ n = 2 \/ n >= 3
    OBVIOUS
  <2>2. Len(ns) # 0
    BY <1>6
  <2> QED
    BY <1>6, <2>1, <2>2, Zenon
<1>9. Collected(ns, id) = {id} \cup C1 \cup C2
  <2>1. PICK e0 : e0 = [all |-> {id}, frontier |-> {id}]
    OBVIOUS
  <2>2. PICK e1 : e1 = [all |-> {id} \cup C1, frontier |-> C1]
    OBVIOUS
  <2>3. PICK e2 : e2 = [all |-> {id} \cup C1 \cup C2, frontier |-> C2]
    OBVIOUS
  <2>4. PICK e3 : e3 = [all |-> {id} \cup C1 \cup C2, frontier |-> {}]
    OBVIOUS
  <2>5. /\ Cardinality({id}) < DeleteLimit /\ Cardinality({id} \cup C1) < DeleteLimit
        /\ Cardinality({id} \cup C1 \cup C2) < DeleteLimit
    <3>1. {id} \in SUBSET DOMAIN ns /\ {id} \cup C1 \in SUBSET DOMAIN ns /\ {id} \cup C1 \cup C2 \in SUBSET DOMAIN ns
      BY <1>5
    <3> QED
      BY <3>1, FewFound
  <2>6. e1 = Rounds(ns, e0)
    BY <1>1, <2>1, <2>2, <2>5 DEF Rounds
  <2>7. e2 = Rounds(ns, e1)
    BY <1>2, <2>2, <2>3, <2>5 DEF Rounds
  <2>8. e3 = Rounds(ns, e2)
    BY <1>3, <2>3, <2>4, <2>5 DEF Rounds
  <2>9. e3 = Rounds(ns, e3)
    <3>1. Tree!Children(ns, {}) = {}
      BY DEF Tree!Children
    <3> QED
      BY <2>4, <2>5, <3>1 DEF Rounds
  <2>10. /\ Len(ns) = 1 => Collected(ns, id) = e1.all
         /\ Len(ns) = 2 => Collected(ns, id) = e2.all
         /\ Len(ns) >= 3 => Collected(ns, id) = e3.all
    <3>1. Len(ns) \in Nat
      BY <1>6
    <3>2. RoundsAre(ns, id, e0, e1, e2, e3)
      BY <2>1, <2>6, <2>7, <2>8, <2>9, Zenon DEF RoundsAre
    <3> QED
      BY <3>1, <3>2, CollectedRounds
  <2>11. e1.all = {id} \cup C1 /\ e2.all = {id} \cup C1 \cup C2 /\ e3.all = {id} \cup C1 \cup C2
    BY <2>2, <2>3, <2>4
  <2>12. Len(ns) = 1 => e1.all = {id} \cup C1 \cup C2
    BY <1>7, <2>11
  <2> QED
    BY <1>8, <2>10, <2>11, <2>12, Zenon
<1>10. Tree!Subtree(ns, id) = {id} \cup C1 \cup C2
  <2>1. PICK s0 : s0 = {id}
    OBVIOUS
  <2>2. PICK s1 : s1 = {id} \cup C1
    OBVIOUS
  <2>3. PICK s2 : s2 = {id} \cup C1 \cup C2
    OBVIOUS
  <2>4. \A S, T : Tree!Children(ns, S \cup T) = Tree!Children(ns, S) \cup Tree!Children(ns, T)
    BY DEF Tree!Children
  <2>5. s1 = s0 \cup Tree!Children(ns, s0)
    BY <1>1, <2>1, <2>2
  <2>6. s2 = s1 \cup Tree!Children(ns, s1)
    <3>1. Tree!Children(ns, s1) = C1 \cup C2
      BY <1>1, <1>2, <2>2, <2>4
    <3> QED
      BY <2>2, <2>3, <3>1
  <2>7. s2 = s2 \cup Tree!Children(ns, s2)
    <3>1. Tree!Children(ns, {id} \cup C1 \cup C2)
          = Tree!Children(ns, {id}) \cup Tree!Children(ns, C1) \cup Tree!Children(ns, C2)
      BY DEF Tree!Children
    <3>2. Tree!Children(ns, s2) = C1 \cup C2 \cup {}
      BY <1>1, <1>2, <1>3, <2>3, <3>1, Zenon
    <3> QED
      BY <2>3, <3>2
  <2>8. /\ Len(ns) = 1 => Tree!Subtree(ns, id) = s1
        /\ Len(ns) >= 2 => Tree!Subtree(ns, id) = s2
    <3>1. Len(ns) \in Nat
      BY <1>6
    <3>2. LevelsAre(ns, id, s0, s1, s2)
      BY <2>1, <2>5, <2>6, <2>7, Zenon DEF LevelsAre
    <3> QED
      BY <3>1, <3>2, SubtreeRounds, Zenon
  <2>9. Len(ns) = 1 => s1 = s2
    BY <1>7, <2>2, <2>3
  <2>10. Len(ns) = 1 \/ Len(ns) >= 2
    BY <1>6, <1>8
  <2> QED
    BY <2>3, <2>8, <2>9, <2>10, Zenon
<1> QED
  BY <1>4, <1>9, <1>10

(* Deleting what is whole is deleting the subtree. *)
LEMMA WholeDeleted ==
  ASSUME NEW ns, TreeTyped(ns), Shallow(ns), MaxNodes < DeleteLimit, NEW id \in DOMAIN ns,
         NEW ids, Whole(ns, id, ids)
  PROVE  Tree!Deleted(ns, ids) = Tree!Deleted(ns, Tree!Subtree(ns, id))
<1>1. PICK S : S = Tree!Subtree(ns, id)
  OBVIOUS
<1>2. S = {id} \cup Under(ns, id)
  BY <1>1, BelowFound
<1>3. \A i \in DOMAIN ns : (i \in ids <=> i \in S) \/ (i \in ids /\ ns[i].deleted)
  BY <1>2 DEF Whole
<1>4. \A i \in DOMAIN ns : ns[i] \in Stored
  BY TreeIsSeq
<1>5. ASSUME NEW i \in DOMAIN ns
      PROVE  (IF i \in ids THEN [ns[i] EXCEPT !.deleted = TRUE] ELSE ns[i])
           = (IF i \in S THEN [ns[i] EXCEPT !.deleted = TRUE] ELSE ns[i])
  <2>1. PICK n \in Stored : n = ns[i]
    BY <1>4
  <2>2. n.deleted => [n EXCEPT !.deleted = TRUE] = n
    BY DEF Stored
  <2> QED
    BY <1>3, <2>1, <2>2
<1>6. Tree!Deleted(ns, ids) = Tree!Deleted(ns, S)
  BY <1>5 DEF Tree!Deleted
<1> QED
  BY <1>1, <1>6

(* ids lasts while what others delete leaves id, and no child without its  *)
(* own children.                                                           *)
LEMMA WholeTrimmed ==
  ASSUME NEW ns, NEW ms, NEW gone, Trimmed(ns, ms, gone), NEW id \in DOMAIN ns, id \notin gone,
         NEW ids, Whole(ns, id, ids),
         \A i \in Tree!Children(ns, {id}) \cap gone : Tree!Children(ns, {i}) \subseteq gone
  PROVE  Whole(ms, id, ids)
<1>1. PICK C1 : C1 = Tree!Children(ns, {id})
  OBVIOUS
<1>2. PICK C2 : C2 = Tree!Children(ns, C1)
  OBVIOUS
<1>3. PICK D1 : D1 = Tree!Children(ms, {id})
  OBVIOUS
<1>4. PICK D2 : D2 = Tree!Children(ms, D1)
  OBVIOUS
<1>5. Under(ns, id) = C1 \cup C2 /\ Under(ms, id) = D1 \cup D2
  BY <1>1, <1>2, <1>3, <1>4 DEF Under
<1>6. D1 = C1 \ gone
  BY <1>1, <1>3 DEF Trimmed, Tree!Children
<1>7. D2 = C2 \ gone
  <2>1. \A i \in C1 \cap gone : \A j \in C2 : ns[j].parent = i => j \in gone
    <3>1. \A i \in C1 \cap gone : Tree!Children(ns, {i}) \subseteq gone
      BY <1>1
    <3>2. \A j \in C2 : j \in Tree!Children(ns, {ns[j].parent})
      BY <1>2 DEF Tree!Children
    <3> QED
      BY <3>1, <3>2
  <2>2. D2 \subseteq C2 \ gone
    BY <1>2, <1>4, <1>6 DEF Trimmed, Tree!Children
  <2>3. ASSUME NEW j \in C2 \ gone PROVE j \in D2
    <3>1. j \in DOMAIN ns /\ ~ns[j].deleted /\ ns[j].parent \in C1
      BY <1>2 DEF Tree!Children
    <3>2. ns[j].parent \in D1
      BY <1>6, <2>1, <3>1
    <3> QED
      BY <1>4, <3>1, <3>2 DEF Trimmed, Tree!Children
  <2> QED
    BY <2>2, <2>3
<1>8. {id} \cup D1 \cup D2 \subseteq ids
  BY <1>5, <1>6, <1>7 DEF Whole
<1>9. ASSUME NEW i \in ids
      PROVE  /\ i \in DOMAIN ms
             /\ ~ms[i].deleted => i \in {id} \cup D1 \cup D2
             /\ i = id \/ ms[i].parent = id \/ (ms[i].parent \in DOMAIN ms /\ ms[ms[i].parent].parent = id)
  <2>1. i \in DOMAIN ns /\ DOMAIN ms = DOMAIN ns
    BY DEF Whole, Trimmed
  <2>2. ~ms[i].deleted => i \in {id} \cup D1 \cup D2
    BY <1>5, <1>6, <1>7, <2>1 DEF Whole, Trimmed
  <2>3. i = id \/ ns[i].parent = id \/ (ns[i].parent \in DOMAIN ns /\ ns[ns[i].parent].parent = id)
    BY DEF Whole
  <2>4. ms[i].parent = ns[i].parent
    BY <2>1 DEF Trimmed
  <2>5. \A a \in DOMAIN ns : ms[a].parent = ns[a].parent
    BY DEF Trimmed
  <2> QED
    BY <2>1, <2>2, <2>3, <2>4, <2>5
<1> QED
  BY <1>5, <1>8, <1>9 DEF Whole

(* What is put elsewhere, by someone who holds the module it goes into.    *)
LEMMA PutElsewhere ==
  ASSUME NEW ns, TreeTyped(ns), NEW in, Fits(ns, in), NEW ms, Grown(ns, ms, in),
         in.parent # 0 => ns[in.parent].type = "module",
         NEW id \in DOMAIN ns, id # in.parent
  PROVE  /\ \A i : i \in DOMAIN ns /\ ns[i].parent = id <=> i \in DOMAIN ms /\ ms[i].parent = id
         /\ \A i \in DOMAIN ns : ns[i].parent = id => ms[i] = ns[i]
         /\ \A i : i \in DOMAIN ns /\ ns[i].parent \in DOMAIN ns /\ ns[ns[i].parent].parent = id
                   <=> i \in DOMAIN ms /\ ms[i].parent \in DOMAIN ms /\ ms[ms[i].parent].parent = id
         /\ \A i \in DOMAIN ns : ns[i].parent \in DOMAIN ns /\ ns[ns[i].parent].parent = id => ms[i] = ns[i]
<1>1. \A i \in DOMAIN ns : i # 0 /\ ns[i].parent \in {0} \cup DOMAIN ns
  BY TreeIsSeq DEF TreeTyped
<1>2. in.parent # 0 => in.parent \in DOMAIN ns /\ ns[in.parent].parent = 0
  BY DEF Fits, TreeTyped
<1>3. DOMAIN ns \subseteq DOMAIN ms
  BY DEF Grown
<1>4. \A i \in DOMAIN ns : ms[i].parent = ns[i].parent /\ (ns[i].parent # in.parent => ms[i] = ns[i])
  BY DEF Grown
<1>5. \A i \in DOMAIN ms : i \notin DOMAIN ns => ms[i].parent = in.parent
  BY DEF Grown
<1>6. \A i : i \in DOMAIN ns /\ ns[i].parent = id <=> i \in DOMAIN ms /\ ms[i].parent = id
  BY <1>3, <1>4, <1>5
<1>7. id # 0
  BY <1>1
<1>8. \A i \in DOMAIN ns : ns[i].parent \in DOMAIN ns /\ ns[ns[i].parent].parent = id => ns[i].parent # in.parent
  BY <1>1, <1>2, <1>7
<1>9. ASSUME NEW i \in DOMAIN ms, ms[i].parent \in DOMAIN ms, ms[ms[i].parent].parent = id
      PROVE  i \in DOMAIN ns /\ ns[i].parent \in DOMAIN ns /\ ns[ns[i].parent].parent = id
  <2>1. PICK a : a = ms[i].parent
    OBVIOUS
  <2>2. a \in DOMAIN ns /\ ns[a].parent = id
    BY <1>6, <1>9, <2>1
  <2>3. a # in.parent
    BY <1>1, <1>2, <1>7, <2>2
  <2>4. i \in DOMAIN ns
    BY <1>5, <2>1, <2>3
  <2> QED
    BY <1>4, <2>1, <2>2, <2>4
<1>10. ASSUME NEW i \in DOMAIN ns, ns[i].parent \in DOMAIN ns, ns[ns[i].parent].parent = id
       PROVE  i \in DOMAIN ms /\ ms[i].parent \in DOMAIN ms /\ ms[ms[i].parent].parent = id
  BY <1>3, <1>4, <1>10
<1> QED
  BY <1>4, <1>6, <1>8, <1>9, <1>10

LEMMA WholeGrown ==
  ASSUME NEW ns, TreeTyped(ns), NEW in, Fits(ns, in), NEW ms, Grown(ns, ms, in),
         in.parent # 0 => ns[in.parent].type = "module",
         NEW id \in DOMAIN ns, id # in.parent, ~ns[id].deleted, NEW ids, Whole(ns, id, ids)
  PROVE  Whole(ms, id, ids)
<1>1. PICK C1 : C1 = Tree!Children(ns, {id})
  OBVIOUS
<1>2. PICK C2 : C2 = Tree!Children(ns, C1)
  OBVIOUS
<1>3. PICK D1 : D1 = Tree!Children(ms, {id})
  OBVIOUS
<1>4. PICK D2 : D2 = Tree!Children(ms, D1)
  OBVIOUS
<1>5. Under(ns, id) = C1 \cup C2 /\ Under(ms, id) = D1 \cup D2
  BY <1>1, <1>2, <1>3, <1>4 DEF Under
<1>6. /\ \A i : i \in DOMAIN ns /\ ns[i].parent = id <=> i \in DOMAIN ms /\ ms[i].parent = id
      /\ \A i \in DOMAIN ns : ns[i].parent = id => ms[i] = ns[i]
      /\ \A i : i \in DOMAIN ns /\ ns[i].parent \in DOMAIN ns /\ ns[ns[i].parent].parent = id
                <=> i \in DOMAIN ms /\ ms[i].parent \in DOMAIN ms /\ ms[ms[i].parent].parent = id
      /\ \A i \in DOMAIN ns : ns[i].parent \in DOMAIN ns /\ ns[ns[i].parent].parent = id => ms[i] = ns[i]
  BY PutElsewhere
<1>7. D1 = C1
  BY <1>1, <1>3, <1>6 DEF Tree!Children
<1>8. C1 \subseteq DOMAIN ns /\ C1 \subseteq DOMAIN ms /\ \A a \in C1 : ns[a].parent = id /\ ms[a].parent = id
  BY <1>1, <1>3, <1>7 DEF Tree!Children
<1>9. D2 = C2
  <2>1. ASSUME NEW i \in C2 PROVE i \in D2
    <3>1. i \in DOMAIN ns /\ ~ns[i].deleted /\ ns[i].parent \in C1
      BY <1>2 DEF Tree!Children
    <3>2. ns[i].parent \in DOMAIN ns /\ ns[ns[i].parent].parent = id
      BY <1>8, <3>1
    <3>3. ms[i] = ns[i] /\ i \in DOMAIN ms
      BY <1>6, <3>1, <3>2
    <3> QED
      BY <1>4, <1>7, <3>1, <3>3 DEF Tree!Children
  <2>2. ASSUME NEW i \in D2 PROVE i \in C2
    <3>1. i \in DOMAIN ms /\ ~ms[i].deleted /\ ms[i].parent \in C1
      BY <1>4, <1>7 DEF Tree!Children
    <3>2. ms[i].parent \in DOMAIN ms /\ ms[ms[i].parent].parent = id
      BY <1>8, <3>1
    <3>3. i \in DOMAIN ns /\ ms[i] = ns[i]
      BY <1>6, <3>1, <3>2
    <3> QED
      BY <1>2, <3>1, <3>3 DEF Tree!Children
  <2> QED
    BY <2>1, <2>2
<1>10. {id} \cup D1 \cup D2 \subseteq ids
  BY <1>5, <1>7, <1>9 DEF Whole
<1>11. ASSUME NEW i \in ids
       PROVE  /\ i \in DOMAIN ms
              /\ ~ms[i].deleted => i \in {id} \cup D1 \cup D2
              /\ i = id \/ ms[i].parent = id \/ (ms[i].parent \in DOMAIN ms /\ ms[ms[i].parent].parent = id)
  <2>1. i \in DOMAIN ns /\ i \in DOMAIN ms
    BY DEF Whole, Grown
  <2>2. i = id \/ ns[i].parent = id \/ (ns[i].parent \in DOMAIN ns /\ ns[ns[i].parent].parent = id)
    BY DEF Whole
  <2>3. ~ns[i].deleted => i \in {id} \cup D1 \cup D2
    BY <1>5, <1>7, <1>9 DEF Whole
  <2>4. i = id \/ ms[i] = ns[i]
    BY <1>6, <2>1, <2>2
  <2>5. i = id \/ ms[i].parent = id \/ (ms[i].parent \in DOMAIN ms /\ ms[ms[i].parent].parent = id)
    BY <1>6, <2>1, <2>2
  <2> QED
    BY <2>1, <2>3, <2>4, <2>5
<1> QED
  BY <1>5, <1>10, <1>11 DEF Whole

(* What a delete takes leaves no child of another's root without its own.  *)
LEMMA SweepCloses ==
  ASSUME NEW ns, NEW r, NEW gone, Whole(ns, r, gone), NEW id \in DOMAIN ns, id \notin gone
  PROVE  \A i \in Tree!Children(ns, {id}) \cap gone : Tree!Children(ns, {i}) \subseteq gone
<1> SUFFICES ASSUME NEW i \in Tree!Children(ns, {id}) \cap gone PROVE Tree!Children(ns, {i}) \subseteq gone
  OBVIOUS
<1>1. PICK C1 : C1 = Tree!Children(ns, {r})
  OBVIOUS
<1>2. {r} \cup C1 \subseteq gone
  BY <1>1 DEF Whole, Under
<1>3. ns[i].parent = id /\ ~ns[i].deleted
  BY DEF Tree!Children
<1>4. i \in {r} \cup C1 \cup Tree!Children(ns, C1)
  BY <1>1, <1>3 DEF Whole, Under
<1>5. CASE i = r
  BY <1>1, <1>2, <1>5
<1>6. CASE i \in C1
  BY <1>1, <1>2, <1>3, <1>6 DEF Tree!Children
<1>7. CASE i \in Tree!Children(ns, C1)
  BY <1>1, <1>2, <1>3, <1>7 DEF Tree!Children
<1> QED
  BY <1>4, <1>5, <1>6, <1>7

LEMMA GuardedTrimmed ==
  ASSUME NEW ns, NEW ms, NEW gone, Trimmed(ns, ms, gone), NEW k, NEW held, Guarded(k, held, ns),
         \A i \in gone : NodeRow(i) \notin held,
         gone = {} \/ \E r : Whole(ns, r, gone)
  PROVE  Guarded(k, held, ms)
<1>1. \A i : Tree!Live(ns, i) /\ NodeRow(i) \in held => Tree!Live(ms, i) /\ ms[i].type = ns[i].type
  BY DEF Trimmed, Tree!Live
<1>2. ASSUME k.at = "sweep" PROVE Whole(ms, k.id, k.ids)
  <2>1. NodeRow(k.id) \in held /\ k.id \in DOMAIN ns /\ Whole(ns, k.id, k.ids)
    BY <1>2 DEF Guarded, Tree!Live
  <2>2. k.id \notin gone
    BY <2>1
  <2>3. \A i \in Tree!Children(ns, {k.id}) \cap gone : Tree!Children(ns, {i}) \subseteq gone
    BY <2>1, <2>2, SweepCloses
  <2> QED
    BY <2>1, <2>2, <2>3, WholeTrimmed
<1> QED
  BY <1>1, <1>2, Zenon DEF Guarded

LEMMA GuardedGrown ==
  ASSUME NEW ns, TreeTyped(ns), NEW in, Fits(ns, in), NEW ms, Grown(ns, ms, in),
         in.parent # 0 => ns[in.parent].type = "module",
         NEW k, NEW held, Guarded(k, held, ns), in.parent # 0 => NodeRow(in.parent) \notin held
  PROVE  Guarded(k, held, ms)
<1>1. \A i : Tree!Live(ns, i) => Tree!Live(ms, i)
  BY DEF Grown, Tree!Live
<1>2. ASSUME NEW i \in DOMAIN ns, ns[i].type = "module" PROVE ms[i].type = "module"
  <2>1. ns[i].parent = 0
    BY <1>2 DEF TreeTyped
  <2> QED
    BY <1>2, <2>1 DEF Grown, Fits
<1>3. ASSUME k.at = "sweep" PROVE Whole(ms, k.id, k.ids)
  <2>1. NodeRow(k.id) \in held /\ k.id \in DOMAIN ns /\ Whole(ns, k.id, k.ids) /\ ~ns[k.id].deleted
    BY <1>3 DEF Guarded, Tree!Live
  <2>2. k.id # in.parent
    <3>1. k.id # 0
      BY <2>1, TreeIsSeq
    <3> QED
      BY <2>1, <3>1
  <2> QED
    BY <2>1, <2>2, WholeGrown
<1>4. \A i : Tree!Live(ns, i) => i \in DOMAIN ns
  BY DEF Tree!Live
<1> QED
  BY <1>1, <1>2, <1>3, <1>4, Zenon DEF Guarded

LEMMA ShallowTrimmed ==
  ASSUME NEW ns, TreeTyped(ns), Shallow(ns), NEW ms, NEW gone, Trimmed(ns, ms, gone) PROVE Shallow(ms)
<1>1. DOMAIN ms = DOMAIN ns /\ \A i \in DOMAIN ns : ms[i].parent = ns[i].parent /\ ns[i].parent \in {0} \cup DOMAIN ns
  BY DEF Trimmed, TreeTyped
<1> QED
  BY <1>1 DEF Shallow

LEMMA ShallowGrown ==
  ASSUME NEW ns, TreeTyped(ns), Shallow(ns), NEW in, Fits(ns, in), NEW ms, Grown(ns, ms, in),
         in.parent # 0 => ns[in.parent].type = "module"
  PROVE  Shallow(ms)
<1>1. \A i \in DOMAIN ns : i # 0 /\ ns[i].parent \in {0} \cup DOMAIN ns /\ ms[i].parent = ns[i].parent
  BY TreeIsSeq DEF TreeTyped, Grown
<1>2. in.parent # 0 => in.parent \in DOMAIN ns /\ ns[in.parent].parent = 0
  BY DEF Fits, TreeTyped
<1>3. \A i \in DOMAIN ms : i \notin DOMAIN ns => ms[i].parent = in.parent
  BY DEF Grown
<1> QED
  BY <1>1, <1>2, <1>3 DEF Shallow

LEMMA ShallowMoved ==
  ASSUME NEW ns, TreeTyped(ns), Shallow(ns), NEW d \in DOMAIN ns, ns[d].parent # 0,
         NEW m \in DOMAIN ns, ns[m].type = "module", NEW ms,
         DOMAIN ms = DOMAIN ns, ms[d].parent = m, \A i \in DOMAIN ns : i # d => ms[i] = ns[i]
  PROVE  Shallow(ms)
<1>1. \A i \in DOMAIN ns : i # 0 /\ ns[i].parent \in {0} \cup DOMAIN ns
  BY TreeIsSeq DEF TreeTyped
<1>2. ns[m].parent = 0 /\ m # d
  BY DEF TreeTyped
<1>3. ms[m].parent = 0
  BY <1>2
<1>4. ASSUME NEW i \in DOMAIN ms, ms[i].parent # 0, ms[ms[i].parent].parent # 0
      PROVE  ms[ms[ms[i].parent].parent].parent = 0
  <2>1. PICK a : a = ms[i].parent
    OBVIOUS
  <2>2. PICK b : b = ms[a].parent
    OBVIOUS
  <2>3. CASE i = d
    BY <1>3, <1>4, <2>1, <2>3
  <2>4. CASE i # d
    <3>1. a = ns[i].parent /\ a \in DOMAIN ns
      BY <1>1, <1>4, <2>1, <2>4
    <3>2. CASE a = d
      BY <1>3, <2>1, <2>2, <3>2
    <3>3. CASE a # d
      <4>1. b = ns[a].parent /\ b \in DOMAIN ns
        BY <1>1, <1>4, <2>1, <2>2, <3>1, <3>3
      <4>2. ns[b].parent = 0
        BY <1>4, <2>1, <2>2, <3>1, <4>1 DEF Shallow
      <4>3. b # d
        BY <4>2
      <4> QED
        BY <2>1, <2>2, <4>1, <4>2, <4>3
    <3> QED
      BY <3>2, <3>3
  <2> QED
    BY <2>3, <2>4
<1> QED
  BY <1>4 DEF Shallow

-----------------------------------------------------------------------------
(* The row locks.                                                          *)

LEMMA LocksMore ==
  ASSUME Locked, NEW c \in Clients, NEW ls, Locks(c, ls), \A l \in ls : l[1] = "gap" \/ Free(c, l)
  PROVE  Locked'
<1>1. DOMAIN rows' = Clients /\ rows'[c] = rows[c] \cup ls /\ \A d \in Clients : d # c => rows'[d] = rows[d]
  BY DEF Locked, Locks
<1>2. \A d \in Clients : d # c => \A l \in rows'[c] \cap rows'[d] : l[1] = "gap"
  BY <1>1 DEF Locked, Free
<1> QED
  BY <1>1, <1>2 DEF Locked

LEMMA LocksEnd == ASSUME Locked, NEW c \in Clients, End(c) PROVE Locked'
<1>1. DOMAIN rows' = Clients /\ rows'[c] = {} /\ \A d \in Clients : d # c => rows'[d] = rows[d]
  BY DEF Locked, End
<1> QED
  BY <1>1 DEF Locked

LEMMA LocksSame == ASSUME Locked, UNCHANGED rows PROVE Locked'
BY DEF Locked

LEMMA LocksStep == ASSUME Locked, [ContentNext]_contentVars PROVE Locked'
<1>1. CASE UNCHANGED contentVars \/ Flatten
  <2>1. UNCHANGED contentVars => UNCHANGED rows
    BY DEF contentVars
  <2>2. Flatten => \E at : Booting(at)
    BY Zenon DEF Flatten, FlattenModules, FlattenModule, FlattenList, FlattenDetail, FlattenListDone
  <2>3. (\E at : Booting(at)) => UNCHANGED rows
    BY DEF Booting
  <2> QED
    BY <1>1, <2>1, <2>2, <2>3, LocksSame
<1>2. CASE Crash
  BY <1>2 DEF Crash, Locked
<1>3. ASSUME NEW c \in Clients, Puts(c) PROVE Locked'
  <2>1. ASSUME NEW in, NEW names, put_node(c, in, names) PROVE Locked'
    BY <2>1, LocksSame DEF put_node
  <2>2. CASE resolveNamedParent(c)
    <3>1. End(c) \/ UNCHANGED rows
      BY <2>2, Zenon DEF resolveNamedParent
    <3> QED
      BY <3>1, LocksEnd, LocksSame
  <2>3. CASE LockParent(c)
    <3>1. PICK ls : ls = IF call[c].in.parent = 0 THEN {} ELSE {NodeRow(call[c].in.parent)}
      OBVIOUS
    <3>2. End(c) \/ (Locks(c, ls) /\ \A l \in ls : Free(c, l))
      BY <2>3, <3>1, Zenon DEF LockParent
    <3> QED
      BY <3>2, LocksEnd, LocksMore
  <2>4. CASE LockSlug(c)
    <3>1. PICK same : same = Tree!At(board_node, call[c].in.parent, call[c].in.slug)
      OBVIOUS
    <3>2. PICK ls : ls = IF same = {} THEN {Gap(call[c].in)} ELSE {NodeRow(i) : i \in same}
      OBVIOUS
    <3>3. Locks(c, ls) /\ \A i \in same : Free(c, NodeRow(i))
      BY <2>4, <3>1, <3>2, Zenon DEF LockSlug
    <3>4. \A l \in ls : l[1] = "gap" \/ Free(c, l)
      BY <3>2, <3>3 DEF Gap
    <3> QED
      BY <3>3, <3>4, LocksMore
  <2> QED
    BY <1>3, <2>1, <2>2, <2>3, <2>4 DEF Puts
<1>4. ASSUME NEW c \in Clients, Updates(c) PROVE Locked'
  BY <1>4, LocksEnd, LocksSame DEF Updates, update_node, UpdateWrite
<1>5. ASSUME NEW c \in Clients, Deletes(c) PROVE Locked'
  <2>1. ASSUME NEW id \in DOMAIN board_node, delete_node(c, id) PROVE Locked'
    <3>1. Locks(c, {NodeRow(id)}) /\ Free(c, NodeRow(id))
      BY <2>1 DEF delete_node
    <3> QED
      BY <3>1, LocksMore
  <2>2. CASE CollectSubtree(c)
    BY <2>2, LocksSame DEF CollectSubtree
  <2>3. CASE SweepSubtree(c)
    BY <2>3, LocksEnd DEF SweepSubtree
  <2> QED
    BY <1>5, <2>1, <2>2, <2>3 DEF Deletes
<1>6. ASSUME NEW c \in Clients, PageSteps(c) PROVE Locked'
  <2>1. ASSUME NEW p \in Paths, NEW f \in Files, put_page(c, p, f) PROVE Locked'
    <3>1. Locks(c, {PageRow(p)}) /\ Free(c, PageRow(p))
      BY <2>1 DEF put_page
    <3> QED
      BY <3>1, LocksMore
  <2>2. ASSUME NEW p \in Paths, NEW v \in 1 .. MaxVersions, rollback_page(c, p, v) PROVE Locked'
    BY <2>2, LocksSame DEF rollback_page
  <2>3. CASE MaxVersion(c)
    BY <2>3, LocksSame, Zenon DEF MaxVersion
  <2>4. CASE InsertVersion(c) \/ PointTo(c)
    BY <2>4, LocksEnd DEF InsertVersion, PointTo
  <2> QED
    BY <1>6, <2>1, <2>2, <2>3, <2>4 DEF PageSteps
<1>7. ASSUME NEW c \in Clients, WriteNode(c) \/ DbError(c) PROVE Locked'
  BY <1>7, LocksEnd DEF WriteNode, DbError
<1> QED
  BY <1>1, <1>2, <1>3, <1>4, <1>5, <1>6, <1>7, NextIs, Zenon

-----------------------------------------------------------------------------
(* What the locks of a call protect stays as it was found.                 *)

Alters(c, k, held) ==
    /\ call'[c] = k /\ rows'[c] = held
    /\ \A d \in Clients \ {c} : call'[d] = call[d] /\ rows'[d] = rows[d]

LEMMA AltersAll ==
  ASSUME NEW c \in Clients, NEW k, NEW held, Alters(c, k, held), Shallow(board_node'), Guarded(k, held, board_node'),
         \A d \in Clients \ {c} : Guarded(call[d], rows[d], board_node')
  PROVE  TreeInv'
<1>1. \A d \in Clients : Guarded(call'[d], rows'[d], board_node')
  BY DEF Alters
<1> QED
  BY <1>1 DEF TreeInv, Shallow, Guarded, Whole, Under, Tree!Live, Tree!Children

LEMMA AltersReading ==
  ASSUME TreeInv, NEW c \in Clients, NEW k, NEW held, Alters(c, k, held), UNCHANGED board_node,
         Guarded(k, held, board_node)
  PROVE  TreeInv'
<1>1. Shallow(board_node') /\ Guarded(k, held, board_node')
  BY DEF TreeInv
<1>2. \A d \in Clients \ {c} : Guarded(call[d], rows[d], board_node')
  BY DEF TreeInv
<1> QED
  BY <1>1, <1>2, AltersAll

LEMMA IdleGuards == \A ns, held : Guarded(IdleCall, held, ns)
BY DEF Guarded, IdleCall

LEMMA EndAlters == ASSUME ContentInv, Locked, NEW c \in Clients, End(c) PROVE Alters(c, IdleCall, {})
BY DEF ContentInv, Locked, End, Alters

LEMMA ContinueAlters ==
  ASSUME ContentInv, Locked, NEW c \in Clients, NEW k, call' = [call EXCEPT ![c] = k]
  PROVE  /\ UNCHANGED rows => Alters(c, k, rows[c])
         /\ \A ls : Locks(c, ls) => Alters(c, k, rows[c] \cup ls)
<1>1. call'[c] = k /\ \A d \in Clients \ {c} : call'[d] = call[d]
  BY DEF ContentInv
<1>2. ASSUME NEW ls, Locks(c, ls) PROVE rows'[c] = rows[c] \cup ls /\ \A d \in Clients \ {c} : rows'[d] = rows[d]
  BY <1>2 DEF Locked, Locks
<1> QED
  BY <1>1, <1>2 DEF Alters

LEMMA EndReading ==
  ASSUME ContentInv, Locked, TreeInv, NEW c \in Clients, End(c), UNCHANGED board_node PROVE TreeInv'
BY EndAlters, IdleGuards, AltersReading

LEMMA AcceptedModule ==
  ASSUME OneLevel, NEW ns, NEW in \in Tree!Input, Tree!Acceptable(ns, in), in.parent # 0
  PROVE  Tree!Live(ns, in.parent) /\ ns[in.parent].type = "module" /\ in.type = "detail"
<1>1. in.type \in {"module", "detail"}
  BY DEF OneLevel, Tree!Input
<1>2. Tree!Live(ns, in.parent)
  BY DEF Tree!Acceptable
<1>3. PICK above : above = Tree!parentType
  OBVIOUS
<1>4. PICK top : top = above["module"]
  OBVIOUS
<1>5. above["detail"] = "module" /\ top # "module"
  BY <1>3, <1>4, Zenon DEF Tree!parentType
<1>6. IF above[in.type] = top THEN in.parent = 0 ELSE ns[in.parent].type = above[in.type]
  <2>1. PICK p : p = in.parent
    OBVIOUS
  <2>2. top = "" /\ Tree!checkParent(ns, in.type, p)
    BY <1>3, <1>4, <2>1, Zenon DEF Tree!parentType, Tree!Acceptable
  <2>3. IF above[in.type] = top THEN p = 0 ELSE p # 0 /\ ns[p].type = above[in.type]
    BY <1>3, <2>2, Zenon DEF Tree!checkParent
  <2> HIDE <2>2
  <2> QED
    BY <2>1, <2>3
<1> QED
  BY <1>1, <1>2, <1>4, <1>5, <1>6

(* Of two rows only one call holds the lock. *)
LEMMA RowIsOwn ==
  ASSUME Locked, NEW c \in Clients, NEW i, NodeRow(i) \in rows[c], NEW d \in Clients \ {c} PROVE NodeRow(i) \notin rows[d]
BY DEF Locked, NodeRow

(* A put that has the name: the nodes that have it, or that nobody has. *)
SlugLocked(in, held, ns) ==
    LET same == Tree!At(ns, in.parent, in.slug)
    IN  IF same = {} THEN Gap(in) \in held ELSE \A i \in same : NodeRow(i) \in held

HasParent(k, held) ==
    /\ k.at = "find" /\ k.in \in Tree!Input /\ Tree!Acceptable(board_node, k.in)
    /\ k.in.parent # 0 => NodeRow(k.in.parent) \in held

HasSlug(c, k, held) ==
    /\ call[c].at = "find"
    /\ k.at = "write" /\ k.in = call[c].in /\ rows[c] \subseteq held /\ SlugLocked(k.in, held, board_node)

LEMMA PutMoves ==
  ASSUME ContentInv, Locked, NEW c \in Clients, Puts(c)
  PROVE  /\ UNCHANGED tables /\ UNCHANGED board_node
         /\ \E k, held : /\ Alters(c, k, held)
                         /\ k.at \in {"idle", "resolve", "lock"} \/ HasParent(k, held) \/ HasSlug(c, k, held)
<1> DEFINE Moves == \E k, held : /\ Alters(c, k, held)
                                 /\ k.at \in {"idle", "resolve", "lock"} \/ HasParent(k, held) \/ HasSlug(c, k, held)
<1>1. UNCHANGED tables /\ UNCHANGED board_node
  <2>1. UNCHANGED tables
    BY Zenon DEF Puts, put_node, resolveNamedParent, LockParent, LockSlug
  <2> QED
    BY <2>1 DEF tables
<1>2. ASSUME End(c) PROVE Moves
  <2>1. Alters(c, IdleCall, {}) /\ IdleCall.at \in {"idle", "resolve", "lock"}
    BY <1>2, EndAlters DEF IdleCall
  <2> QED
    BY <2>1, Zenon
<1>3. ASSUME NEW in \in Tree!Input, NEW names, put_node(c, in, names) PROVE Moves
  <2>1. PICK k : k = [at |-> IF names = <<>> THEN "lock" ELSE "resolve", in |-> in, names |-> names]
    OBVIOUS
  <2>2. call' = [call EXCEPT ![c] = k] /\ UNCHANGED rows
    BY <1>3, <2>1 DEF put_node, Continue
  <2>3. k.at \in {"idle", "resolve", "lock"}
    BY <2>1
  <2>4. Alters(c, k, rows[c])
    BY <2>2, ContinueAlters
  <2> QED
    BY <2>3, <2>4, Zenon
<1>4. ASSUME call[c].at \in {"resolve", "lock", "find", "write"}
      PROVE  /\ call[c] = [at |-> call[c].at, in |-> call[c].in, names |-> call[c].names]
             /\ call[c].in \in Tree!Input
  <2>1. call[c].at # "idle" /\ call[c] # IdleCall
    BY <1>4 DEF IdleCall
  <2>2. CallOk(call[c], board_node)
    BY DEF ContentInv
  <2> QED
    BY <1>4, <2>1, <2>2 DEF CallOk
<1>5. ASSUME resolveNamedParent(c) PROVE Moves
  <2>1. call[c].at = "resolve"
    BY <1>5, Zenon DEF resolveNamedParent, Goes
  <2>2. ASSUME NEW i, UNCHANGED rows,
               Continue(c, [call[c] EXCEPT !.in.parent = i, !.names = Tail(@),
                                           !.at = IF Tail(call[c].names) = <<>> THEN "lock" ELSE "resolve"])
        PROVE  Moves
    <3>1. PICK old : old = call[c]
      OBVIOUS
    <3>2. PICK k : k = [old EXCEPT !.in.parent = i, !.names = Tail(@),
                                   !.at = IF Tail(old.names) = <<>> THEN "lock" ELSE "resolve"]
      BY Zenon
    <3>3. old = [at |-> old.at, in |-> old.in, names |-> old.names]
      BY <1>4, <2>1, <3>1, Zenon
    <3>4. k.at \in {"idle", "resolve", "lock"}
      BY <3>2, <3>3
    <3>5. call' = [call EXCEPT ![c] = k]
      BY <2>2, <3>1, <3>2 DEF Continue
    <3>6. Alters(c, k, rows[c])
      BY <2>2, <3>5, ContinueAlters
    <3> QED
      BY <3>4, <3>6, Zenon
  <2>3. \/ End(c)
        \/ UNCHANGED rows /\ \E i : Continue(c, [call[c] EXCEPT !.in.parent = i, !.names = Tail(@),
                                                     !.at = IF Tail(call[c].names) = <<>> THEN "lock" ELSE "resolve"])
    BY <1>5, Zenon DEF resolveNamedParent
  <2> HIDE DEF Moves
  <2> QED
    BY <1>2, <2>2, <2>3, Zenon
<1>6. ASSUME LockParent(c) PROVE Moves
  <2>1. call[c].at = "lock"
    BY <1>6 DEF LockParent, Goes
  <2>2. PICK ls : ls = IF call[c].in.parent = 0 THEN {} ELSE {NodeRow(call[c].in.parent)}
    OBVIOUS
  <2>3. ASSUME Tree!Acceptable(board_node, call[c].in), Continue(c, [call[c] EXCEPT !.at = "find"]), Locks(c, ls)
        PROVE  Moves
    <3>1. PICK k : k = [call[c] EXCEPT !.at = "find"]
      OBVIOUS
    <3>2. k.at = "find" /\ k.in = call[c].in /\ call[c].in \in Tree!Input
      BY <1>4, <2>1, <3>1
    <3>3. HasParent(k, rows[c] \cup ls)
      BY <2>2, <2>3, <3>2 DEF HasParent
    <3>4. call' = [call EXCEPT ![c] = k]
      BY <2>3, <3>1 DEF Continue
    <3>5. Alters(c, k, rows[c] \cup ls)
      BY <2>3, <3>4, ContinueAlters
    <3> QED
      BY <3>3, <3>5, Zenon
  <2>4. End(c) \/ (Tree!Acceptable(board_node, call[c].in) /\ Continue(c, [call[c] EXCEPT !.at = "find"]) /\ Locks(c, ls))
    BY <1>6, <2>2, Zenon DEF LockParent
  <2> HIDE DEF Moves
  <2> QED
    BY <1>2, <2>3, <2>4
<1>7. ASSUME LockSlug(c) PROVE Moves
  <2>1. PICK same : same = Tree!At(board_node, call[c].in.parent, call[c].in.slug)
    OBVIOUS
  <2>2. PICK ls : ls = IF same = {} THEN {Gap(call[c].in)} ELSE {NodeRow(i) : i \in same}
    OBVIOUS
  <2>3. call[c].at = "find" /\ Continue(c, [call[c] EXCEPT !.at = "write"]) /\ Locks(c, ls)
    BY <1>7, <2>1, <2>2, Zenon DEF LockSlug, Goes
  <2>4. PICK k : k = [call[c] EXCEPT !.at = "write"]
    OBVIOUS
  <2>5. k.at = "write" /\ k.in = call[c].in
    BY <1>4, <2>3, <2>4
  <2>6. HasSlug(c, k, rows[c] \cup ls)
    BY <2>1, <2>2, <2>3, <2>5 DEF HasSlug, SlugLocked
  <2>7. call' = [call EXCEPT ![c] = k]
    BY <2>3, <2>4 DEF Continue
  <2>8. Alters(c, k, rows[c] \cup ls)
    BY <2>3, <2>7, ContinueAlters
  <2> QED
    BY <2>6, <2>8, Zenon
<1> HIDE DEF Moves
<1>8. Moves
  BY <1>3, <1>5, <1>6, <1>7 DEF Puts
<1> QED
  BY <1>1, <1>8 DEF Moves

LEMMA PutGuards ==
  ASSUME OneLevel, ContentInv, Locked, TreeInv, NEW c \in Clients, Puts(c) PROVE TreeInv' /\ UNCHANGED tables
<1>1. UNCHANGED tables /\ UNCHANGED board_node
  BY PutMoves
<1>2. PICK k, held : /\ Alters(c, k, held)
                     /\ k.at \in {"idle", "resolve", "lock"} \/ HasParent(k, held) \/ HasSlug(c, k, held)
  BY PutMoves
<1>3. Guarded(k, held, board_node)
  <2>1. CASE k.at \in {"idle", "resolve", "lock"}
    BY <2>1 DEF Guarded
  <2>2. CASE HasParent(k, held)
    <3>1. k.in.parent # 0 => Tree!Live(board_node, k.in.parent) /\ board_node[k.in.parent].type = "module"
      BY <2>2, AcceptedModule DEF HasParent
    <3> QED
      BY <2>2, <3>1 DEF Guarded, HasParent
  <2>3. CASE HasSlug(c, k, held)
    BY <2>3 DEF TreeInv, Guarded, HasSlug
  <2> QED
    BY <1>2, <2>1, <2>2, <2>3
<1> QED
  BY <1>1, <1>2, <1>3, AltersReading

-----------------------------------------------------------------------------
(* Every step is one of the in-memory store, or changes nothing of it.     *)

Pages    == [p \in Paths |-> FilesOf(p)]
Currents == [p \in Paths |-> CurrentOf(p)]

FilesIn(all, p) == [v \in {r.version : r \in {q \in all : q.path = p}} |->
                       (CHOOSE r \in all : r.path = p /\ r.version = v).files]

LEMMA FilesSame == ASSUME UNCHANGED board_page_version, NEW p PROVE FilesOf(p)' = FilesOf(p)
<1>1. FilesOf(p) = FilesIn(board_page_version, p)
  BY DEF FilesOf, FilesIn
<1>2. FilesOf(p)' = FilesIn(board_page_version', p)
  BY DEF FilesOf, FilesIn
<1> QED
  BY <1>1, <1>2

LEMMA PagesSame ==
  ASSUME UNCHANGED <<board_page, board_page_version>> PROVE UNCHANGED <<Pages, Currents>>
<1>1. \A p : FilesOf(p)' = FilesOf(p) /\ CurrentOf(p)' = CurrentOf(p)
  BY FilesSame DEF CurrentOf
<1> QED
  BY <1>1 DEF Pages, Currents

LEMMA TreeSame ==
  ASSUME UNCHANGED tables PROVE UNCHANGED Tree!treeVars
<1>1. UNCHANGED board_node /\ UNCHANGED <<Pages, Currents>>
  BY PagesSame DEF tables
<1> QED
  BY <1>1 DEF Tree!treeVars, Pages, Currents

LEMMA WriteIsPut ==
  ASSUME OneLevel, ContentInv, Locked, TreeInv, NEW c \in Clients, WriteNode(c) PROVE TreeInv' /\ Tree!TreeNext
<1>1. PICK in : in = call[c].in
  OBVIOUS
<1>2. /\ call[c].at = "write" /\ End(c)
      /\ board_node' = Tree!Upsert(board_node, in) /\ Len(board_node') <= MaxNodes
      /\ UNCHANGED <<board_page, board_page_version>>
  BY <1>1 DEF WriteNode, Goes
<1>3. Serving /\ CallOk(call[c], board_node)
  BY <1>2, GoesWhenServing
<1>4. Fits(board_node, in) /\ Tree!checkModuleSlug(in.type, in.slug) /\ TreeTyped(board_node)
  BY <1>1, <1>2, <1>3 DEF CallOk, IdleCall, ContentInv
<1>5. in.parent # 0 => /\ NodeRow(in.parent) \in rows[c]
                       /\ Tree!Live(board_node, in.parent) /\ board_node[in.parent].type = "module"
  BY <1>1, <1>2 DEF TreeInv, Guarded
<1>6. TreeTyped(board_node') /\ Grown(board_node, board_node', in)
  BY <1>2, <1>4, UpsertTree
<1>7. Shallow(board_node')
  BY <1>4, <1>5, <1>6, ShallowGrown DEF TreeInv
<1>8. ASSUME NEW d \in Clients \ {c} PROVE Guarded(call[d], rows[d], board_node')
  <2>1. Guarded(call[d], rows[d], board_node)
    BY DEF TreeInv
  <2>2. in.parent # 0 => NodeRow(in.parent) \notin rows[d]
    BY <1>5, RowIsOwn
  <2> QED
    BY <1>4, <1>5, <1>6, <2>1, <2>2, GuardedGrown
<1>9. TreeInv'
  BY <1>2, <1>7, <1>8, EndAlters, IdleGuards, AltersAll
<1>10. in \in Tree!Input /\ in.sv >= 0
  BY <1>4 DEF Fits
<1>11. Tree!checkParent(board_node, in.type, in.parent)
  <2>1. in.type \in {"module", "detail"}
    BY <1>10 DEF OneLevel, Tree!Input
  <2>2. PICK above : above = Tree!parentType
    OBVIOUS
  <2>3. DOMAIN above = {"module", "detail", "block"} /\ above["module"] = "" /\ above["detail"] = "module"
    BY <2>2, Zenon DEF Tree!parentType
  <2>4. "module" # "" /\ in.type \in DOMAIN above
    <3>1. in.type = "module" \/ in.type = "detail"
      BY <2>1
    <3> QED
      BY <2>3, <3>1, Zenon
  <2>5. in.parent = 0 <=> in.type = "module"
    BY <1>4 DEF Fits
  <2>6. IF above[in.type] = "" THEN in.parent = 0 ELSE in.parent # 0 /\ board_node[in.parent].type = above[in.type]
    <3>1. in.type = "module" \/ in.type = "detail"
      BY <2>1
    <3>2. "module" # "detail"
      OBVIOUS
    <3> QED
      BY <1>5, <2>3, <2>4, <2>5, <3>1, <3>2, Zenon
  <2> QED
    BY <2>2, <2>4, <2>6, Zenon DEF Tree!checkParent
<1>12. Tree!Acceptable(board_node, in)
  BY <1>4, <1>5, <1>10, <1>11 DEF Tree!Acceptable
<1>13. UNCHANGED <<Pages, Currents>>
  BY <1>2, PagesSame
<1>14. Tree!PutNode(in)
  BY <1>2, <1>12, <1>13, Zenon DEF Tree!PutNode, Pages, Currents
<1> QED
  BY <1>9, <1>10, <1>14, Zenon DEF Tree!TreeNext

LEMMA UpdateIsUpdate ==
  ASSUME ContentInv, Locked, NEW c \in Clients, Updates(c)
  PROVE  /\ Tree!TreeNext \/ UNCHANGED Tree!treeVars
         /\ Trimmed(board_node, board_node', {})
         /\ \E k, held : Alters(c, k, held) /\ k.at \in {"idle", "update"}
<1> DEFINE Moves == \E k, held : Alters(c, k, held) /\ k.at \in {"idle", "update"}
<1>1. ASSUME UNCHANGED board_node PROVE Trimmed(board_node, board_node', {})
  BY <1>1 DEF Trimmed
<1>2. ASSUME NEW id \in DOMAIN board_node, NEW d \in Tree!Singletons(Data), NEW v \in Tree!Singletons(Versions),
             update_node(c, id, d, v)
      PROVE  UNCHANGED Tree!treeVars /\ Trimmed(board_node, board_node', {}) /\ Moves
  <2>1. PICK k : k = [at |-> "update", id |-> id, data |-> d, sv |-> v]
    OBVIOUS
  <2>2. call' = [call EXCEPT ![c] = k] /\ UNCHANGED rows /\ UNCHANGED tables /\ UNCHANGED board_node
    BY <1>2, <2>1 DEF update_node, Continue, tables
  <2>3. Alters(c, k, rows[c]) /\ k.at \in {"idle", "update"}
    BY <2>1, <2>2, ContinueAlters
  <2>4. Moves
    BY <2>3, Zenon
  <2> QED
    BY <1>1, <2>2, <2>4, TreeSame
<1>3. ASSUME UpdateWrite(c)
      PROVE  (Tree!TreeNext \/ UNCHANGED Tree!treeVars) /\ Trimmed(board_node, board_node', {}) /\ Moves
  <2>1. PICK k : k = call[c]
    OBVIOUS
  <2>2. k.at = "update" /\ End(c) /\ UNCHANGED <<board_page, board_page_version>>
        /\ board_node' = IF Tree!Live(board_node, k.id)
                         THEN [board_node EXCEPT ![k.id] = Tree!Updated(@, k.data, k.sv)]
                         ELSE board_node
    BY <1>3, <2>1, Zenon DEF UpdateWrite, Goes
  <2>3. TreeTyped(board_node) /\ k.id \in DOMAIN board_node
        /\ k.data \in Tree!Singletons(Data) /\ k.sv \in Tree!Singletons(Versions)
    BY <2>1, <2>2 DEF CallOk, IdleCall, ContentInv
  <2>4. Moves
    <3>1. Alters(c, IdleCall, {}) /\ IdleCall.at \in {"idle", "update"}
      BY <2>2, EndAlters DEF IdleCall
    <3> QED
      BY <3>1, Zenon
  <2>5. CASE Tree!Live(board_node, k.id)
    <3>1. board_node' = [board_node EXCEPT ![k.id] = Tree!Updated(board_node[k.id], k.data, k.sv)]
      BY <2>2, <2>5, Zenon
    <3>2. Trimmed(board_node, board_node', {})
      BY <2>3, <3>1, UpdatedTree
    <3>3. UNCHANGED <<Pages, Currents>>
      BY <2>2, PagesSame
    <3>4. Tree!UpdateNode(k.id, k.data, k.sv)
      BY <2>5, <3>1, <3>3, Zenon DEF Tree!UpdateNode, Pages, Currents
    <3>5. Tree!TreeNext
      BY <2>3, <3>4, Zenon DEF Tree!TreeNext
    <3> QED
      BY <2>4, <3>2, <3>5
  <2>6. CASE ~Tree!Live(board_node, k.id)
    <3>1. UNCHANGED tables /\ UNCHANGED board_node
      BY <2>2, <2>6 DEF tables
    <3> QED
      BY <1>1, <2>4, <3>1, TreeSame
  <2> QED
    BY <2>5, <2>6
<1> HIDE DEF Moves
<1>4. (Tree!TreeNext \/ UNCHANGED Tree!treeVars) /\ Trimmed(board_node, board_node', {}) /\ Moves
  BY <1>2, <1>3, Zenon DEF Updates
<1> QED
  BY <1>4 DEF Moves

LEMMA UpdateGuards ==
  ASSUME ContentInv, Locked, TreeInv, NEW c \in Clients, Updates(c) PROVE TreeInv'
<1>1. Trimmed(board_node, board_node', {})
  BY UpdateIsUpdate
<1>2. PICK k, held : Alters(c, k, held) /\ k.at \in {"idle", "update"}
  BY UpdateIsUpdate
<1>3. Shallow(board_node')
  BY <1>1, ShallowTrimmed DEF TreeInv, ContentInv
<1>4. ASSUME NEW d \in Clients \ {c} PROVE Guarded(call[d], rows[d], board_node')
  BY <1>1, GuardedTrimmed DEF TreeInv
<1>5. Guarded(k, held, board_node')
  BY <1>2 DEF Guarded
<1> QED
  BY <1>2, <1>3, <1>4, <1>5, AltersAll

LEMMA CollectedWhole ==
  ASSUME OneLevel, NEW ns, TreeTyped(ns), Shallow(ns), NEW id \in DOMAIN ns PROVE Whole(ns, id, Collected(ns, id))
<1>1. Collected(ns, id) = {id} \cup Under(ns, id)
  BY BelowFound DEF OneLevel
<1>2. ASSUME NEW i \in Under(ns, id)
      PROVE  i \in DOMAIN ns /\ (ns[i].parent = id \/ (ns[i].parent \in DOMAIN ns /\ ns[ns[i].parent].parent = id))
  BY DEF Under, Tree!Children
<1>3. PICK all : all = {id} \cup Under(ns, id)
  OBVIOUS
<1>4. ASSUME NEW i \in all
      PROVE  /\ i \in DOMAIN ns
             /\ i = id \/ ns[i].parent = id \/ (ns[i].parent \in DOMAIN ns /\ ns[ns[i].parent].parent = id)
  BY <1>2, <1>3
<1>5. Whole(ns, id, all)
  BY <1>3, <1>4, Zenon DEF Whole
<1> QED
  BY <1>1, <1>3, <1>5

(* A delete before its UPDATE: the root is locked, and then collected.     *)
HasRoot(k, held) == k.at = "collect" /\ NodeRow(k.id) \in held /\ Tree!Live(board_node, k.id)

HasCollected(c, k, held) ==
    /\ call[c].at = "collect" /\ held = rows[c]
    /\ k.at = "sweep" /\ k.id = call[c].id /\ k.ids = Collected(board_node, k.id)

LEMMA DeleteMoves ==
  ASSUME ContentInv, Locked, NEW c \in Clients, Deletes(c), ~SweepSubtree(c)
  PROVE  /\ UNCHANGED tables /\ UNCHANGED board_node
         /\ \E k, held : Alters(c, k, held) /\ (HasRoot(k, held) \/ HasCollected(c, k, held))
<1> DEFINE Moves == \E k, held : Alters(c, k, held) /\ (HasRoot(k, held) \/ HasCollected(c, k, held))
<1>1. ASSUME NEW id \in DOMAIN board_node, delete_node(c, id)
      PROVE  UNCHANGED tables /\ UNCHANGED board_node /\ Moves
  <2>1. PICK k : k = [at |-> "collect", id |-> id]
    OBVIOUS
  <2>2. /\ call' = [call EXCEPT ![c] = k] /\ Locks(c, {NodeRow(id)}) /\ UNCHANGED tables /\ UNCHANGED board_node
        /\ Tree!Live(board_node, id)
    BY <1>1, <2>1 DEF delete_node, Continue, tables
  <2>3. HasRoot(k, rows[c] \cup {NodeRow(id)})
    BY <2>1, <2>2 DEF HasRoot
  <2>4. Alters(c, k, rows[c] \cup {NodeRow(id)})
    BY <2>2, ContinueAlters
  <2>5. Moves
    BY <2>3, <2>4, Zenon
  <2> QED
    BY <2>2, <2>5
<1>2. ASSUME CollectSubtree(c) PROVE UNCHANGED tables /\ UNCHANGED board_node /\ Moves
  <2>1. PICK k : k = [at |-> "sweep", id |-> call[c].id, ids |-> Collected(board_node, call[c].id)]
    OBVIOUS
  <2>2. call[c].at = "collect" /\ call' = [call EXCEPT ![c] = k] /\ UNCHANGED rows /\ UNCHANGED tables /\ UNCHANGED board_node
    BY <1>2, <2>1 DEF CollectSubtree, Goes, Continue, tables
  <2>3. HasCollected(c, k, rows[c])
    BY <2>1, <2>2 DEF HasCollected
  <2>4. Alters(c, k, rows[c])
    BY <2>2, ContinueAlters
  <2>5. Moves
    BY <2>3, <2>4, Zenon
  <2> QED
    BY <2>2, <2>5
<1> HIDE DEF Moves
<1>3. UNCHANGED tables /\ UNCHANGED board_node /\ Moves
  BY <1>1, <1>2, Zenon DEF Deletes
<1> QED
  BY <1>3 DEF Moves

LEMMA DeleteIsDelete ==
  ASSUME OneLevel, ContentInv, Locked, TreeInv, NEW c \in Clients, Deletes(c)
  PROVE  TreeInv' /\ (Tree!TreeNext \/ UNCHANGED Tree!treeVars)
<1>1. CASE ~SweepSubtree(c)
  <2>1. UNCHANGED tables /\ UNCHANGED board_node
    BY <1>1, DeleteMoves
  <2>2. PICK k, held : Alters(c, k, held) /\ (HasRoot(k, held) \/ HasCollected(c, k, held))
    BY <1>1, DeleteMoves
  <2>3. CASE HasRoot(k, held)
    <3>1. Guarded(k, held, board_node)
      BY <2>3 DEF Guarded, HasRoot
    <3> QED
      BY <2>1, <2>2, <3>1, AltersReading, TreeSame
  <2>4. CASE HasCollected(c, k, held)
    <3>1. NodeRow(k.id) \in held /\ Tree!Live(board_node, k.id) /\ k.id \in DOMAIN board_node
      BY <2>4 DEF TreeInv, Guarded, HasCollected, Tree!Live
    <3>2. Whole(board_node, k.id, k.ids)
      BY <2>4, <3>1, CollectedWhole DEF ContentInv, TreeInv, HasCollected
    <3>3. Guarded(k, held, board_node)
      BY <2>4, <3>1, <3>2, Zenon DEF Guarded, HasCollected
    <3> QED
      BY <2>1, <2>2, <3>3, AltersReading, TreeSame
  <2> QED
    BY <2>2, <2>3, <2>4
<1>2. CASE SweepSubtree(c)
  <2>1. PICK k : k = call[c]
    OBVIOUS
  <2>2. /\ k.at = "sweep" /\ End(c) /\ board_node' = Tree!Deleted(board_node, k.ids)
        /\ \A i \in k.ids : Free(c, NodeRow(i))
        /\ UNCHANGED <<board_page, board_page_version>>
    BY <1>2, <2>1 DEF SweepSubtree, Goes
  <2>3. /\ Tree!Live(board_node, k.id) /\ k.id \in DOMAIN board_node /\ Whole(board_node, k.id, k.ids)
        /\ TreeTyped(board_node) /\ Shallow(board_node)
    BY <2>1, <2>2 DEF TreeInv, Guarded, Tree!Live, ContentInv
  <2>4. Trimmed(board_node, board_node', k.ids)
    BY <2>2, <2>3, DeletedTree
  <2>5. Shallow(board_node')
    BY <2>3, <2>4, ShallowTrimmed
  <2>6. ASSUME NEW d \in Clients \ {c} PROVE Guarded(call[d], rows[d], board_node')
    <3>1. \A i \in k.ids : NodeRow(i) \notin rows[d]
      BY <2>2 DEF Free
    <3> QED
      BY <2>3, <2>4, <3>1, GuardedTrimmed DEF TreeInv
  <2>7. TreeInv'
    BY <2>2, <2>5, <2>6, EndAlters, IdleGuards, AltersAll
  <2>8. board_node' = Tree!Deleted(board_node, Tree!Subtree(board_node, k.id))
    BY <2>2, <2>3, WholeDeleted DEF OneLevel
  <2>9. UNCHANGED <<Pages, Currents>>
    BY <2>2, PagesSame
  <2>10. Tree!DeleteNode(k.id)
    BY <2>3, <2>8, <2>9, Zenon DEF Tree!DeleteNode, Pages, Currents
  <2> QED
    BY <2>3, <2>7, <2>10, Zenon DEF Tree!TreeNext
<1> QED
  BY <1>1, <1>2

LEMMA DomainFiles == ASSUME NEW all, NEW p PROVE DOMAIN FilesIn(all, p) = VersionsIn(all, p)
BY DEF FilesIn, VersionsIn

LEMMA FileIs ==
  ASSUME NEW all, RowsTyped(all), NEW q \in all
  PROVE  /\ q.version \in VersionsIn(all, q.path)
         /\ FilesIn(all, q.path)[q.version] = q.files
<1>1. q.version \in VersionsIn(all, q.path)
  BY DEF VersionsIn
<1>2. PICK x : x = CHOOSE r \in all : r.path = q.path /\ r.version = q.version
  OBVIOUS
<1>3. x \in all /\ x.path = q.path /\ x.version = q.version
  BY <1>2
<1>4. x = q
  BY <1>3 DEF RowsTyped
<1>5. FilesIn(all, q.path)[q.version] = x.files
  BY <1>1, <1>2 DEF FilesIn, VersionsIn
<1> QED
  BY <1>1, <1>4, <1>5

LEMMA FilesSeq ==
  ASSUME NEW all, RowsTyped(all), NEW p, NEW n \in Nat, VersionsIn(all, p) = 1 .. n
  PROVE  /\ FilesIn(all, p) \in Seq(Files) /\ Len(FilesIn(all, p)) = n
         /\ \A v \in 1 .. n : \E q \in all : q.path = p /\ q.version = v /\ FilesIn(all, p)[v] = q.files
<1>1. PICK f : f = FilesIn(all, p)
  OBVIOUS
<1>2. DOMAIN f = 1 .. n
  BY <1>1, DomainFiles
<1>3. ASSUME NEW v \in 1 .. n PROVE \E q \in all : q.path = p /\ q.version = v /\ f[v] = q.files
  <2>1. PICK q \in all : q.path = p /\ q.version = v
    BY DEF VersionsIn
  <2> QED
    BY <1>1, <2>1, FileIs
<1>4. \A v \in 1 .. n : f[v] \in Files
  BY <1>3 DEF RowsTyped
<1>5. f = [v \in 1 .. n |-> f[v]]
  <2>1. f = [v \in DOMAIN f |-> f[v]]
    BY <1>1 DEF FilesIn
  <2> QED
    BY <1>2, <2>1
<1>6. f \in [1 .. n -> Files]
  BY <1>4, <1>5
<1>7. f \in Seq(Files) /\ Len(f) = n
  <2>1. f \in Seq(Files)
    BY <1>6, SeqDef
  <2>2. DOMAIN f = 1 .. Len(f) /\ Len(f) \in Nat
    BY <2>1, LenProperties
  <2> QED
    BY <1>2, <2>1, <2>2
<1> QED
  BY <1>1, <1>3, <1>7

Added(all, p, v, f) == all \cup {[path |-> p, version |-> v, files |-> f]}

LEMMA VersionAdded ==
  ASSUME NEW all, RowsTyped(all), NEW p \in Paths, NEW v \in 1 .. MaxVersions, VersionsIn(all, p) = 1 .. v - 1,
         NEW f \in Files, NEW more, more = Added(all, p, v, f)
  PROVE  /\ RowsTyped(more) /\ VersionsIn(more, p) = 1 .. v
         /\ \A q : q # p => VersionsIn(more, q) = VersionsIn(all, q) /\ FilesIn(more, q) = FilesIn(all, q)
         /\ FilesIn(more, p) = Append(FilesIn(all, p), f)
         /\ Len(FilesIn(all, p)) = v - 1
<1>1. PICK new : new = [path |-> p, version |-> v, files |-> f]
  OBVIOUS
<1>2. new.path = p /\ new.version = v /\ new.files = f /\ new \in [path : Paths, version : 1 .. MaxVersions, files : Files]
  BY <1>1
<1>3. more = all \cup {new}
  BY <1>1 DEF Added
<1>4. v \in Nat /\ v - 1 \in Nat /\ (v - 1) + 1 = v /\ MaxVersions \in Nat /\ v \in 0 .. MaxVersions
      /\ 1 .. v = 1 .. v - 1 \cup {v} /\ v \notin 1 .. v - 1
  BY ContentAssumption
<1>5. \A q : VersionsIn(more, q) = VersionsIn(all, q) \cup {x \in {v} : q = p}
  BY <1>2, <1>3 DEF VersionsIn
<1>6. VersionsIn(more, p) = 1 .. v /\ \A q : q # p => VersionsIn(more, q) = VersionsIn(all, q)
  BY <1>4, <1>5
<1>7. RowsTyped(more)
  <2>1. more \subseteq [path : Paths, version : 1 .. MaxVersions, files : Files]
    BY <1>2, <1>3 DEF RowsTyped
  <2>2. \A q \in all : q.path = p => q.version # v
    BY <1>4 DEF VersionsIn
  <2>3. \A q, r \in more : q.path = r.path /\ q.version = r.version => q = r
    BY <1>2, <1>3, <2>2 DEF RowsTyped
  <2>4. \A q \in Paths : \E n \in 0 .. MaxVersions : VersionsIn(more, q) = 1 .. n
    BY <1>4, <1>6 DEF RowsTyped
  <2> QED
    BY <2>1, <2>3, <2>4 DEF RowsTyped
<1>8. ASSUME NEW q, NEW w \in VersionsIn(all, q) PROVE FilesIn(more, q)[w] = FilesIn(all, q)[w]
  <2>1. PICK r \in all : r.path = q /\ r.version = w
    BY DEF VersionsIn
  <2>2. r \in more
    BY <1>3
  <2> QED
    BY <1>7, <2>1, <2>2, FileIs
<1>9. ASSUME NEW q, q # p PROVE FilesIn(more, q) = FilesIn(all, q)
  <2>1. PICK g : g = FilesIn(more, q)
    OBVIOUS
  <2>2. PICK h : h = FilesIn(all, q)
    OBVIOUS
  <2>3. PICK D : D = VersionsIn(all, q)
    OBVIOUS
  <2>4. DOMAIN g = D /\ DOMAIN h = D
    BY <1>6, <1>9, <2>1, <2>2, <2>3, DomainFiles
  <2>5. g = [w \in DOMAIN g |-> g[w]] /\ h = [w \in DOMAIN h |-> h[w]]
    BY <2>1, <2>2 DEF FilesIn
  <2>6. \A w \in D : g[w] = h[w]
    BY <1>8, <2>1, <2>2, <2>3
  <2>7. g = h
    BY <2>4, <2>5, <2>6
  <2> QED
    BY <2>1, <2>2, <2>7
<1>10. PICK g : g = FilesIn(more, p)
  OBVIOUS
<1>11. PICK h : h = FilesIn(all, p)
  OBVIOUS
<1>12. g \in Seq(Files) /\ Len(g) = v /\ h \in Seq(Files) /\ Len(h) = v - 1
  BY <1>4, <1>6, <1>7, <1>10, <1>11, FilesSeq
<1>13. g[v] = f /\ \A w \in 1 .. v - 1 : g[w] = h[w]
  <2>1. new \in more
    BY <1>3
  <2>2. g[v] = f
    BY <1>2, <1>7, <1>10, <2>1, FileIs
  <2> QED
    BY <1>8, <1>10, <1>11, <2>2
<1>14. g = Append(h, f)
  <2>1. PICK a : a = Append(h, f)
    OBVIOUS
  <2>2. a \in Seq(Files) /\ Len(a) = v /\ a[v] = f /\ \A w \in 1 .. v - 1 : a[w] = h[w]
    BY <1>4, <1>12, <2>1, AppendProperties
  <2>3. \A w \in 1 .. v : a[w] = g[w]
    BY <1>4, <1>13, <2>2
  <2>4. a = g
    BY <1>12, <2>2, <2>3, SeqEqual
  <2> QED
    BY <2>1, <2>4
<1> QED
  BY <1>6, <1>7, <1>9, <1>10, <1>11, <1>12, <1>14

LEMMA PageAlters ==
  ASSUME NEW c \in Clients, NEW k, NEW held, Alters(c, k, held),
         DOMAIN board_page' \subseteq Paths, RowsTyped(board_page_version'),
         PageCall(k, held, board_page_version'),
         \A d \in Clients \ {c} : PageCall(call[d], rows[d], board_page_version')
  PROVE  PageInv'
<1>1. \A d \in Clients : PageCall(call'[d], rows'[d], board_page_version')
  BY DEF Alters
<1> QED
  BY <1>1, Zenon DEF PageInv

LEMMA PageQuiet ==
  ASSUME PageInv, NEW c \in Clients, NEW k, NEW held, Alters(c, k, held),
         UNCHANGED <<board_page, board_page_version>>, PageCall(k, held, board_page_version)
  PROVE  PageInv'
<1>1. DOMAIN board_page' \subseteq Paths /\ RowsTyped(board_page_version') /\ PageCall(k, held, board_page_version')
  BY DEF PageInv
<1>2. \A d \in Clients \ {c} : PageCall(call[d], rows[d], board_page_version')
  BY DEF PageInv
<1> QED
  BY <1>1, <1>2, PageAlters

LEMMA PageElsewhere ==
  ASSUME NEW k, NEW held, NEW all, k.at \notin {"max", "insert", "point"} PROVE PageCall(k, held, all)
BY DEF PageCall

LEMMA PageEnds ==
  ASSUME ContentInv, Locked, PageInv, NEW c \in Clients, End(c), UNCHANGED <<board_page, board_page_version>>
  PROVE  PageInv'
<1>1. PageCall(IdleCall, {}, board_page_version)
  BY PageElsewhere DEF IdleCall
<1> QED
  BY <1>1, EndAlters, PageQuiet

LEMMA InsertIsPut ==
  ASSUME ContentInv, Locked, PageInv, NEW c \in Clients, InsertVersion(c)
  PROVE  PageInv' /\ Tree!TreeNext
<1>1. PICK k : k = call[c]
  OBVIOUS
<1>2. k.at = "insert" /\ End(c) /\ UNCHANGED board_node
  BY <1>1 DEF InsertVersion, Goes
<1>3. PICK all : all = board_page_version
  OBVIOUS
<1>4. /\ k.path \in Paths /\ k.files \in Files /\ PageRow(k.path) \in rows[c]
      /\ k.version \in 1 .. MaxVersions /\ VersionsIn(all, k.path) = 1 .. k.version - 1
      /\ RowsTyped(all) /\ DOMAIN board_page \subseteq Paths
  BY <1>1, <1>2, <1>3 DEF PageInv, PageCall
<1>5. FilesOf(k.path) = FilesIn(all, k.path)
  BY <1>3 DEF FilesOf, FilesIn
<1>6. k.version \notin DOMAIN FilesOf(k.path)
  <2>1. DOMAIN FilesOf(k.path) = 1 .. k.version - 1
    BY <1>4, <1>5, DomainFiles
  <2> QED
    BY <1>4, <2>1
<1>7. PICK more : more = Added(all, k.path, k.version, k.files)
  OBVIOUS
<1>8. board_page_version' = more /\ board_page' = SetCurrent(k.path, k.version)
  BY <1>1, <1>3, <1>6, <1>7, Zenon DEF InsertVersion, Added
<1>9. /\ RowsTyped(more) /\ VersionsIn(more, k.path) = 1 .. k.version
      /\ \A q : q # k.path => VersionsIn(more, q) = VersionsIn(all, q) /\ FilesIn(more, q) = FilesIn(all, q)
      /\ FilesIn(more, k.path) = Append(FilesIn(all, k.path), k.files)
      /\ Len(FilesIn(all, k.path)) = k.version - 1
  <2>1. PICK p \in Paths : p = k.path
    BY <1>4
  <2>2. PICK v \in 1 .. MaxVersions : v = k.version
    BY <1>4
  <2>3. PICK f \in Files : f = k.files
    BY <1>4
  <2>4. RowsTyped(all) /\ VersionsIn(all, p) = 1 .. v - 1 /\ more = Added(all, p, v, f)
    BY <1>4, <1>7, <2>1, <2>2, <2>3
  <2>5. /\ RowsTyped(more) /\ VersionsIn(more, p) = 1 .. v
        /\ \A q : q # p => VersionsIn(more, q) = VersionsIn(all, q) /\ FilesIn(more, q) = FilesIn(all, q)
        /\ FilesIn(more, p) = Append(FilesIn(all, p), f)
        /\ Len(FilesIn(all, p)) = v - 1
    <3> HIDE <1>4, <1>7, <2>1, <2>2, <2>3
    <3> QED
      BY <2>4, VersionAdded
  <2> QED
    BY <2>1, <2>2, <2>3, <2>5
<1>10. ASSUME NEW d \in Clients \ {c} PROVE PageCall(call[d], rows[d], more)
  <2>1. PageCall(call[d], rows[d], all)
    BY <1>3 DEF PageInv
  <2>2. PageRow(k.path) \notin rows[d]
    BY <1>4 DEF Locked, PageRow
  <2>3. \A q : VersionsIn(all, q) \subseteq VersionsIn(more, q)
    BY <1>7 DEF VersionsIn, Added
  <2> QED
    BY <1>9, <2>1, <2>2, <2>3 DEF PageCall
<1>11. DOMAIN board_page' \subseteq Paths
  BY <1>4, <1>8 DEF SetCurrent
<1>12. PageInv'
  <2>1. PageCall(IdleCall, {}, more)
    BY PageElsewhere DEF IdleCall
  <2> QED
    BY <1>2, <1>8, <1>9, <1>10, <1>11, <2>1, EndAlters, PageAlters
<1>13. \A q : FilesOf(q) = FilesIn(all, q) /\ FilesOf(q)' = FilesIn(more, q)
  BY <1>3, <1>8 DEF FilesOf, FilesIn
<1>14. Pages' = [Pages EXCEPT ![k.path] = Append(@, k.files)]
  <2>1. Pages' = [p \in Paths |-> FilesIn(more, p)] /\ Pages = [p \in Paths |-> FilesIn(all, p)]
    BY <1>13 DEF Pages
  <2> QED
    BY <1>4, <1>9, <2>1
<1>15. Pages[k.path] = FilesIn(all, k.path) /\ Pages'[k.path] = FilesIn(more, k.path)
  BY <1>4, <1>13 DEF Pages
<1>16. Len(Pages[k.path]) < MaxVersions /\ Len(Pages'[k.path]) = k.version
  <2>1. Len(FilesIn(more, k.path)) = k.version
    BY <1>4, <1>9, FilesSeq
  <2>2. k.version - 1 < MaxVersions
    BY <1>4, ContentAssumption
  <2> QED
    BY <1>9, <1>15, <2>1, <2>2
<1>17. Currents' = [Currents EXCEPT ![k.path] = k.version]
  <2>1. \A p \in Paths : CurrentOf(p)' = IF p = k.path THEN k.version ELSE CurrentOf(p)
    BY <1>8 DEF CurrentOf, SetCurrent
  <2> QED
    BY <1>4, <2>1 DEF Currents
<1>18. Tree!PutPage(k.path, k.files)
  BY <1>2, <1>14, <1>16, <1>17, Zenon DEF Tree!PutPage, Pages, Currents
<1> QED
  BY <1>4, <1>12, <1>18, Zenon DEF Tree!TreeNext

LEMMA PointIsRollback ==
  ASSUME ContentInv, Locked, PageInv, NEW c \in Clients, PointTo(c)
  PROVE  PageInv' /\ Tree!TreeNext
<1>1. PICK k : k = call[c]
  OBVIOUS
<1>2. k.at = "point" /\ End(c) /\ board_page' = SetCurrent(k.path, k.version) /\ UNCHANGED <<board_node, board_page_version>>
  BY <1>1 DEF PointTo, Goes
<1>3. /\ k.path \in Paths /\ k.version \in 1 .. MaxVersions /\ k.version \in VersionsIn(board_page_version, k.path)
      /\ RowsTyped(board_page_version) /\ DOMAIN board_page \subseteq Paths
  BY <1>1, <1>2 DEF PageInv, PageCall
<1>4. PageInv'
  <2>1. PageCall(IdleCall, {}, board_page_version')
    BY PageElsewhere DEF IdleCall
  <2>2. DOMAIN board_page' \subseteq Paths
    BY <1>2, <1>3 DEF SetCurrent
  <2>3. \A d \in Clients \ {c} : PageCall(call[d], rows[d], board_page_version')
    BY <1>2 DEF PageInv
  <2>4. RowsTyped(board_page_version')
    BY <1>2, <1>3
  <2> QED
    BY <1>2, <2>1, <2>2, <2>3, <2>4, EndAlters, PageAlters
<1>5. Pages' = Pages
  <2>1. \A p : FilesOf(p)' = FilesOf(p)
    BY <1>2, FilesSame
  <2> QED
    BY <2>1 DEF Pages
<1>6. k.version \in DOMAIN Pages[k.path]
  <2>1. Pages[k.path] = FilesIn(board_page_version, k.path)
    BY <1>3 DEF Pages, FilesOf, FilesIn
  <2> QED
    BY <1>3, <2>1, DomainFiles
<1>7. Currents' = [Currents EXCEPT ![k.path] = k.version]
  <2>1. \A p \in Paths : CurrentOf(p)' = IF p = k.path THEN k.version ELSE CurrentOf(p)
    BY <1>2 DEF CurrentOf, SetCurrent
  <2> QED
    BY <1>3, <2>1 DEF Currents
<1>8. Tree!RollbackPage(k.path, k.version)
  BY <1>2, <1>5, <1>6, <1>7, Zenon DEF Tree!RollbackPage, Pages, Currents
<1> QED
  BY <1>3, <1>4, <1>8, Zenon DEF Tree!TreeNext

LEMMA PageStepIsPage ==
  ASSUME ContentInv, Locked, PageInv, NEW c \in Clients, PageSteps(c)
  PROVE  /\ PageInv' /\ UNCHANGED board_node /\ (Tree!TreeNext \/ UNCHANGED Tree!treeVars)
         /\ \E k, held : Alters(c, k, held) /\ k.at \in {"idle", "max", "insert", "point"}
<1> DEFINE Moves == \E k, held : Alters(c, k, held) /\ k.at \in {"idle", "max", "insert", "point"}
<1>1. ASSUME NEW k, NEW held, Alters(c, k, held), k.at \in {"max", "insert", "point"}, UNCHANGED tables,
             PageCall(k, held, board_page_version)
      PROVE  PageInv' /\ UNCHANGED board_node /\ UNCHANGED Tree!treeVars /\ Moves
  <2>1. UNCHANGED board_node /\ UNCHANGED <<board_page, board_page_version>>
    BY <1>1 DEF tables
  <2>2. Moves
    BY <1>1, Zenon
  <2> QED
    BY <1>1, <2>1, <2>2, PageQuiet, TreeSame
<1> HIDE DEF Moves
<1>2. ASSUME NEW p \in Paths, NEW f \in Files, put_page(c, p, f)
      PROVE  PageInv' /\ UNCHANGED board_node /\ UNCHANGED Tree!treeVars /\ Moves
  <2>1. PICK k : k = [at |-> "max", path |-> p, files |-> f]
    OBVIOUS
  <2>2. call' = [call EXCEPT ![c] = k] /\ Locks(c, {PageRow(p)}) /\ UNCHANGED tables
    BY <1>2, <2>1 DEF put_page, Continue
  <2>3. PageCall(k, rows[c] \cup {PageRow(p)}, board_page_version)
    BY <2>1 DEF PageCall
  <2>4. k.at = "max"
    BY <2>1
  <2> QED
    BY <1>1, <2>2, <2>3, <2>4, ContinueAlters
<1>3. ASSUME NEW p \in Paths, NEW v \in 1 .. MaxVersions, rollback_page(c, p, v)
      PROVE  PageInv' /\ UNCHANGED board_node /\ UNCHANGED Tree!treeVars /\ Moves
  <2>1. PICK k : k = [at |-> "point", path |-> p, version |-> v]
    OBVIOUS
  <2>2. call' = [call EXCEPT ![c] = k] /\ UNCHANGED rows /\ UNCHANGED tables /\ v \in DOMAIN FilesOf(p)
    BY <1>3, <2>1 DEF rollback_page, Continue
  <2>3. v \in VersionsIn(board_page_version, p)
    BY <2>2 DEF FilesOf, VersionsIn
  <2>4. PageCall(k, rows[c], board_page_version)
    BY <2>1, <2>3 DEF PageCall
  <2>5. k.at = "point"
    BY <2>1
  <2> QED
    BY <1>1, <2>2, <2>4, <2>5, ContinueAlters
<1>4. ASSUME MaxVersion(c)
      PROVE PageInv' /\ UNCHANGED board_node /\ (Tree!TreeNext \/ UNCHANGED Tree!treeVars) /\ Moves
  <2>1. PICK old : old = call[c]
    OBVIOUS
  <2>2. PICK all : all = board_page_version
    OBVIOUS
  <2>3. PICK max : max = LET vs == DOMAIN FilesOf(call[c].path)
                         IN  IF vs = {} THEN 0 ELSE CHOOSE v \in vs : \A w \in vs : w <= v
    OBVIOUS
  <2>4. PICK k : k = [at |-> "insert", path |-> call[c].path, files |-> call[c].files, version |-> max + 1]
    OBVIOUS
  <2>5. call[c].at = "max" /\ max < MaxVersions /\ call' = [call EXCEPT ![c] = k] /\ UNCHANGED rows /\ UNCHANGED tables
    BY <1>4, <2>3, <2>4, Zenon DEF MaxVersion, Goes, Continue
  <2>6. old.at = "max" /\ k = [at |-> "insert", path |-> old.path, files |-> old.files, version |-> max + 1]
    BY <2>1, <2>4, <2>5
  <2>7. /\ old.path \in Paths /\ old.files \in Files /\ PageRow(old.path) \in rows[c] /\ RowsTyped(all)
    BY <2>1, <2>2, <2>6 DEF PageInv, PageCall
  <2>8. PICK n \in 0 .. MaxVersions : VersionsIn(all, old.path) = 1 .. n
    BY <2>7 DEF RowsTyped
  <2>9. max = IF 1 .. n = {} THEN 0 ELSE CHOOSE v \in 1 .. n : \A w \in 1 .. n : w <= v
    <3>1. FilesOf(old.path) = FilesIn(all, old.path)
      BY <2>2 DEF FilesOf, FilesIn
    <3>2. DOMAIN FilesOf(call[c].path) = 1 .. n
      BY <2>1, <2>8, <3>1, DomainFiles
    <3> QED
      BY <2>3, <3>2
  <2>10. n \in Nat /\ MaxVersions \in Nat
    BY ContentAssumption
  <2>11. max = n
    <3>1. CASE n = 0
      BY <2>9, <3>1
    <3>2. CASE n # 0
      <4>1. n \in 1 .. n /\ \A w \in 1 .. n : w <= n
        BY <2>10, <3>2
      <4>2. PICK m : m = CHOOSE v \in 1 .. n : \A w \in 1 .. n : w <= v
        OBVIOUS
      <4>3. m \in 1 .. n /\ \A w \in 1 .. n : w <= m
        BY <4>1, <4>2
      <4>4. m = n
        BY <2>10, <4>1, <4>3
      <4> QED
        BY <2>9, <4>1, <4>2, <4>4
    <3> QED
      BY <3>1, <3>2
  <2>12. PICK v : v = max + 1
    OBVIOUS
  <2>13. v \in 1 .. MaxVersions /\ v - 1 = n
    BY <2>5, <2>10, <2>11, <2>12
  <2>14. k.at = "insert" /\ k.path = old.path /\ k.files = old.files /\ k.version = v
    BY <2>6, <2>12, Zenon
  <2>15. PageCall(k, rows[c], all)
    BY <2>7, <2>8, <2>13, <2>14 DEF PageCall
  <2> QED
    BY <1>1, <2>2, <2>5, <2>14, <2>15, ContinueAlters
<1>5. ASSUME InsertVersion(c) \/ PointTo(c)
      PROVE PageInv' /\ UNCHANGED board_node /\ (Tree!TreeNext \/ UNCHANGED Tree!treeVars) /\ Moves
  <2>1. End(c) /\ UNCHANGED board_node
    BY <1>5 DEF InsertVersion, PointTo
  <2>2. Alters(c, IdleCall, {}) /\ IdleCall.at = "idle"
    BY <2>1, EndAlters DEF IdleCall
  <2>3. Moves
    BY <2>2 DEF Moves
  <2>4. PageInv' /\ Tree!TreeNext
    BY <1>5, InsertIsPut, PointIsRollback
  <2> QED
    BY <2>1, <2>3, <2>4
<1>6. PageInv' /\ UNCHANGED board_node /\ (Tree!TreeNext \/ UNCHANGED Tree!treeVars) /\ Moves
  BY <1>2, <1>3, <1>4, <1>5, Zenon DEF PageSteps
<1> QED
  BY <1>6 DEF Moves

LEMMA FlattenQuiet ==
  ASSUME PageInv, UNCHANGED <<call, rows, board_page, board_page_version>>
  PROVE  PageInv' /\ UNCHANGED <<Pages, Currents>>
<1>1. /\ DOMAIN board_page' \subseteq Paths /\ RowsTyped(board_page_version')
      /\ \A c \in Clients : PageCall(call'[c], rows'[c], board_page_version')
  BY DEF PageInv
<1>2. PageInv'
  BY <1>1, Zenon DEF PageInv
<1> QED
  BY <1>2, PagesSame

LEMMA FlattenIsTree ==
  ASSUME ContentInv, PageInv, Flatten
  PROVE  /\ ~Serving /\ UNCHANGED <<call, rows>> /\ PageInv'
         /\ Tree!TreeNext \/ UNCHANGED Tree!treeVars
         /\ Shallow(board_node) => Shallow(board_node')
<1>1. ~Serving /\ UNCHANGED <<call, rows, board_page, board_page_version>>
  <2>1. PICK at \in {"modules", "module", "list", "detail"} : Booting(at)
    BY Zenon DEF Flatten, FlattenModules, FlattenModule, FlattenList, FlattenDetail, FlattenListDone
  <2> QED
    BY <2>1 DEF Booting, Serving
<1>2. TreeTyped(board_node)
  BY DEF ContentInv
<1>3. PageInv' /\ UNCHANGED <<Pages, Currents>>
  BY <1>1, FlattenQuiet
<1>4. ASSUME UNCHANGED board_node
      PROVE  UNCHANGED Tree!treeVars /\ (Shallow(board_node) => Shallow(board_node'))
  BY <1>1, <1>4, TreeSame DEF tables
<1>5. CASE FlattenModules \/ FlattenModule \/ FlattenList
  <2>1. UNCHANGED board_node
    BY <1>5, Zenon DEF FlattenModules, FlattenModule, FlattenList
  <2> QED
    BY <1>1, <1>3, <1>4, <2>1
<1>6. CASE FlattenDetail
  <2>1. boot.at = "detail"
    BY <1>6 DEF FlattenDetail, Booting
  <2>2. PICK d \in boot.details :
            \/ /\ Tree!At(board_node, boot.mod, board_node[d].slug) = {}
               /\ board_node' = [board_node EXCEPT ![d].parent = boot.mod]
            \/ UNCHANGED board_node
    BY <1>6, Zenon DEF FlattenDetail
  <2>3. /\ d \in DOMAIN board_node /\ board_node[d].type = "detail" /\ ~board_node[d].deleted
        /\ board_node[d].parent = boot.list
        /\ boot.mod \in DOMAIN board_node /\ board_node[boot.mod].type = "module"
        /\ boot.list \in DOMAIN board_node /\ board_node[boot.list].type = "list"
    BY <2>1, BootAtDetail DEF Ids
  <2>4. PICK m : m = boot.mod
    OBVIOUS
  <2>5. CASE Tree!At(board_node, boot.mod, board_node[d].slug) = {} /\ board_node' = [board_node EXCEPT ![d].parent = boot.mod]
    <3>1. m \in 0 .. MaxNodes /\ boot.list # 0
      BY <1>2, <2>3, <2>4, TreeIsSeq
    <3>2. board_node' = Moved(board_node, d, m)
      BY <2>4, <2>5, Zenon DEF Moved
    <3>3. /\ DOMAIN board_node' = DOMAIN board_node /\ board_node'[d].parent = m
          /\ \A i \in DOMAIN board_node : i # d => board_node'[i] = board_node[i]
      BY <1>2, <2>3, <2>4, <3>2, MovedTree
    <3>4. Shallow(board_node) => Shallow(board_node')
      BY <1>2, <2>3, <2>4, <3>1, <3>3, ShallowMoved
    <3>5. Tree!Live(board_node, d) /\ board_node[d].parent # m
      BY <2>3, <2>4 DEF Tree!Live
    <3>6. Tree!MoveNode(d, m)
      BY <1>3, <2>4, <2>5, <3>5, Zenon DEF Tree!MoveNode, Pages, Currents
    <3>7. Tree!TreeNext
      BY <2>3, <3>1, <3>6, Zenon DEF Tree!TreeNext
    <3> QED
      BY <1>1, <1>3, <3>4, <3>7
  <2> QED
    BY <1>1, <1>3, <1>4, <2>2, <2>5
<1>7. CASE FlattenListDone
  <2>1. /\ boot.at = "detail" /\ boot.details = {}
        /\ board_node' = IF boot.left = 0 THEN Tree!Deleted(board_node, Collected(board_node, boot.list)) ELSE board_node
    BY <1>7, Zenon DEF FlattenListDone, Booting
  <2>2. PICK l : l = boot.list
    OBVIOUS
  <2>3. l \in DOMAIN board_node /\ Tree!Live(board_node, l)
    BY <2>1, <2>2, BootAtDetail DEF Ids, Tree!Live
  <2>4. CASE boot.left = 0
    <3>1. board_node' = Tree!Deleted(board_node, Collected(board_node, l))
      BY <2>1, <2>2, <2>4
    <3>2. Collected(board_node, l) = {l} /\ Tree!Subtree(board_node, l) = {l}
      <4>1. Tree!Children(board_node, {l}) = {}
        BY <2>1, <2>2, <2>4, BootAtDetail
      <4>2. Len(board_node) \in Nat /\ Len(board_node) # 0
        <5>1. DOMAIN board_node = 1 .. Len(board_node) /\ Len(board_node) \in Nat
          BY <1>2, TreeIsSeq
        <5> QED
          BY <2>3, <5>1
      <4> QED
        BY <4>1, <4>2, CollectedAlone, SubtreeAlone
    <3>3. Trimmed(board_node, board_node', {l})
      BY <1>2, <3>1, <3>2, DeletedTree
    <3>4. Shallow(board_node) => Shallow(board_node')
      BY <1>2, <3>3, ShallowTrimmed
    <3>5. Tree!DeleteNode(l)
      BY <1>3, <2>3, <3>1, <3>2, Zenon DEF Tree!DeleteNode, Pages, Currents
    <3>6. Tree!TreeNext
      BY <2>3, <3>5, Zenon DEF Tree!TreeNext
    <3> QED
      BY <1>1, <1>3, <3>4, <3>6
  <2>5. CASE boot.left # 0
    <3>1. UNCHANGED board_node
      BY <2>1, <2>5, Zenon
    <3> QED
      BY <1>1, <1>3, <1>4, <3>1
  <2> QED
    BY <2>4, <2>5
<1> QED
  BY <1>5, <1>6, <1>7, Zenon DEF Flatten

LEMMA MysqlInitially == ASSUME ContentInit PROVE Locked /\ PageInv /\ Tree!TreeInit
<1>1. Locked
  BY DEF ContentInit, Locked
<1>2. \A c \in Clients : call[c] = IdleCall
  BY DEF ContentInit
<1>3. \A p : VersionsIn({}, p) = {} /\ 1 .. 0 = {}
  BY DEF VersionsIn
<1>4. RowsTyped({})
  <2>1. 0 \in 0 .. MaxVersions
    BY ContentAssumption
  <2>2. ASSUME NEW p \in Paths PROVE \E n \in 0 .. MaxVersions : VersionsIn({}, p) = 1 .. n
    <3>1. VersionsIn({}, p) = 1 .. 0
      BY <1>3
    <3> QED
      BY <2>1, <3>1
  <2> QED
    BY <2>2 DEF RowsTyped
<1>5. board_page_version = {} /\ DOMAIN board_page = {}
  BY DEF ContentInit
<1>6. PageInv
  <2>1. \A c \in Clients : PageCall(call[c], rows[c], board_page_version)
    BY <1>2, PageElsewhere DEF IdleCall
  <2> QED
    BY <1>4, <1>5, <2>1 DEF PageInv
<1>7. Pages = [p \in Paths |-> <<>>]
  <2>1. ASSUME NEW p \in Paths PROVE FilesOf(p) = <<>>
    <3>1. FilesOf(p) = FilesIn({}, p)
      BY <1>5 DEF FilesOf, FilesIn
    <3>2. FilesIn({}, p) \in Seq(Files) /\ Len(FilesIn({}, p)) = 0
      <4>1. 0 \in Nat /\ VersionsIn({}, p) = 1 .. 0
        BY <1>3
      <4>2. PICK n \in Nat : n = 0
        BY <4>1
      <4>3. VersionsIn({}, p) = 1 .. n
        BY <4>1, <4>2
      <4>4. ASSUME NEW all, RowsTyped(all), VersionsIn(all, p) = 1 .. n
            PROVE  FilesIn(all, p) \in Seq(Files) /\ Len(FilesIn(all, p)) = n
        BY <4>4, FilesSeq
      <4>5. FilesIn({}, p) \in Seq(Files) /\ Len(FilesIn({}, p)) = n
        BY <1>4, <4>3, <4>4
      <4> QED
        BY <4>2, <4>5
    <3>3. \A f \in Seq(Files) : Len(f) = 0 => f = <<>>
      BY EmptySeq
    <3> QED
      BY <3>1, <3>2, <3>3
  <2> QED
    BY <2>1 DEF Pages
<1>8. Currents = [p \in Paths |-> 0]
  BY <1>5 DEF Currents, CurrentOf
<1>9. board_node \in InitialTrees
  BY DEF ContentInit
<1>10. Tree!TreeInit
  BY <1>7, <1>8, <1>9, Zenon DEF Tree!TreeInit, Pages, Currents
<1> QED
  BY <1>1, <1>6, <1>10

LEMMA TreeInitially == ASSUME OneLevel, ContentInit PROVE TreeInv
<1>1. Shallow(board_node) /\ \A c \in Clients : call[c] = IdleCall
  BY DEF ContentInit, OneLevel
<1>2. \A c \in Clients : Guarded(call[c], rows[c], board_node)
  BY <1>1, IdleGuards
<1> QED
  BY <1>1, <1>2, Zenon DEF TreeInv

LEMMA NodeAts ==
  ASSUME ContentInv, NEW c \in Clients, Puts(c) \/ WriteNode(c) \/ Updates(c) \/ Deletes(c) \/ DbError(c)
  PROVE  \E k : call' = [call EXCEPT ![c] = k] /\ k.at \notin {"max", "insert", "point"}
<1>1. ASSUME End(c) PROVE \E k : call' = [call EXCEPT ![c] = k] /\ k.at \notin {"max", "insert", "point"}
  <2>1. IdleCall.at \notin {"max", "insert", "point"}
    BY DEF IdleCall
  <2> QED
    BY <1>1, <2>1, Zenon DEF End
<1>2. ASSUME NEW k, Continue(c, k), k.at \notin {"max", "insert", "point"}
      PROVE  \E x : call' = [call EXCEPT ![c] = x] /\ x.at \notin {"max", "insert", "point"}
  BY <1>2, Zenon DEF Continue
<1>3. ASSUME call[c].at \in {"resolve", "lock", "find"}
      PROVE  call[c] = [at |-> call[c].at, in |-> call[c].in, names |-> call[c].names]
  <2>1. CallOk(call[c], board_node)
    BY DEF ContentInv
  <2> QED
    BY <1>3, <2>1 DEF CallOk, IdleCall
<1>4. CASE Puts(c)
  <2>1. ASSUME NEW in, NEW names, put_node(c, in, names)
        PROVE  \E k : Continue(c, k) /\ k.at \notin {"max", "insert", "point"}
    <3>1. PICK k : k = [at |-> IF names = <<>> THEN "lock" ELSE "resolve", in |-> in, names |-> names]
      OBVIOUS
    <3>2. k.at \notin {"max", "insert", "point"}
      BY <3>1
    <3> QED
      BY <2>1, <3>1, <3>2, Zenon DEF put_node
  <2>2. ASSUME resolveNamedParent(c) PROVE End(c) \/ \E k : Continue(c, k) /\ k.at \notin {"max", "insert", "point"}
    <3>1. PICK old : old = call[c]
      OBVIOUS
    <3>2. ASSUME NEW i PROVE [old EXCEPT !.in.parent = i, !.names = Tail(@),
                                         !.at = IF Tail(old.names) = <<>> THEN "lock" ELSE "resolve"].at
                             \notin {"max", "insert", "point"}
      <4>1. old.at = "resolve"
        BY <2>2, <3>1, Zenon DEF resolveNamedParent, Goes
      <4>2. old = [at |-> old.at, in |-> old.in, names |-> old.names]
        BY <1>3, <3>1, <4>1
      <4> QED
        BY <4>2
    <3>3. \/ End(c)
          \/ \E i : Continue(c, [call[c] EXCEPT !.in.parent = i, !.names = Tail(@),
                                                !.at = IF Tail(call[c].names) = <<>> THEN "lock" ELSE "resolve"])
      BY <2>2, Zenon DEF resolveNamedParent
    <3> QED
      BY <3>1, <3>2, <3>3, Zenon
  <2>3. ASSUME LockParent(c) PROVE End(c) \/ \E k : Continue(c, k) /\ k.at \notin {"max", "insert", "point"}
    <3>1. PICK k : k = [call[c] EXCEPT !.at = "find"]
      OBVIOUS
    <3>2. call[c].at = "lock"
      BY <2>3 DEF LockParent, Goes
    <3>3. k.at = "find"
      BY <1>3, <3>1, <3>2
    <3>4. End(c) \/ Continue(c, k)
      BY <2>3, <3>1, Zenon DEF LockParent
    <3> QED
      BY <3>3, <3>4
  <2>4. ASSUME LockSlug(c) PROVE \E k : Continue(c, k) /\ k.at \notin {"max", "insert", "point"}
    <3>1. PICK k : k = [call[c] EXCEPT !.at = "write"]
      OBVIOUS
    <3>2. call[c].at = "find"
      BY <2>4 DEF LockSlug, Goes
    <3>3. k.at = "write"
      BY <1>3, <3>1, <3>2
    <3>4. Continue(c, k)
      BY <2>4, <3>1, Zenon DEF LockSlug
    <3> QED
      BY <3>3, <3>4
  <2> QED
    BY <1>1, <1>2, <1>4, <2>1, <2>2, <2>3, <2>4, Zenon DEF Puts
<1>5. CASE Updates(c)
  <2>1. ASSUME NEW id, NEW d, NEW v, update_node(c, id, d, v)
        PROVE  \E k : Continue(c, k) /\ k.at \notin {"max", "insert", "point"}
    <3>1. PICK k : k = [at |-> "update", id |-> id, data |-> d, sv |-> v]
      OBVIOUS
    <3>2. k.at \notin {"max", "insert", "point"}
      BY <3>1
    <3> QED
      BY <2>1, <3>1, <3>2, Zenon DEF update_node
  <2>2. UpdateWrite(c) => End(c)
    BY Zenon DEF UpdateWrite
  <2> QED
    BY <1>1, <1>2, <1>5, <2>1, <2>2, Zenon DEF Updates
<1>6. CASE Deletes(c)
  <2>1. ASSUME NEW id, delete_node(c, id) PROVE \E k : Continue(c, k) /\ k.at \notin {"max", "insert", "point"}
    <3>1. PICK k : k = [at |-> "collect", id |-> id]
      OBVIOUS
    <3>2. k.at \notin {"max", "insert", "point"}
      BY <3>1
    <3> QED
      BY <2>1, <3>1, <3>2, Zenon DEF delete_node
  <2>2. ASSUME CollectSubtree(c) PROVE \E k : Continue(c, k) /\ k.at \notin {"max", "insert", "point"}
    <3>1. PICK k : k = [at |-> "sweep", id |-> call[c].id, ids |-> Collected(board_node, call[c].id)]
      OBVIOUS
    <3>2. k.at \notin {"max", "insert", "point"}
      BY <3>1
    <3> QED
      BY <2>2, <3>1, <3>2, Zenon DEF CollectSubtree
  <2>3. SweepSubtree(c) => End(c)
    BY Zenon DEF SweepSubtree
  <2> QED
    BY <1>1, <1>2, <1>6, <2>1, <2>2, <2>3, Zenon DEF Deletes
<1>7. WriteNode(c) \/ DbError(c) => End(c)
  BY Zenon DEF WriteNode, DbError
<1> QED
  BY <1>1, <1>4, <1>5, <1>6, <1>7, Zenon

LEMMA NodeCallsOnly ==
  ASSUME ContentInv, Locked, PageInv, NEW c \in Clients,
         Puts(c) \/ WriteNode(c) \/ Updates(c) \/ Deletes(c) \/ DbError(c)
  PROVE  PageInv'
<1>1. UNCHANGED <<board_page, board_page_version>>
  <2>1. UNCHANGED tables => UNCHANGED <<board_page, board_page_version>>
    BY DEF tables
  <2>2. Puts(c) => UNCHANGED tables
    BY Zenon DEF Puts, put_node, resolveNamedParent, LockParent, LockSlug
  <2>3. Updates(c) => UNCHANGED tables \/ UNCHANGED <<board_page, board_page_version>>
    BY Zenon DEF Updates, update_node, UpdateWrite
  <2>4. Deletes(c) => UNCHANGED tables \/ UNCHANGED <<board_page, board_page_version>>
    BY Zenon DEF Deletes, delete_node, CollectSubtree, SweepSubtree
  <2>5. WriteNode(c) \/ DbError(c) => UNCHANGED tables \/ UNCHANGED <<board_page, board_page_version>>
    BY Zenon DEF WriteNode, DbError
  <2> QED
    BY <2>1, <2>2, <2>3, <2>4, <2>5
<1>2. UNCHANGED rows \/ End(c) \/ \E ls : Locks(c, ls)
  <2>1. Puts(c) => UNCHANGED rows \/ End(c) \/ \E ls : Locks(c, ls)
    BY Zenon DEF Puts, put_node, resolveNamedParent, LockParent, LockSlug
  <2>2. Updates(c) => UNCHANGED rows \/ End(c)
    BY Zenon DEF Updates, update_node, UpdateWrite
  <2>3. Deletes(c) => UNCHANGED rows \/ End(c) \/ \E ls : Locks(c, ls)
    BY Zenon DEF Deletes, delete_node, CollectSubtree, SweepSubtree
  <2>4. WriteNode(c) \/ DbError(c) => End(c)
    BY Zenon DEF WriteNode, DbError
  <2> QED
    BY <2>1, <2>2, <2>3, <2>4
<1>3. PICK k : call' = [call EXCEPT ![c] = k] /\ k.at \notin {"max", "insert", "point"}
  BY NodeAts
<1>4. \A held : PageCall(k, held, board_page_version)
  BY <1>3, PageElsewhere
<1>5. CASE UNCHANGED rows
  BY <1>1, <1>3, <1>4, <1>5, ContinueAlters, PageQuiet
<1>6. CASE End(c)
  BY <1>1, <1>6, PageEnds
<1>7. ASSUME NEW ls, Locks(c, ls) PROVE PageInv'
  BY <1>1, <1>3, <1>4, <1>7, ContinueAlters, PageQuiet
<1> QED
  BY <1>2, <1>5, <1>6, <1>7

LEMMA MysqlStep ==
  ASSUME OneLevel, ContentInv, Locked, TreeInv, PageInv, [ContentNext]_contentVars
  PROVE  ContentInv' /\ Locked' /\ TreeInv' /\ PageInv' /\ (Tree!TreeNext \/ UNCHANGED Tree!treeVars)
<1>1. ContentInv' /\ Locked'
  BY ContentStep, LocksStep
<1>2. CASE UNCHANGED contentVars
  <2>1. UNCHANGED tables /\ UNCHANGED <<board_node, board_page, board_page_version>> /\ UNCHANGED <<call, rows>>
    BY <1>2 DEF contentVars, tables
  <2>2. Shallow(board_node') /\ \A c \in Clients : Guarded(call'[c], rows'[c], board_node')
    BY <2>1 DEF TreeInv
  <2>3. /\ DOMAIN board_page' \subseteq Paths /\ RowsTyped(board_page_version')
        /\ \A c \in Clients : PageCall(call'[c], rows'[c], board_page_version')
    BY <2>1 DEF PageInv
  <2>4. TreeInv' /\ PageInv'
    BY <2>2, <2>3, Zenon DEF TreeInv, PageInv
  <2> QED
    BY <1>1, <2>1, <2>4, TreeSame
<1>3. CASE Flatten
  <2>1. /\ ~Serving /\ UNCHANGED <<call, rows>> /\ PageInv' /\ Shallow(board_node')
        /\ Tree!TreeNext \/ UNCHANGED Tree!treeVars
    BY <1>3, FlattenIsTree DEF TreeInv
  <2>2. \A c \in Clients : call'[c] = IdleCall
    BY <2>1 DEF ContentInv
  <2>3. \A c \in Clients : Guarded(call'[c], rows'[c], board_node')
    BY <2>2, IdleGuards
  <2>4. TreeInv'
    BY <2>1, <2>3, Zenon DEF TreeInv
  <2> QED
    BY <1>1, <2>1, <2>4
<1>4. CASE Crash
  <2>1. UNCHANGED tables /\ UNCHANGED <<board_node, board_page, board_page_version>>
        /\ \A c \in Clients : call'[c] = IdleCall
    BY <1>4 DEF Crash, tables
  <2>2. Shallow(board_node') /\ \A c \in Clients : Guarded(call'[c], rows'[c], board_node')
    BY <2>1, IdleGuards DEF TreeInv
  <2>3. /\ DOMAIN board_page' \subseteq Paths /\ RowsTyped(board_page_version')
        /\ \A c \in Clients : PageCall(call'[c], rows'[c], board_page_version')
    BY <2>1, PageElsewhere DEF PageInv, IdleCall
  <2>4. TreeInv' /\ PageInv'
    BY <2>2, <2>3, Zenon DEF TreeInv, PageInv
  <2> QED
    BY <1>1, <2>1, <2>4, TreeSame
<1>5. ASSUME NEW c \in Clients, Puts(c) \/ WriteNode(c) \/ Updates(c) \/ Deletes(c) \/ PageSteps(c) \/ DbError(c)
      PROVE  TreeInv' /\ PageInv' /\ (Tree!TreeNext \/ UNCHANGED Tree!treeVars)
  <2>1. ASSUME Puts(c) \/ WriteNode(c) \/ Updates(c) \/ Deletes(c) \/ DbError(c) PROVE PageInv'
    BY <2>1, NodeCallsOnly
  <2>2. ASSUME Puts(c) PROVE TreeInv' /\ UNCHANGED Tree!treeVars
    BY <2>2, PutGuards, TreeSame
  <2>3. ASSUME DbError(c) PROVE TreeInv' /\ UNCHANGED Tree!treeVars
    <3>1. End(c) /\ UNCHANGED tables /\ UNCHANGED board_node
      BY <2>3 DEF DbError, tables
    <3> QED
      BY <3>1, EndReading, TreeSame
  <2>4. ASSUME WriteNode(c) PROVE TreeInv' /\ Tree!TreeNext
    BY <2>4, WriteIsPut
  <2>5. ASSUME Updates(c) PROVE TreeInv' /\ (Tree!TreeNext \/ UNCHANGED Tree!treeVars)
    BY <2>5, UpdateIsUpdate, UpdateGuards
  <2>6. ASSUME Deletes(c) PROVE TreeInv' /\ (Tree!TreeNext \/ UNCHANGED Tree!treeVars)
    BY <2>6, DeleteIsDelete
  <2>7. ASSUME PageSteps(c) PROVE TreeInv' /\ PageInv' /\ (Tree!TreeNext \/ UNCHANGED Tree!treeVars)
    <3>1. PageInv' /\ UNCHANGED board_node /\ (Tree!TreeNext \/ UNCHANGED Tree!treeVars)
      BY <2>7, PageStepIsPage
    <3>2. PICK k, held : Alters(c, k, held) /\ k.at \in {"idle", "max", "insert", "point"}
      BY <2>7, PageStepIsPage
    <3>3. Guarded(k, held, board_node)
      BY <3>2 DEF Guarded
    <3> QED
      BY <3>1, <3>2, <3>3, AltersReading
  <2> QED
    BY <1>5, <2>1, <2>2, <2>3, <2>4, <2>5, <2>6, <2>7, Zenon
<1> QED
  BY <1>1, <1>2, <1>3, <1>4, <1>5, NextIs, Zenon

(* The MySQL store (content_mysql.go) with its transactions, row locks,    *)
(* errors and restarts does, for any number of agents, only what the       *)
(* in-memory store (content_mem.go) may do: every statement is an          *)
(* operation of it, done whole, or changes nothing it shows.  As long as   *)
(* agents write modules and details only, and the board holds fewer nodes  *)
(* than DeleteNode collects.                                               *)
THEOREM MysqlImplementsTree == ASSUME OneLevel PROVE ContentSpec => ImplementsTree
<1> DEFINE StoreInv == ContentInv /\ Locked /\ TreeInv /\ PageInv
<1>1. ContentInit => StoreInv /\ Tree!TreeInit
  BY ContentInitially, MysqlInitially, TreeInitially
<1>2. StoreInv /\ [ContentNext]_contentVars => StoreInv' /\ [Tree!TreeNext]_(Tree!treeVars)
  BY MysqlStep
<1> HIDE DEF StoreInv
<1> QED
  BY <1>1, <1>2, PTL DEF ContentSpec, ImplementsTree, Tree!TreeSpec
-----------------------------------------------------------------------------
(* Blocks below details: what the rounds of a delete find at any depth.    *)

(* After a round: what was found is below id, what it found last is part   *)
(* of it, and only of that the children may be missing.                    *)
FoundOk(ns, id, e) ==
    /\ id \in e.all /\ e.all \subseteq Below(ns, id) /\ e.frontier \subseteq e.all
    /\ Tree!Children(ns, e.all) \subseteq e.all \cup Tree!Children(ns, e.frontier)

(* The limit is reached, or nothing is missing, or every round found some. *)
FoundEnough(ns, k, e) ==
    \/ Cardinality(e.all) >= DeleteLimit
    \/ Tree!Children(ns, e.frontier) \subseteq e.all
    \/ Cardinality(e.all) >= k + 1

LEMMA BelowIs ==
  ASSUME NEW ns, NEW id \in DOMAIN ns
  PROVE  /\ id \in Below(ns, id) /\ Below(ns, id) \subseteq DOMAIN ns
         /\ \A i \in DOMAIN ns : ns[i].parent \in Below(ns, id) => i \in Below(ns, id)
BY DEF Below

LEMMA RoundFinds ==
  ASSUME NEW ns, TreeTyped(ns), NEW id \in DOMAIN ns, NEW e, FoundOk(ns, id, e),
         NEW k \in Nat, FoundEnough(ns, k, e), NEW f, f = Rounds(ns, e)
  PROVE  FoundOk(ns, id, f) /\ FoundEnough(ns, k + 1, f)
<1>1. DeleteLimit \in Nat
  BY ContentAssumption
<1>2. PICK new : new = Tree!Children(ns, e.frontier)
  OBVIOUS
<1>3. e.all \subseteq DOMAIN ns /\ new \subseteq DOMAIN ns
  BY <1>2, BelowIs DEF FoundOk, Tree!Children
<1>4. CASE Cardinality(e.all) >= DeleteLimit
  <2>1. Cardinality(e.all) \in Nat
    BY <1>3, FiniteIds
  <2>2. f = e
    BY <1>1, <1>4, <2>1 DEF Rounds
  <2> QED
    BY <1>4, <2>2 DEF FoundEnough
<1>5. CASE ~(Cardinality(e.all) >= DeleteLimit)
  <2>1. f = [all |-> e.all \cup new, frontier |-> new]
    <3>1. Cardinality(e.all) \in Nat
      BY <1>3, FiniteIds
    <3> QED
      BY <1>1, <1>2, <1>5, <3>1 DEF Rounds
  <2>2. f.all = e.all \cup new /\ f.frontier = new
    BY <2>1
  <2>3. new \subseteq Below(ns, id)
    BY <1>2, BelowIs DEF FoundOk, Tree!Children
  <2>4. Tree!Children(ns, e.all \cup new) = Tree!Children(ns, e.all) \cup Tree!Children(ns, new)
    BY DEF Tree!Children
  <2>5. FoundOk(ns, id, f)
    BY <1>2, <2>2, <2>3, <2>4 DEF FoundOk
  <2>6. CASE new \subseteq e.all
    <3>1. f.all = e.all
      BY <2>2, <2>6
    <3>2. Tree!Children(ns, new) \subseteq Tree!Children(ns, e.all)
      BY <2>6 DEF Tree!Children
    <3>3. Tree!Children(ns, f.frontier) \subseteq f.all
      BY <1>2, <2>2, <2>6, <3>1, <3>2 DEF FoundOk
    <3> QED
      BY <2>5, <3>3 DEF FoundEnough
  <2>7. CASE ~(new \subseteq e.all)
    <3>1. PICK x \in new : x \notin e.all
      BY <2>7
    <3>2. Cardinality(e.all) >= k + 1 /\ Cardinality(e.all) \in Nat
      BY <1>2, <1>3, <1>5, <2>7, FiniteIds DEF FoundEnough
    <3>3. IsFiniteSet(e.all) /\ Cardinality(e.all \cup {x}) = Cardinality(e.all) + 1
      <4>1. IsFiniteSet(e.all)
        BY <1>3, FiniteIds
      <4> QED
        BY <3>1, <4>1, FS_AddElement
    <3>4. IsFiniteSet(f.all) /\ Cardinality(f.all) \in Nat
      BY <1>3, <2>2, FiniteIds
    <3>5. Cardinality(e.all \cup {x}) <= Cardinality(f.all)
      <4>1. e.all \cup {x} \in SUBSET f.all
        BY <2>2, <3>1
      <4> QED
        BY <3>4, <4>1, FS_Subset
    <3>6. Cardinality(f.all) >= k + 1 + 1
      BY <3>2, <3>3, <3>4, <3>5
    <3> QED
      BY <2>5, <3>6 DEF FoundEnough
  <2> QED
    BY <2>6, <2>7
<1> QED
  BY <1>4, <1>5

(* What DeleteNode collects is below the node, and no live child of it is  *)
(* missing unless it stopped at the limit: there are fewer levels than     *)
(* nodes.                                                                  *)
LEMMA CollectedTaken ==
  ASSUME NEW ns, TreeTyped(ns), NEW id \in DOMAIN ns PROVE Taken(ns, id, Collected(ns, id), {})
<1>1. PICK n \in Nat : n = Len(ns)
  BY TreeIsSeq
<1>2. PICK e0 : e0 = [all |-> {id}, frontier |-> {id}]
  OBVIOUS
<1>3. PICK h : h[0] = e0 /\ Collected(ns, id) = h[n].all /\ \A k \in 1 .. n : h[k] = Rounds(ns, h[k - 1])
  BY <1>1, <1>2, CollectedFunction
<1> DEFINE S == {k \in 0 .. n : ~(FoundOk(ns, id, h[k]) /\ FoundEnough(ns, k, h[k]))}
<1>4. FoundOk(ns, id, e0) /\ FoundEnough(ns, 0, e0)
  <2>1. e0.all = {id} /\ e0.frontier = {id}
    BY <1>2
  <2>2. Cardinality({id}) = 1
    BY FS_Singleton
  <2>3. id \in Below(ns, id)
    BY BelowIs
  <2> QED
    BY <2>1, <2>2, <2>3 DEF FoundOk, FoundEnough
<1>5. S = {}
  <2>1. SUFFICES ASSUME S # {} PROVE FALSE
    OBVIOUS
  <2>2. PICK m \in S : \A x \in S : m <= x
    <3>1. S \in SUBSET Nat
      OBVIOUS
    <3> HIDE DEF S
    <3> QED
      BY <2>1, <3>1, LeastOf
  <2>3. m \in 0 .. n /\ ~(FoundOk(ns, id, h[m]) /\ FoundEnough(ns, m, h[m]))
    OBVIOUS
  <2>4. m # 0
    BY <1>3, <1>4, <2>3
  <2>5. PICK k \in Nat : k = m - 1 /\ m = k + 1 /\ k \in 0 .. n /\ ~(m <= k) /\ m \in 1 .. n
    BY <2>3, <2>4
  <2>6. FoundOk(ns, id, h[k]) /\ FoundEnough(ns, k, h[k])
    BY <2>2, <2>5
  <2>7. h[m] = Rounds(ns, h[k])
    BY <1>3, <2>5
  <2> HIDE DEF S
  <2> QED
    BY <2>3, <2>5, <2>6, <2>7, RoundFinds
<1>6. FoundOk(ns, id, h[n]) /\ FoundEnough(ns, n, h[n])
  BY <1>5
<1>7. PICK ids : ids = h[n].all
  OBVIOUS
<1>8. ids \subseteq DOMAIN ns
  BY <1>6, <1>7, BelowIs DEF FoundOk
<1>9. Cardinality(ids) \in Nat /\ Cardinality(ids) <= n
  BY <1>1, <1>8, FiniteIds
<1>10. DeleteLimit \in Nat
  BY ContentAssumption
<1>11. Cardinality(ids) < DeleteLimit => Tree!Children(ns, ids) \subseteq ids
  BY <1>6, <1>7, <1>9, <1>10 DEF FoundOk, FoundEnough
<1>12. id \in ids /\ ids \subseteq Below(ns, id)
  BY <1>6, <1>7 DEF FoundOk
<1> QED
  BY <1>3, <1>7, <1>11, <1>12 DEF Taken
(* What the row locks of a call protect, and what a delete has collected.  *)
Protected(k, held, new, ns) ==
    /\ k.at \in {"find", "write"} =>
          /\ Tree!checkParent(ns, k.in.type, k.in.parent)
          /\ k.in.parent # 0 => NodeRow(k.in.parent) \in held /\ Tree!Live(ns, k.in.parent)
    /\ k.at = "write" => SlugLocked(k.in, held, ns)
    /\ k.at \in {"collect", "sweep"} => NodeRow(k.id) \in held /\ Tree!Live(ns, k.id)
    /\ k.at = "sweep" => Taken(ns, k.id, k.ids, new)

BlockInv ==
    /\ DOMAIN late = Clients
    /\ \A c \in Clients : Protected(call[c], rows[c], late[c], board_node)

Noticed ==
    late' = [c \in Clients |-> IF call[c].at = "sweep" /\ call'[c].at = "sweep" THEN late[c] \cup Revived ELSE {}]

Came(ns, ms) == {i \in DOMAIN ms : ~ms[i].deleted /\ ~Tree!Live(ns, i)}

(* Nodes that stay below the same nodes. *)
Stays(ns, ms) == DOMAIN ns \subseteq DOMAIN ms /\ \A i \in DOMAIN ns : ms[i].parent = ns[i].parent

(* A node whose row is locked lives on and keeps its type. *)
Spares(held, ns, ms) ==
    \A i : NodeRow(i) \in held /\ Tree!Live(ns, i) => Tree!Live(ms, i) /\ ms[i].type = ns[i].type

LEMMA BelowStays ==
  ASSUME NEW ns, NEW ms, Stays(ns, ms), NEW id \in DOMAIN ns PROVE Below(ns, id) \subseteq Below(ms, id)
<1> SUFFICES ASSUME NEW i \in Below(ns, id), NEW S \in SUBSET DOMAIN ms,
                    id \in S, \A j \in DOMAIN ms : ms[j].parent \in S => j \in S
             PROVE  i \in DOMAIN ms /\ i \in S
  BY DEF Below, Stays
<1>1. PICK T : T = S \cap DOMAIN ns
  OBVIOUS
<1>2. i \in DOMAIN ns /\ DOMAIN ns \subseteq DOMAIN ms
  BY DEF Below, Stays
<1>3. T \in SUBSET DOMAIN ns /\ id \in T /\ \A j \in DOMAIN ns : ns[j].parent \in T => j \in T
  BY <1>1, <1>2 DEF Stays
<1>4. i \in T
  BY <1>3 DEF Below
<1> QED
  BY <1>1, <1>2, <1>4

LEMMA TakenStays ==
  ASSUME NEW ns, NEW ms, Stays(ns, ms), NEW id \in DOMAIN ns, NEW ids, NEW new, Taken(ns, id, ids, new)
  PROVE  Taken(ms, id, ids, new \cup Came(ns, ms))
<1>1. id \in ids /\ ids \subseteq Below(ms, id)
  BY BelowStays DEF Taken
<1>2. ASSUME NEW i \in Tree!Children(ms, ids), i \notin Came(ns, ms) PROVE i \in Tree!Children(ns, ids)
  BY <1>2 DEF Tree!Children, Tree!Live, Came, Stays
<1>3. Cardinality(ids) < DeleteLimit => Tree!Children(ms, ids) \subseteq ids \cup (new \cup Came(ns, ms))
  BY <1>2 DEF Taken
<1> QED
  BY <1>1, <1>3 DEF Taken

LEMMA ParentStays ==
  ASSUME NEW ns, NEW type, NEW p, Tree!checkParent(ns, type, p), NEW ms, p # 0 => ms[p].type = ns[p].type
  PROVE  Tree!checkParent(ms, type, p)
BY Zenon DEF Tree!checkParent

LEMMA ProtectedStays ==
  ASSUME NEW ns, NEW ms, Stays(ns, ms), NEW k, NEW held, Spares(held, ns, ms),
         k.at = "write" => SlugLocked(k.in, held, ms),
         NEW new, Protected(k, held, new, ns), NEW more, k.at = "sweep" => more = new \cup Came(ns, ms)
  PROVE  Protected(k, held, more, ms)
<1>1. ASSUME k.at \in {"find", "write"}
      PROVE  /\ Tree!checkParent(ms, k.in.type, k.in.parent)
             /\ k.in.parent # 0 => NodeRow(k.in.parent) \in held /\ Tree!Live(ms, k.in.parent)
  <2>1. k.in.parent # 0 => NodeRow(k.in.parent) \in held /\ Tree!Live(ns, k.in.parent)
    BY <1>1 DEF Protected
  <2>2. k.in.parent # 0 => Tree!Live(ms, k.in.parent) /\ ms[k.in.parent].type = ns[k.in.parent].type
    BY <2>1 DEF Spares
  <2>3. Tree!checkParent(ns, k.in.type, k.in.parent)
    BY <1>1 DEF Protected
  <2> QED
    BY <2>1, <2>2, <2>3, ParentStays
<1>2. ASSUME k.at \in {"collect", "sweep"} PROVE NodeRow(k.id) \in held /\ Tree!Live(ms, k.id)
  BY <1>2 DEF Protected, Spares
<1>3. ASSUME k.at = "sweep" PROVE Taken(ms, k.id, k.ids, more)
  <2>1. Taken(ns, k.id, k.ids, new) /\ k.id \in DOMAIN ns
    BY <1>3 DEF Protected, Tree!Live
  <2> QED
    BY <1>3, <2>1, TakenStays
<1> QED
  BY <1>1, <1>2, <1>3, Zenon DEF Protected

(* A step of one call, which leaves what the others have locked.           *)
LEMMA BlockAlters ==
  ASSUME BlockInv, Noticed, NEW c \in Clients, NEW k, NEW held, Alters(c, k, held),
         Stays(board_node, board_node'), Protected(k, held, late'[c], board_node'),
         \A d \in Clients \ {c} : Spares(rows[d], board_node, board_node'),
         \A d \in Clients \ {c} : call[d].at = "write" => SlugLocked(call[d].in, rows[d], board_node')
  PROVE  BlockInv'
<1>1. DOMAIN late' = Clients
  BY DEF Noticed
<1>2. ASSUME NEW d \in Clients \ {c} PROVE Protected(call'[d], rows'[d], late'[d], board_node')
  <2>1. call'[d] = call[d] /\ rows'[d] = rows[d]
    BY DEF Alters
  <2>2. Revived = Came(board_node, board_node')
    BY DEF Revived, Came
  <2>3. call[d].at = "sweep" => late'[d] = late[d] \cup Came(board_node, board_node')
    BY <2>1, <2>2 DEF Noticed
  <2>4. Protected(call[d], rows[d], late[d], board_node)
    BY DEF BlockInv
  <2>5. Protected(call[d], rows[d], late'[d], board_node')
    BY <2>3, <2>4, ProtectedStays
  <2> QED
    BY <2>1, <2>5
<1>3. Protected(call'[c], rows'[c], late'[c], board_node')
  BY DEF Alters
<1>4. \A d \in Clients : Protected(call'[d], rows'[d], late'[d], board_node')
  BY <1>2, <1>3
<1> QED
  BY <1>1, <1>4, Zenon DEF BlockInv

LEMMA BlockReading ==
  ASSUME BlockInv, Noticed, NEW c \in Clients, NEW k, NEW held, Alters(c, k, held), UNCHANGED board_node,
         Protected(k, held, late'[c], board_node)
  PROVE  BlockInv'
<1>1. Stays(board_node, board_node') /\ \A d \in Clients : Spares(rows[d], board_node, board_node')
  BY DEF Stays, Spares
<1>2. \A d \in Clients : call[d].at = "write" => SlugLocked(call[d].in, rows[d], board_node')
  BY DEF BlockInv, Protected
<1>3. Protected(k, held, late'[c], board_node')
  OBVIOUS
<1> QED
  BY <1>1, <1>2, <1>3, BlockAlters

(* Between other statements a call protects nothing. *)
LEMMA NothingProtected ==
  ASSUME NEW k, k.at \notin {"find", "write", "collect", "sweep"}, NEW held, NEW new, NEW ns
  PROVE  Protected(k, held, new, ns)
BY DEF Protected

LEMMA BlockTrimmed ==
  ASSUME ContentInv, BlockInv, Noticed, NEW c \in Clients, NEW k, NEW held, Alters(c, k, held),
         k.at \notin {"find", "write", "collect", "sweep"},
         NEW gone, Trimmed(board_node, board_node', gone), \A i \in gone : Free(c, NodeRow(i))
  PROVE  BlockInv'
<1>1. Stays(board_node, board_node')
  BY DEF Stays, Trimmed
<1>2. ASSUME NEW d \in Clients \ {c} PROVE Spares(rows[d], board_node, board_node')
  BY DEF Spares, Trimmed, Free, Tree!Live
<1>3. ASSUME NEW d \in Clients \ {c}, call[d].at = "write" PROVE SlugLocked(call[d].in, rows[d], board_node')
  <2>1. SlugLocked(call[d].in, rows[d], board_node)
    BY <1>3 DEF BlockInv, Protected
  <2>2. Tree!At(board_node', call[d].in.parent, call[d].in.slug) = Tree!At(board_node, call[d].in.parent, call[d].in.slug)
    BY DEF Trimmed, Tree!At
  <2> QED
    BY <2>1, <2>2 DEF SlugLocked
<1> QED
  BY <1>1, <1>2, <1>3, NothingProtected, BlockAlters

LEMMA BlockPut == ASSUME ContentInv, Locked, BlockInv, Noticed, NEW c \in Clients, Puts(c) PROVE BlockInv'
<1>1. UNCHANGED board_node
  BY PutMoves
<1>2. PICK k, held : /\ Alters(c, k, held)
                     /\ k.at \in {"idle", "resolve", "lock"} \/ HasParent(k, held) \/ HasSlug(c, k, held)
  BY PutMoves
<1>3. ASSUME NEW new PROVE Protected(k, held, new, board_node)
  <2>1. CASE k.at \in {"idle", "resolve", "lock"}
    BY <2>1, NothingProtected
  <2>2. CASE HasParent(k, held)
    <3>1. Tree!checkParent(board_node, k.in.type, k.in.parent) /\ (k.in.parent = 0 \/ Tree!Live(board_node, k.in.parent))
      BY <2>2 DEF HasParent, Tree!Acceptable
    <3> QED
      BY <2>2, <3>1 DEF HasParent, Protected
  <2>3. CASE HasSlug(c, k, held)
    <3>1. Protected(call[c], rows[c], late[c], board_node)
      BY DEF BlockInv
    <3> QED
      BY <2>3, <3>1 DEF HasSlug, Protected
  <2> QED
    BY <1>2, <2>1, <2>2, <2>3
<1> QED
  BY <1>1, <1>2, <1>3, BlockReading

(* What is put has a name nobody else is about to put, and what it         *)
(* overwrites nobody else has locked.                                      *)
LEMMA PutAlone ==
  ASSUME Locked, NEW c \in Clients, NEW d \in Clients \ {c}, NEW ns, NEW ms, NEW in, Grown(ns, ms, in),
         SlugLocked(in, rows[c], ns), Gap(in) \in rows[c] => Free(c, Gap(in))
  PROVE  /\ Spares(rows[d], ns, ms)
         /\ \A k : SlugLocked(k, rows[d], ns) => SlugLocked(k, rows[d], ms)
<1>1. PICK same : same = Tree!At(ns, in.parent, in.slug)
  OBVIOUS
<1>2. \A i \in same : NodeRow(i) \notin rows[d]
  BY <1>1, RowIsOwn DEF SlugLocked
<1>3. same = {} => Gap(in) \notin rows[d]
  BY <1>1 DEF SlugLocked, Free
<1>4. \A i \in DOMAIN ns : ms[i] = ns[i] \/ i \in same
  BY <1>1 DEF Grown, Tree!At
<1>5. Spares(rows[d], ns, ms)
  BY <1>2, <1>4 DEF Spares, Grown, Tree!Live
<1>6. ASSUME NEW k, SlugLocked(k, rows[d], ns) PROVE SlugLocked(k, rows[d], ms)
  <2>1. ~(k.parent = in.parent /\ k.slug = in.slug)
    <3>1. SUFFICES ASSUME k.parent = in.parent, k.slug = in.slug PROVE FALSE
      OBVIOUS
    <3>2. Gap(k) = Gap(in) /\ Tree!At(ns, k.parent, k.slug) = same
      BY <1>1, <3>1 DEF Gap
    <3> QED
      BY <1>2, <1>3, <1>6, <3>2 DEF SlugLocked
  <2>2. Tree!At(ms, k.parent, k.slug) = Tree!At(ns, k.parent, k.slug)
    BY <2>1 DEF Grown, Tree!At
  <2> QED
    BY <1>6, <2>2 DEF SlugLocked
<1> QED
  BY <1>5, <1>6

LEMMA BlockWrite ==
  ASSUME ContentInv, Locked, BlockInv, Noticed, NEW c \in Clients, WriteNode(c) PROVE BlockInv' /\ Tree!TreeNext
<1>1. PICK in : in = call[c].in
  OBVIOUS
<1>2. /\ call[c].at = "write" /\ End(c) /\ (Gap(in) \in rows[c] => Free(c, Gap(in)))
      /\ board_node' = Tree!Upsert(board_node, in) /\ Len(board_node') <= MaxNodes
      /\ UNCHANGED <<board_page, board_page_version>>
  BY <1>1 DEF WriteNode, Goes
<1>3. Serving /\ CallOk(call[c], board_node)
  BY <1>2, GoesWhenServing
<1>4. Fits(board_node, in) /\ Tree!checkModuleSlug(in.type, in.slug) /\ TreeTyped(board_node)
  BY <1>1, <1>2, <1>3 DEF CallOk, IdleCall, ContentInv
<1>5. /\ Tree!checkParent(board_node, in.type, in.parent)
      /\ in.parent # 0 => Tree!Live(board_node, in.parent)
      /\ SlugLocked(in, rows[c], board_node)
  BY <1>1, <1>2 DEF BlockInv, Protected
<1>6. Grown(board_node, board_node', in)
  BY <1>2, <1>4, UpsertTree
<1>7. BlockInv'
  <2>1. Stays(board_node, board_node')
    BY <1>6 DEF Stays, Grown
  <2>2. ASSUME NEW d \in Clients \ {c}
        PROVE  /\ Spares(rows[d], board_node, board_node')
               /\ call[d].at = "write" => SlugLocked(call[d].in, rows[d], board_node')
    <3>1. call[d].at = "write" => SlugLocked(call[d].in, rows[d], board_node)
      BY DEF BlockInv, Protected
    <3> QED
      BY <1>2, <1>5, <1>6, <3>1, PutAlone
  <2>3. Alters(c, IdleCall, {}) /\ Protected(IdleCall, {}, late'[c], board_node')
    <3>1. IdleCall.at \notin {"find", "write", "collect", "sweep"}
      BY DEF IdleCall
    <3> QED
      BY <1>2, <3>1, EndAlters, NothingProtected
  <2> QED
    BY <2>1, <2>2, <2>3, BlockAlters
<1>8. in \in Tree!Input /\ Tree!Acceptable(board_node, in)
  BY <1>4, <1>5 DEF Fits, Tree!Acceptable
<1>9. UNCHANGED <<Pages, Currents>>
  BY <1>2, PagesSame
<1>10. Tree!PutNode(in)
  BY <1>2, <1>8, <1>9, Zenon DEF Tree!PutNode, Pages, Currents
<1> QED
  BY <1>7, <1>8, <1>10, Zenon DEF Tree!TreeNext

LEMMA BlockUpdate ==
  ASSUME ContentInv, Locked, BlockInv, Noticed, NEW c \in Clients, Updates(c) PROVE BlockInv'
<1>1. Trimmed(board_node, board_node', {})
  BY UpdateIsUpdate
<1>2. PICK k, held : Alters(c, k, held) /\ k.at \in {"idle", "update"}
  BY UpdateIsUpdate
<1>3. k.at \notin {"find", "write", "collect", "sweep"}
  BY <1>2
<1> QED
  BY <1>1, <1>2, <1>3, BlockTrimmed

LEMMA BlockDelete ==
  ASSUME ContentInv, Locked, BlockInv, Noticed, NEW c \in Clients, Deletes(c)
  PROVE  BlockInv' /\ (SweepsTaken(c) \/ UNCHANGED Tree!treeVars)
<1>1. CASE ~SweepSubtree(c)
  <2>1. UNCHANGED tables /\ UNCHANGED board_node
    BY <1>1, DeleteMoves
  <2>2. PICK k, held : Alters(c, k, held) /\ (HasRoot(k, held) \/ HasCollected(c, k, held))
    BY <1>1, DeleteMoves
  <2>3. CASE HasRoot(k, held)
    <3>1. Protected(k, held, late'[c], board_node)
      BY <2>3 DEF Protected, HasRoot
    <3> QED
      BY <2>1, <2>2, <3>1, BlockReading, TreeSame
  <2>4. CASE HasCollected(c, k, held)
    <3>1. NodeRow(k.id) \in held /\ Tree!Live(board_node, k.id) /\ k.id \in DOMAIN board_node
      BY <2>4 DEF BlockInv, Protected, HasCollected, Tree!Live
    <3>2. late'[c] = {}
      BY <2>4 DEF Noticed, HasCollected
    <3>3. Taken(board_node, k.id, k.ids, {})
      BY <2>4, <3>1, CollectedTaken DEF ContentInv, HasCollected
    <3>4. Protected(k, held, late'[c], board_node)
      BY <2>4, <3>1, <3>2, <3>3, Zenon DEF Protected, HasCollected
    <3> QED
      BY <2>1, <2>2, <3>4, BlockReading, TreeSame
  <2> QED
    BY <2>2, <2>3, <2>4
<1>2. CASE SweepSubtree(c)
  <2>1. PICK k : k = call[c]
    OBVIOUS
  <2>2. /\ k.at = "sweep" /\ End(c) /\ board_node' = Tree!Deleted(board_node, k.ids)
        /\ \A i \in k.ids : Free(c, NodeRow(i))
        /\ UNCHANGED <<board_page, board_page_version>>
    BY <1>2, <2>1 DEF SweepSubtree, Goes
  <2>3. Tree!Live(board_node, k.id) /\ Taken(board_node, k.id, k.ids, late[c]) /\ TreeTyped(board_node)
    BY <2>1, <2>2 DEF BlockInv, Protected, ContentInv
  <2>4. Trimmed(board_node, board_node', k.ids)
    BY <2>2, <2>3, DeletedTree
  <2>5. Alters(c, IdleCall, {}) /\ IdleCall.at \notin {"find", "write", "collect", "sweep"}
    BY <2>2, EndAlters DEF IdleCall
  <2>6. BlockInv'
    BY <2>2, <2>4, <2>5, BlockTrimmed
  <2>7. SweepsTaken(c)
    BY <2>1, <2>2, <2>3 DEF SweepsTaken
  <2> QED
    BY <2>6, <2>7
<1> QED
  BY <1>1, <1>2

LEMMA BlockIdle ==
  ASSUME Noticed, NEW c \in Clients, call'[c] = IdleCall, NEW held PROVE Protected(call'[c], held, late'[c], board_node')
<1>1. IdleCall.at \notin {"find", "write", "collect", "sweep"}
  BY DEF IdleCall
<1> QED
  BY <1>1, NothingProtected

LEMMA BlockStep ==
  ASSUME ContentInv, Locked, PageInv, BlockInv, [BlockNext]_blockVars
  PROVE  /\ ContentInv' /\ Locked' /\ PageInv' /\ BlockInv'
         /\ Tree!TreeNext \/ (\E c \in Clients : SweepsTaken(c)) \/ UNCHANGED Tree!treeVars
<1>1. [ContentNext]_contentVars
  BY DEF BlockNext, blockVars
<1>2. ContentInv' /\ Locked'
  BY <1>1, ContentStep, LocksStep
<1>3. CASE UNCHANGED blockVars
  <2>1. /\ UNCHANGED tables /\ UNCHANGED <<board_node, board_page, board_page_version>>
        /\ UNCHANGED <<call, rows, late>>
    BY <1>3 DEF blockVars, contentVars, tables
  <2>2. /\ DOMAIN board_page' \subseteq Paths /\ RowsTyped(board_page_version')
        /\ \A c \in Clients : PageCall(call'[c], rows'[c], board_page_version')
    BY <2>1 DEF PageInv
  <2>3. DOMAIN late' = Clients /\ \A c \in Clients : Protected(call'[c], rows'[c], late'[c], board_node')
    BY <2>1 DEF BlockInv
  <2>4. PageInv' /\ BlockInv'
    BY <2>2, <2>3, Zenon DEF PageInv, BlockInv
  <2> QED
    BY <1>2, <2>1, <2>4, TreeSame
<1>4. CASE BlockNext
  <2>1. Noticed /\ ContentNext /\ DOMAIN late' = Clients
    BY <1>4 DEF BlockNext, Noticed
  <2>2. CASE Flatten
    <3>1. /\ ~Serving /\ UNCHANGED <<call, rows>> /\ PageInv'
          /\ Tree!TreeNext \/ UNCHANGED Tree!treeVars
      BY <2>2, FlattenIsTree
    <3>2. \A c \in Clients : call'[c] = IdleCall
      BY <3>1 DEF ContentInv
    <3>3. \A c \in Clients : Protected(call'[c], rows'[c], late'[c], board_node')
      BY <2>1, <3>2, BlockIdle
    <3>4. BlockInv'
      BY <2>1, <3>3, Zenon DEF BlockInv
    <3> QED
      BY <1>2, <3>1, <3>4
  <2>3. CASE Crash
    <3>1. UNCHANGED tables /\ UNCHANGED <<board_node, board_page, board_page_version>>
          /\ \A c \in Clients : call'[c] = IdleCall
      BY <2>3 DEF Crash, tables
    <3>2. /\ DOMAIN board_page' \subseteq Paths /\ RowsTyped(board_page_version')
          /\ \A c \in Clients : PageCall(call'[c], rows'[c], board_page_version')
      BY <3>1, PageElsewhere DEF PageInv, IdleCall
    <3>3. \A c \in Clients : Protected(call'[c], rows'[c], late'[c], board_node')
      BY <2>1, <3>1, BlockIdle
    <3>4. PageInv' /\ BlockInv'
      BY <2>1, <3>2, <3>3, Zenon DEF PageInv, BlockInv
    <3> QED
      BY <1>2, <3>1, <3>4, TreeSame
  <2>4. ASSUME NEW c \in Clients, Puts(c) \/ WriteNode(c) \/ Updates(c) \/ Deletes(c) \/ PageSteps(c) \/ DbError(c)
        PROVE  PageInv' /\ BlockInv' /\ (Tree!TreeNext \/ SweepsTaken(c) \/ UNCHANGED Tree!treeVars)
    <3>1. ASSUME Puts(c) \/ WriteNode(c) \/ Updates(c) \/ Deletes(c) \/ DbError(c) PROVE PageInv'
      BY <3>1, NodeCallsOnly
    <3>2. ASSUME Puts(c) PROVE BlockInv' /\ UNCHANGED Tree!treeVars
      BY <2>1, <3>2, BlockPut, PutMoves, TreeSame
    <3>3. ASSUME DbError(c) PROVE BlockInv' /\ UNCHANGED Tree!treeVars
      <4>1. End(c) /\ UNCHANGED tables /\ UNCHANGED board_node
        BY <3>3 DEF DbError, tables
      <4>2. Alters(c, IdleCall, {}) /\ IdleCall.at \notin {"find", "write", "collect", "sweep"}
        BY <4>1, EndAlters DEF IdleCall
      <4> QED
        BY <2>1, <4>1, <4>2, NothingProtected, BlockReading, TreeSame
    <3>4. ASSUME WriteNode(c) PROVE BlockInv' /\ Tree!TreeNext
      BY <2>1, <3>4, BlockWrite
    <3>5. ASSUME Updates(c) PROVE BlockInv' /\ (Tree!TreeNext \/ UNCHANGED Tree!treeVars)
      BY <2>1, <3>5, BlockUpdate, UpdateIsUpdate
    <3>6. ASSUME Deletes(c) PROVE BlockInv' /\ (SweepsTaken(c) \/ UNCHANGED Tree!treeVars)
      BY <2>1, <3>6, BlockDelete
    <3>7. ASSUME PageSteps(c) PROVE PageInv' /\ BlockInv' /\ (Tree!TreeNext \/ UNCHANGED Tree!treeVars)
      <4>1. PageInv' /\ UNCHANGED board_node /\ (Tree!TreeNext \/ UNCHANGED Tree!treeVars)
        BY <3>7, PageStepIsPage
      <4>2. PICK k, held : Alters(c, k, held) /\ k.at \in {"idle", "max", "insert", "point"}
        BY <3>7, PageStepIsPage
      <4>3. Protected(k, held, late'[c], board_node)
        BY <4>2, NothingProtected
      <4> QED
        BY <2>1, <4>1, <4>2, <4>3, BlockReading
    <3> QED
      BY <2>4, <3>1, <3>2, <3>3, <3>4, <3>5, <3>6, <3>7, Zenon
  <2> QED
    BY <1>2, <2>1, <2>2, <2>3, <2>4, NextIs, Zenon
<1> QED
  BY <1>3, <1>4

LEMMA BlockInitially == BlockInit => ContentInv /\ Locked /\ PageInv /\ BlockInv
<1> SUFFICES ASSUME BlockInit PROVE ContentInv /\ Locked /\ PageInv /\ BlockInv
  OBVIOUS
<1>1. ContentInit /\ DOMAIN late = Clients /\ \A c \in Clients : call[c] = IdleCall
  BY DEF BlockInit, ContentInit
<1>2. IdleCall.at \notin {"find", "write", "collect", "sweep"}
  BY DEF IdleCall
<1>3. \A c \in Clients : Protected(call[c], rows[c], late[c], board_node)
  BY <1>1, <1>2, NothingProtected
<1> QED
  BY <1>1, <1>3, ContentInitially, MysqlInitially, Zenon DEF BlockInv

(* With blocks below details, and for any number of nodes: put_node,       *)
(* update_node, flattenLists and the page tools are still whole operations *)
(* of the in-memory store, and DeleteNode (content_mysql.go:190) deletes   *)
(* the node and only what is below it; of that it leaves nothing alive     *)
(* but what was put while it was under way and what is below that, unless  *)
(* it has found DeleteLimit nodes.                                         *)
THEOREM BlocksKeepTree == BlockSpec => StoreKeepsTree
<1> DEFINE StoreInv == ContentInv /\ Locked /\ PageInv /\ BlockInv
<1>1. BlockInit => StoreInv
  BY BlockInitially
<1>2. StoreInv /\ [BlockNext]_blockVars => StoreInv' /\ [KeepsTree]_(Tree!treeVars)
  BY BlockStep DEF KeepsTree
<1> HIDE DEF StoreInv
<1> QED
  BY <1>1, <1>2, PTL DEF BlockSpec, StoreKeepsTree
=============================================================================
