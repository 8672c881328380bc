----------------------------- MODULE TokenStore -----------------------------
(***************************************************************************)
(* Access tokens of the board (projects/board/tokens.go): a list in memory *)
(* under a mutex, written whole to tokens.json by every change             *)
(* (file.go writeAtomic), read back only when the process starts.          *)
(*                                                                         *)
(* An operation holds the mutex to its end, so operations do not           *)
(* interleave with each other; they interleave with failures of the disk   *)
(* and with crashes.  Names, prefixes and times are left out: a token is   *)
(* its hash.                                                               *)
(***************************************************************************)
CONSTANTS
    Tokens,   \* tokens that can be created
    None      \* no operation

ASSUME TokenAssumption == None \notin Tokens

VARIABLES
    items,    \* TokenStore.items
    file,     \* the tokens in tokens.json; {} also when there is no file
    op,       \* the operation that holds the mutex
    told      \* history: the last answer a client got about each token

vars == <<items, file, op, told>>

Ops == [kind : {"Create", "Delete", "Match"}, token : Tokens, saved : BOOLEAN]

TypeOK ==
    /\ items \subseteq Tokens /\ file \subseteq Tokens
    /\ op \in Ops \cup {None}
    /\ told \in [Tokens -> {"unused", "asked", "issued", "refused", "revoking", "revoked", "error"}]

Init ==
    /\ items = {} /\ file = {} /\ op = None
    /\ told = [t \in Tokens |-> "unused"]

Begin(kind, t) == op' = [kind |-> kind, token |-> t, saved |-> FALSE]

(* Create appends before it saves. *)
Create(t) ==
    /\ op = None
    /\ told[t] = "unused"
    /\ items' = items \cup {t}
    /\ Begin("Create", t)
    /\ told' = [told EXCEPT ![t] = "asked"]
    /\ UNCHANGED file

(* Delete of a token that is not listed changes nothing. *)
Delete(t) ==
    /\ op = None
    /\ t \in items
    /\ items' = items \ {t}
    /\ Begin("Delete", t)
    /\ told' = [told EXCEPT ![t] = "revoking"]
    /\ UNCHANGED file

(* Match of a listed token writes its last use. *)
Match(t) ==
    /\ op = None
    /\ t \in items
    /\ Begin("Match", t)
    /\ UNCHANGED <<items, file, told>>

RenameInPlace ==
    /\ op # None
    /\ ~op.saved
    /\ \/ file' = items /\ op' = [op EXCEPT !.saved = TRUE]
       \/ file' = {} /\ op' = op
    /\ UNCHANGED <<items, told>>

(* writeAtomic: the new list is in a file of its own until it is renamed.  *)
Rename ==
    /\ op # None
    /\ ~op.saved
    /\ file' = items
    /\ op' = [op EXCEPT !.saved = TRUE]
    /\ UNCHANGED <<items, told>>

(* The client gets its answer. *)
Answer ==
    /\ op # None
    /\ op.saved
    /\ told' = [told EXCEPT ![op.token] = CASE op.kind = "Create" -> "issued"
                                            [] op.kind = "Delete" -> "revoked"
                                            [] op.kind = "Match"  -> @]
    /\ op' = None
    /\ UNCHANGED <<items, file>>

SaveFailsKept ==
    /\ op # None
    /\ ~op.saved
    /\ items' = items
    /\ told' = [told EXCEPT ![op.token] = CASE op.kind = "Create" -> "refused"
                                            [] op.kind = "Delete" -> "error"
                                            [] op.kind = "Match"  -> @]
    /\ op' = None
    /\ UNCHANGED file

(* The directory, the file or the rename fails.  Create takes the token    *)
(* back, Delete does not, and Match hides the error.                       *)
SaveFails ==
    /\ op # None
    /\ ~op.saved
    /\ items' = IF op.kind = "Create" THEN items \ {op.token} ELSE items
    /\ told' = [told EXCEPT ![op.token] = CASE op.kind = "Create" -> "refused"
                                            [] op.kind = "Delete" -> "error"
                                            [] op.kind = "Match"  -> @]
    /\ op' = None
    /\ UNCHANGED file

(* The process dies, in the middle of an operation or not, and a new one   *)
(* loads the file.                                                         *)
Restart ==
    /\ items' = file
    /\ op' = None
    /\ UNCHANGED <<file, told>>

Next ==
    \/ \E t \in Tokens : Create(t) \/ Delete(t) \/ Match(t)
    \/ Rename \/ Answer \/ SaveFails \/ Restart

Spec == Init /\ [][Next]_vars

-----------------------------------------------------------------------------
(* Properties. *)

(* A token that was handed out works until its deletion is asked for, and  *)
(* is in the file: no failed save of another operation and no restart      *)
(* loses it.                                                               *)
IssuedWorks == \A t \in Tokens : told[t] = "issued" => t \in items /\ t \in file

(* A token whose Create returned an error, or whose Delete was             *)
(* acknowledged, never works, not even after a restart or after a later    *)
(* operation has saved the list.  Of one whose Delete returned an error    *)
(* this is not true: it is gone from memory and back after a restart,      *)
(* unless another operation has saved since.                               *)
RefusedNeverWorks == \A t \in Tokens : told[t] \in {"refused", "revoked"} => t \notin items \cup file
=============================================================================
