------------------------------ MODULE NewsHook ------------------------------
(***************************************************************************)
(* daily-news-hook (projects/daily-news-hook/app.py): GitHub delivers a    *)
(* webhook for every push, a handler thread of the HTTP server schedules a *)
(* pull on the Puller, and the Puller's loop thread runs git_pull on the   *)
(* content directory.                                                      *)
(*                                                                         *)
(* A push is the number of its commit on the branch, so head is the        *)
(* newest.  A request that do_POST or decide turns away has no effect;     *)
(* only accepted webhooks are modelled.                                    *)
(***************************************************************************)
EXTENDS Naturals

CONSTANTS
    Handlers,    \* handler threads of ThreadingHTTPServer
    Main,        \* the main thread, which may schedule the first pull
    MaxPush,     \* bound: pushes
    MaxTries,    \* fetch attempts of one git_pull (tries=3)
    MaxRestart   \* bound: restarts of the process

ASSUME NewsHookAssumption ==
    /\ Main \notin Handlers
    /\ MaxPush \in Nat /\ MaxRestart \in Nat
    /\ MaxTries \in Nat \ {0}

Threads == Handlers \cup {Main}
Pushes  == 0..MaxPush      \* 0: the branch before the first push

VARIABLES
    head,      \* newest push on the branch
    transit,   \* webhooks on their way: the pushes they announce
    running,   \* Puller.running
    pending,   \* Puller.pending
    hpc,       \* a handler is inside trigger, about to start the thread
    lpc,       \* where the loop thread that each thread started is
    got,       \* what the remote answered to that loop's fetch
    tries,     \* failed fetches of that loop's pull
    repo,      \* the content directory has a .git
    fetchHead, \* FETCH_HEAD of the content directory
    site,      \* the push the content directory holds
    restarts,
    owed,      \* history: newest push accepted by this process
    failed     \* history: newest push when a pull of this process last failed

disk   == <<repo, fetchHead, site>>
puller == <<running, pending, hpc>>
vars   == <<head, transit, puller, lpc, got, tries, disk, restarts, owed, failed>>

TypeOK ==
    /\ head \in Pushes /\ transit \in SUBSET Pushes
    /\ running \in BOOLEAN /\ pending \in BOOLEAN /\ repo \in BOOLEAN
    /\ hpc \in [Threads -> {"idle", "start"}]
    /\ lpc \in [Threads -> {"off", "init", "fetch", "store", "reset", "check"}]
    /\ got \in [Threads -> Pushes]
    /\ tries \in [Threads -> 0..(MaxTries - 1)]
    /\ fetchHead \in Pushes /\ site \in Pushes /\ restarts \in 0..MaxRestart
    /\ owed \in Pushes /\ failed \in Pushes

(* main on an empty directory: the first pull is scheduled at once. *)
Init ==
    /\ head = 0 /\ transit = {}
    /\ running = TRUE /\ pending = FALSE
    /\ hpc = [t \in Threads |-> "idle"]
    /\ lpc = [t \in Threads |-> IF t = Main THEN "init" ELSE "off"]
    /\ got = [t \in Threads |-> 0]
    /\ tries = [t \in Threads |-> 0]
    /\ repo = FALSE /\ fetchHead = 0 /\ site = 0
    /\ restarts = 0 /\ owed = 0 /\ failed = 0

(* GitHub: a push, and a webhook that may be delayed, reordered, repeated  *)
(* or lost.                                                                *)
Push ==
    /\ head < MaxPush
    /\ head' = head + 1
    /\ transit' = transit \cup {head + 1}
    /\ UNCHANGED <<puller, lpc, got, tries, disk, restarts, owed, failed>>

Lose(p) ==
    /\ transit' = transit \ {p}
    /\ UNCHANGED <<head, puller, lpc, got, tries, disk, restarts, owed, failed>>

-----------------------------------------------------------------------------
(* Puller.trigger, its locked part; the same delivery may come again.  A   *)
(* loop thread bears the name of the handler thread that starts it, so the *)
(* name is free again only when both have ended.                           *)

Accept(h, p) ==
    /\ hpc[h] = "idle" /\ lpc[h] = "off"
    /\ \E again \in BOOLEAN : transit' = IF again THEN transit ELSE transit \ {p}
    /\ owed' = IF p > owed THEN p ELSE owed
    /\ UNCHANGED <<head, lpc, got, tries, disk, restarts, failed>>

TriggerUnguarded(h, p) ==
    /\ Accept(h, p)
    /\ running' = TRUE
    /\ hpc' = [hpc EXCEPT ![h] = "start"]
    /\ UNCHANGED pending

TriggerIdle(h, p) ==
    /\ Accept(h, p)
    /\ ~running
    /\ running' = TRUE
    /\ hpc' = [hpc EXCEPT ![h] = "start"]
    /\ UNCHANGED pending

TriggerDropped(h, p) ==
    /\ Accept(h, p)
    /\ running
    /\ UNCHANGED puller

TriggerBusy(h, p) ==
    /\ Accept(h, p)
    /\ running
    /\ pending' = TRUE
    /\ UNCHANGED <<running, hpc>>

(* Thread(target=self._loop).start(), after the lock is released. *)
StartLoop(h) ==
    /\ hpc[h] = "start"
    /\ hpc' = [hpc EXCEPT ![h] = "idle"]
    /\ lpc' = [lpc EXCEPT ![h] = "init"]
    /\ UNCHANGED <<head, transit, running, pending, got, tries, disk, restarts, owed, failed>>

-----------------------------------------------------------------------------
(* git_pull on the loop thread. *)

\* The loop thread t goes from one place to another.
Goes(t, from, to) ==
    /\ lpc[t] = from
    /\ lpc' = [lpc EXCEPT ![t] = to]
    /\ UNCHANGED <<head, transit, hpc, restarts, owed>>

\* git_pull returned False or raised; _loop logs it and goes on.
PullFails(t, from) ==
    /\ Goes(t, from, "check")
    /\ got' = [got EXCEPT ![t] = 0]
    /\ tries' = [tries EXCEPT ![t] = 0]
    /\ failed' = head

(* git init when there is no .git, and the remote. *)
PullInit(t) ==
    /\ Goes(t, "init", "fetch")
    /\ repo' = TRUE
    /\ UNCHANGED <<running, pending, got, tries, fetchHead, site, failed>>

InitRaises(t) ==
    /\ PullFails(t, "init")
    /\ repo' \in {repo, TRUE}
    /\ UNCHANGED <<running, pending, fetchHead, site>>

(* git fetch asks the remote, then writes FETCH_HEAD. *)
Fetch(t) ==
    /\ Goes(t, "fetch", "store")
    /\ got' = [got EXCEPT ![t] = head]
    /\ UNCHANGED <<running, pending, tries, disk, failed>>

FetchStored(t) ==
    /\ Goes(t, "store", "reset")
    /\ fetchHead' = got[t]
    /\ got' = [got EXCEPT ![t] = 0]
    /\ tries' = [tries EXCEPT ![t] = 0]
    /\ UNCHANGED <<running, pending, repo, site, failed>>

(* An attempt fails or times out: again, or after the last one git_pull    *)
(* returns False and keeps the old content.                                *)
FetchRetries(t, from) ==
    /\ Goes(t, from, "fetch")
    /\ tries[t] + 1 < MaxTries
    /\ tries' = [tries EXCEPT ![t] = @ + 1]
    /\ got' = [got EXCEPT ![t] = 0]
    /\ UNCHANGED <<running, pending, disk, failed>>

FetchGivesUp(t, from) ==
    /\ PullFails(t, from)
    /\ tries[t] + 1 = MaxTries
    /\ UNCHANGED <<running, pending, disk>>

(* git reset --hard FETCH_HEAD and git clean. *)
Reset(t) ==
    /\ Goes(t, "reset", "check")
    /\ site' = fetchHead
    /\ UNCHANGED <<running, pending, got, tries, repo, fetchHead, failed>>

\* reset raises, or a later command does.
ResetRaises(t) ==
    /\ PullFails(t, "reset")
    /\ site' \in {site, fetchHead}
    /\ UNCHANGED <<running, pending, repo, fetchHead>>

(* The locked end of _loop's iteration. *)
LoopAgain(t) ==
    /\ Goes(t, "check", "init")
    /\ pending
    /\ pending' = FALSE
    /\ UNCHANGED <<running, got, tries, disk, failed>>

LoopEndsHastily(t) ==
    /\ Goes(t, "check", "off")
    /\ running' = FALSE
    /\ UNCHANGED <<pending, got, tries, disk, failed>>

LoopEnds(t) ==
    /\ Goes(t, "check", "off")
    /\ ~pending
    /\ running' = FALSE
    /\ UNCHANGED <<pending, got, tries, disk, failed>>

(* The process dies at any point (a webhook already answered 202 is        *)
(* forgotten) and main runs again.                                         *)
Restart ==
    /\ restarts < MaxRestart
    /\ restarts' = restarts + 1
    /\ running' = ~repo
    /\ pending' = FALSE
    /\ hpc' = [t \in Threads |-> "idle"]
    /\ lpc' = [t \in Threads |-> IF t = Main /\ ~repo THEN "init" ELSE "off"]
    /\ got' = [t \in Threads |-> 0]
    /\ tries' = [t \in Threads |-> 0]
    /\ owed' = 0 /\ failed' = 0
    /\ UNCHANGED <<head, transit, disk>>

Trigger(h, p) == TriggerIdle(h, p) \/ TriggerBusy(h, p)

Loop(t) ==
    \/ PullInit(t) \/ InitRaises(t)
    \/ Fetch(t) \/ FetchStored(t)
    \/ \E from \in {"fetch", "store"} : FetchRetries(t, from) \/ FetchGivesUp(t, from)
    \/ Reset(t) \/ ResetRaises(t)
    \/ LoopAgain(t) \/ LoopEnds(t)

Next ==
    \/ Push
    \/ \E p \in transit : Lose(p) \/ \E h \in Handlers : Trigger(h, p)
    \/ \E h \in Handlers : StartLoop(h)
    \/ \E t \in Threads : Loop(t)
    \/ Restart

Spec == Init /\ [][Next]_vars

(* Threads keep running, and every git command returns (subprocess.run has *)
(* a timeout of 120 seconds).                                              *)
FairSpec ==
    /\ Spec
    /\ \A h \in Handlers : WF_vars(StartLoop(h))
    /\ \A t \in Threads : WF_vars(Loop(t))

-----------------------------------------------------------------------------
(* Properties. *)

\* Thread t is in the loop, or about to start it.
Active(t) == hpc[t] = "start" \/ lpc[t] # "off"

(* Puller's docstring: pulls are serial.  At most one thread is in the     *)
(* loop or about to start it, and running is true exactly then, although   *)
(* trigger starts the thread after it has released the lock.               *)
SerialPulls ==
    /\ running <=> \E t \in Threads : Active(t)
    /\ \A t, u \in Threads : Active(t) /\ Active(u) => t = u
    /\ \A t \in Threads : hpc[t] = "start" => lpc[t] = "off"

(* Puller's docstring: a request that comes during a pull is made up for   *)
(* afterwards.  A push that was answered 202 is on the site, or a pull     *)
(* failed after it came, or a pull is still going to bring it.             *)
NoLostPush ==
    \/ owed <= site
    \/ owed <= failed
    \/ running /\ pending
    \/ \E t \in Threads :
        \/ hpc[t] = "start" \/ lpc[t] \in {"init", "fetch"}
        \/ lpc[t] = "store" /\ owed <= got[t]
        \/ lpc[t] = "reset" /\ owed <= fetchHead

(* A pull never replaces the content by an older push, whatever order the  *)
(* webhooks come in and wherever the process died.                         *)
SiteNeverGoesBack == [][site' >= site]_vars

(* Every accepted push reaches the site unless a pull failed after it came *)
(* or a restart forgot it.                                                 *)
PushServed ==
    \A p \in Pushes : owed = p ~> (site >= p \/ failed >= p \/ owed # p)

=============================================================================
