--------------------------- MODULE NewsSiteProofs ---------------------------
(***************************************************************************)
(* Proofs about what is behind the news site.                              *)
(*                                                                         *)
(* NewsHook, for every number of handler threads, pushes, attempts and     *)
(* restarts: the invariant is the conjunction of TypeOK, SerialPulls,      *)
(* Order (no number is ahead of the branch, and what the directory holds   *)
(* is behind what the remote answered last) and NoLostPush; each of the    *)
(* last two needs the ones before it.                                      *)
(*                                                                         *)
(* Tlb and CertRenew, which share nginx: ReloadOwed is inductive by        *)
(* itself; SiteInv says what every copy of the configuration is made of    *)
(* and how far a publish that nobody disturbed has come.                   *)
(***************************************************************************)
EXTENDS NewsHook, CertRenew, WellFoundedInduction, TLAPS

(* How the push numbers of GitHub, the webhooks, the running fetch, the    *)
(* directory and the histories are ordered.                                *)
Order ==
    /\ \A p \in transit : p <= head
    /\ owed <= head
    /\ site <= fetchHead /\ fetchHead <= head
    /\ \A t \in Threads : got[t] <= head
    /\ \A t \in Threads : lpc[t] = "store" => fetchHead <= got[t]

Inv == TypeOK /\ SerialPulls /\ Order /\ NoLostPush

(* The type invariant, initially and over every step. *)
LEMMA InitType == Init => TypeOK
<1> SUFFICES ASSUME Init PROVE TypeOK
  OBVIOUS
<1>1. running \in BOOLEAN /\ pending \in BOOLEAN /\ repo \in BOOLEAN
  BY Zenon DEF Init
<1>2. 0 \in Pushes /\ 0 \in 0..(MaxTries - 1) /\ 0 \in 0..MaxRestart
  BY NewsHookAssumption DEF NewsHookAssumption, Pushes
<1> QED
  BY <1>1, <1>2 DEF Init, TypeOK

LEMMA NextType == TypeOK /\ [Next]_vars => TypeOK'
<1> SUFFICES ASSUME TypeOK, [Next]_vars PROVE TypeOK'
  OBVIOUS
<1> USE NewsHookAssumption DEF NewsHookAssumption, TypeOK, Pushes
<1>1. CASE Push
  BY <1>1 DEF Push, puller, disk
<1>2. ASSUME NEW p \in transit, Lose(p) PROVE TypeOK'
  BY <1>2 DEF Lose, puller, disk
<1>3. ASSUME NEW p \in transit, NEW h \in Handlers, Trigger(h, p) PROVE TypeOK'
  <2>1. transit' \in SUBSET Pushes /\ owed' \in Pushes
    BY <1>3 DEF Trigger, TriggerIdle, TriggerBusy, Accept
  <2>2. hpc' \in [Threads -> {"idle", "start"}]
    BY <1>3 DEF Trigger, TriggerIdle, TriggerBusy, Accept, Threads
  <2> QED
    BY <1>3, <2>1, <2>2 DEF Trigger, TriggerIdle, TriggerBusy, Accept, disk
<1>4. ASSUME NEW h \in Handlers, StartLoop(h) PROVE TypeOK'
  BY <1>4 DEF StartLoop, disk, Threads
<1>5. ASSUME NEW t \in Threads, Loop(t) PROVE TypeOK'
  <2>1. CASE PullInit(t)
    BY <2>1 DEF PullInit, Goes
  <2>2. CASE InitRaises(t)
    <3>1. repo' \in BOOLEAN
      BY <2>2, Zenon DEF InitRaises
    <3> QED
      BY <2>2, <3>1 DEF InitRaises, PullFails, Goes
  <2>3. CASE Fetch(t)
    BY <2>3 DEF Fetch, Goes, disk
  <2>4. CASE FetchStored(t)
    BY <2>4 DEF FetchStored, Goes
  <2>5. ASSUME NEW from \in {"fetch", "store"}, FetchRetries(t, from) PROVE TypeOK'
    BY <2>5 DEF FetchRetries, Goes, disk
  <2>6. ASSUME NEW from \in {"fetch", "store"}, FetchGivesUp(t, from) PROVE TypeOK'
    BY <2>6 DEF FetchGivesUp, PullFails, Goes, disk
  <2>7. CASE Reset(t)
    BY <2>7 DEF Reset, Goes
  <2>8. CASE ResetRaises(t)
    BY <2>8 DEF ResetRaises, PullFails, Goes
  <2>9. CASE LoopAgain(t) \/ LoopEnds(t)
    BY <2>9 DEF LoopAgain, LoopEnds, Goes, disk
  <2> QED
    BY <1>5, <2>1, <2>2, <2>3, <2>4, <2>5, <2>6, <2>7, <2>8, <2>9 DEF Loop
<1>6. CASE Restart
  <2>1. running' \in BOOLEAN /\ pending' \in BOOLEAN
    BY <1>6, Zenon DEF Restart
  <2> QED
    BY <1>6, <2>1 DEF Restart, disk
<1>7. CASE UNCHANGED vars
  BY <1>7 DEF vars, puller, disk
<1> QED
  BY <1>1, <1>2, <1>3, <1>4, <1>5, <1>6, <1>7 DEF Next

(* app.py only ever holds values of these kinds: in particular git_pull    *)
(* never counts past its last attempt.                                     *)
THEOREM TypeCorrect == Spec => []TypeOK
  BY InitType, NextType, PTL DEF Spec

-----------------------------------------------------------------------------
(* Serial pulls. *)

LEMMA InitSerial == Init => SerialPulls
<1> SUFFICES ASSUME Init PROVE SerialPulls
  OBVIOUS
<1>1. Main \in Threads /\ lpc[Main] = "init" /\ running
  BY DEF Init, Threads
<1>2. \A t \in Threads : Active(t) <=> t = Main
  BY <1>1 DEF Init, Active
<1>3. \A t \in Threads : hpc[t] # "start"
  BY DEF Init
<1> QED
  BY <1>1, <1>2, <1>3 DEF SerialPulls

\* A step of the active loop thread that leaves running alone keeps it the only one.
LEMMA LoopStaysSerial ==
  ASSUME TypeOK, SerialPulls, NEW t \in Threads, lpc[t] # "off",
         NEW to \in {"init", "fetch", "store", "reset", "check"},
         lpc' = [lpc EXCEPT ![t] = to], UNCHANGED <<hpc, running>>
  PROVE  SerialPulls'
<1>1. \A u \in Threads : Active(u)' <=> Active(u)
  BY DEF TypeOK, Active
<1>2. \A u \in Threads : hpc'[u] = "start" => lpc'[u] = "off"
  BY DEF TypeOK, SerialPulls
<1> QED
  BY <1>1, <1>2 DEF SerialPulls

LEMMA NextSerial == TypeOK /\ SerialPulls /\ [Next]_vars => SerialPulls'
<1> SUFFICES ASSUME TypeOK, SerialPulls, [Next]_vars PROVE SerialPulls'
  OBVIOUS
<1>1. CASE UNCHANGED <<running, hpc, lpc>>
  BY <1>1 DEF SerialPulls, Active
<1>2. ASSUME NEW p \in transit, NEW h \in Handlers, TriggerIdle(h, p) PROVE SerialPulls'
  <2>1. h \in Threads /\ lpc[h] = "off" /\ lpc' = lpc /\ running'
    BY <1>2 DEF TriggerIdle, Accept, Threads
  <2>2. \A t \in Threads : ~Active(t)
    BY <1>2 DEF TriggerIdle, SerialPulls
  <2>3. \A t \in Threads : Active(t)' <=> t = h
    BY <1>2, <2>1, <2>2 DEF TriggerIdle, TypeOK, Active
  <2>4. \A t \in Threads : hpc'[t] = "start" => lpc'[t] = "off"
    BY <2>1, <2>2 DEF Active
  <2> QED
    BY <2>1, <2>3, <2>4 DEF SerialPulls
<1>3. ASSUME NEW h \in Handlers, StartLoop(h) PROVE SerialPulls'
  <2>1. h \in Threads /\ running' = running
    BY <1>3 DEF StartLoop, Threads
  <2>2. \A t \in Threads : Active(t)' <=> Active(t)
    BY <1>3, <2>1 DEF StartLoop, TypeOK, Active
  <2>3. \A t \in Threads : hpc'[t] = "start" => lpc'[t] = "off"
    BY <1>3, <2>1 DEF StartLoop, TypeOK, SerialPulls
  <2> QED
    BY <2>1, <2>2, <2>3 DEF SerialPulls
<1>4. ASSUME NEW t \in Threads, Loop(t), ~LoopEnds(t) PROVE SerialPulls'
  <2>1. \E to \in {"init", "fetch", "store", "reset", "check"} :
          /\ lpc[t] # "off" /\ lpc' = [lpc EXCEPT ![t] = to]
          /\ UNCHANGED <<hpc, running>>
    BY <1>4 DEF Loop, PullInit, InitRaises, Fetch, FetchStored, FetchRetries, FetchGivesUp,
                Reset, ResetRaises, LoopAgain, PullFails, Goes
  <2> QED
    BY <2>1, LoopStaysSerial
<1>5. ASSUME NEW t \in Threads, LoopEnds(t) PROVE SerialPulls'
  <2>1. Active(t) /\ lpc' = [lpc EXCEPT ![t] = "off"] /\ hpc' = hpc /\ ~running'
    BY <1>5 DEF LoopEnds, Goes, Active
  <2>2. \A u \in Threads : ~Active(u)'
    BY <1>5, <2>1 DEF LoopEnds, Goes, Active, TypeOK, SerialPulls
  <2> QED
    BY <2>1, <2>2 DEF SerialPulls, Active
<1>6. CASE Restart
  <2>1. Main \in Threads /\ \A t \in Threads : hpc'[t] # "start"
    BY <1>6 DEF Restart, Threads
  <2>2. CASE repo
    <3>1. ~running' /\ \A t \in Threads : ~Active(t)'
      BY <1>6, <2>1, <2>2 DEF Restart, Active
    <3> QED
      BY <2>1, <3>1 DEF SerialPulls
  <2>3. CASE ~repo
    <3>1. running' /\ \A t \in Threads : Active(t)' <=> t = Main
      BY <1>6, <2>1, <2>3 DEF Restart, Active
    <3> QED
      BY <2>1, <3>1 DEF SerialPulls
  <2> QED
    BY <2>2, <2>3
<1> QED
  <2>1. CASE Push
    BY <1>1, <2>1 DEF Push, puller
  <2>2. ASSUME NEW p \in transit, Lose(p) PROVE SerialPulls'
    BY <1>1, <2>2 DEF Lose, puller
  <2>3. ASSUME NEW p \in transit, NEW h \in Handlers, TriggerBusy(h, p) PROVE SerialPulls'
    BY <1>1, <2>3 DEF TriggerBusy, Accept
  <2>4. CASE UNCHANGED vars
    BY <1>1, <2>4 DEF vars, puller
  <2> QED
    BY <1>2, <1>3, <1>4, <1>5, <1>6, <2>1, <2>2, <2>3, <2>4 DEF Next, Trigger

(* Puller.trigger and _loop never let two pulls run at once, and running   *)
(* never stays set with nobody in the loop, for any number of handlers.    *)
THEOREM PullsAreSerial == Spec => []SerialPulls
  BY InitType, NextType, InitSerial, NextSerial, PTL DEF Spec

-----------------------------------------------------------------------------
(* Order. *)

LEMMA InitOrder == Init => Order
<1> SUFFICES ASSUME Init PROVE Order
  OBVIOUS
<1>1. head = 0 /\ owed = 0 /\ site = 0 /\ fetchHead = 0 /\ transit = {}
  BY DEF Init
<1>2. \A t \in Threads : got[t] = 0 /\ lpc[t] # "store"
  BY DEF Init
<1> QED
  BY <1>1, <1>2 DEF Order

\* Everything SerialPulls says that the other steps need.
LEMMA OnlyLoop ==
  ASSUME SerialPulls, NEW t \in Threads, lpc[t] # "off"
  PROVE  running /\ \A u \in Threads : hpc[u] # "start" /\ (u # t => lpc[u] = "off")
  BY DEF SerialPulls, Active

LEMMA NextOrder == TypeOK /\ SerialPulls /\ Order /\ [Next]_vars => Order'
<1> SUFFICES ASSUME TypeOK, SerialPulls, Order, [Next]_vars PROVE Order'
  OBVIOUS
<1> USE NewsHookAssumption DEF NewsHookAssumption, Pushes
<1>n. /\ head \in Nat /\ owed \in Nat /\ site \in Nat /\ fetchHead \in Nat
      /\ transit \subseteq Nat /\ got \in [Threads -> Nat]
      /\ lpc \in [Threads -> {"off", "init", "fetch", "store", "reset", "check"}]
  BY DEF TypeOK
<1>1. CASE Push
  BY <1>1, <1>n DEF Push, disk, Order
<1>2. ASSUME NEW p \in transit, Lose(p) PROVE Order'
  BY <1>2 DEF Lose, disk, Order
<1>3. ASSUME NEW p \in transit, NEW h \in Handlers, Trigger(h, p) PROVE Order'
  <2>1. UNCHANGED <<head, lpc, got, site, fetchHead>>
    BY <1>3 DEF Trigger, TriggerIdle, TriggerBusy, Accept, disk
  <2>2. transit' \subseteq transit /\ owed' \in {owed, p}
    BY <1>3 DEF Trigger, TriggerIdle, TriggerBusy, Accept
  <2> QED
    BY <2>1, <2>2 DEF Order
<1>4. ASSUME NEW h \in Handlers, StartLoop(h) PROVE Order'
  BY <1>4, <1>n DEF StartLoop, disk, Order
<1>5. ASSUME NEW t \in Threads, Loop(t) PROVE Order'
  <2>1. CASE PullInit(t) \/ InitRaises(t)
    <3>1. /\ UNCHANGED <<head, transit, owed, site, fetchHead>>
          /\ \E to \in {"fetch", "check"} : lpc' = [lpc EXCEPT ![t] = to]
          /\ \E g \in {0, got[t]} : got' = [got EXCEPT ![t] = g]
      BY <2>1, <1>n DEF PullInit, InitRaises, PullFails, Goes
    <3> QED
      BY <3>1, <1>n DEF Order
  <2>2. CASE Fetch(t)
    BY <2>2, <1>n DEF Fetch, Goes, disk, Order
  <2>3. CASE FetchStored(t)
    <3>1. \A u \in Threads : lpc'[u] # "store"
      BY <2>3, <1>n, OnlyLoop DEF FetchStored, Goes
    <3> QED
      BY <2>3, <3>1, <1>n DEF FetchStored, Goes, Order
  <2>4. ASSUME NEW from \in {"fetch", "store"}, FetchRetries(t, from) PROVE Order'
    BY <2>4, <1>n DEF FetchRetries, Goes, disk, Order
  <2>5. ASSUME NEW from \in {"fetch", "store"}, FetchGivesUp(t, from) PROVE Order'
    BY <2>5, <1>n DEF FetchGivesUp, PullFails, Goes, disk, Order
  <2>6. CASE Reset(t) \/ ResetRaises(t)
    <3>1. /\ UNCHANGED <<head, transit, owed, fetchHead>>
          /\ site' \in {site, fetchHead}
          /\ lpc' = [lpc EXCEPT ![t] = "check"]
          /\ \E g \in {0, got[t]} : got' = [got EXCEPT ![t] = g]
      BY <2>6, <1>n DEF Reset, ResetRaises, PullFails, Goes
    <3> QED
      BY <3>1, <1>n DEF Order
  <2>7. CASE LoopAgain(t) \/ LoopEnds(t)
    <3>1. /\ UNCHANGED <<head, transit, owed, site, fetchHead, got>>
          /\ \E to \in {"init", "off"} : lpc' = [lpc EXCEPT ![t] = to]
      BY <2>7 DEF LoopAgain, LoopEnds, Goes, disk
    <3> QED
      BY <3>1, <1>n DEF Order
  <2> QED
    BY <1>5, <2>1, <2>2, <2>3, <2>4, <2>5, <2>6, <2>7 DEF Loop
<1>6. CASE Restart
  BY <1>6, <1>n DEF Restart, disk, Order
<1>7. CASE UNCHANGED vars
  BY <1>7 DEF vars, disk, Order
<1> QED
  BY <1>1, <1>2, <1>3, <1>4, <1>5, <1>6, <1>7 DEF Next

(* A loop step moves the content only forward: reset --hard FETCH_HEAD     *)
(* runs after a fetch that nothing overtook.                               *)
LEMMA StepForward == TypeOK /\ Order /\ [Next]_vars => site' >= site
<1> SUFFICES ASSUME TypeOK, Order, [Next]_vars PROVE site' >= site
  OBVIOUS
<1>1. site \in Nat /\ fetchHead \in Nat /\ site <= fetchHead
  BY NewsHookAssumption DEF NewsHookAssumption, TypeOK, Pushes, Order
<1>2. site' \in {site, fetchHead}
  BY DEF Next, Push, Lose, Trigger, TriggerIdle, TriggerBusy, Accept, StartLoop, Loop, PullInit,
         InitRaises, Fetch, FetchStored, FetchRetries, FetchGivesUp, Reset, ResetRaises,
         LoopAgain, LoopEnds, Restart, vars, disk
<1> QED
  BY <1>1, <1>2

-----------------------------------------------------------------------------
(* No accepted push is lost. *)

LEMMA InitLost == Init => NoLostPush
  BY DEF Init, NoLostPush

LEMMA NextLost ==
  TypeOK /\ SerialPulls /\ Order /\ NoLostPush /\ [Next]_vars => NoLostPush'
<1> SUFFICES ASSUME TypeOK, SerialPulls, Order, NoLostPush, [Next]_vars PROVE NoLostPush'
  OBVIOUS
<1>n. /\ head \in Nat /\ owed \in Nat /\ site \in Nat /\ fetchHead \in Nat /\ failed \in Nat
      /\ transit \subseteq Nat /\ got \in [Threads -> Nat]
      /\ lpc \in [Threads -> {"off", "init", "fetch", "store", "reset", "check"}]
      /\ hpc \in [Threads -> {"idle", "start"}]
  BY NewsHookAssumption DEF NewsHookAssumption, TypeOK, Pushes
<1>o. owed <= head /\ site <= fetchHead
  BY DEF Order
<1>1. CASE Push
  BY <1>1 DEF Push, puller, disk, NoLostPush
<1>2. ASSUME NEW p \in transit, Lose(p) PROVE NoLostPush'
  BY <1>2 DEF Lose, puller, disk, NoLostPush
<1>3. ASSUME NEW p \in transit, NEW h \in Handlers, Trigger(h, p) PROVE NoLostPush'
  <2>1. CASE TriggerIdle(h, p)
    BY <2>1, <1>n DEF TriggerIdle, NoLostPush, Threads
  <2>2. CASE TriggerBusy(h, p)
    BY <2>2 DEF TriggerBusy, NoLostPush
  <2> QED
    BY <1>3, <2>1, <2>2 DEF Trigger
<1>4. ASSUME NEW h \in Handlers, StartLoop(h) PROVE NoLostPush'
  BY <1>4, <1>n DEF StartLoop, NoLostPush, Threads
<1>5. ASSUME NEW t \in Threads, Loop(t) PROVE NoLostPush'
  <2>1. ASSUME NEW from, PullFails(t, from) PROVE NoLostPush'
    BY <2>1, <1>o DEF PullFails, Goes, NoLostPush
  <2>2. CASE PullInit(t)
    BY <2>2, <1>n DEF PullInit, Goes, NoLostPush
  <2>3. CASE Fetch(t)
    BY <2>3, <1>n, <1>o DEF Fetch, Goes, NoLostPush
  <2>4. CASE FetchStored(t)
    <3>1. /\ lpc[t] = "store" /\ lpc'[t] = "reset" /\ fetchHead' = got[t]
          /\ UNCHANGED <<owed, site, failed, running, pending>>
      BY <2>4, <1>n DEF FetchStored, Goes
    <3>2. \A u \in Threads : hpc[u] # "start" /\ (u # t => lpc[u] = "off")
      BY <3>1, OnlyLoop
    <3> QED
      BY <3>1, <3>2 DEF NoLostPush
  <2>5. ASSUME NEW from \in {"fetch", "store"}, FetchRetries(t, from) PROVE NoLostPush'
    BY <2>5, <1>n DEF FetchRetries, Goes, NoLostPush
  <2>6. CASE Reset(t)
    <3>1. /\ lpc[t] = "reset" /\ site' = fetchHead
          /\ UNCHANGED <<owed, failed, running, pending>>
      BY <2>6 DEF Reset, Goes
    <3>2. \A u \in Threads : hpc[u] # "start" /\ (u # t => lpc[u] = "off")
      BY <3>1, OnlyLoop
    <3> QED
      BY <3>1, <3>2, <1>n, <1>o DEF NoLostPush
  <2>7. CASE LoopAgain(t)
    BY <2>7, <1>n DEF LoopAgain, Goes, NoLostPush
  <2>8. CASE LoopEnds(t)
    <3>1. /\ lpc[t] = "check" /\ ~pending
          /\ UNCHANGED <<owed, site, failed>>
      BY <2>8 DEF LoopEnds, Goes, disk
    <3>2. \A u \in Threads : hpc[u] # "start" /\ (u # t => lpc[u] = "off")
      BY <3>1, OnlyLoop
    <3> QED
      BY <3>1, <3>2 DEF NoLostPush
  <2> QED
    BY <1>5, <2>1, <2>2, <2>3, <2>4, <2>5, <2>6, <2>7, <2>8
    DEF Loop, InitRaises, FetchGivesUp, ResetRaises
<1>6. CASE Restart
  BY <1>6, <1>n DEF Restart, disk, NoLostPush
<1>7. CASE UNCHANGED vars
  BY <1>7 DEF vars, puller, disk, NoLostPush
<1> QED
  BY <1>1, <1>2, <1>3, <1>4, <1>5, <1>6, <1>7 DEF Next

(* The whole invariant. *)
THEOREM Invariant == Spec => []Inv
<1>1. Init => Inv
  BY InitType, InitSerial, InitOrder, InitLost DEF Inv
<1>2. Inv /\ [Next]_vars => Inv'
  BY NextType, NextSerial, NextOrder, NextLost DEF Inv
<1> QED
  BY <1>1, <1>2, PTL DEF Spec

(* A push that daily-news-hook answered with 202 is on the site, or a pull *)
(* failed after it came, or a pull is still going to bring it.             *)
THEOREM AcceptedPushIsKept == Spec => []NoLostPush
<1>1. Inv => NoLostPush
  BY DEF Inv
<1> QED
  BY <1>1, Invariant, PTL

(* The content directory never goes back to an older push. *)
THEOREM ContentOnlyMovesForward == Spec => SiteNeverGoesBack
<1>1. Inv /\ [Next]_vars => [site' >= site]_vars
  BY StepForward DEF Inv
<1> QED
  BY <1>1, Invariant, PTL DEF Spec, SiteNeverGoesBack

-----------------------------------------------------------------------------
(* Sets of numbers have a least element. *)

LEMMA LeastNat == ASSUME NEW S \in SUBSET Nat, S # {} PROVE Min(S) \in S /\ \A x \in S : Min(S) <= x
<1> DEFINE R == {p \in Nat \X Nat : p[1] < p[2]}
<1>1. IsWellFoundedOn(R, Nat)
  BY NatLessThanWellFounded DEF OpToRel
<1> HIDE DEF R
<1>2. PICK m \in S : \A x \in S : ~(<<x, m>> \in R)
  BY <1>1, WFMin
<1>3. ASSUME NEW x \in S PROVE m <= x
  <2>1. x \in Nat /\ m \in Nat /\ (x < m => <<x, m>> \in R)
    BY DEF R
  <2> QED
    BY <1>2, <2>1
<1> QED
  BY <1>3 DEF Min

-----------------------------------------------------------------------------
(* cert-renew and the TLB. *)

(* Nothing but certbot writes a certificate, and whatever makes nginx load *)
(* a configuration makes it load the certificates as they are.             *)
LEMMA TlbLoads == ASSUME TlbNext PROVE live' = live /\ (nginx' = nginx \/ ~nginx'.up \/ nginx'.certs = live)
<1>1. CASE StartPlatform
  BY <1>1, Zenon DEF StartPlatform, box
<1>2. CASE StartTlb
  <2>1. nginx' = Down \/ \E c : nginx' = [up |-> TRUE, conf |-> c, certs |-> live]
    BY <1>2, Zenon DEF StartTlb, Runs
  <2>2. live' = live
    BY <1>2, Zenon DEF StartTlb
  <2> QED
    BY <2>1, <2>2 DEF Down
<1>3. ASSUME NEW o \in Callers, Reload(o) PROVE live' = live /\ (nginx' = nginx \/ nginx'.certs = live)
  BY <1>3 DEF Reload, Reloaded, Runs
<1>4. ASSUME NEW o \in Callers, Asks(o) \/ Steps(o), ~Reload(o) PROVE UNCHANGED <<live, nginx>>
  BY <1>4, Zenon DEF Asks, Steps, CreateTlbSite, PublishTlb, UpdateTlbSite, DeleteTlbSite, CreateTlbRoute, UpdateTlbRoute,
     DeleteTlbRoute, OfSite, box, WriteSite, DeleteRoutes, DeleteSite, InsertRoute, WriteRoute, RemoveRoute, ReadRoutes,
     cat, Written, Tested, Copied
<1> QED
  BY <1>1, <1>2, <1>3, <1>4 DEF TlbNext

(* renew.py keeps its flag, is at its reload, or has missed one, whenever  *)
(* nginx uses a certificate that has been renewed, whatever is published   *)
(* and whoever is restarted meanwhile.                                     *)
THEOREM RenewedIsReloaded == SiteSpec => []ReloadOwed
<1>1. TlbInit /\ RenewInit => ReloadOwed
  <2>1. TlbInit => nginx = [up |-> TRUE, conf |-> etc, certs |-> live]
    BY Zenon DEF TlbInit
  <2> QED
    BY <2>1 DEF ReloadOwed, Stale
<1>2. ReloadOwed /\ [SiteNext]_siteVars => ReloadOwed'
  <2> SUFFICES ASSUME ReloadOwed, [SiteNext]_siteVars PROVE ReloadOwed'
    OBVIOUS
  <2> USE DEF ReloadOwed
  <2>1. CASE UNCHANGED siteVars
    BY <2>1 DEF Stale, siteVars, tlbVars, renewVars, box
  <2>2. CASE TlbNext /\ UNCHANGED renewVars
    <3>1. Stale' => Stale
      BY <2>2, TlbLoads DEF Stale
    <3> QED
      BY <2>2, <3>1 DEF renewVars
  <2>3. CASE issue_missing
    BY <2>3 DEF issue_missing, certbot, Outside, box, Stale
  <2>4. CASE Issued
    BY <2>4 DEF Issued, Outside, box, Stale
  <2>5. CASE renew_all
    BY <2>5 DEF renew_all, certbot, Outside, box, Stale
  <2>6. CASE Renewed
    BY <2>6 DEF Renewed, Outside, box, Stale
  <2>7. CASE CheckFlag
    BY <2>7 DEF CheckFlag, Outside, box, Stale
  <2>8. CASE reload_tlb
    BY <2>8 DEF reload_tlb, Reloaded, Runs, Stale
  <2>9. CASE Wake
    BY <2>9 DEF Wake, Round, Outside, box, Stale
  <2>10. CASE RenewDies
    BY <2>10 DEF RenewDies, Outside, box, Stale
  <2> QED
    BY <2>1, <2>2, <2>3, <2>4, <2>5, <2>6, <2>7, <2>8, <2>9, <2>10 DEF SiteNext, RenewNext, RenewStep
<1> QED
  BY <1>1, <1>2, PTL DEF SiteSpec

-----------------------------------------------------------------------------
(* The routes that nginx gets. *)

(* A configuration has the routes of each site in its own server. *)
OwnRoutes(conf) == \A i \in DOMAIN conf : \A r \in conf[i].routes : r.site = i

OwnFile(conf) == conf \in {Absent, Torn} \/ OwnRoutes(conf)

(* What a caller is at, as far as it matters. *)
Shape ==
    /\ DOMAIN call = Callers
    /\ \A o \in Callers :
          /\ At(o, "delete routes") => "at" \in DOMAIN call[o]
          /\ At(o, "cat") => call[o] = [at |-> "cat", conf |-> call[o].conf]
          /\ At(o, "write") => call[o] = [at |-> "write", conf |-> call[o].conf]

(* Every copy of a configuration, from ReadRoutes to nginx, has it. *)
OwnConfs ==
    /\ OwnFile(generated) /\ OwnFile(etc)
    /\ nginx.up => OwnRoutes(nginx.conf)
    /\ \A o \in Callers : call[o].at \in {"cat", "write"} => OwnRoutes(call[o].conf)

(* Ids are numbers, and every host with a certificate is known. *)
Numbers ==
    /\ nextSite \in Nat \ {0}
    /\ DOMAIN tlb_site \subseteq 1..(nextSite - 1)
    /\ live \in [Hosts \cup {TlsHost} -> Nat]

(* The configuration is the one of the tables, for hosts that are known. *)
Renders(conf, sites, rows, hosts) ==
    /\ DOMAIN conf = {i \in DOMAIN sites : RoutesOf(i, rows) # {}}
    /\ \A i \in DOMAIN conf :
          /\ conf[i].host = sites[i].host
          /\ conf[i].default = (i = Min(DOMAIN sites))
          /\ conf[i].routes = RoutesOf(i, rows)
          /\ conf[i].dir \in {<<>>} \cup hosts

Fits(conf) == Renders(conf, tlb_site, tlb_route, DOMAIN live)

(* nginx -t with these certificates. *)
AcceptsWith(conf, certs) ==
    /\ conf \notin {Absent, Torn}
    /\ \A i \in DOMAIN conf :
          /\ conf[i].host \notin BadHosts
          /\ conf[i].dir # <<>> => certs[conf[i].dir] > 0
          /\ \A r, s \in conf[i].routes : r.path = s.path => r = s

Publishing == {"routes", "cat", "write", "test", "copy", "reload"}

(* A publisher whom nobody has disturbed is alone, and what it has read,   *)
(* written, tested or copied is what the tables say.                       *)
Undisturbed(o) ==
    /\ o \in Callers
    /\ call[o].at \in Publishing => \A q \in Callers \ {o} : call[q].at \notin Publishing
    /\ At(o, "routes") => call[o].sites = tlb_site
    /\ call[o].at \in {"cat", "write"} => Fits(call[o].conf)
    /\ call[o].at \in {"test", "copy", "reload"} => Fits(generated)
    /\ call[o].at \in {"copy", "reload"} => AcceptsWith(generated, live)
    /\ At(o, "reload") => etc = generated

Calm == \A o \in quiet : Undisturbed(o)

SiteInv == Shape /\ OwnConfs /\ Numbers /\ Calm

-----------------------------------------------------------------------------
(* The calls and their steps. *)

(* A step of a call that is no publish. *)
Plain(x) ==
    /\ x.at \notin Publishing
    /\ x.at = "delete routes" => "at" \in DOMAIN x

Moved(o, x) == DOMAIN call' = Callers /\ call'[o] = x /\ \A q \in Callers \ {o} : call'[q] = call[q]

Began(o) ==
    /\ UNCHANGED <<tables, box, live, quiet, refused>>
    /\ call[o] = Idle
    /\ \E x : Plain(x) /\ Moved(o, x)

LEMMA IdlePlain == Plain(Idle)
BY DEF Plain, Publishing, Idle

LEMMA SiteFound ==
  ASSUME NEW o \in Callers, Shape, NEW s, NEW step, OfSite(o, s, step), \A i : Plain([step EXCEPT !.site = i])
  PROVE  Began(o)
<1>1. PICK i \in SiteIds(s) : Begin(o, [step EXCEPT !.site = i]) /\ UNCHANGED <<tables, box, live, quiet, refused>>
  BY Zenon DEF OfSite
<1> DEFINE x == [step EXCEPT !.site = i]
<1>2. Plain(x) /\ call[o] = Idle /\ call' = [call EXCEPT ![o] = x]
  BY <1>1 DEF Begin
<1> HIDE DEF x
<1>3. Moved(o, x)
  BY <1>2 DEF Moved, Shape
<1> QED
  BY <1>1, <1>2, <1>3, Zenon DEF Began

(* A call begins in one of three ways. *)
LEMMA Asking ==
  ASSUME NEW o \in Callers, Shape, Asks(o)
  PROVE  \/ PublishTlb(o)
         \/ \E n \in NameInputs, h \in HostInputs : CreateTlbSite(o, n, h)
         \/ Began(o)
<1> USE DEF Plain, Publishing
<1>1. ASSUME NEW s, NEW h, UpdateTlbSite(o, s, h) PROVE Began(o)
  <2> DEFINE host == SiteHost(<<s>>, h)
             step == [at |-> "site host", site |-> 0, host |-> host]
  <2>1. OfSite(o, s, step)
    BY <1>1, Zenon DEF UpdateTlbSite
  <2> HIDE DEF host
  <2>2. \A i : Plain([step EXCEPT !.site = i])
    OBVIOUS
  <2> QED
    BY <2>1, <2>2, SiteFound
<1>2. ASSUME NEW s, DeleteTlbSite(o, s) PROVE Began(o)
  <2> DEFINE step == [at |-> "delete routes", site |-> 0]
  <2>1. OfSite(o, s, step)
    BY <1>2, Zenon DEF DeleteTlbSite
  <2>a. step \in [at : {"delete routes"}, site : {0}]
    OBVIOUS
  <2> HIDE DEF step
  <2>2. \A i : Plain([step EXCEPT !.site = i])
    BY <2>a
  <2> QED
    BY <2>1, <2>2, SiteFound
<1>3. ASSUME NEW s, NEW n, NEW p, NEW t, CreateTlbRoute(o, s, n, p, t) PROVE Began(o)
  <2> DEFINE q == Trimmed(p)
             name == tlbRouteName(n, q)
             step == [at |-> "insert route", site |-> 0, name |-> name, path |-> q, target |-> t]
  <2>1. OfSite(o, s, step)
    BY <1>3, Zenon DEF CreateTlbRoute
  <2> HIDE DEF q, name
  <2>2. \A i : Plain([step EXCEPT !.site = i])
    OBVIOUS
  <2> QED
    BY <2>1, <2>2, SiteFound
<1>4. ASSUME NEW s, NEW r, NEW n, NEW p, NEW t, UpdateTlbRoute(o, s, r, n, p, t) PROVE Began(o)
  <2> DEFINE q == Trimmed(p)
             name == tlbRouteName(n, q)
             step == [at |-> "update route", site |-> 0, id |-> r, name |-> name, path |-> q, target |-> t]
  <2>1. OfSite(o, s, step)
    BY <1>4, Zenon DEF UpdateTlbRoute
  <2> HIDE DEF q, name
  <2>2. \A i : Plain([step EXCEPT !.site = i])
    OBVIOUS
  <2> QED
    BY <2>1, <2>2, SiteFound
<1>5. ASSUME NEW s, NEW r, DeleteTlbRoute(o, s, r) PROVE Began(o)
  <2> DEFINE step == [at |-> "delete route", site |-> 0, id |-> r]
  <2>1. OfSite(o, s, step)
    BY <1>5, Zenon DEF DeleteTlbRoute
  <2>2. \A i : Plain([step EXCEPT !.site = i])
    OBVIOUS
  <2> QED
    BY <2>1, <2>2, SiteFound
<1> QED
  BY <1>1, <1>2, <1>3, <1>4, <1>5, Zenon DEF Asks

(* A step that is no part of a publish: it changes the tables, and then    *)
(* disturbs every publisher but its own caller, or nothing of theirs.      *)
LEMMA PlainStep ==
  ASSUME SiteInv, NEW o \in Callers, NEW x, Plain(x), Moved(o, x), call[o].at \notin Publishing,
         UNCHANGED <<box, live>>, quiet' = quiet \cap {o} \/ UNCHANGED <<tables, quiet>>
  PROVE  Shape' /\ OwnConfs' /\ Calm'
<1>1. Shape'
  BY DEF Shape, At, Plain, Moved, SiteInv, Publishing
<1>2. \A q \in Callers : call'[q].at \in Publishing => q # o /\ call'[q] = call[q]
  BY DEF Plain, Moved, Publishing
<1>3. generated' = generated /\ etc' = etc /\ nginx' = nginx /\ live' = live
  BY DEF box
<1>4. OwnConfs'
  BY <1>2, <1>3 DEF OwnConfs, SiteInv, Publishing
<1>5. \A p \in Callers : call'[p].at \notin Publishing => Undisturbed(p)'
  BY DEF Undisturbed, At, Publishing
<1>6. ASSUME UNCHANGED <<tables, quiet>>, NEW p \in quiet, call'[p].at \in Publishing PROVE Undisturbed(p)'
  <2>1. tlb_site' = tlb_site /\ tlb_route' = tlb_route
    BY <1>6 DEF tables
  <2>2. Undisturbed(p) /\ p \in Callers
    BY <1>6 DEF SiteInv, Calm, Undisturbed
  <2>3. p # o /\ call'[p] = call[p] /\ \A q \in Callers \ {p} : call'[q].at \in Publishing => call[q].at \in Publishing
    BY <1>2, <1>6, <2>2
  <2> QED
    BY <1>2, <1>3, <1>6, <2>1, <2>2, <2>3 DEF Undisturbed, At, Fits
<1>7. \A p \in quiet : p \in Callers
  BY DEF SiteInv, Calm, Undisturbed
<1>8. Calm'
  BY <1>2, <1>5, <1>6, <1>7 DEF Calm
<1> QED
  BY <1>1, <1>4, <1>8

(* The steps of the calls that are no publish. *)
LEMMA TableSteps ==
  ASSUME SiteInv, NEW o \in Callers,
         \/ \E n \in NameInputs, h \in HostInputs : CreateTlbSite(o, n, h)
         \/ Began(o) \/ WriteSite(o) \/ DeleteRoutes(o) \/ DeleteSite(o) \/ InsertRoute(o) \/ WriteRoute(o) \/ RemoveRoute(o)
  PROVE  Shape' /\ OwnConfs' /\ Calm'
<1>0. DOMAIN call = Callers
  BY DEF SiteInv, Shape
<1>1. CASE Began(o)
  BY <1>1, PlainStep, IdlePlain DEF Began, Plain
<1>2. ASSUME NEW n \in NameInputs, NEW h \in HostInputs, CreateTlbSite(o, n, h) PROVE Shape' /\ OwnConfs' /\ Calm'
  <2>1. call[o] = Idle /\ UNCHANGED <<box, live, call>> /\ quiet' = quiet \cap {o}
    BY <1>2, Zenon DEF CreateTlbSite, Disturbs
  <2>2. Moved(o, Idle)
    BY <1>0, <2>1 DEF Moved
  <2> QED
    BY <2>1, <2>2, PlainStep, IdlePlain DEF Plain
<1>3. CASE WriteSite(o) \/ DeleteSite(o) \/ InsertRoute(o) \/ WriteRoute(o) \/ RemoveRoute(o)
  <2>1. /\ call[o].at \in {"site host", "delete site", "insert route", "update route", "delete route"}
        /\ call' = [call EXCEPT ![o] = Idle] /\ UNCHANGED <<box, live>> /\ quiet' = quiet \cap {o}
    BY <1>3, Zenon DEF WriteSite, DeleteSite, InsertRoute, WriteRoute, RemoveRoute, At, Return, Disturbs
  <2>2. Moved(o, Idle)
    BY <1>0, <2>1 DEF Moved
  <2>3. call[o].at \notin Publishing
    BY <2>1 DEF Publishing
  <2> QED
    BY <2>1, <2>2, <2>3, PlainStep, IdlePlain
<1>4. CASE DeleteRoutes(o)
  <2> DEFINE x == [call[o] EXCEPT !.at = "delete site"]
  <2>1. call[o].at = "delete routes" /\ call' = [call EXCEPT ![o] = x] /\ UNCHANGED <<box, live>> /\ quiet' = quiet \cap {o}
    BY <1>4, Zenon DEF DeleteRoutes, At, Goto, Disturbs
  <2>2. x.at = "delete site"
    BY <2>1 DEF SiteInv, Shape, At
  <2> HIDE DEF x
  <2>3. Moved(o, x) /\ Plain(x) /\ call[o].at \notin Publishing
    BY <1>0, <2>1, <2>2 DEF Moved, Plain, Publishing
  <2> QED
    BY <2>1, <2>3, PlainStep
<1> QED
  BY <1>1, <1>2, <1>3, <1>4

(* What ReadRoutes renders has every route in the server of its site, and  *)
(* is what the tables say when the sites have not changed since.           *)
LEMMA Rendered ==
  ASSUME Numbers, NEW sites, NEW conf, conf = renderTlbNginx(loadTlb(sites, tlb_route))
  PROVE  OwnRoutes(conf) /\ Renders(conf, sites, tlb_route, DOMAIN live)
<1>1. DOMAIN live = Hosts \cup {TlsHost}
  BY DEF Numbers
<1>2. /\ DOMAIN loadTlb(sites, tlb_route) = DOMAIN sites
      /\ \A i \in DOMAIN sites : loadTlb(sites, tlb_route)[i] = [host |-> sites[i].host, routes |-> RoutesOf(i, tlb_route)]
  BY DEF loadTlb
<1>3. \A h : (IF tlbTLSOn THEN tlbSiteTLSDir(h) ELSE <<>>) \in {<<>>} \cup DOMAIN live
  BY <1>1 DEF tlbSiteTLSDir
<1>4. /\ DOMAIN conf = {i \in DOMAIN sites : RoutesOf(i, tlb_route) # {}}
      /\ \A i \in DOMAIN conf : conf[i] = Block(loadTlb(sites, tlb_route), i)
  BY <1>2 DEF renderTlbNginx
<1> DEFINE S == loadTlb(sites, tlb_route)
<1>5. ASSUME NEW i \in DOMAIN conf
      PROVE  /\ conf[i].host = sites[i].host
             /\ conf[i].default = (i = Min(DOMAIN sites))
             /\ conf[i].routes = RoutesOf(i, tlb_route)
             /\ conf[i].dir \in {<<>>} \cup DOMAIN live
  <2>1. i \in DOMAIN sites /\ conf[i] = Block(S, i)
    BY <1>4
  <2>2. DOMAIN S = DOMAIN sites /\ S[i].host = sites[i].host /\ S[i].routes = RoutesOf(i, tlb_route)
    BY <1>2, <2>1
  <2> HIDE DEF S
  <2>3. /\ Block(S, i).host = S[i].host /\ Block(S, i).routes = S[i].routes
        /\ Block(S, i).default = (i = Min(DOMAIN S))
        /\ Block(S, i).dir = IF tlbTLSOn THEN tlbSiteTLSDir(S[i].host) ELSE <<>>
    BY DEF Block
  <2> QED
    BY <1>3, <2>1, <2>2, <2>3
<1>6. \A i : \A r \in RoutesOf(i, tlb_route) : r.site = i
  BY DEF RoutesOf
<1> QED
  BY <1>4, <1>5, <1>6 DEF OwnRoutes, Renders

(* A step of a publish leaves the other publishers' promises empty: had    *)
(* one of them not been disturbed, it would have been alone.               *)
LEMMA OthersCalm ==
  ASSUME SiteInv, NEW o \in Callers, NEW x, Moved(o, x), call[o].at \in Publishing, quiet' \subseteq quiet,
         o \in quiet => Undisturbed(o)'
  PROVE  Calm'
<1>1. SUFFICES ASSUME NEW p \in quiet', p # o PROVE Undisturbed(p)'
  BY DEF Calm
<1>2. p \in Callers /\ Undisturbed(p)
  BY <1>1 DEF SiteInv, Calm, Undisturbed
<1>3. call'[p] = call[p] /\ call[p].at \notin Publishing
  BY <1>1, <1>2 DEF Undisturbed, Moved
<1> QED
  BY <1>2, <1>3 DEF Undisturbed, At, Publishing

(* The steps of PublishTlb. *)
LEMMA PublishSteps ==
  ASSUME SiteInv, NEW o \in Callers,
         PublishTlb(o) \/ ReadRoutes(o) \/ cat(o) \/ Written(o) \/ Tested(o) \/ Copied(o) \/ Reload(o)
  PROVE  Shape' /\ OwnConfs' /\ Calm'
<1>0. DOMAIN call = Callers /\ \A p \in quiet : p \in Callers
  BY DEF SiteInv, Shape, Calm, Undisturbed
<1>a. \A x : call' = [call EXCEPT ![o] = x] => Moved(o, x)
  BY <1>0 DEF Moved
<1>b. o \in quiet /\ call[o].at \in Publishing =>
        Undisturbed(o) /\ \A x : Moved(o, x) => \A q \in Callers \ {o} : call'[q].at \notin Publishing
  BY DEF SiteInv, Calm, Undisturbed, Moved
<1>1. CASE PublishTlb(o)
  <2> DEFINE x == [at |-> "routes", sites |-> tlb_site]
  <2>1. /\ call[o] = Idle /\ call' = [call EXCEPT ![o] = x] /\ UNCHANGED <<tables, box, live>>
        /\ quiet' = {p \in {o} : \A q \in Callers : call[q] = Idle}
    BY <1>1, Zenon DEF PublishTlb, Begin
  <2>2. x.at = "routes" /\ x.sites = tlb_site
    OBVIOUS
  <2> HIDE DEF x
  <2>3. Moved(o, x) /\ generated' = generated /\ etc' = etc /\ nginx' = nginx /\ tlb_site' = tlb_site
    BY <1>a, <2>1 DEF box, tables
  <2>4. Shape'
    BY <2>2, <2>3 DEF Shape, At, Moved, SiteInv
  <2>5. OwnConfs'
    BY <2>2, <2>3 DEF OwnConfs, Moved, SiteInv
  <2>6. \A p \in quiet' : Undisturbed(p)'
    <3> SUFFICES ASSUME NEW p \in quiet' PROVE Undisturbed(p)'
      OBVIOUS
    <3>1. p = o /\ \A q \in Callers \ {o} : call'[q].at = "idle"
      BY <2>1, <2>3 DEF Moved, Idle
    <3> QED
      BY <2>2, <2>3, <3>1 DEF Moved, Undisturbed, At, Publishing
  <2> QED
    BY <2>4, <2>5, <2>6 DEF Calm
<1>2. CASE ReadRoutes(o)
  <2> DEFINE S == loadTlb(call[o].sites, tlb_route)
             conf == renderTlbNginx(S)
             x == [at |-> "cat", conf |-> conf]
  <2>1. /\ call[o].at = "routes" /\ UNCHANGED <<tables, box, live, quiet>>
        /\ call' = [call EXCEPT ![o] = x] \/ call' = [call EXCEPT ![o] = Idle]
    BY <1>2, Zenon DEF ReadRoutes, At, Goto
  <2>2. OwnRoutes(conf) /\ Renders(conf, call[o].sites, tlb_route, DOMAIN live)
    BY Rendered DEF SiteInv
  <2> HIDE DEF conf
  <2>3. x.at = "cat" /\ x.conf = conf /\ x = [at |-> "cat", conf |-> conf]
    OBVIOUS
  <2> HIDE DEF x
  <2>4. generated' = generated /\ etc' = etc /\ nginx' = nginx /\ tlb_site' = tlb_site /\ tlb_route' = tlb_route /\ live' = live
    BY <2>1 DEF box, tables
  <2>5. CASE call' = [call EXCEPT ![o] = x]
    <3>1. Moved(o, x)
      BY <1>a, <2>5
    <3>2. Shape'
      BY <2>3, <3>1 DEF Shape, At, Moved, SiteInv
    <3>3. OwnConfs'
      BY <2>2, <2>3, <2>4, <3>1 DEF OwnConfs, Moved, SiteInv
    <3>4. o \in quiet => Undisturbed(o)'
      BY <1>b, <2>1, <2>2, <2>3, <2>4, <3>1 DEF Undisturbed, At, Fits, Publishing, Moved
    <3> QED
      BY <2>1, <3>1, <3>2, <3>3, <3>4, OthersCalm DEF Publishing
  <2>6. CASE call' = [call EXCEPT ![o] = Idle]
    <3>1. Moved(o, Idle)
      BY <1>a, <2>6
    <3>0. Idle.at = "idle"
      BY DEF Idle
    <3>2. Shape'
      BY <3>0, <3>1 DEF Shape, At, Moved, SiteInv
    <3>3. OwnConfs'
      BY <2>4, <3>1 DEF OwnConfs, Moved, SiteInv, Idle
    <3>4. Undisturbed(o)'
      BY <3>1 DEF Undisturbed, At, Publishing, Moved, Idle
    <3> QED
      BY <2>1, <3>1, <3>2, <3>3, <3>4, OthersCalm DEF Publishing
  <2> QED
    BY <2>1, <2>5, <2>6
<1>3. CASE cat(o)
  <2> DEFINE x == [call[o] EXCEPT !.at = "write"]
  <2>1. /\ call[o].at = "cat" /\ generated' = Torn /\ UNCHANGED <<tables, etc, nginx, live>> /\ quiet' = quiet \cap {o}
        /\ call' = [call EXCEPT ![o] = x]
    BY <1>3, Zenon DEF cat, At, Goto, Disturbs
  <2> DEFINE c == call[o].conf
  <2>a. OwnRoutes(c) /\ call[o] = [at |-> "cat", conf |-> c]
    BY <2>1 DEF SiteInv, Shape, At, OwnConfs
  <2> HIDE DEF c
  <2>b. call[o] \in [at : {"cat"}, conf : {c}]
    BY <2>a
  <2>c. x \in [at : {"write"}, conf : {c}]
    BY <2>b
  <2>2. OwnRoutes(c) /\ x = [at |-> "write", conf |-> x.conf]
    BY <2>a, <2>c
  <2>3. x.at = "write" /\ x.conf = c /\ call[o].conf = c
    BY <2>b, <2>c
  <2> HIDE DEF x
  <2>4. Moved(o, x) /\ tlb_site' = tlb_site /\ tlb_route' = tlb_route
    BY <1>a, <2>1 DEF tables
  <2>5. Shape'
    BY <2>2, <2>3, <2>4 DEF Shape, At, Moved, SiteInv
  <2>6. OwnConfs'
    BY <2>1, <2>2, <2>3, <2>4 DEF OwnConfs, Moved, SiteInv, OwnFile
  <2>7. o \in quiet => Undisturbed(o)'
    BY <1>b, <2>1, <2>3, <2>4 DEF Undisturbed, At, Fits, Publishing, Moved
  <2> QED
    BY <2>1, <2>4, <2>5, <2>6, <2>7, OthersCalm DEF Publishing
<1>4. CASE Written(o)
  <2> DEFINE x == [at |-> "test"]
  <2>1. /\ call[o].at = "write" /\ UNCHANGED <<tables, etc, nginx, live>> /\ quiet' = quiet \cap {o}
        /\ call' = [call EXCEPT ![o] = x]
        /\ generated' \in {call[o].conf} \cup {Torn : q \in {q \in Callers \ {o} : call[q].at = "write"}}
    BY <1>4, Zenon DEF Written, At, Goto, Disturbs
  <2>a. generated' = call[o].conf \/ (generated' = Torn /\ \E q \in Callers \ {o} : call[q].at = "write")
    BY <2>1
  <2>2. OwnRoutes(call[o].conf)
    BY <2>1 DEF SiteInv, OwnConfs
  <2>3. Moved(o, x) /\ tlb_site' = tlb_site /\ tlb_route' = tlb_route
    BY <1>a, <2>1 DEF tables
  <2>4. Shape'
    BY <2>1, <2>3 DEF Shape, At, Moved, SiteInv
  <2>5. OwnConfs'
    BY <2>1, <2>a, <2>2, <2>3 DEF OwnConfs, Moved, SiteInv, OwnFile
  <2>6. o \in quiet => Undisturbed(o)'
    BY <1>b, <2>1, <2>a, <2>3 DEF Undisturbed, At, Fits, Publishing, Moved
  <2> QED
    BY <2>1, <2>3, <2>4, <2>5, <2>6, OthersCalm DEF Publishing
<1>5. CASE Tested(o)
  <2> DEFINE x == IF Accepts(generated) THEN [at |-> "copy"] ELSE Idle
  <2>1. call[o].at = "test" /\ UNCHANGED <<tables, box, live, quiet>> /\ call' = [call EXCEPT ![o] = x]
    BY <1>5, Zenon DEF Tested, At, Goto, Return
  <2>2. x.at \in {"copy", "idle"} /\ (x.at = "copy" => AcceptsWith(generated, live))
    BY DEF Idle, Accepts, AcceptsWith
  <2> HIDE DEF x
  <2>3. /\ Moved(o, x) /\ tlb_site' = tlb_site /\ tlb_route' = tlb_route
        /\ generated' = generated /\ etc' = etc /\ nginx' = nginx /\ live' = live
    BY <1>a, <2>1 DEF tables, box
  <2>4. Shape' /\ OwnConfs'
    BY <2>2, <2>3 DEF Shape, At, Moved, SiteInv, OwnConfs
  <2>5. o \in quiet => Undisturbed(o)'
    BY <1>b, <2>1, <2>2, <2>3 DEF Undisturbed, At, Fits, Publishing, Moved
  <2> QED
    BY <2>1, <2>3, <2>4, <2>5, OthersCalm DEF Publishing
<1>6. CASE Copied(o)
  <2> DEFINE x == [at |-> "reload"]
  <2>1. /\ call[o].at = "copy" /\ etc' = generated /\ UNCHANGED <<tables, generated, nginx, live>> /\ quiet' = quiet \cap {o}
        /\ call' = [call EXCEPT ![o] = x]
    BY <1>6, Zenon DEF Copied, At, Goto, Disturbs
  <2>2. Moved(o, x) /\ tlb_site' = tlb_site /\ tlb_route' = tlb_route
    BY <1>a, <2>1 DEF tables
  <2>3. Shape' /\ OwnConfs'
    BY <2>1, <2>2 DEF Shape, At, Moved, SiteInv, OwnConfs
  <2>4. o \in quiet => Undisturbed(o)'
    BY <1>b, <2>1, <2>2 DEF Undisturbed, At, Fits, Publishing, Moved
  <2> QED
    BY <2>1, <2>2, <2>3, <2>4, OthersCalm DEF Publishing
<1>7. CASE Reload(o)
  <2>1. /\ call[o].at = "reload" /\ UNCHANGED <<tables, generated, etc, live>> /\ quiet' = quiet \cap {o}
        /\ call' = [call EXCEPT ![o] = Idle] /\ nginx' = Reloaded
    BY <1>7, Zenon DEF Reload, At, Return, Disturbs
  <2>2. Moved(o, Idle)
    BY <1>a, <2>1
  <2>3. OwnFile(etc) /\ (Accepts(etc) => OwnRoutes(etc))
    BY DEF SiteInv, OwnConfs, OwnFile, Accepts
  <2>4. nginx'.up => OwnRoutes(nginx'.conf)
    BY <2>1, <2>3 DEF Reloaded, Runs, SiteInv, OwnConfs
  <2>5. Shape' /\ OwnConfs'
    BY <2>1, <2>2, <2>4 DEF Shape, At, Moved, SiteInv, OwnConfs, Idle
  <2>6. Undisturbed(o)'
    BY <2>2 DEF Undisturbed, At, Publishing, Moved, Idle
  <2> QED
    BY <2>1, <2>2, <2>5, <2>6, OthersCalm DEF Publishing
<1> QED
  BY <1>1, <1>2, <1>3, <1>4, <1>5, <1>6, <1>7

(* Ids only grow, and certificates are only ever added. *)
LEMMA NumbersStay == ASSUME Numbers, TlbNext PROVE Numbers'
<1>0. live' = live
  BY TlbLoads
<1>1. ASSUME nextSite' = nextSite, DOMAIN tlb_site' \subseteq DOMAIN tlb_site PROVE Numbers'
  BY <1>0, <1>1 DEF Numbers
<1>2. CASE StartPlatform
  <2> DEFINE sites == IF tlb_site = <<>> THEN With(tlb_site, nextSite, [name |-> Console, host |-> TlsHost]) ELSE tlb_site
  <2>1. tlb_site' = sites /\ nextSite' = After(nextSite, sites)
    BY <1>2, Zenon DEF StartPlatform, seedTlb
  <2>2. DOMAIN sites = DOMAIN tlb_site \/ DOMAIN sites = DOMAIN tlb_site \cup {nextSite}
    BY DEF With
  <2> HIDE DEF sites
  <2>3. nextSite - 1 \in Nat /\ DOMAIN sites \subseteq 1..nextSite
    BY <2>2 DEF Numbers
  <2>4. PICK m \in {nextSite - 1, nextSite} : m \in {nextSite - 1} \cup DOMAIN sites /\ \A y \in {nextSite - 1} \cup DOMAIN sites : m >= y
    BY <2>2 DEF Numbers
  <2> DEFINE ids == {nextSite - 1} \cup DOMAIN sites
  <2>5. m \in ids /\ \A x \in ids : (\A y \in ids : x >= y) => x = m
    BY <2>3, <2>4 DEF Numbers
  <2> HIDE DEF ids
  <2>6. Max(ids) = m
    BY <2>4, <2>5 DEF Max, ids
  <2>7. nextSite' = m + 1
    BY <2>1, <2>6 DEF After, ids
  <2>8. \A y \in DOMAIN sites : y <= m
    BY <2>3, <2>4 DEF Numbers
  <2> QED
    BY <1>0, <2>1, <2>3, <2>4, <2>7, <2>8 DEF Numbers
<1>3. CASE StartTlb
  BY <1>1, <1>3 DEF StartTlb, tables
<1>4. ASSUME NEW o \in Callers, Steps(o) PROVE Numbers'
  <2>1. nextSite' = nextSite
    BY <1>4, Zenon DEF Steps, WriteSite, DeleteRoutes, DeleteSite, InsertRoute, WriteRoute, RemoveRoute, ReadRoutes,
       cat, Written, Tested, Copied, Reload, tables
  <2>2. CASE WriteSite(o)
    BY <1>1, <2>1, <2>2 DEF WriteSite
  <2>3. CASE DeleteSite(o)
    BY <1>1, <2>1, <2>3 DEF DeleteSite, Without
  <2>4. CASE ~WriteSite(o) /\ ~DeleteSite(o)
    <3>1. tlb_site' = tlb_site
      BY <1>4, <2>4, Zenon DEF Steps, DeleteRoutes, InsertRoute, WriteRoute, RemoveRoute, ReadRoutes,
         cat, Written, Tested, Copied, Reload, tables
    <3> QED
      BY <1>1, <2>1, <3>1
  <2> QED
    BY <2>2, <2>3, <2>4
<1>5. ASSUME NEW o \in Callers, NEW n, NEW h, CreateTlbSite(o, n, h) PROVE Numbers'
  <2>1. PICK row : tlb_site' = With(tlb_site, nextSite, row) /\ nextSite' = nextSite + 1
    BY <1>5, Zenon DEF CreateTlbSite
  <2> QED
    BY <1>0, <2>1 DEF Numbers, With
<1>6. ASSUME NEW o \in Callers, Asks(o), \A n, h : ~CreateTlbSite(o, n, h) PROVE Numbers'
  <2>1. UNCHANGED tables
    BY <1>6, Zenon DEF Asks, PublishTlb, UpdateTlbSite, DeleteTlbSite, CreateTlbRoute, UpdateTlbRoute, DeleteTlbRoute, OfSite
  <2> QED
    BY <1>1, <2>1 DEF tables
<1> QED
  BY <1>2, <1>3, <1>4, <1>5, <1>6 DEF TlbNext

(* A new platform or a new container: nobody is left undisturbed. *)
LEMMA Starts == ASSUME SiteInv, StartPlatform \/ StartTlb PROVE Shape' /\ OwnConfs' /\ Calm'
<1>1. Calm'
  BY DEF StartPlatform, StartTlb, Calm
<1>2. \A o \in Callers : call'[o] = call[o] \/ call'[o] = Idle
  BY DEF StartPlatform, StartTlb
<1>3. DOMAIN call' = Callers
  BY DEF StartPlatform, StartTlb
<1>4. Idle.at = "idle"
  BY DEF Idle
<1>5. Shape'
  BY <1>2, <1>3, <1>4 DEF Shape, At, SiteInv
<1>6. CASE StartPlatform
  BY <1>1, <1>2, <1>4, <1>5, <1>6 DEF StartPlatform, box, OwnConfs, SiteInv
<1>7. CASE StartTlb
  <2>1. /\ etc' = (IF generated # Absent THEN generated ELSE etc) /\ generated' = generated
        /\ nginx' = (IF Accepts(etc') THEN Runs(etc') ELSE Down)
    BY <1>7, Zenon DEF StartTlb
  <2>2. OwnFile(etc')
    BY <2>1 DEF SiteInv, OwnConfs
  <2>3. Accepts(etc') => OwnRoutes(etc')
    BY <2>2 DEF OwnFile, Accepts
  <2>4. nginx'.up => OwnRoutes(nginx'.conf)
    BY <2>1, <2>3 DEF Runs, Down
  <2> QED
    BY <1>1, <1>2, <1>4, <1>5, <2>1, <2>2, <2>4 DEF OwnConfs, SiteInv
<1> QED
  BY <1>6, <1>7

(* cert-renew: more certificates never make nginx refuse what it accepted. *)
LEMMA RenewKeeps == ASSUME SiteInv, RenewNext PROVE SiteInv'
<1>1. UNCHANGED <<tables, generated, etc, call, quiet>>
  BY Zenon DEF RenewNext, RenewStep, issue_missing, Issued, renew_all, Renewed, CheckFlag, reload_tlb, Wake, RenewDies, Outside, box
<1>2. nginx' = nginx \/ nginx' = Reloaded
  BY Zenon DEF RenewNext, RenewStep, issue_missing, Issued, renew_all, Renewed, CheckFlag, reload_tlb, Wake, RenewDies, Outside, box
<1>3. live' = live \/ \E h : live' = [live EXCEPT ![h] = @ + 1]
  <2>1. CASE issue_missing \/ renew_all
    BY <2>1 DEF issue_missing, renew_all, certbot
  <2>2. CASE RenewDies
    BY <2>2 DEF RenewDies
  <2> QED
    BY <2>1, <2>2, Zenon DEF RenewNext, RenewStep, Issued, Renewed, CheckFlag, reload_tlb, Wake
<1>4. live' \in [Hosts \cup {TlsHost} -> Nat] /\ DOMAIN live' = DOMAIN live /\ \A h \in DOMAIN live : live'[h] >= live[h]
  BY <1>3 DEF SiteInv, Numbers
<1>5. Shape' /\ Numbers'
  BY <1>1, <1>4 DEF SiteInv, Shape, Numbers, At, tables
<1>6. Accepts(etc) => OwnRoutes(etc)
  BY DEF SiteInv, OwnConfs, OwnFile, Accepts
<1>7. nginx'.up => OwnRoutes(nginx'.conf)
  BY <1>2, <1>6 DEF Reloaded, Runs, SiteInv, OwnConfs
<1>8. OwnConfs'
  BY <1>1, <1>7 DEF OwnConfs, SiteInv
<1>9. ASSUME NEW p \in quiet PROVE Undisturbed(p)'
  <2>1. Undisturbed(p)
    BY <1>9 DEF SiteInv, Calm
  <2>2. ASSUME Fits(generated), AcceptsWith(generated, live) PROVE AcceptsWith(generated, live')
    BY <1>4, <2>2 DEF Fits, Renders, AcceptsWith, SiteInv, Numbers
  <2> QED
    BY <1>1, <1>4, <2>1, <2>2 DEF Undisturbed, At, Fits, tables
<1> QED
  BY <1>1, <1>5, <1>8, <1>9 DEF SiteInv, Calm

LEMMA InitSite == TlbInit /\ RenewInit => SiteInv
<1> SUFFICES ASSUME TlbInit, RenewInit PROVE SiteInv
  OBVIOUS
<1> DEFINE seeded == Inserted(<<>>, 1, 1, Seeds)
<1>1. /\ call = [o \in Callers |-> Idle] /\ quiet = {} /\ generated = Absent
      /\ live = [h \in Hosts \cup {TlsHost} |-> IF h = TlsHost THEN 1 ELSE 0]
      /\ nextSite = Len(OldSites) + 2
      /\ tlb_site = <<[name |-> Console, host |-> TlsHost]>> \o OldSites
      /\ etc = <<[host |-> TlsHost, default |-> TRUE, dir |-> <<>>, routes |-> Range(seeded)]>>
      /\ nginx = [up |-> TRUE, conf |-> etc, certs |-> live]
  BY Zenon DEF TlbInit
<1>2. Shape /\ Calm
  BY <1>1 DEF Shape, At, Idle, Calm
<1>3. Numbers
  <2>1. OldSites \in Seq(Range(OldSites)) /\ Len(OldSites) \in Nat
    BY TlbAssumption DEF TlbAssumption
  <2>2. DOMAIN tlb_site = 1..(1 + Len(OldSites))
    BY <1>1, <2>1
  <2> QED
    BY <1>1, <2>1, <2>2 DEF Numbers
<1>4. \A r \in Range(seeded) : r.site = 1
  <2>1. \A r \in DOMAIN seeded : seeded[r].site = 1
    BY DEF Inserted, Row
  <2> HIDE DEF seeded
  <2> QED
    BY <2>1 DEF Range
<1> HIDE DEF seeded
<1>5. OwnRoutes(etc)
  BY <1>1, <1>4 DEF OwnRoutes
<1>6. OwnConfs
  BY <1>1, <1>5 DEF OwnConfs, OwnFile, Idle
<1> QED
  BY <1>2, <1>3, <1>6 DEF SiteInv

LEMMA NextSiteInv == SiteInv /\ [SiteNext]_siteVars => SiteInv'
<1> SUFFICES ASSUME SiteInv, [SiteNext]_siteVars PROVE SiteInv'
  OBVIOUS
<1>1. CASE UNCHANGED siteVars
  BY <1>1 DEF siteVars, tlbVars, tables, box, SiteInv, Shape, OwnConfs, Numbers, Calm, Undisturbed, Fits, At
<1>2. CASE RenewNext
  BY <1>2, RenewKeeps
<1>3. CASE TlbNext
  <2>1. Numbers'
    BY <1>3, NumbersStay DEF SiteInv
  <2>2. CASE StartPlatform \/ StartTlb
    BY <2>1, <2>2, Starts DEF SiteInv
  <2>3. ASSUME NEW o \in Callers, Asks(o) \/ Steps(o) PROVE SiteInv'
    <3>1. CASE Asks(o)
      BY <2>1, <3>1, Asking, TableSteps, PublishSteps DEF SiteInv
    <3>2. CASE Steps(o)
      BY <2>1, <3>2, TableSteps, PublishSteps DEF SiteInv, Steps
    <3> QED
      BY <2>3, <3>1, <3>2
  <2> QED
    BY <1>3, <2>2, <2>3 DEF TlbNext
<1> QED
  BY <1>1, <1>2, <1>3 DEF SiteNext

(* The inductive invariant of the TLB and cert-renew holds: what a copy of *)
(* the configuration is, and what an undisturbed publish has got to.       *)
THEOREM SiteInvariant == SiteSpec => []SiteInv
BY InitSite, NextSiteInv, PTL DEF SiteSpec

(* loadTlb drops the routes of sites it did not see, so that nginx never   *)
(* gets one in the server of another site, however calls, publishes and    *)
(* restarts of the platform and of nginx mix.                              *)
THEOREM RoutesStayWithSite == SiteSpec => []RoutesOfOwnSite
<1>1. SiteInv => RoutesOfOwnSite
  BY DEF SiteInv, OwnConfs, OwnRoutes, RoutesOfOwnSite
<1> QED
  BY <1>1, SiteInvariant, PTL

-----------------------------------------------------------------------------
(* Where nginx sends a request. *)

LEMMA FitsServes ==
  ASSUME Numbers, NEW conf, Fits(conf), NEW h, NEW p
  PROVE  Served(conf, h, p) = Expected(h, p)
<1> DEFINE with == {i \in DOMAIN tlb_site : RoutesOf(i, tlb_route) # {}}
           own  == {i \in with : tlb_site[i].host = h}
           dft  == {i \in with : i = Min(DOMAIN tlb_site)}
<1>1. DOMAIN conf = with /\ with \in SUBSET Nat /\ DOMAIN tlb_site \in SUBSET Nat
  BY DEF Fits, Renders, Numbers
<1>2. {i \in DOMAIN conf : conf[i].host = h} = own
  BY DEF Fits, Renders
<1>3. {i \in DOMAIN conf : conf[i].default} = dft
  BY DEF Fits, Renders
<1>4. \A i \in with : conf[i].routes = RoutesOf(i, tlb_route)
  BY DEF Fits, Renders
<1>5. CASE with = {}
  BY <1>1, <1>5, Zenon DEF Served, Expected
<1>6. CASE with # {}
  <2> DEFINE n == Min(IF own # {} THEN own ELSE IF dft # {} THEN dft ELSE with)
             m == Min(IF own # {} THEN own ELSE with)
  <2>1. Served(conf, h, p) = LongestOf(conf[n].routes, p)
    BY <1>1, <1>2, <1>3, <1>6, Zenon DEF Served
  <2>2. Expected(h, p) = LongestOf(RoutesOf(m, tlb_route), p)
    BY <1>6, Zenon DEF Expected
  <2>3. m \in with
    <3>1. own \in SUBSET Nat /\ own \subseteq with
      BY <1>1
    <3>2. CASE own # {}
      BY <3>1, <3>2, LeastNat
    <3>3. CASE own = {}
      BY <1>1, <1>6, <3>3, LeastNat
    <3> QED
      BY <3>2, <3>3
  <2>4. ASSUME dft # {} PROVE Min(dft) = Min(with)
    <3> DEFINE d == Min(DOMAIN tlb_site)
    <3>1. d \in with /\ dft = {d}
      BY <2>4
    <3>2. \A x \in DOMAIN tlb_site : d <= x
      BY <1>1, <3>1, LeastNat
    <3> HIDE DEF d, dft
    <3>3. \A x \in with : (\A y \in with : x <= y) <=> x = d
      BY <1>1, <3>1, <3>2
    <3>4. Min(with) = d
      BY <3>1, <3>3 DEF Min
    <3>5. Min(dft) = d
      BY <1>1, <3>1 DEF Min
    <3> QED
      BY <3>4, <3>5
  <2> HIDE DEF own, dft, with
  <2>5. n = m
    <3>1. CASE own # {}
      BY <3>1
    <3>2. CASE own = {} /\ dft # {}
      BY <2>4, <3>2
    <3>3. CASE own = {} /\ dft = {}
      BY <3>3
    <3> QED
      BY <3>1, <3>2, <3>3
  <2> USE DEF with
  <2> QED
    BY <1>4, <2>1, <2>2, <2>3, <2>5
<1> QED
  BY <1>5, <1>6

(* PublishTlb, when nobody disturbed it between its SELECTs and the reload *)
(* of nginx, ends with every request going where the tables send it.       *)
THEOREM UndisturbedPublishIsServed == SiteSpec => UndisturbedPublish
<1> DEFINE Step == \A o \in quiet : (At(o, "reload") /\ nginx.up /\ call'[o] = Idle) =>
                     \A h \in Hosts \cup {TlsHost}, p \in {Trimmed(q) \o <<"x">> : q \in PathInputs} :
                        Served(nginx'.conf, h, p) = Expected(h, p)
<1>1. SiteInv /\ [SiteNext]_siteVars => [Step]_tlbVars
  <2> SUFFICES ASSUME SiteInv, [SiteNext]_siteVars, NEW o \in quiet, At(o, "reload"), nginx.up, call'[o] = Idle
               PROVE  Fits(nginx'.conf)
    BY FitsServes DEF SiteInv
  <2>1. /\ o \in Callers /\ Fits(generated) /\ Accepts(generated) /\ generated # Absent /\ etc = generated
        /\ call[o] # Idle /\ call[o].at = "reload" /\ DOMAIN call = Callers
    <3>1. call[o].at = "reload" /\ Undisturbed(o) /\ DOMAIN call = Callers
      BY DEF SiteInv, Calm, At, Shape
    <3>2. AcceptsWith(generated, live) /\ Fits(generated) /\ etc = generated /\ o \in Callers
      BY <3>1 DEF Undisturbed, At
    <3>3. Accepts(generated) /\ generated # Absent
      BY <3>2, Zenon DEF Accepts, AcceptsWith
    <3>4. Idle.at = "idle"
      BY DEF Idle
    <3> QED
      BY <3>1, <3>2, <3>3, <3>4
  <2>2. call' # call
    BY <2>1
  <2>3. CASE StartPlatform
    BY <2>1, <2>3 DEF StartPlatform
  <2>4. CASE StartTlb
    <3>1. etc' = generated /\ nginx' = (IF Accepts(etc') THEN Runs(etc') ELSE Down)
      BY <2>1, <2>4, Zenon DEF StartTlb
    <3>2. Accepts(etc')
      BY <2>1, <3>1
    <3> QED
      BY <2>1, <3>1, <3>2 DEF Runs
  <2>5. ASSUME NEW q \in Callers, q # o, NEW x, Moved(q, x) PROVE FALSE
    BY <2>1, <2>5 DEF Moved
  <2>6. ASSUME NEW q \in Callers, q # o, NEW x, call' = [call EXCEPT ![q] = x] PROVE FALSE
    BY <2>1, <2>5, <2>6 DEF Moved
  <2>7. ASSUME NEW q \in Callers, Asks(q) PROVE FALSE
    <3>1. call[q] = Idle
      BY <2>7, Zenon DEF Asks
    <3>2. ASSUME NEW x, call' = [call EXCEPT ![q] = x] PROVE FALSE
      BY <2>1, <2>6, <3>1, <3>2
    <3>3. ~PublishTlb(q)
      BY <3>2, Zenon DEF PublishTlb, Begin
    <3>4. \A n, h : ~CreateTlbSite(q, n, h)
      BY <2>2, Zenon DEF CreateTlbSite
    <3>5. Began(q)
      BY <2>7, <3>3, <3>4, Asking DEF SiteInv
    <3> QED
      BY <2>1, <2>5, <3>1, <3>5 DEF Began
  <2>8. ASSUME NEW q \in Callers, q # o, Steps(q) PROVE FALSE
    <3>1. \E x : call' = [call EXCEPT ![q] = x]
      BY <2>8, Zenon DEF Steps, WriteSite, DeleteRoutes, DeleteSite, InsertRoute, WriteRoute, RemoveRoute, ReadRoutes,
         cat, Written, Tested, Copied, Reload, Return, Goto
    <3> QED
      BY <2>6, <2>8, <3>1
  <2>9. CASE Steps(o)
    <3>1. Reload(o)
      BY <2>1, <2>9 DEF Steps, At, WriteSite, DeleteRoutes, DeleteSite, InsertRoute, WriteRoute, RemoveRoute, ReadRoutes,
         cat, Written, Tested, Copied
    <3> QED
      BY <2>1, <3>1 DEF Reload, Reloaded, Runs
  <2>10. CASE TlbNext
    BY <2>3, <2>4, <2>7, <2>8, <2>9, <2>10, Zenon DEF TlbNext
  <2>11. ~RenewNext /\ ~UNCHANGED siteVars
    BY <2>2, Zenon DEF RenewNext, RenewStep, issue_missing, Issued, renew_all, Renewed, CheckFlag, reload_tlb, Wake, RenewDies,
       Outside, siteVars, tlbVars
  <2> QED
    BY <2>10, <2>11 DEF SiteNext
<1> QED
  BY <1>1, SiteInvariant, PTL DEF SiteSpec, UndisturbedPublish
=============================================================================
