----------------------------- MODULE CertRenew -----------------------------
(***************************************************************************)
(* cert-renew (projects/cert-renew/renew.py): one loop that has missing    *)
(* certificates issued and others renewed by certbot, and has the nginx of *)
(* the tlb container reload when certbot has left the flag file.           *)
(***************************************************************************)
EXTENDS Tlb

CONSTANTS
    Certs,      \* CERT_DOMAINS: the hosts, the first of each certificate
    MaxCert,    \* bound: how often a certificate is written
    MaxDie      \* bound: how often the container of cert-renew dies

VARIABLES
    flag,       \* /tmp/cert-changed exists
    webroot,    \* renewal/*.conf: the certificates that certbot renews over the webroot
    renew,      \* where the loop is
    dies,
    missed      \* history: a reload was due and did not come

renewVars == <<flag, webroot, renew, dies, missed>>
siteVars  == <<tlbVars, renewVars>>

Outside == <<tables, box, call, quiet, refused, tlbUsed>>

Round(first) == [at |-> "issue", todo |-> {h \in Certs : live[h] = 0}, first |-> first]

RenewInit ==
    /\ flag = FALSE /\ webroot = {} /\ dies = 0 /\ missed = FALSE
    /\ renew = Round(TRUE)

(* certbot, with --deploy-hook: on success the files are new and the flag  *)
(* is there; a failure, or a certificate that is not due, changes nothing. *)
certbotSilent(h, ok) ==
    /\ live' = IF ok THEN [live EXCEPT ![h] = @ + 1] ELSE live
    /\ flag' = (flag \/ (ok /\ live[h] = 0))

certbot(h, ok) ==
    /\ live' = IF ok THEN [live EXCEPT ![h] = @ + 1] ELSE live
    /\ flag' = (flag \/ ok)

issue_missing ==
    /\ renew.at = "issue"
    /\ \E h \in renew.todo, ok \in BOOLEAN :
          /\ certbot(h, ok)
          /\ webroot' = IF ok THEN webroot \cup {h} ELSE webroot
          /\ renew' = [renew EXCEPT !.todo = @ \ {h}]
    /\ UNCHANGED <<Outside, dies, missed>>

(* The first round renews nothing. *)
Issued ==
    /\ renew.at = "issue" /\ renew.todo = {}
    /\ renew' = IF renew.first THEN [at |-> "check"] ELSE [at |-> "renew", todo |-> webroot]
    /\ UNCHANGED <<Outside, live, flag, webroot, dies, missed>>

renew_all ==
    /\ renew.at = "renew"
    /\ \E h \in renew.todo, ok \in BOOLEAN :
          /\ ok => live[h] < MaxCert
          /\ certbot(h, ok)
          /\ renew' = [renew EXCEPT !.todo = @ \ {h}]
    /\ UNCHANGED <<Outside, webroot, dies, missed>>

Renewed ==
    /\ renew.at = "renew" /\ renew.todo = {}
    /\ renew' = [at |-> "check"]
    /\ UNCHANGED <<Outside, live, flag, webroot, dies, missed>>

(* The flag is removed before the reload is tried. *)
CheckFlag ==
    /\ renew.at = "check"
    /\ renew' = [at |-> IF flag THEN "reload" ELSE "sleep"]
    /\ flag' = FALSE
    /\ UNCHANGED <<Outside, live, webroot, dies, missed>>

(* nginx -t, then the reload, when the container is there.  A failure is   *)
(* logged.                                                                 *)
reload_tlb ==
    /\ renew.at = "reload"
    /\ nginx' = Reloaded
    /\ missed' = (missed \/ (nginx.up /\ ~Accepts(etc)))
    /\ renew' = [at |-> "sleep"]
    /\ UNCHANGED <<tables, generated, etc, call, quiet, refused, tlbUsed, live, flag, webroot, dies>>

Wake ==
    /\ renew.at = "sleep"
    /\ renew' = Round(FALSE)
    /\ UNCHANGED <<Outside, live, flag, webroot, dies, missed>>

(* The container dies and is started again, with its files or, when it is  *)
(* made anew, without; certbot may have written a certificate and not yet  *)
(* the flag.                                                               *)
RenewDies ==
    /\ dies < MaxDie
    /\ dies' = dies + 1
    /\ flag' \in {flag, FALSE}
    /\ live' \in {live} \cup {[live EXCEPT ![h] = @ + 1] :
                              h \in {h \in Certs : renew.at \in {"issue", "renew"} /\ h \in renew.todo /\ live[h] < MaxCert}}
    /\ webroot' = webroot \cup {h \in Certs : live'[h] > live[h]}
    /\ renew' = [at |-> "issue", todo |-> {h \in Certs : live'[h] = 0}, first |-> TRUE]
    /\ missed' = (missed \/ renew.at = "reload" \/ live' # live \/ (flag /\ ~flag'))
    /\ UNCHANGED Outside

RenewStep == issue_missing \/ Issued \/ renew_all \/ Renewed \/ CheckFlag \/ reload_tlb \/ Wake

RenewNext == RenewStep \/ RenewDies

(* The loop, and everything that happens to the TLB meanwhile. *)
SiteNext == RenewNext \/ (TlbNext /\ UNCHANGED renewVars)

SiteSpec == TlbInit /\ RenewInit /\ [][SiteNext]_siteVars

(* Of that, what reaches nginx. *)
Operates == StartTlb \/ \E o \in Callers : PublishTlb(o) \/ Steps(o)

-----------------------------------------------------------------------------
(* Properties. *)

Stale == nginx.up /\ \E n \in DOMAIN nginx.conf :
            LET dir == nginx.conf[n].dir IN dir # <<>> /\ nginx.certs[dir] # live[dir]

(* docs/news-site.md: a renewed certificate needs only a reload.  nginx    *)
(* uses an old one only until the loop gets to its reload, whatever is     *)
(* published and whoever is restarted in between, unless the loop died or  *)
(* the reload was refused after the flag was gone: that is not made up     *)
(* for.                                                                    *)
ReloadOwed == Stale => flag \/ renew.at = "reload" \/ missed
=============================================================================
