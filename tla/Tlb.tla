-------------------------------- MODULE Tlb --------------------------------
(***************************************************************************)
(* TLB (platform/server/tlb.go): sites and routes in two tables, calls     *)
(* that read a site by name and then write by its id, and PublishTlb,      *)
(* which reads both tables, renders an nginx configuration and has it      *)
(* tested, copied and loaded inside the tlb container.  No two statements  *)
(* of a call are in a transaction and nothing keeps two calls apart.       *)
(*                                                                         *)
(* A path is a sequence of segments and a host a label in a zone.  The     *)
(* order of the locations of a server is left out: nginx takes the longest *)
(* prefix.                                                                 *)
(***************************************************************************)
EXTENDS Integers, Sequences, FiniteSets, SequencesExt

CONSTANTS
    Callers,      \* who calls the platform's TLB operations
    Console,      \* the name of the site there is at the start
    Zone,         \* tlbZone
    HostInputs,   \* what a caller may give as host: <<>>, <<label>> or <<label, zone>>
    NameInputs,   \* what a caller may give as a site's name: <<>> or <<label>>
    RouteNames,   \* and as a route's
    BadHosts,     \* hosts that pass the checks and that nginx refuses (too long for its table)
    PathInputs,   \* what a caller may give as path, "" a doubled or trailing /
    Targets,
    Seeds,        \* the routes of an empty installation: records [name, path, target]
    FirstKept,    \* platform-connect: every later start puts it back, before it moves old routes
    KeptSeeds,    \* home, board and common-static: every start puts them back, after that
    Legacy,       \* per name of a route: the paths it is moved from and to (migrateTlbMinikite),
                  \* and the targets it had and gets
    TlsHost,      \* TLB_TLS_NAME
    OldSites,     \* further sites made before: a sequence of records [name, host]
    OldRoutes,    \* and routes made before: a sequence of rows
    MaxSite,      \* bound: sites ever made
    MaxRoute,     \* bound: routes ever made
    MaxTlb        \* bound: calls, starts of the platform and of the container

ASSUME TlbAssumption == OldSites \in Seq(Range(OldSites))

VARIABLES
    tlb_site, tlb_route,   \* the tables: id -> row
    nextSite, nextRoute,   \* AUTO_INCREMENT
    generated,             \* /generated/nginx.conf, on a volume
    etc,                   \* /etc/nginx/nginx.conf
    nginx,                 \* what runs
    live,                  \* per host: how often its certificate was written, 0 if there is none
    call,                  \* what each caller is at
    quiet,                 \* history: publishers whom nobody has disturbed since they began
    refused,                \* history: configurations of which nginx -t has said no
    tlbUsed                \* how much of MaxTlb is used

tables  == <<tlb_site, tlb_route, nextSite, nextRoute>>
box     == <<generated, etc, nginx>>
tlbVars == <<tables, box, live, call, quiet, refused, tlbUsed>>

(* A configuration has at most one server for each site, by the site's id, *)
(* in the order of the ids.                                                *)
Absent == <<[id |-> -1]>>   \* no file
Torn   == <<[id |-> 0]>>    \* part of a configuration, or of two
Down   == [up |-> FALSE]
Idle   == [at |-> "idle"]
Hosts  == {<<l, Zone>> : l \in UNION {Range(n) : n \in NameInputs \cup HostInputs}}

-----------------------------------------------------------------------------
(* Input. *)

(* checkTlbPath: trailing slashes are dropped, a doubled one is refused. *)
Trimmed(p) == IF p # <<>> /\ Last(p) = "" THEN Front(p) ELSE p
PathOk(p)  == "" \notin Range(Trimmed(p))

(* tlbSiteFromInput: the host that is given, or a label of the zone; the   *)
(* name that is given, or the host's first label.                          *)
tlbHost(l) == <<l, Zone>>
SiteInputOk(name, host) == name # <<>> \/ host # <<>>
SiteName(name, host)    == IF name # <<>> THEN name[1] ELSE host[1]
SiteHost(name, host)    == CASE host = <<>>     -> tlbHost(name[1])
                             [] Len(host) = 1   -> tlbHost(host[1])
                             [] OTHER           -> host

-----------------------------------------------------------------------------
(* Rendering. *)

tlbTLSOn == live[TlsHost] > 0

(* tlbSiteTLSDir: the site's own certificate if there is one. *)
tlbSiteTLSDir(host) == IF host \in DOMAIN live /\ live[host] > 0 THEN host ELSE TlsHost

(* loadTlb: the sites of the first SELECT with the routes of the second;   *)
(* routes of other sites are skipped.                                      *)
RoutesOf(i, rows) == {rows[r] : r \in {q \in DOMAIN rows : rows[q].site = i}}

loadTlbFirst(sites, rows) ==
    [i \in DOMAIN sites |->
        [host |-> sites[i].host,
         routes |-> RoutesOf(i, rows)
                    \cup IF i = Min(DOMAIN sites)
                         THEN {rows[r] : r \in {q \in DOMAIN rows : rows[q].site \notin DOMAIN sites}} ELSE {}]]

loadTlb(sites, rows) == [i \in DOMAIN sites |-> [host |-> sites[i].host, routes |-> RoutesOf(i, rows)]]

(* A site's server; that of the first site is the default one. *)
Block(sites, i) ==
    [host |-> sites[i].host, default |-> i = Min(DOMAIN sites), routes |-> sites[i].routes,
     dir |-> IF tlbTLSOn THEN tlbSiteTLSDir(sites[i].host) ELSE <<>>]

renderTlbNginxEmpty(sites) == [i \in DOMAIN sites |-> Block(sites, i)]

(* renderTlbNginx: a server for every site that has routes. *)
renderTlbNginx(sites) == [i \in {n \in DOMAIN sites : sites[n].routes # {}} |-> Block(sites, i)]

(* External, nginx: what it accepts, and where it sends a request: to the  *)
(* server of the host or else to the default one, there to the longest     *)
(* location; tlbStrip takes the location's path off.                       *)
Accepts(conf) ==
    /\ conf \notin {Absent, Torn}
    /\ \A n \in DOMAIN conf :
          /\ conf[n].host \notin BadHosts
          /\ conf[n].dir # <<>> => live[conf[n].dir] > 0
          /\ \A r, s \in conf[n].routes : r.path = s.path => r = s

Nowhere == [target |-> "404"]

LongestOf(routes, path) ==
    LET fit == {r \in routes : IsPrefix(r.path, path)}
    IN  IF fit = {} THEN Nowhere
        ELSE LET r == CHOOSE r \in fit : \A s \in fit : Len(s.path) <= Len(r.path)
             IN  [target |-> r.target, path |-> SubSeq(path, Len(r.path) + 1, Len(path))]

Served(conf, host, path) ==
    LET own == {n \in DOMAIN conf : conf[n].host = host}
        dft == {n \in DOMAIN conf : conf[n].default}
        n   == Min(IF own # {} THEN own ELSE IF dft # {} THEN dft ELSE DOMAIN conf)
    IN  IF DOMAIN conf = {} THEN Nowhere ELSE LongestOf(conf[n].routes, path)

Runs(conf) == [up |-> TRUE, conf |-> conf, certs |-> live]

-----------------------------------------------------------------------------
(* The statements. *)
SiteIds(name) == {i \in DOMAIN tlb_site : tlb_site[i].name = name}
HostFree(host, i) == \A j \in DOMAIN tlb_site \ {i} : tlb_site[j].host # host
PathFree(rows, site, path, r) == \A q \in DOMAIN rows \ {r} : rows[q].site = site => rows[q].path # path

Row(site, name, path, target) == [site |-> site, name |-> name, path |-> path, target |-> target]
With(f, i, row)  == [j \in DOMAIN f \cup {i} |-> IF j = i THEN row ELSE f[j]]
Without(f, S)    == [j \in DOMAIN f \ S |-> f[j]]

Spend   == tlbUsed < MaxTlb /\ tlbUsed' = tlbUsed + 1
Begin(o, step) == call[o] = Idle /\ Spend /\ call' = [call EXCEPT ![o] = step]
At(o, at)      == call[o].at = at
Return(o)      == call' = [call EXCEPT ![o] = Idle]
Goto(o, step)  == call' = [call EXCEPT ![o] = step]

(* o changes what a publisher reads or writes. *)
Disturbs(o) == quiet' = quiet \cap {o}

-----------------------------------------------------------------------------
(* The calls.  One that is refused, by a check, by getTlbSite or by a      *)
(* unique key, changes nothing and is left out when it does so at once.    *)

CreateTlbSite(o, name, host) ==
    LET n == SiteName(name, host)
        h == SiteHost(name, host)
    IN  /\ call[o] = Idle /\ Spend
        /\ SiteInputOk(name, host)
        /\ nextSite <= MaxSite
        /\ SiteIds(n) = {} /\ HostFree(h, 0)
        /\ tlb_site' = With(tlb_site, nextSite, [name |-> n, host |-> h])
        /\ nextSite' = nextSite + 1
        /\ Disturbs(o)
        /\ UNCHANGED <<tlb_route, nextRoute, box, live, call, refused>>

(* getTlbSite, in every call that follows: the name gives the id. *)
OfSite(o, name, step) ==
    \E i \in SiteIds(name) : Begin(o, [step EXCEPT !.site = i]) /\ UNCHANGED <<tables, box, live, quiet, refused>>

UpdateTlbSite(o, name, host) ==
    /\ host # <<>>
    /\ OfSite(o, name, [at |-> "site host", site |-> 0, host |-> SiteHost(<<name>>, host)])

WriteSite(o) ==
    /\ At(o, "site host")
    /\ LET i == call[o].site
       IN  tlb_site' = IF i \in DOMAIN tlb_site /\ HostFree(call[o].host, i)
                       THEN [tlb_site EXCEPT ![i].host = call[o].host] ELSE tlb_site
    /\ Return(o) /\ Disturbs(o)
    /\ UNCHANGED <<tlb_route, nextSite, nextRoute, box, live, refused, tlbUsed>>

DeleteTlbSite(o, name) == OfSite(o, name, [at |-> "delete routes", site |-> 0])

DeleteRoutes(o) ==
    /\ At(o, "delete routes")
    /\ tlb_route' = Without(tlb_route, {r \in DOMAIN tlb_route : tlb_route[r].site = call[o].site})
    /\ Goto(o, [call[o] EXCEPT !.at = "delete site"]) /\ Disturbs(o)
    /\ UNCHANGED <<tlb_site, nextSite, nextRoute, box, live, refused, tlbUsed>>

DeleteSite(o) ==
    /\ At(o, "delete site")
    /\ tlb_site' = Without(tlb_site, {call[o].site})
    /\ Return(o) /\ Disturbs(o)
    /\ UNCHANGED <<tlb_route, nextSite, nextRoute, box, live, refused, tlbUsed>>

(* tlbRouteName: the name that is given, or the path. *)
tlbRouteName(name, path) == IF name # <<>> THEN name[1] ELSE IF path = <<>> THEN "root" ELSE path[1]

CreateTlbRoute(o, site, name, path, target) ==
    /\ PathOk(path)
    /\ LET p == Trimmed(path)
       IN  OfSite(o, site, [at |-> "insert route", site |-> 0, name |-> tlbRouteName(name, p), path |-> p, target |-> target])

InsertRoute(o) ==
    LET c == call[o] IN
    /\ At(o, "insert route")
    /\ IF PathFree(tlb_route, c.site, c.path, 0) /\ nextRoute <= MaxRoute
       THEN /\ tlb_route' = With(tlb_route, nextRoute, Row(c.site, c.name, c.path, c.target))
            /\ nextRoute' = nextRoute + 1
       ELSE UNCHANGED <<tlb_route, nextRoute>>
    /\ Return(o) /\ Disturbs(o)
    /\ UNCHANGED <<tlb_site, nextSite, box, live, refused, tlbUsed>>

UpdateTlbRoute(o, site, r, name, path, target) ==
    /\ PathOk(path)
    /\ LET p == Trimmed(path)
       IN  OfSite(o, site, [at |-> "update route", site |-> 0, id |-> r, name |-> tlbRouteName(name, p), path |-> p, target |-> target])

WriteRoute(o) ==
    LET c == call[o] IN
    /\ At(o, "update route")
    /\ tlb_route' = IF /\ c.id \in DOMAIN tlb_route /\ tlb_route[c.id].site = c.site
                       /\ PathFree(tlb_route, c.site, c.path, c.id)
                    THEN [tlb_route EXCEPT ![c.id] = Row(c.site, c.name, c.path, c.target)] ELSE tlb_route
    /\ Return(o) /\ Disturbs(o)
    /\ UNCHANGED <<tlb_site, nextSite, nextRoute, box, live, refused, tlbUsed>>

DeleteTlbRoute(o, site, r) == OfSite(o, site, [at |-> "delete route", site |-> 0, id |-> r])

RemoveRoute(o) ==
    LET c == call[o] IN
    /\ At(o, "delete route")
    /\ tlb_route' = Without(tlb_route, {r \in DOMAIN tlb_route : r = c.id /\ tlb_route[r].site = c.site})
    /\ Return(o) /\ Disturbs(o)
    /\ UNCHANGED <<tlb_site, nextSite, nextRoute, box, live, refused, tlbUsed>>

-----------------------------------------------------------------------------
(* PublishTlb: the first SELECT, the second, and in the container cat,     *)
(* which empties the file and then writes it, nginx -t, cp and the reload. *)
(* One publisher that begins disturbs the others.                          *)

PublishTlb(o) ==
    /\ Begin(o, [at |-> "routes", sites |-> tlb_site])
    /\ quiet' = {p \in {o} : \A q \in Callers : call[q] = Idle}
    /\ UNCHANGED <<tables, box, live, refused>>

ReadRoutes(o) ==
    /\ At(o, "routes")
    /\ LET sites == loadTlb(call[o].sites, tlb_route)
           some  == \E i \in DOMAIN sites : sites[i].routes # {}
       IN  Goto(o, IF some THEN [at |-> "cat", conf |-> renderTlbNginx(sites)] ELSE Idle)
    /\ UNCHANGED <<tables, box, live, quiet, refused, tlbUsed>>

cat(o) ==
    /\ At(o, "cat")
    /\ generated' = Torn
    /\ Goto(o, [call[o] EXCEPT !.at = "write"]) /\ Disturbs(o)
    /\ UNCHANGED <<tables, etc, nginx, live, refused, tlbUsed>>

(* Two that write at the same time may leave a mix of both. *)
Written(o) ==
    /\ At(o, "write")
    /\ generated' \in {call[o].conf} \cup {Torn : q \in {q \in Callers \ {o} : At(q, "write")}}
    /\ Goto(o, [at |-> "test"]) /\ Disturbs(o)
    /\ UNCHANGED <<tables, etc, nginx, live, refused, tlbUsed>>

Tested(o) ==
    /\ At(o, "test")
    /\ IF Accepts(generated)
       THEN Goto(o, [at |-> "copy"]) /\ UNCHANGED refused
       ELSE Return(o) /\ refused' = refused \cup {generated}
    /\ UNCHANGED <<tables, box, live, quiet, tlbUsed>>

Copied(o) ==
    /\ At(o, "copy")
    /\ etc' = generated
    /\ Goto(o, [at |-> "reload"]) /\ Disturbs(o)
    /\ UNCHANGED <<tables, generated, nginx, live, refused, tlbUsed>>

(* nginx -s reload: a configuration that does not load leaves the old one. *)
Reloaded == IF nginx.up /\ Accepts(etc) THEN Runs(etc) ELSE nginx

Reload(o) ==
    /\ At(o, "reload")
    /\ nginx' = Reloaded
    /\ Return(o) /\ Disturbs(o)
    /\ UNCHANGED <<tables, generated, etc, live, refused, tlbUsed>>

-----------------------------------------------------------------------------
(* seedTlb, at every start of the platform. *)

(* INSERT IGNORE, one after the other. *)
Inserted(rows, id, site, rs) ==
    LET new == SetToSeq({s \in rs : PathFree(rows, site, s.path, 0)})
    IN  [r \in DOMAIN rows \cup {id + n - 1 : n \in DOMAIN new} |->
            IF r \in DOMAIN rows THEN rows[r]
            ELSE LET s == new[r - id + 1] IN Row(site, s.name, s.path, s.target)]

(* migrateTlbMinikite and its like: an UPDATE of the path, which a         *)
(* duplicate undoes as a whole, and one of the target, for each name.      *)
Migrated(n, rows) ==
    LET l == Legacy[n]
        moved == [r \in DOMAIN rows |-> IF rows[r].name = n /\ rows[r].path \in l.from
                                        THEN [rows[r] EXCEPT !.path = l.to] ELSE rows[r]]
        kept == IF \A r \in DOMAIN moved : PathFree(moved, moved[r].site, moved[r].path, r) THEN moved ELSE rows
    IN  [r \in DOMAIN rows |-> IF kept[r].name = n /\ kept[r].target \in l.old
                               THEN [kept[r] EXCEPT !.target = l.new] ELSE kept[r]]

After(next, rows) == Max({next - 1} \cup DOMAIN rows) + 1

(* No site: the console's is made.  Its routes are the seeds when the      *)
(* table of routes is empty, routes without a site counted.                *)
seedTlb ==
    LET sites == IF tlb_site = <<>> THEN With(tlb_site, nextSite, [name |-> Console, host |-> TlsHost]) ELSE tlb_site
        named == {i \in DOMAIN sites : sites[i].name = Console}
        home  == Min(IF named # {} THEN named ELSE DOMAIN sites)
        rows  == Inserted(tlb_route, nextRoute, home, IF tlb_route = <<>> THEN Seeds ELSE FirstKept)
        moved == FoldSet(Migrated, rows, DOMAIN Legacy)
        all   == Inserted(moved, After(nextRoute, moved), home, KeptSeeds)
    IN  /\ tlb_site' = sites
        /\ nextSite' = After(nextSite, sites)
        /\ tlb_route' = all
        /\ nextRoute' = After(nextRoute, all)
        /\ nextSite' <= MaxSite + 1 /\ nextRoute' <= MaxRoute + 1

(* The platform is started anew: its calls are gone, and what runs in the  *)
(* container goes on there.                                                *)
StartPlatform ==
    /\ Spend
    /\ seedTlb
    /\ call' = [o \in Callers |-> IF call[o].at \in {"test", "copy", "reload"} THEN call[o] ELSE Idle]
    /\ quiet' = {}
    /\ UNCHANGED <<box, live, refused>>

(* docker-entrypoint.sh: the generated file, if there is one, is what      *)
(* nginx starts with.  Commands in the old container are gone.             *)
StartTlb ==
    /\ Spend
    /\ etc' = IF generated # Absent THEN generated ELSE etc
    /\ nginx' = IF Accepts(etc') THEN Runs(etc') ELSE Down
    /\ call' = [o \in Callers |-> IF call[o].at \in {"cat", "write", "test", "copy", "reload"} THEN Idle ELSE call[o]]
    /\ quiet' = {}
    /\ UNCHANGED <<tables, generated, live, refused>>

-----------------------------------------------------------------------------
(* The platform has been started and sites have been made, and nothing has *)
(* been published yet: nginx runs the image's configuration, that of the   *)
(* seeds.                                                                  *)
TlbInit ==
    LET seeded == Inserted(<<>>, 1, 1, Seeds)
    IN  /\ tlb_site = <<[name |-> Console, host |-> TlsHost]>> \o OldSites
        /\ tlb_route = seeded \o OldRoutes
        /\ nextSite = Len(OldSites) + 2
        /\ nextRoute = Len(OldRoutes) + Cardinality(Seeds) + 1
        /\ live = [h \in Hosts \cup {TlsHost} |-> IF h = TlsHost THEN 1 ELSE 0]
        /\ generated = Absent
        /\ etc = <<[host |-> TlsHost, default |-> TRUE, dir |-> <<>>, routes |-> Range(seeded)]>>
        /\ nginx = [up |-> TRUE, conf |-> etc, certs |-> live]
        /\ call = [o \in Callers |-> Idle]
        /\ quiet = {} /\ refused = {} /\ tlbUsed = 0

Steps(o) ==
    \/ WriteSite(o) \/ DeleteRoutes(o) \/ DeleteSite(o) \/ InsertRoute(o) \/ WriteRoute(o) \/ RemoveRoute(o)
    \/ ReadRoutes(o) \/ cat(o) \/ Written(o) \/ Tested(o) \/ Copied(o) \/ Reload(o)

SiteNames == {SiteName(n, h) : n \in NameInputs, h \in HostInputs \ {<<>>}}

Asks(o) ==
    /\ call[o] = Idle /\ tlbUsed < MaxTlb
    /\ \/ \E n \in NameInputs, h \in HostInputs : CreateTlbSite(o, n, h)
       \/ PublishTlb(o)
       \/ \E s \in SiteNames :
             \/ \E h \in HostInputs : UpdateTlbSite(o, s, h)
             \/ DeleteTlbSite(o, s)
             \/ \E n \in RouteNames, p \in PathInputs, t \in Targets :
                   \/ CreateTlbRoute(o, s, n, p, t)
                   \/ \E r \in DOMAIN tlb_route : UpdateTlbRoute(o, s, r, n, p, t)
             \/ \E r \in DOMAIN tlb_route : DeleteTlbRoute(o, s, r)

TlbNext == StartPlatform \/ StartTlb \/ \E o \in Callers : Asks(o) \/ Steps(o)

-----------------------------------------------------------------------------
(* Properties. *)

(* Where the tables send a request: to the site of the host, or to the     *)
(* first that has routes, and there to the longest path.                   *)
Expected(host, path) ==
    LET with == {i \in DOMAIN tlb_site : RoutesOf(i, tlb_route) # {}}
        own  == {i \in with : tlb_site[i].host = host}
        i    == Min(IF own # {} THEN own ELSE with)
    IN  IF with = {} THEN Nowhere ELSE LongestOf(RoutesOf(i, tlb_route), path)

(* A publish that nobody has disturbed, by a call or by another publish    *)
(* between its two SELECTs or in the container, ends with nginx sending    *)
(* every request where the tables say, with the path of the route taken    *)
(* off.                                                                    *)
UndisturbedPublish ==
    [][\A o \in quiet : (At(o, "reload") /\ nginx.up /\ call'[o] = Idle) =>
          \A h \in Hosts \cup {TlsHost}, p \in {Trimmed(q) \o <<"x">> : q \in PathInputs} :
              Served(nginx'.conf, h, p) = Expected(h, p)]_tlbVars

(* A route that is inserted while its site is deleted stays in the table   *)
(* without a site; nginx never gets it in the server of another site.      *)
RoutesOfOwnSite ==
    nginx.up => \A n \in DOMAIN nginx.conf : \A r \in nginx.conf[n].routes : r.site = n

(* docs/news-site.md:97: what nginx -t refuses on a publish does not take  *)
(* effect.                                                                 *)
RefusedHasNoEffect == etc \notin refused
=============================================================================
