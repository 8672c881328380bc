CONSTANTS
    Parts = {"hook", "tlb", "certs"}
    Handlers = {h1, h2}
    Main = Main
    MaxPush = 3
    MaxTries = 3
    MaxRestart = 1
    Callers = {o1, o2}
    Console = "c"
    Zone = "z"
    NameInputs <- MCNames
    RouteNames <- MCRoutes
    HostInputs <- MCHosts
    BadHosts <- MCBadHosts
    PathInputs <- MCPaths
    Targets = {"t2"}
    Seeds <- MCSeeds
    FirstKept = {}
    KeptSeeds <- MCKeptSeeds
    Legacy <- MCLegacy
    TlsHost <- MCTls
    OldSites <- MCOldSites
    OldRoutes <- MCOldRoutes
    MaxSite = 3
    MaxRoute = 5
    MaxTlb = 3
    Certs <- MCCerts
    MaxCert = 2
    MaxDie = 1
SPECIFICATION NewsSpec
INVARIANTS SerialPulls NoLostPush RoutesOfOwnSite ReloadOwed
PROPERTIES SiteNeverGoesBack PushServed UndisturbedPublish
CHECK_DEADLOCK FALSE
