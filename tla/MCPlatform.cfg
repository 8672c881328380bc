CONSTANTS
    Parts = {"bam", "compose", "agw"}
    Users = {u1, u2}
    Watcher = Watcher
    Nobody = Nobody
    Modules = {"m1", "m2", "m3", "own"}
    OwnModule = "own"
    Dirs = {"d3"}
    NoDir = "none"
    Refs <- MCRefs
    Main = "main"
    NoBranch = "default"
    Trouble <- MCTrouble
    Bound <- MCBound
    Lists <- MCLists
    HasEs = TRUE
    MaxCommit = 2
    MaxVersion = 3
    MaxEvent = 2
    Ops = {o1, o2}
    Apps = {"go", "img"}
    Label <- MCLabel
    Services = {"m", "x", "w"}
    RootMain = {"m"}
    WorkMain <- MCWorkMain
    Shipped <- MCShipped
    Listed <- MCListed
    Combined = {"x"}
    NoFile = NoFile
    MaxCall = 2
    MaxBad = 1
    Editors = {e1, e2}
    Contracts <- MCContracts
    First = "thrift"
    Empty = "empty"
    Requests <- MCRequests
    MatchedBy <- MCMatchedBy
    Beyond <- MCBeyond
    Room = 24
    MaxOrder = 2
    MaxEdit = 3
    MaxBreak = 1
SPECIFICATION PlatformSpec
SYMMETRY Symmetry
INVARIANTS RevMatchesCommit PullIsOwn RunningIsDefined PublishedIsServed KnownFieldsArrive
PROPERTIES SeenWasTried
\* Commits, calls and faults are bounded.
CHECK_DEADLOCK FALSE
