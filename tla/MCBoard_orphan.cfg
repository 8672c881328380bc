CONSTANTS
    Parts = {"content"}
    Tokens = {t1, t2, t3}
    None = None
    Clients = {c1, c2}
    Types = {"module", "detail", "block"}
    Slugs = {"a", "b"}
    Reserved = {}
    Data = {"d"}
    Versions = {2}
    Paths = {}
    Files = {f}
    InitialTrees <- MCSmallTree
    MaxNodes = 4
    MaxVersions = 2
    DeleteLimit = 100
    MaxCall = 2
    MaxCrash = 0
    Agents = {a1, a2}
    Names = {"k"}
    Columns = {"content", "type"}
    Values = {0, 1}
    Htmls = {0, 1}
    MaxItem = 1
    MaxHtml = 2
    MaxTool = 5
    Readers = {r1}
    Shelf <- MCShelf
    Names3 = {"a", "b", "c", "d"}
    Addresses <- MCAddresses
    BadSegments = {"app.js"}
    Uploads <- MCUploads
    Asked <- MCAsked
    Queries <- MCQueries
    DefaultSize = 1
    MaxSize = 2
    MaxPage = 2
    MaxPageDepth = 2
    MaxShelf = 7
    MaxPrint = 2
    MaxEdit = 3
SPECIFICATION BoardSpec
INVARIANTS NoLiveBelowDeleted
CHECK_DEADLOCK FALSE
