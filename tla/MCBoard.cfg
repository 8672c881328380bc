CONSTANTS
    Parts = {"tokens", "content", "blocks", "tables", "reads"}
    Tokens = {t1, t2, t3}
    None = None
    Clients = {c1, c2}
    Types = {"module", "detail"}
    Slugs = {"a", "b"}
    Reserved = {}
    Data = {"d"}
    Versions = {2}
    Paths = {"p"}
    Files = {f}
    InitialTrees <- MCInitialTrees
    MaxNodes = 4
    MaxVersions = 2
    DeleteLimit = 100
    MaxCall = 3
    MaxCrash = 1
    Agents = {a1, a2}
    Names = {"k"}
    Columns = {"content", "type"}
    Values = {0, 1}
    Htmls = {0, 1}
    MaxItem = 1
    MaxHtml = 2
    MaxTool = 5
    Readers = {r1}
    Shelf <- MCShelf
    Names3 = {"a", "b", "c"}
    Addresses <- MCAddresses
    BadSegments = {"app.js"}
    Uploads <- MCUploads
    Asked <- MCAsked
    Queries <- MCQueries
    DefaultSize = 1
    MaxSize = 2
    MaxPage = 3
    MaxPageDepth = 2
    MaxShelf = 9
    MaxPrint = 2
    MaxEdit = 3
SPECIFICATION BoardSpec
SYMMETRY Symmetry
INVARIANTS IssuedWorks RefusedNeverWorks UpdatesKept ReadsWhole
PROPERTIES ImplementsTree FlattenKeepsDetails StoreKeepsTree
CHECK_DEADLOCK FALSE
