SPECIFICATION FairServices
CONSTANTS
    Replica = {r1, r2}
    NoReplica = NoReplica
    LeaseTtl = 4
    WorkMax = 2
    UnlockMax = 1
    MaxLeaseFaults = 2
    Slot = {q1, q2}
    MaxRequests = 2
    Window = 2
    RateFaults = {"incr", "pexpire", "pttl", "crash"}
    MaxRateFaults = 5
    Device = {d1}
    Call = {c1, c2}
    Production = TRUE
    MaxTokens = 3
    TokenFaults = {"set", "get", "del", "find", "reply", "crash"}
    MaxTokenFaults = 1
    Request = {a1, a2}
    MaxCodes = 2
    AccountFaults = {"mail", "db", "crash"}
    MaxAccountFaults = 1
    Caller = {p1, p2}
    ResetCode = {"k1", "k2"}
    MaxResetRows = 2
    ResetFaults = {"mail", "db", "crash"}
    MaxResetFaults = 1
    Reader = {v1, v2}
    MaxSaves = 2
    ViewFaults = {"firestore", "get", "set", "del"}
    MaxViewFaults = 1
    Scenario = {s1, s2}
    Editor = {e1, e2}
    Image = {i1, i2}
    NoImage = NoImage
    NoRow = NoRow
    Gone = Gone
    Url <- MCUrl
    Shows <- MCShows
    Names <- MCNames
    MaxImageEdits = 3
    MaxImageFaults = 1
    Sharer = {s1, s2}
    Toggle = {t1, t2}
    ShareCode = {x1, x2}
    NoCode = NoCode
    ShareTries = 2
    MaxShareFaults = 1
    DraftCode = {y1, y2}
    DraftReader = {v1, v2}
    MaxDrafts = 3
    Blocks <- MCBlocks
    Nodes <- MCNodes
    Edges <- MCEdges
    Settings <- MCSettings
    BannerLists <- MCBannerLists
    FirstFiles <- MCFirstFiles
    MaxInteger = 1000000
    MaxEdits = 2
    Item <- MCItem
    First <- MCFirst
    Asked <- MCAsked
    DefaultLimit = 2
    MaxLimit = 3
    MaxListChanges = 2
INVARIANTS
    ServicesTypeOK
    LockedRunsAlone
    AdmissionsBounded
    StaysLoggedIn
    PasswordOfCode
    MailedCodeWorks
    CodeResetsOnce
    LastCodeWorks
    ReadsSeeSaves
    OldBlocksShown
    ShownImageExists
    ReplacedImageGone
    OwnerToldTruth
    DraftsOpen
    CleanFilesSave
    CleanFlowRuns
    NothingHidden
PROPERTIES
    LeaseJobComesRound
    RefusalsEnd
    DeadTokensStayDead
    OpenedStays
    ExportRestores
CHECK_DEADLOCK FALSE
