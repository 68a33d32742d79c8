SPECIFICATION FairSpec
CONSTANTS
    Machines = {"rename", "copies", "compress", "extract", "convert", "launch", "session",
                "dock", "config", "toml", "chords", "settings", "memory", "places", "volumes", "waste",
                "offer", "mime", "icons", "picker"}
    \* of WatchWindow
    WatchedNames = {"a", "b", "c"}
    WatchedBurst = 3
    WatchedEvents = 4
    \* of Finder
    FindQueries = {"", "a"}
    FindTree = {"r", ".git", "d"}
    FindSkipped = {".git"}
    FindHits <- SomeHits
    FindLimit = 3
    FindSearches = 3
    \* of QuickLook
    PreviewFiles = {"f", "g"}
    PreviewErrors = {"g"}
    PreviewFolders = {"f"}
    PreviewsKept = 1
    PreviewLoads = 2
    PreviewEdits = 1
    \* of PreviewPages
    FileKinds <- SomeKinds
    LargeFiles = {"big"}
    LockedFiles = {"gone"}
    MovingFiles = {"gif"}
    DocumentPages <- SomePages
    PdfPlugin = TRUE
    ZoomSteps = 1
    PageRequests = 4
    \* of KeyDispatch
    KeyLetters = {"g", "h"}
    KeyActions = {"lead", "all", "short", "long", "other"}
    KeyDefaults <- DefaultKeys
    KeyFiles <- HotkeyFiles
    \* of Questions
    AskPanels = {1, 2}
    AskFolders = {"x", "y"}
    AskNames = {"a", "new"}
    AskInside <- Inside
    AskVolumes <- Volumes
    AskConfigs <- Settled
    AskBegun = {"selection"}
    AskFiles = 2
    AskShown = 2
    \* of InstanceLaunch
    Launched = {"p", "q", "s"}
    LaunchedAlone = {}
    LaunchedByBus = {"s"}
    LaunchedOld = {"q"}
    LaunchKills = 1
    \* of DefaultOffer
    OfferChanges = 3
    OfferMakes = 2
    \* of MimeApps
    MimeApplications = {"panefile", "files"}
    MimeUs = "panefile"
    MimeLists <- ByPrecedence
    MimeUserFile = "user"
    MimeUserLists = {"desktop", "user", "data"}
    MimeChanges = 1
    MimeEntries = 1
    \* of PanelSelection
    PanelRows <- ThreeRows
    DottedRows = {"b"}
    NoRow = ""
    RowLosses = 1
    \* of Thumbnails
    ThumbRequests = 2
    ThumbEdits = 2

    
    
    
    
    
    
PROPERTIES
    
    LaunchesEnd
\* A machine may come to its end.
CHECK_DEADLOCK FALSE
