SPECIFICATION WorkersSpec
CONSTANTS
    Workers = {w1, w2}
    Events <- MCEvents
    Instances = {"i1"}
    Keep = 1
    MaxDeliveries = 4
    MaxExpiries = 1
    Clients = {w1, w2}
    SpotPools = {p1, p2}
    MaxFlags = 2
    Collectors = {w1, w2}
    Regions = {"a", "b"}
    PricePools = {"a", "b"}
    RegionOf <- MCRegionOf
    Readers = {r1}
    MaxTime = 2
    MaxCollections = 2
    MaxPriceExpiries = 1
    Ratings = {"l1", "w1"}
    Systems = {"linux", "windows"}
    SystemOf <- MCSystemOf
    RatingReaders = {r1}
    MaxPublished = 2
    MaxScrapes = 2
    MaxEvicted = 1
    Utilizations = {0, 20, 26, 27, 35, 49, 50, 53, 54}
    PoolList <- MCPoolList
    Cached <- MCCached
    Histories <- MCHistories
    None = None
    Shells = {w1, w2}
    Commands <- MCCommands
    Ids = {"i1", "i2", "i3"}
    First = "i1"
    Volumes = {"v1", "v2"}
    Zones = {"z1", "z2"}
    Processes = {"Launch"}
    Unset = Unset
    MaxRuns = 3
INVARIANTS
    EventsAreHandled
    RisksAreKnown
    PricesAreExplained
    SelectionIsRanked
    TablesAgree
    PreservedSurvive
    LaunchIsSound
    ReportIsTrue
SYMMETRY Perms
CHECK_DEADLOCK FALSE
