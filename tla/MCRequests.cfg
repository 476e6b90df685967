SPECIFICATION FewSpec
CONSTANTS
    None = None
    Sentinel = Sentinel
    Requests <- Carried
    Candidates <- Choices
    Content <- Contents
    MaxFetches = 1
    MaxFetched = 2
    MaxTotal = 4
    MaxAttempts = 2
    MaxReplies = 2
    Asked <- SampleAsked
    Declared <- SampleDeclared
    Names <- SampleNames
    Tags <- SampleTags
    Offers <- SampleOffers
    Listings <- SampleListings
    Catalogues <- SampleCatalogues
    Dev <- SampleDev
    SafeKind = {"azureopenai"}
    Ratio = 2
    MaxRuns = 2
    MaxChanges = 1
    MaxMissing = 1
    Bills <- SampleBills
    Deployments <- SampleDeployments
    Works <- SampleWorks
    Images <- SampleImages
INVARIANTS InputsKept ConversationKept EffortKept  MeteringKept
CHECK_DEADLOCK FALSE
