INIT McInit
NEXT McNext
CONSTANTS
    a = a
    b = b
    c = c
    Listings = {a, b, c}
    NoListing = none
    Listing <- McListing
    Questions <- McQuestions
    Passages <- McPassages
    Drafts <- McDrafts
    Forced = FALSE
    v = v
    w = w
    Products = {1, 2, 3}
    Contribution <- McContribution
    Weight <- McWeight
    ArmLimit = 3
    FusedLimit = 2
    Searches = {1, 2}
    SearchRequests <- McRequests
    Queries <- McQueries
    Vectors = {v, w}
    NoVector = novector
    Embeddings <- McEmbeddings
    FtsTiers <- McFts
    FuzzyTiers <- McFuzzy
    Nearness <- McNearness
    Identities <- McIdentities
    NamedSkus <- McNamed
    CacheSize = 1
    RerankRequired = FALSE
    Terms <- McTerms
    CatalogLexemes = {"cancel"}
    CatalogSurface = {"canceling"}
    MaxMishaps = 2
    MaxMade = 5
    PartNames <- McPartNames
CHECK_DEADLOCK FALSE
INVARIANTS
    SynthesisTypeOK
    OnlySupportedRecommended
    OneListingPerProduct
    DeliveredIsCited
    ReceiptJudgesTheAnswer
    GrantIsWhole
    RerankAllOrNothing
    FusionRespectsArms
    CoverageIsHonest
    HandOffIsOfThisRepair
    DoneMeansUploaded
    PublishedIsOneBuild
PROPERTIES
    RepeatsShareAVector
    EditsSurvive
