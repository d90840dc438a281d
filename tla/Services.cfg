SPECIFICATION Spec
CONSTANTS
    NULL = NULL
    \* GroupCoordination
    Channels = {"c1", "c2"}
    People = {"p1", "p2", "p3"}
    Requests = {"r1"}
    \* ChatMessages: pages of one message, of which one is sent again
    Conversations = {"v1", "v2"}
    MessageIds = {"m1", "m2"}
    Reported = {"failed"}
    PageLimit = 1
    MaxSends = 4
    MaxRetriesSent = 1
    \* ChatSafety
    Senders = {"d1", "d2"}
    Topics = {"t1", "t2"}
    Abusive = {"t2"}
    MaxMessages = 2
    Window = 1
    MaxDuplicates = 2
    DuplicateWindow = 2
    Threshold = 2
    LastNow = 2
    MaxEvaluations = 3
    \* Scheduling: two shifts; two windows, which no shift reads
    Windows = {"w1", "w2"}
    Shifts = {"f1", "f2"}
    Volunteers = {"d1", "d2"}
    LeadTimes = {1}
    Grace = 1
    LastSlot = 2
    \* Notifications
    Users = {"d1"}
    Types = {"y1"}
    Contexts = {"x1"}
    External = {"email"}
    MaxAttempts = 2
    DedupeWindow = 1
    LastTime = 1
    MaxSent = 2
    MaxReports = 4
    \* Tenancy
    Tenants = {"n1"}
    Regions = {"g1", "g2"}
    Overrides = {"o1", "o2"}
    Residencies = {"region-preferred", "region-locked", "global"}
    UnhealthyThreshold = 2
    HealthyThreshold = 1
    MaxListed = 3
    MaxChecks = 2
    MaxFailovers = 2
    \* ChatRouting
    PostUris = {"q1", "q2"}
    Participants = {1, 2}
    KnownCapability <- NoCapability
    Trusts = {0, 20}
    Checks = {0}
    Urgencies = {"low", "critical"}
    MaxTime = 1
    \* Verification
    Subjects = {"s1"}
    Days <- TierDays
    LastDay = 1
    MaxAudit = 3
    MaxAppeals = 1
    \* Matching
    RequestUris = {"r1"}
    Candidates = {1, 2}
    Scores = {1, 2}
    MaxResults = 3
    MaxRecs = 3
    MaxOverrides = 2
    MaxFeedback = 1
    \* WebShell
    Routes = {"/feed", "/resources"}
    Statuses = {"open"}
    MaxHistory = 2
    MaxInFlight = 2
    \* Discovery
    Posts = {1, 3}
    Resources = {2}
    Submitted <- SomeSubmitted
    Records <- SomeRecords
    Score <- MedicalFirst
    Fixture <- Seed
    Creations = {"c1", "c2"}
    Postgres = TRUE
    LastMs = 2
    MaxRestarts = 1
    \* Settings
    Fields = {"f1", "f2"}
    Values = {0, 1}
    Default <- AllZero
    MaxCalls = 4
    \* Gateway
    Clients = {"i1", "i2", "i3"}
    Limiters = {"auth", "mutation"}
    WindowMs <- TwoWindows
    MaxRequests <- TwoLimits
    RefreshCalls = {"c1", "c2"}
    LastClockMs = 6
    MaxTokens = 4
    \* Organisation
    Orgs = {"o1"}
    Staff = {"p1", "p2", "p3"}
    Services = {"s1"}
    MaxTrail = 5
    \* Inbox: pages of one item
    ItemIds = {1, 2, 3}
    limit = 1
    \* FeedCards
    Fixtures = {}
    Created = {"a", "b"}
    Title <- OneTitle
    Near <- TwoRadii
    StatusFilters = {"closed"}
INVARIANTS
    TypeOK
    GroupsAddUp
    ReaderMissesNothing
    SafetyHolds
    ClashesWereReported
    DeliveriesHold
    RoutesAvoidFailures
    ResourcesComeLast
    AuditExplainsStatus
    RanksArePlaces
    ScreenAgrees
    AcknowledgedAreFound
    SettingsAgree
    GatewayKeepsCount
    TrailExplainsOrganisation
    InboxIsRead
    CardsAgree
    OtherInstancesHold
PROPERTIES
    AuthorityIsGiven
    ConversationsKept
    AnswersStayComplete
    StreamAdvances
CHECK_DEADLOCK FALSE
