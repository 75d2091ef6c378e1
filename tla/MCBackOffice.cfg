SPECIFICATION OfficeSpec
CONSTANTS
    Days = {d1}
    Rows = {a1, a2}
    Requests = {q1, q2}
    Calls = {c1, c2}
    NoDay = NoDay
    NoRow = NoRow
    NoRequest = NoRequest
    NoCall = NoCall
    Title = title
    Lines = {x}
    Texts = {t1, t2}
    NoText = NoText
    MaxFields = 2
    Jobs = {j1, j2}
    Names = {n1, n2}
    NoName = NoName
    Owners = {u1, u2}
    Runs = {o1, o2}
    am = am
    custom = custom
    Staff = 2
    LastDay = 2
    Windows = 1
    Types = {am, custom}
    NoType = NoType
    BadType = BadType
    SlotOf <- MCSlot
    HoursOf <- MCHours
    MaxPeriodHours = 3
    MaxNeed = 1
    MaxKept <- MCKept
    Shifts = {s1, s2}
    Workers = {w1, w2}
    Nobody = Nobody
    Tabs = {tab1}
    RunsUnderWay = {r1}
    MaxOffset = 1
    LastMonday = 1
    MaxVersion = 2
    Reviews = {v1, v2, v3}
    MaxApplied = 3
    MaxEvents = 5
    PageSize = 2
    Operators = {g1, g2}
    Roster <- MCRoster
    NoGate = NoGate
    MaxEdits = 1
    Browsers = {b1, b2}
    Marks = {full}
    AutoMark = full
    NoMark = NoMark
    NoStore = NoStore
    MaxDate = 2
    MaxWrites = 2
    People = {h1}
    LineUsers = {l1, l2}
    Desks = {e1, e2}
    NoPerson = NoPerson
    NoUser = NoUser
    MaxTraces = 2
INVARIANT PartTypes
INVARIANT DecisionIsExclusive
INVARIANT AppliedOncePerApproval
INVARIANT ShownIsCurrent
INVARIANT NothingElseLeftBehind
INVARIANT SerialRunsAreExact
INVARIANT DistributionIsExact
INVARIANT DoublesExplained
INVARIANT ProposalAppliedOnce
INVARIANT EventsInOrder
INVARIANT FixtureRoundTrip
INVARIANT GatesStand
INVARIANT StoreCoherent
PROPERTY RejectedStays
PROPERTY LanguageChangeIsConfirmed
PROPERTY ReviewedIsReplacedOnRequest
PROPERTY CommittedIsComplete
PROPERTY SuspensionStands
PROPERTY PublishedStays
PROPERTY PollNeverGoesBack
PROPERTY WritesKeepTheRest
PROPERTY RecordsAreKept
CHECK_DEADLOCK FALSE
