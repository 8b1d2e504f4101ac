\* One placement about to start: the student logs, the employer reviews, and
\* people move the placement on, two calls at a time.
SPECIFICATION Spec
CONSTANTS
    App = {a1}
    Entry = {e1, e2}
    Week = {w1, w2}
    Source = {wage}
    Wage = wage
    Closed = {}
    Draw = {d1}
    Unplaced = unplaced
    Amount = {1}
    Allocation = {1}
    Ineligible = {}
    Start = "unsubsidized"
    Call = {c1, c2}
    Handlers = {"transition", "override", "log", "review"}
    MaxVersion = 7
    MaxFundVersion = 7
SYMMETRY Interchangeable
INVARIANTS
    CachedHoursMatchEntries
    OneLiveClaimPerWeek
    CompletedWeeksAreReviewed
PROPERTIES
    AtomicSpec
    HoursOnlyWhileActive
    ReviewIsFinal
CHECK_DEADLOCK FALSE
