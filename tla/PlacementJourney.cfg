\* An application from submission to the end, its student not eligible, two
\* people moving it at a time.
SPECIFICATION Spec
CONSTANTS
    App = {a1}
    Entry = {}
    Week = {}
    Source = {wage}
    Wage = wage
    Closed = {}
    Draw = {}
    Unplaced = unplaced
    Amount = {}
    Allocation = {3}
    Ineligible = {a1}
    Start = "submitted"
    Call = {c1, c2}
    Handlers = {"transition", "override"}
    MaxVersion = 11
    MaxFundVersion = 11
SYMMETRY Interchangeable
INVARIANTS
    IneligibleNeedsOverride
PROPERTIES
    FunnelNeverShrinks
    StatusFollowsTable
CHECK_DEADLOCK FALSE
