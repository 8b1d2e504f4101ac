\* A sponsor commits money to a placement while, or after, it ends.
SPECIFICATION Spec
CONSTANTS
    App = {a1}
    Entry = {}
    Week = {}
    Source = {wage}
    Wage = wage
    Closed = {}
    Draw = {d1, d2}
    Unplaced = unplaced
    Amount = {1}
    Allocation = {3}
    Ineligible = {}
    Start = "unsubsidized"
    Call = {c1, c2}
    Handlers = {"transition", "commit"}
    MaxVersion = 6
    MaxFundVersion = 6
SYMMETRY Interchangeable
INVARIANTS
    NoDrawOutlivesItsPlacement
CHECK_DEADLOCK FALSE
