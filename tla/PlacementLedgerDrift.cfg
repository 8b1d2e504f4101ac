\* The sponsor draws on the wage fund for a placement the board then authorizes.
SPECIFICATION Spec
CONSTANTS
    App = {a1}
    Entry = {}
    Week = {}
    Source = {wage}
    Wage = wage
    Closed = {}
    Draw = {d1, d2}
    Unplaced = unplaced
    Amount = {1, 2}
    Allocation = {3}
    Ineligible = {}
    Start = "cleared"
    Call = {c1, c2}
    Handlers = {"authorize", "commit"}
    MaxVersion = 3
    MaxFundVersion = 3
SYMMETRY Interchangeable
INVARIANTS
    AuthorizationMatchesLedger
CHECK_DEADLOCK FALSE
