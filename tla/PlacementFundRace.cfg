\* The same fund, one allocation that never moves, two commitments at once.
SPECIFICATION Spec
CONSTANTS
    App = {a1}
    Entry = {}
    Week = {}
    Source = {wage}
    Wage = wage
    Closed = {}
    Draw = {d1, d2}
    Unplaced = unplaced
    Amount = {1}
    Allocation = {1}
    Ineligible = {}
    Start = "cleared"
    Call = {c1, c2}
    Handlers = {"authorize", "commit"}
    MaxVersion = 3
    MaxFundVersion = 3
SYMMETRY Interchangeable
PROPERTIES
    PromisesFitTheFund
CHECK_DEADLOCK FALSE
