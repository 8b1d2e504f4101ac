\* A cleared application and two funds, one of them closed for the
\* year: the board authorizes, the sponsor commits, releases and sets the
\* allocation, and people move the placement on, two calls at a time, with draws
\* enough to promise more than two calls may.
SPECIFICATION Spec
CONSTANTS
    App = {a1}
    Entry = {e1}
    Week = {w1}
    Source = {wage, old}
    Wage = wage
    Closed = {old}
    Draw = {d1, d2, d3}
    Unplaced = unplaced
    Amount = {1}
    Allocation = {1}
    Ineligible = {}
    Start = "cleared"
    Call = {c1, c2}
    Handlers = {"transition", "override", "authorize", "commit", "release", "adjust"}
    MaxVersion = 4
    MaxFundVersion = 2
SYMMETRY Interchangeable
INVARIANTS
    TypeOK
    AuthorizationSettledWithPlacement
    OverpromisedOnlyByRace
PROPERTIES
    AtomicSpec
    SettledDrawIsFinal
CHECK_DEADLOCK FALSE
