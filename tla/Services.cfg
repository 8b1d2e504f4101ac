SPECIFICATION ServicesSpec
CONSTANTS
    \* booking
    i1 = i1
    i2 = i2
    u1 = u1
    u2 = u2
    Interview = {i1, i2}
    Applicant <- MCApplicant
    Slot = {s1, s2}
    Hour = {h1, h2}
    Booker = {k1, k2}
    Publisher = {p1}
    NoSlot = noslot
    NoStudent = nostudent
    MaxMoves = 3
    \* deliverables
    Project = {pr1}
    Hand = {hd1, hd2}
    MaxRounds = 2
    MaxSteps = 5
    \* learner
    Person = {pe1}
    Registrar = {r1}
    Clerk = {c1, c2}
    Document = {f1}
    Nobody = nobody
    MaxSaves = 6
    \* market
    Employer = {e1}
    Post = {po1}
    Candidate = {ca1}
    Desk = {d1, d2}
    \* mentorship
    Mentee = {me1, me2, me3}
    Introducer = {in1, in2}
    Pairing = {pa1, pa2, pa3}
    Capacity = 1
    \* disclosure
    ConsentId = {co1, co2}
    Viewer = {v1}
    Keeper = {ke1, ke2}
    \* escalation
    Report = {re1, re2}
    Author = {au1, au2}
    Handler = {ha1, ha2}
    NoAuthor = noauthor
    \* outcomes
    Scribe = {sc1, sc2}
    LastQuarter = 4
    MaxOutcomes = 1
    \* regions
    County = {cn1, cn2}
    Unplaced = unplaced
    Redefiner = {rd1, rd2}
    LastDate = 3
    \* sign in
    Caller = {cl1, cl2}
    MaxAddress = 1
    MaxTries = 1
    \* second factor
    Enroller = {en1, en2}
    MaxSecrets = 3
    BatchSize = 2
    \* credit
    HoursPerCredit = 3
    Hours = {1, 2, 4}
    Declared = {1, 2}
    MaxWork = 4
    \* notices
    Unmoved = unmoved
    \* rate limit
    Limit = 2
    Window = 3
    LastTick = 7
    \* visibility
    Place = {pl1, pl2}
    Showcase = {pl2}
    Org = {or1, or2}
    Account = {ac1, ac2}
    NoHost = nohost
INVARIANTS
    ServicesTypeOK
    HeldSlotIsBooked
    FlagFollowsTheWork
    AcceptanceCompletes
    VerificationIsAttributable
    ApplicationsStandOnReview
    PlacesOverbookedOnlyByRace
    HireIsCounted
    OldAddressOpensNothing
    RecoveryCodesAreCurrent
    PaidHoursWereWorked
    TurnIsKnown
    GrantsInAnyWindow
    LayersShowTheSame
PROPERTIES
    PurgeHolds
    ShownWithConsentAndStage
    WithdrawalIsTheEnd
    ClosedReportStaysClosed
    FollowUpsKeepTheirQuarter
    SupersededVerdictsStand
CHECK_DEADLOCK FALSE
