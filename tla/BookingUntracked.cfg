\* The smallest instance that releases a booked slot.
SPECIFICATION BookingSpec
CONSTANTS
    i1 = i1
    i2 = i2
    u1 = u1
    u2 = u2
    Interview = {i1, i2}
    Applicant <- MCApplicant
    Slot = {s1, s2}
    Hour = {h1, h2}
    Booker = {k1}
    Publisher = {p1}
    NoSlot = noslot
    NoStudent = nostudent
    MaxMoves = 3
INVARIANT BookedSlotIsTracked
CHECK_DEADLOCK FALSE
