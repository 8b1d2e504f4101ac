\* Two ordinary messages, one that can never be rendered and one to nobody, two
\* drains, and two things that go wrong.
SPECIFICATION Spec
CONSTANTS
    Message = {m1, m2, m3, m4}
    Drain = {d1, d2}
    Alike = {}
    Unreachable = {m3}
    Reserved = {m4}
    MaxTrouble = 2
INVARIANTS
    TypeOK
    HeldByOneDrain
    AnsweredStaysOut
    DeliveredAtMostOnce
PROPERTIES
    KeepsThePost
    QueuedIsAnswered
CHECK_DEADLOCK FALSE
