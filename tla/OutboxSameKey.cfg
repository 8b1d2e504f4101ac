\* Two messages of one kind and subject to one recipient, and nothing goes wrong.
SPECIFICATION Spec
CONSTANTS
    Message = {m1, m2, m3}
    Drain = {d1}
    Alike = {m1, m2}
    Unreachable = {}
    Reserved = {}
    MaxTrouble = 0
INVARIANT
    SentHasArrived
CHECK_DEADLOCK FALSE
