\* Two learners, both due, one clerk.
SPECIFICATION LearnerSpec
CONSTANTS
    Person = {pe1, pe2}
    Registrar = {r1}
    Clerk = {c1}
    Document = {}
    Nobody = nobody
    MaxSaves = 4
PROPERTY AllowedPurgeIsWritten
CHECK_DEADLOCK FALSE
