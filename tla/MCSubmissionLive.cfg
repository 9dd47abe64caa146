CONSTANTS
    Requests = {r1, r2}
    Names = {event}
    Required = event
    MaxFaults = 1
SPECIFICATION FairSpec
INVARIANT
    TypeOK
PROPERTIES
    EveryoneIsAnswered
