CONSTANTS
    p = p q = q None = None
    Processes = {p}
    LastRevision = 2
    RunsPerProcess = 1
    MaxFaults = 0
SPECIFICATION FairSpec
PROPERTY Heals
