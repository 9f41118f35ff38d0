CONSTANTS
    p = p q = q None = None
    Processes = {p, q}
    LastRevision = 3
    RunsPerProcess = 2
    MaxFaults = 1
SPECIFICATION FairSpec
INVARIANTS CacheOK
PROPERTIES OneRevision Heals
