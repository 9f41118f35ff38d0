CONSTANTS
    Pairs = 3
    Repetitions = 1
    Concurrency = 2
    r1 = r1
    r2 = r2
    Rankings <- MCRankings
    NoRanking = NoRanking
    HasTimeout = TRUE
    Reactions <- Cooperative
SPECIFICATION FairSpec
PROPERTIES Terminates CancelEnds FailureEnds NoCallOnceStopped
