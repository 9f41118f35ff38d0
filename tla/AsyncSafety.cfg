CONSTANTS
    Pairs = 2
    Repetitions = 2
    Concurrency = 2
    r1 = r1
    r2 = r2
    Rankings <- MCRankings
    NoRanking = NoRanking
    HasTimeout = TRUE
    Reactions <- Every
SPECIFICATION Spec
INVARIANTS IInv NoOrphans OutcomeIsTrue
PROPERTY KeepsPromise
