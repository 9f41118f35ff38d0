CONSTANTS
    kw = kw dn = dn
    Documents = 2
    Lengths <- OneToSeven
    Sizes <- OneToFour
    MaxChunks = 3
    Sources = {kw, dn}
    RrfK = 2
    CandidateK = 3
    Cutoffs = {1, 2, 3}
    MaxScore = 2
    Unscored = 0
    MaxGrade = 2
    Discount <- Log2Weights
    Gain <- PowersOfTwo
    ScoreUnit = 60
    PrecisionUnit = 6
SPECIFICATION PipelineSpec
VIEW View
INVARIANTS IInv AsManyAsNeeded QueryOK FusionKeepsAgreement ArrivalForgotten CutoffsIndependent NoCreditForRepeats
