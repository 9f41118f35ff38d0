CONSTANTS
    q1 = q1 q2 = q2 q3 = q3
    Queries = {q1, q2, q3}
    MaxGrade = 2
    Reviewers = {r1}
    Generators = {}
    Missing = Missing Empty = Empty Mixed = Mixed
    TooLong <- HighGrades
SPECIFICATION Spec
SYMMETRY Swaps
INVARIANTS BundleOK ReviewedIsAttested
PROPERTY ReviewNeverLost
