CONSTANTS
    q1 = q1 q2 = q2 q3 = q3
    Queries = {q1, q2}
    MaxGrade = 2
    Reviewers = {r1}
    Generators = {g}
    Missing = Missing Empty = Empty Mixed = Mixed
    TooLong <- HighGrades
SPECIFICATION Spec
INVARIANT ReviewedIsAttested
