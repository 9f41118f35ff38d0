---- MODULE MCDatasetBundle ----
EXTENDS DatasetBundle, TLC

CONSTANTS q1, q2, q3

\* The longest lines that a review can save, above the limit of the loader.
HighGrades == {[q \in Queries |-> MaxGrade]}

Swaps == Permutations({q1, q2, q3})
====
