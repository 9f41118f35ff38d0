---- MODULE MCDenseCache ----
EXTENDS DenseCache
CONSTANTS p, q
====
