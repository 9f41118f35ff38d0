---- MODULE MCHybridIndex ----
EXTENDS HybridIndex

CONSTANTS kw, bm, ex, dn, h, g, k, r1, r2, A, B

\* h owns its sources; g and k share theirs with each other and the list.
OwnAndShared == (h :> <<kw, ex>>) @@ (g :> <<dn, bm>>) @@ (k :> <<bm, dn>>)
SameList == [r \in {r1, r2} |-> <<bm, h, g, k>>]
TwoCorpora == (r1 :> A) @@ (r2 :> B)

\* The dense source of h is restored by a cache as well.
OwnSources == h :> <<kw, dn>>
OnlyHybrid == r1 :> <<h>>
OneCorpus == r1 :> A

\* The hypothesis of the theorem on what a run evaluates.
ASSUME ListsCovered == \A r \in Runners : Covered(r)
====
