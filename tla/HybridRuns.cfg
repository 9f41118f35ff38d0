CONSTANTS
    kw = kw bm = bm ex = ex dn = dn h = h g = g k = k r1 = r1 r2 = r2 A = A B = B None = None
    Sources = {kw, bm, ex, dn}
    Dense = {dn}
    SourcesOf <- OwnAndShared
    Corpora = {A, B}
    ListOf <- SameList
    CorpusOf <- TwoCorpora
    Cached = {r1, r2}
    Direct = {h, bm, dn}
SPECIFICATION Spec
INVARIANTS HybridOK IndexReachesEverySource BuiltOnce
