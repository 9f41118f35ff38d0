CONSTANTS
    kw = kw bm = bm ex = ex dn = dn h = h g = g k = k r1 = r1 r2 = r2 A = A B = B None = None
    Sources = {kw, dn}
    Dense = {dn}
    SourcesOf <- OwnSources
    Corpora = {A, B}
    ListOf <- OnlyHybrid
    CorpusOf <- OneCorpus
    Cached = {r1}
    Direct = {h}
SPECIFICATION Spec
INVARIANT IndexReachesEverySource
