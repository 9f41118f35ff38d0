-------------------------- MODULE HybridIndexProofs --------------------------
(***************************************************************************)
(* Proofs about HybridIndex, for any sources, hybrids and runners over any *)
(* corpora, with or without caches, and for calls that fail anywhere.      *)
(***************************************************************************)
EXTENDS HybridIndex, TLAPS

\* HybridOK without its conclusion on rankings: this part needs no hypothesis
\* on who shares which source.
IInv == TypeOK /\ RunInv /\ BeliefInv

\* The sources of a retriever are sources; a hybrid is not one of them.
LEMMA Retrievers ==
    /\ \A h \in Hybrids : h \notin Sources /\ Leaves(h) \subseteq Sources
    /\ \A s \in Sources : s \notin Hybrids /\ Leaves(s) = {s}
    /\ \A r \in Runners : /\ DenseEntries(r) \subseteq Sources
                          /\ CorpusOf[r] \in Corpora
                          /\ ListOf[r] \in Seq(Sources \cup Hybrids)
                          /\ 1 \in DOMAIN ListOf[r]
    /\ None \notin Corpora /\ None \notin Runners
<1>1. ASSUME NEW h \in Hybrids
      PROVE  h \notin Sources /\ Leaves(h) \subseteq Sources
  BY HybridAssumption DEF Leaves, ToSet
<1>2. ASSUME NEW s \in Sources
      PROVE  s \notin Hybrids /\ Leaves(s) = {s}
  BY HybridAssumption DEF Leaves
<1>3. ASSUME NEW r \in Runners
      PROVE  /\ DenseEntries(r) \subseteq Sources
             /\ CorpusOf[r] \in Corpora
             /\ ListOf[r] \in Seq(Sources \cup Hybrids)
             /\ 1 \in DOMAIN ListOf[r]
  <2>1. ListOf[r] \in Seq(Sources \cup Hybrids) /\ ListOf[r] # <<>>
    BY HybridAssumption
  <2>2. DenseEntries(r) \subseteq Sources /\ CorpusOf[r] \in Corpora
    BY HybridAssumption DEF DenseEntries
  <2>. QED
    BY <2>1, <2>2
<1>. QED
  BY <1>1, <1>2, <1>3, HybridAssumption

\* The loop over the sources of a hybrid gets to its sources, and to all that
\* it does not skip if it comes to its end.
LEMMA LoopReaches ==
    ASSUME NEW h \in Hybrids, NEW skip, NEW n \in Ends(h, skip)
    PROVE  /\ FirstOf(h, n, skip) \subseteq Leaves(h) \ skip
           /\ n = Len(SourcesOf[h]) => FirstOf(h, n, skip) = Leaves(h) \ skip
<1>1. SourcesOf[h] \in Seq(Sources) /\ n \in 0 .. Len(SourcesOf[h])
  BY HybridAssumption DEF Ends
<1>2. Leaves(h) = {SourcesOf[h][i] : i \in 1 .. Len(SourcesOf[h])}
  BY <1>1 DEF Leaves, ToSet
<1>. QED
  BY <1>1, <1>2 DEF FirstOf

\* Nothing is indexed at the start, and nobody believes it is.
LEMMA InitIInv == Init => IInv
<1>. SUFFICES ASSUME Init PROVE IInv
  OBVIOUS
<1>1. TypeOK
  BY Retrievers DEF Init, TypeOK
<1>2. RunInv /\ BeliefInv
  BY Retrievers DEF Init, RunInv, BeliefInv
<1>. QED
  BY <1>1, <1>2 DEF IInv

\* A source that the program may index is nobody's alone.
LEMMA IndexSourceIInv ==
    ASSUME IInv, NEW s \in Sources, NEW c \in Corpora, IndexSource(s, c)
    PROVE  IInv'
<1>. USE Retrievers DEF IInv, IndexSource, Fill, inside
<1>1. TypeOK'
  BY DEF TypeOK
<1>2. RunInv'
  BY DEF TypeOK, RunInv
<1>3. BeliefInv'
  BY DEF TypeOK, BeliefInv, Alone
<1>. QED
  BY <1>1, <1>2, <1>3

\* A hybrid that gets to the end of the loop is right, one that does not knows
\* that it is not ready, and nobody else believes in a source that h indexes.
LEMMA ReindexBelief ==
    ASSUME TypeOK, NEW h \in Hybrids, NEW c \in Corpora, NEW skip \in SUBSET Sources,
           NEW n \in Ends(h, skip), Reindex(h, c, skip, n),
           \A s \in skip : held[s] = c,
           h \in Direct \/ \E r \in Runners : h \in ToSet(ListOf[r]),
           \A g \in Hybrids : \A s \in Leaves(g) : ready[g] /\ Alone(g, s) => held[s] = chunks[g]
    PROVE  /\ \A g \in Hybrids : \A s \in Leaves(g) :
                  ready'[g] /\ Alone(g, s) => held'[s] = chunks'[g]
           /\ held' \in [Sources -> Corpora \cup {None}]
           /\ chunks' \in [Hybrids -> Corpora \cup {None}]
           /\ ready' \in [Hybrids -> BOOLEAN]
           /\ \A s \in skip : held'[s] = c
           /\ \A s \in FirstOf(h, n, skip) : held'[s] = c
           /\ n = Len(SourcesOf[h]) => ready'[h] /\ chunks'[h] = c
<1>. USE Retrievers DEF Reindex, Fill
<1>1. /\ held' \in [Sources -> Corpora \cup {None}]
      /\ chunks' \in [Hybrids -> Corpora \cup {None}]
      /\ ready' \in [Hybrids -> BOOLEAN]
  BY DEF TypeOK
<1>2. /\ FirstOf(h, n, skip) \subseteq Leaves(h) \ skip
      /\ n = Len(SourcesOf[h]) => FirstOf(h, n, skip) = Leaves(h) \ skip
  BY LoopReaches
<1>3. /\ \A s \in skip : held'[s] = c
      /\ \A s \in FirstOf(h, n, skip) : held'[s] = c
  BY <1>2
<1>4. n = Len(SourcesOf[h]) => ready'[h] /\ chunks'[h] = c
  BY DEF TypeOK
<1>5. ASSUME NEW g \in Hybrids, NEW s \in Leaves(g), ready'[g], Alone(g, s)
      PROVE  held'[s] = chunks'[g]
  <2>1. CASE g = h
    <3>1. n = Len(SourcesOf[h]) /\ chunks'[h] = c
      BY <1>4, <1>5, <2>1 DEF TypeOK
    <3>2. s \in skip \/ s \in FirstOf(h, n, skip)
      BY <1>2, <1>5, <2>1, <3>1
    <3>. QED
      BY <1>3, <2>1, <3>1, <3>2
  <2>2. CASE g # h
    <3>1. ready[g] /\ chunks'[g] = chunks[g]
      BY <1>5, <2>2 DEF TypeOK
    <3>2. s \notin Leaves(h)
      BY <1>5, <2>2 DEF Alone
    <3>3. held'[s] = held[s]
      BY <1>2, <1>5, <3>2
    <3>. QED
      BY <1>5, <3>1, <3>3
  <2>. QED
    BY <2>1, <2>2
<1>. QED
  BY <1>1, <1>3, <1>4, <1>5

LEMMA IndexHybridIInv ==
    ASSUME IInv, NEW h \in Hybrids, NEW c \in Corpora, IndexHybrid(h, c)
    PROVE  IInv'
<1>. USE Retrievers DEF IInv, inside
<1>1. h \in Direct /\ runner = None /\ UNCHANGED <<runner, inside>>
  BY DEF IndexHybrid
<1>2. CASE Current(h, c) /\ returned' = <<h, c>> /\ UNCHANGED <<held, chunks, ready>>
  <2>1. TypeOK'
    BY <1>1, <1>2 DEF TypeOK
  <2>2. RunInv'
    BY <1>1, <1>2 DEF TypeOK, RunInv
  <2>3. BeliefInv'
    BY <1>1, <1>2 DEF BeliefInv, Current
  <2>. QED
    BY <2>1, <2>2, <2>3
<1>3. ASSUME NEW n \in Ends(h, {}), Reindex(h, c, {}, n),
             returned' = IF n = Len(SourcesOf[h]) THEN <<h, c>> ELSE <<>>
      PROVE  IInv'
  <2>1. /\ \A g \in Hybrids : \A s \in Leaves(g) :
                ready'[g] /\ Alone(g, s) => held'[s] = chunks'[g]
        /\ held' \in [Sources -> Corpora \cup {None}]
        /\ chunks' \in [Hybrids -> Corpora \cup {None}]
        /\ ready' \in [Hybrids -> BOOLEAN]
        /\ n = Len(SourcesOf[h]) => ready'[h] /\ chunks'[h] = c
    BY <1>1, <1>3, ReindexBelief DEF BeliefInv
  <2>2. TypeOK'
    BY <1>1, <1>3, <2>1 DEF TypeOK
  <2>3. RunInv'
    BY <1>1 DEF TypeOK, RunInv
  <2>4. BeliefInv'
    BY <1>1, <1>3, <2>1 DEF BeliefInv, Current
  <2>. QED
    BY <2>2, <2>3, <2>4
<1>. QED
  BY <1>2, <1>3 DEF IndexHybrid

LEMMA StartIInv == ASSUME IInv, NEW r \in Runners, Start(r) PROVE IInv'
<1>. USE Retrievers DEF IInv, Start
<1>0. at = 1
  BY DEF RunInv
<1>1. TypeOK'
  BY <1>0 DEF TypeOK
<1>2. RunInv'
  BY <1>0 DEF TypeOK, RunInv
<1>3. BeliefInv'
  BY DEF TypeOK, BeliefInv
<1>. QED
  BY <1>1, <1>2, <1>3

\* A run that ends leaves what it has indexed.
LEMMA ResetIInv ==
    ASSUME Reset,
           held' \in [Sources -> Corpora \cup {None}],
           chunks' \in [Hybrids -> Corpora \cup {None}],
           ready' \in [Hybrids -> BOOLEAN],
           returned' = <<>>,
           \A g \in Hybrids : \A s \in Leaves(g) :
               ready'[g] /\ Alone(g, s) => held'[s] = chunks'[g]
    PROVE  IInv'
<1>1. TypeOK'
  BY Retrievers DEF Reset, TypeOK
<1>2. RunInv'
  BY DEF Reset, RunInv
<1>3. BeliefInv'
  BY DEF BeliefInv
<1>. QED
  BY <1>1, <1>2, <1>3 DEF IInv

\* What the cache prepares is nobody's alone.
LEMMA PrepareIInv == ASSUME IInv, Prepare PROVE IInv'
<1>. DEFINE entries == DenseEntries(runner)
<1>. USE Retrievers
<1>0. /\ runner \in Runners /\ returned = <<>> /\ at = 1 /\ marked = {}
      /\ entries \subseteq Sources /\ CorpusOf[runner] \in Corpora
      /\ UNCHANGED <<chunks, ready, returned>>
  BY DEF Prepare, IInv, TypeOK, RunInv, BeliefInv
<1>1. runner \in Cached
  BY DEF Prepare, IInv, RunInv
<1>2. ASSUME NEW S, S \subseteq entries, Fill(S, CorpusOf[runner])
      PROVE  /\ held' \in [Sources -> Corpora \cup {None}]
             /\ \A s \in S : held'[s] = CorpusOf[runner]
             /\ \A g \in Hybrids : \A s \in Leaves(g) :
                  ready'[g] /\ Alone(g, s) => held'[s] = chunks'[g]
  <2>1. held' \in [Sources -> Corpora \cup {None}]
    BY <1>0, <1>2 DEF Fill, IInv, TypeOK
  <2>2. ASSUME NEW g \in Hybrids, NEW s \in Leaves(g), Alone(g, s)
        PROVE  held'[s] = held[s]
    BY <1>0, <1>1, <1>2, <2>2 DEF Fill, Alone
  <2>. QED
    BY <1>0, <1>2, <2>1, <2>2 DEF Fill, IInv, BeliefInv
<1>3. CASE /\ Fill(entries, CorpusOf[runner]) /\ Build(entries)
           /\ phase' = "index" /\ marked' = entries /\ UNCHANGED <<runner, at>>
  <2>1. TypeOK'
    BY <1>0, <1>2, <1>3 DEF IInv, TypeOK, Build
  <2>2. RunInv'
    BY <1>0, <1>2, <1>3 DEF IInv, TypeOK, RunInv, Build
  <2>3. BeliefInv'
    BY <1>0, <1>2, <1>3 DEF IInv, BeliefInv
  <2>. QED
    BY <2>1, <2>2, <2>3 DEF IInv
<1>4. ASSUME NEW s \in entries, Fill({t \in entries : Before(runner, t, s)}, CorpusOf[runner]), Reset
      PROVE  IInv'
  BY <1>0, <1>2, <1>4, ResetIInv DEF IInv, TypeOK
<1>. QED
  BY <1>3, <1>4 DEF Prepare

\* The entry of the list at hand, and what stays when it is done.
LEMMA Entry ==
    ASSUME IInv, phase \in {"index", "search"}
    PROVE  /\ runner \in Runners /\ at \in DOMAIN ListOf[runner] /\ at \in Nat
           /\ ListOf[runner][at] \in ToSet(ListOf[runner])
           /\ ListOf[runner][at] \in Sources \cup Hybrids
           /\ CorpusOf[runner] \in Corpora
           /\ returned = <<>>
<1>1. runner \in Runners /\ at \in DOMAIN ListOf[runner] /\ returned = <<>>
  BY DEF IInv, TypeOK, BeliefInv
<1>2. ListOf[runner] \in Seq(Sources \cup Hybrids) /\ CorpusOf[runner] \in Corpora
  BY <1>1, Retrievers
<1>. QED
  BY <1>1, <1>2 DEF ToSet

LEMMA RunSourceIInv == ASSUME IInv, NEW s \in Sources, RunSource(s) PROVE IInv'
<1>. USE Retrievers, Entry DEF IInv, RunSource, Indexed, Build
<1>1. CASE s \in marked
  <2>1. TypeOK'
    BY <1>1 DEF TypeOK
  <2>2. RunInv'
    BY <1>1 DEF TypeOK, RunInv
  <2>3. BeliefInv'
    BY <1>1 DEF BeliefInv
  <2>. QED
    BY <2>1, <2>2, <2>3
<1>2. CASE s \notin marked
  <2>0. held' = [held EXCEPT ![s] = CorpusOf[runner]]
    BY <1>2 DEF Fill, TypeOK
  <2>1. TypeOK'
    BY <1>2, <2>0 DEF TypeOK
  <2>2. RunInv'
    BY <1>2, <2>0 DEF TypeOK, RunInv
  <2>3. BeliefInv'
    <3>1. \A g \in Hybrids : ~Alone(g, s)
      BY DEF Alone
    <3>. QED
      BY <1>2, <2>0, <3>1 DEF TypeOK, BeliefInv
  <2>. QED
    BY <2>1, <2>2, <2>3
<1>. QED
  BY <1>1, <1>2

\* The hybrid skips what the run has indexed, which holds the same chunks.
LEMMA RunHybridIInv == ASSUME IInv, NEW h \in Hybrids, RunHybrid(h) PROVE IInv'
<1>. DEFINE c == CorpusOf[runner]
<1>0. /\ phase = "index" /\ ListOf[runner][at] = h /\ UNCHANGED returned
      /\ runner \in Runners /\ h \in ToSet(ListOf[runner]) /\ c \in Corpora
      /\ at \in DOMAIN ListOf[runner] /\ returned = <<>> /\ h \notin Sources
  BY Entry, Retrievers DEF RunHybrid
<1>1. CASE Current(h, c) /\ Indexed({}) /\ UNCHANGED <<held, chunks, ready>>
  <2>. USE <1>0, <1>1 DEF IInv, Indexed, Build, Current
  <2>1. TypeOK'
    BY DEF TypeOK
  <2>2. RunInv'
    BY DEF TypeOK, RunInv
  <2>3. BeliefInv'
    BY DEF BeliefInv
  <2>. QED
    BY <2>1, <2>2, <2>3
<1>2. ASSUME NEW n \in Ends(h, marked), Reindex(h, c, marked, n),
             IF n = Len(SourcesOf[h]) THEN Indexed(FirstOf(h, n, marked)) ELSE Reset
      PROVE  IInv'
  <2>. DEFINE new == FirstOf(h, n, marked)
  <2>1. /\ \A g \in Hybrids : \A s \in Leaves(g) :
                ready'[g] /\ Alone(g, s) => held'[s] = chunks'[g]
        /\ held' \in [Sources -> Corpora \cup {None}]
        /\ chunks' \in [Hybrids -> Corpora \cup {None}]
        /\ ready' \in [Hybrids -> BOOLEAN]
        /\ \A s \in marked : held'[s] = c
        /\ \A s \in new : held'[s] = c
        /\ n = Len(SourcesOf[h]) => ready'[h] /\ chunks'[h] = c
    <3>1. /\ marked \in SUBSET Sources
          /\ \A s \in marked : held[s] = c
          /\ \A g \in Hybrids : \A s \in Leaves(g) :
                ready[g] /\ Alone(g, s) => held[s] = chunks[g]
      BY DEF IInv, TypeOK, RunInv, BeliefInv
    <3>. QED
      BY <1>0, <1>2, <3>1, ReindexBelief DEF IInv
  <2>2. new \subseteq Sources \ marked
    BY <1>2, LoopReaches, Retrievers
  <2>3. CASE n = Len(SourcesOf[h])
    <3>. USE <1>0, <1>2, <2>1, <2>2, <2>3 DEF Indexed, Build
    <3>1. TypeOK'
      BY DEF IInv, TypeOK
    <3>2. RunInv'
      <4>1. /\ runner' # None
            /\ \A s \in marked' : held'[s] = CorpusOf[runner']
            /\ \A s \in Sources : builds'[s] = IF s \in marked' THEN 1 ELSE 0
        BY Retrievers DEF IInv, TypeOK, RunInv
      <4>2. /\ runner' \in Cached => DenseEntries(runner') \subseteq marked'
            /\ \A j \in 1 .. at' - 1 :
                  ListOf[runner'][j] \in Sources => ListOf[runner'][j] \in marked'
        BY DEF IInv, RunInv
      <4>3. ListOf[runner'][at'] = h /\ ready'[h] /\ chunks'[h] = CorpusOf[runner']
        OBVIOUS
      <4>. QED
        BY <4>1, <4>2, <4>3 DEF RunInv, Current
    <3>3. BeliefInv'
      BY DEF IInv, BeliefInv
    <3>. QED
      BY <3>1, <3>2, <3>3 DEF IInv
  <2>4. CASE n # Len(SourcesOf[h])
    BY <1>0, <1>2, <2>1, <2>4, ResetIInv
  <2>. QED
    BY <2>3, <2>4
<1>. QED
  BY <1>0, <1>1, <1>2 DEF RunHybrid

LEMMA EvaluateIInv == ASSUME IInv, Evaluate PROVE IInv'
<1>0. /\ runner \in Runners /\ at \in DOMAIN ListOf[runner] /\ returned = <<>>
      /\ phase = "search" /\ UNCHANGED <<held, chunks, ready, returned>>
  BY Entry DEF Evaluate
<1>1. CASE /\ at < Len(ListOf[runner])
           /\ at' = at + 1 /\ phase' = "index" /\ UNCHANGED <<runner, marked, builds>>
  <2>1. ListOf[runner] \in Seq(Sources \cup Hybrids)
    BY <1>0, Retrievers
  <2>2. TypeOK'
    BY <1>0, <1>1, <2>1, Retrievers DEF IInv, TypeOK
  <2>3. RunInv'
    BY <1>0, <1>1, <2>1, Retrievers DEF IInv, TypeOK, RunInv
  <2>4. BeliefInv'
    BY <1>0, <1>1 DEF IInv, BeliefInv
  <2>. QED
    BY <2>2, <2>3, <2>4 DEF IInv
<1>2. CASE Reset
  BY <1>0, <1>2, ResetIInv DEF IInv, TypeOK, BeliefInv
<1>. QED
  BY <1>0, <1>1, <1>2 DEF Evaluate

LEMMA RunFailsIInv == ASSUME IInv, RunFails PROVE IInv'
<1>1. returned = <<>>
  BY DEF RunFails, IInv, BeliefInv
<1>. QED
  BY <1>1, ResetIInv DEF RunFails, IInv, TypeOK, BeliefInv

\* Every call of the program and every step of a run preserves the invariant.
LEMMA NextIInv == IInv /\ [Next]_vars => IInv'
<1>. SUFFICES ASSUME IInv, [Next]_vars PROVE IInv'
  OBVIOUS
<1>1. CASE \E s \in Sources, c \in Corpora : IndexSource(s, c)
  BY <1>1, IndexSourceIInv
<1>2. CASE \E h \in Hybrids, c \in Corpora : IndexHybrid(h, c)
  BY <1>2, IndexHybridIInv
<1>3. CASE \E r \in Runners : Start(r)
  BY <1>3, StartIInv
<1>4. CASE Prepare \/ Evaluate \/ RunFails
  BY <1>4, PrepareIInv, EvaluateIInv, RunFailsIInv
<1>5. CASE \/ \E s \in Sources : RunSource(s)
           \/ \E h \in Hybrids : RunHybrid(h)
  BY <1>5, RunSourceIInv, RunHybridIInv
<1>6. CASE UNCHANGED vars
  BY <1>6 DEF vars, inside, IInv, TypeOK, RunInv, BeliefInv, Current
<1>. QED
  BY <1>1, <1>2, <1>3, <1>4, <1>5, <1>6 DEF Next

\* What a run has marked it built once and over its chunks, and a hybrid that
\* calls itself indexed is right about the sources that are its alone.
THEOREM Invariance == Spec => []IInv
<1>. QED
  BY InitIInv, NextIInv, PTL DEF Spec

\* A run builds no source twice, however many hybrids share it
\* (indexed_retriever_ids, _dense_retriever_entries).
THEOREM BuiltOnceHolds == Spec => []BuiltOnce
<1>1. IInv => BuiltOnce
  BY DEF IInv, RunInv, BuiltOnce
<1>. QED
  BY <1>1, Invariance, PTL

\* If whatever a hybrid of a list fuses is its own or indexed by the run before,
\* every ranking a run evaluates is over its own chunks, whatever runs and calls
\* came before and wherever they failed.
THEOREM HybridHolds ==
    ASSUME \A r \in Runners : Covered(r)
    PROVE  Spec => []HybridOK
<1>1. ASSUME IInv PROVE EvaluatedOverRunChunks
  <2>1. SUFFICES ASSUME phase = "search", NEW s \in Leaves(ListOf[runner][at])
                 PROVE  held[s] = CorpusOf[runner]
    BY DEF EvaluatedOverRunChunks
  <2>2. /\ runner \in Runners /\ at \in DOMAIN ListOf[runner] /\ at \in Nat
        /\ ListOf[runner][at] \in Sources \cup Hybrids
    BY <1>1, <2>1, Entry
  <2>3. CASE ListOf[runner][at] \in Sources
    BY <1>1, <2>1, <2>2, <2>3, Retrievers DEF IInv, RunInv
  <2>4. CASE ListOf[runner][at] \in Hybrids
    <3>1. Current(ListOf[runner][at], CorpusOf[runner])
      BY <1>1, <2>1, <2>4, Retrievers DEF IInv, RunInv
    <3>2. CASE Alone(ListOf[runner][at], s)
      BY <1>1, <2>1, <2>4, <3>1, <3>2 DEF IInv, BeliefInv, Current
    <3>3. CASE Settled(runner, at, s)
      <4>1. s \in Sources
        BY <2>1, <2>4, Retrievers
      <4>2. s \in marked
        BY <1>1, <2>1, <2>2, <3>3, <4>1 DEF IInv, RunInv, Settled
      <4>. QED
        BY <1>1, <4>2 DEF IInv, RunInv
    <3>. QED
      BY <2>1, <2>2, <2>4, <3>2, <3>3 DEF Covered
  <2>. QED
    BY <2>2, <2>3, <2>4
<1>2. IInv => HybridOK
  BY <1>1 DEF IInv, HybridOK
<1>. QED
  BY <1>2, Invariance, PTL

\* The index call of a hybrid reaches every source (hybrid.py:128), if nobody
\* else indexes the sources of the hybrids that the program indexes.
THEOREM IndexReachesHolds ==
    ASSUME \A h \in Hybrids \cap Direct : \A s \in Leaves(h) : Alone(h, s)
    PROVE  Spec => []IndexReachesEverySource
<1>1. IInv => IndexReachesEverySource
  BY DEF IInv, TypeOK, BeliefInv, Current, IndexReachesEverySource
<1>. QED
  BY <1>1, Invariance, PTL
=============================================================================
