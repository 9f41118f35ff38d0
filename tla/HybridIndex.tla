----------------------------- MODULE HybridIndex -----------------------------
(***************************************************************************)
(* Which chunks each retriever of a program searches.  Retrievers are      *)
(* objects that several parties share: a HybridRetriever fuses the         *)
(* rankings of its sources (retrievers/hybrid.py), an EvaluationRunner     *)
(* indexes and evaluates a list of retrievers over its own corpus          *)
(* (runner.py), and the program may call index on any of them in between.  *)
(* A hybrid that was indexed with a corpus does not index its sources with *)
(* it again; nothing tells it that somebody else has since indexed one.    *)
(*                                                                         *)
(* Calls do not overlap.  An index call of a source replaces its chunks or *)
(* raises and leaves them; any call may raise, which ends the run it is in.*)
(***************************************************************************)
EXTENDS Naturals, SequencesExt

CONSTANTS
    Sources,        \* retrievers that hold chunks themselves
    Dense,          \* those of them that a cache directory can restore
    SourcesOf,      \* [hybrid -> the sequence of its sources]
    Corpora,        \* chunk sequences, different ones being different values
    ListOf,         \* [runner -> the sequence of retrievers it evaluates]
    CorpusOf,       \* [runner -> its chunks]
    Cached,         \* runners that have a cache directory
    Direct,         \* retrievers the program also indexes outside of runs
    None

Hybrids == DOMAIN SourcesOf
Runners == DOMAIN ListOf

ASSUME HybridAssumption ==
    /\ Dense \subseteq Sources /\ Sources \cap Hybrids = {}
    /\ \A h \in Hybrids : SourcesOf[h] \in Seq(Sources) /\ Len(SourcesOf[h]) >= 2
    /\ \A r \in Runners : ListOf[r] \in Seq(Sources \cup Hybrids) /\ ListOf[r] # <<>>
    /\ CorpusOf \in [Runners -> Corpora]
    /\ Cached \subseteq Runners
    /\ Direct \subseteq Sources \cup Hybrids
    /\ None \notin Corpora \cup Runners

VARIABLES
    held,           \* [Sources -> the chunks it was last indexed with]
    chunks,         \* [Hybrids -> _indexed_chunks]
    ready,          \* [Hybrids -> _indexed]
    returned,       \* <<h, c>> right after the program's h.index(c) returned
    runner,         \* whose run() is in progress
    at,             \* position in its list
    phase,          \* what it does there
    marked,         \* indexed_retriever_ids
    builds          \* [Sources -> how often this run built its index]

inside == <<at, phase, marked, builds>>
vars == <<held, chunks, ready, returned, runner, inside>>

Leaves(x) == IF x \in Hybrids THEN ToSet(SourcesOf[x]) ELSE {x}

Init ==
    /\ held = [s \in Sources |-> None]
    /\ chunks = [h \in Hybrids |-> None]
    /\ ready = [h \in Hybrids |-> FALSE]
    /\ returned = <<>>
    /\ runner = None
    /\ at = 1 /\ phase = "idle" /\ marked = {}
    /\ builds = [s \in Sources |-> 0]

\* The sources in S get the chunks c.
Fill(S, c) == held' = [s \in Sources |-> IF s \in S THEN c ELSE held[s]]

\* The first n sources of h without those that are skipped.
FirstOf(h, n, skip) == {SourcesOf[h][i] : i \in 1 .. n} \ skip

\* Where the loop over the sources of h may end: after the last one, or before
\* one that it indexes, which raises.
Ends(h, skip) ==
    {n \in 0 .. Len(SourcesOf[h]) :
        n = Len(SourcesOf[h]) \/ SourcesOf[h][n + 1] \notin skip}

\* Mutant: the flag of a failed call is not consulted.
CurrentChunks(h, c) == chunks[h] = c

Current(h, c) == ready[h] /\ chunks[h] = c

\* Mutant: the hybrid stays indexed while its sources are replaced.
ReindexKeepsReady(h, c, skip, n) ==
    LET all == n = Len(SourcesOf[h]) IN
    /\ Fill(FirstOf(h, n, skip), c)
    /\ ready' = [ready EXCEPT ![h] = @ \/ all]
    /\ chunks' = [chunks EXCEPT ![h] = IF all THEN c ELSE @]

\* The loop of index, and of _index_sources_once, which skips some sources,
\* with n of them done when it ends.
Reindex(h, c, skip, n) ==
    LET all == n = Len(SourcesOf[h]) IN
    /\ Fill(FirstOf(h, n, skip), c)
    /\ ready' = [ready EXCEPT ![h] = all]
    /\ chunks' = [chunks EXCEPT ![h] = IF all THEN c ELSE @]

----------------------------------------------------------------------------
(* Calls of the program.                                                   *)

IndexSource(s, c) ==
    /\ runner = None /\ s \in Direct
    /\ Fill({s}, c)
    /\ returned' = <<>>
    /\ UNCHANGED <<chunks, ready, runner, inside>>

IndexHybrid(h, c) ==
    /\ runner = None /\ h \in Direct
    /\ \/ /\ Current(h, c)
          /\ returned' = <<h, c>>
          /\ UNCHANGED <<held, chunks, ready>>
       \/ /\ ~Current(h, c)
          /\ \E n \in Ends(h, {}) :
                /\ Reindex(h, c, {}, n)
                /\ returned' = IF n = Len(SourcesOf[h]) THEN <<h, c>> ELSE <<>>
    /\ UNCHANGED <<runner, inside>>

----------------------------------------------------------------------------
(* EvaluationRunner.run                                                    *)

\* _dense_retriever_entries: the dense retrievers of the list and of its hybrids.
DenseEntries(r) == {s \in Dense : \E x \in ToSet(ListOf[r]) : s \in Leaves(x)}

\* It looks through the list first, then through the sources of each hybrid,
\* and meets s before t.
Before(r, s, t) ==
    LET Pass(i) == IF i = 0 THEN ListOf[r]
                   ELSE IF ListOf[r][i] \in Hybrids THEN SourcesOf[ListOf[r][i]] ELSE <<>>
    IN  \E i \in 0 .. Len(ListOf[r]) : \E j \in DOMAIN Pass(i) :
            /\ Pass(i)[j] = s
            /\ \A k \in 1 .. j : Pass(i)[k] # t
            /\ \A k \in 0 .. i - 1 : t \notin ToSet(Pass(k))

Build(S) == builds' = [s \in Sources |-> IF s \in S THEN builds[s] + 1 ELSE builds[s]]

\* A run that ends forgets its own variables.
Reset ==
    /\ runner' = None
    /\ at' = 1 /\ phase' = "idle" /\ marked' = {}
    /\ builds' = [s \in Sources |-> 0]

Start(r) ==
    /\ runner = None
    /\ runner' = r
    /\ phase' = IF r \in Cached THEN "prepare" ELSE "index"
    /\ returned' = <<>>
    /\ UNCHANGED <<held, chunks, ready, at, marked, builds>>

\* _prepare_dense_cache restores or builds the dense retrievers one by one,
\* and the loop over the list does not index those again.
Prepare ==
    /\ phase = "prepare"
    /\ LET entries == DenseEntries(runner) IN
       \/ /\ Fill(entries, CorpusOf[runner]) /\ Build(entries)
          /\ phase' = "index"
          /\ marked' = entries
          /\ UNCHANGED <<runner, at>>
       \/ \E s \in entries :
              Fill({t \in entries : Before(runner, t, s)}, CorpusOf[runner]) /\ Reset
    /\ UNCHANGED <<chunks, ready, returned>>

Indexed(S) ==
    /\ Build(S)
    /\ marked' = marked \cup S
    /\ phase' = "search"
    /\ UNCHANGED <<runner, at>>

RunSource(s) ==
    /\ phase = "index" /\ ListOf[runner][at] = s
    /\ \/ s \in marked /\ UNCHANGED held /\ Indexed({})
       \/ s \notin marked /\ Fill({s}, CorpusOf[runner]) /\ Indexed({s})
    /\ UNCHANGED <<chunks, ready, returned>>

\* Mutant: the hybrid indexes its sources whoever did so before.
RunHybridAll(h) ==
    /\ phase = "index" /\ ListOf[runner][at] = h
    /\ \/ /\ Current(h, CorpusOf[runner])
          /\ Indexed({})
          /\ UNCHANGED <<held, chunks, ready>>
       \/ /\ ~Current(h, CorpusOf[runner])
          /\ \E n \in Ends(h, {}) :
                /\ Reindex(h, CorpusOf[runner], {}, n)
                /\ IF n = Len(SourcesOf[h]) THEN Indexed(FirstOf(h, n, {})) ELSE Reset
    /\ UNCHANGED returned

\* _index_sources_once leaves out the sources that this run has indexed.
RunHybrid(h) ==
    /\ phase = "index" /\ ListOf[runner][at] = h
    /\ \/ /\ Current(h, CorpusOf[runner])
          /\ Indexed({})
          /\ UNCHANGED <<held, chunks, ready>>
       \/ /\ ~Current(h, CorpusOf[runner])
          /\ \E n \in Ends(h, marked) :
                /\ Reindex(h, CorpusOf[runner], marked, n)
                /\ IF n = Len(SourcesOf[h]) THEN Indexed(FirstOf(h, n, marked)) ELSE Reset
    /\ UNCHANGED returned

\* The queries of the retriever at hand are evaluated; then the next one.
Evaluate ==
    /\ phase = "search"
    /\ IF at < Len(ListOf[runner])
         THEN /\ at' = at + 1 /\ phase' = "index"
              /\ UNCHANGED <<runner, marked, builds>>
         ELSE Reset
    /\ UNCHANGED <<held, chunks, ready, returned>>

\* Chunking, a cache, an index call or a query raises.
RunFails ==
    /\ runner # None
    /\ Reset
    /\ UNCHANGED <<held, chunks, ready, returned>>

Next ==
    \/ \E s \in Sources, c \in Corpora : IndexSource(s, c)
    \/ \E h \in Hybrids, c \in Corpora : IndexHybrid(h, c)
    \/ \E r \in Runners : Start(r)
    \/ Prepare
    \/ \E s \in Sources : RunSource(s)
    \/ \E h \in Hybrids : RunHybrid(h)
    \/ Evaluate \/ RunFails

Spec == Init /\ [][Next]_vars

----------------------------------------------------------------------------
(* Properties.                                                             *)

TypeOK ==
    /\ held \in [Sources -> Corpora \cup {None}]
    /\ chunks \in [Hybrids -> Corpora \cup {None}]
    /\ ready \in [Hybrids -> BOOLEAN]
    /\ returned \in (Hybrids \X Corpora) \cup {<<>>}
    /\ runner \in Runners \cup {None}
    /\ phase \in {"idle", "prepare", "index", "search"} /\ (phase = "idle" <=> runner = None)
    /\ runner # None => at \in DOMAIN ListOf[runner]
    /\ marked \subseteq Sources
    /\ builds \in [Sources -> Nat]

\* Nobody but the hybrid h indexes its source s.
Alone(h, s) ==
    /\ s \notin Direct
    /\ \A g \in Hybrids \ {h} : s \in Leaves(g) => g \notin Direct
    /\ \A r \in Runners :
          /\ r \in Cached => s \notin DenseEntries(r)
          /\ \A x \in ToSet(ListOf[r]) \ {h} : s \notin Leaves(x)

\* The run of r has indexed s before it comes to position i of its list.
Settled(r, i, s) ==
    \/ r \in Cached /\ s \in DenseEntries(r)
    \/ \E j \in 1 .. i - 1 : ListOf[r][j] = s

\* Whatever a hybrid of the list fuses is its own, or indexed by the run before.
Covered(r) ==
    \A i \in DOMAIN ListOf[r] : ListOf[r][i] \in Hybrids =>
        \A s \in Leaves(ListOf[r][i]) : Alone(ListOf[r][i], s) \/ Settled(r, i, s)

\* What a run has marked it has built once, over its chunks; it marks what the
\* cache prepares, then the entries of the list one by one.
RunInv ==
    /\ runner = None => marked = {} /\ at = 1
    /\ \A s \in marked : held[s] = CorpusOf[runner]
    /\ \A s \in Sources : builds[s] = IF s \in marked THEN 1 ELSE 0
    /\ phase = "prepare" => runner \in Cached /\ marked = {} /\ at = 1
    /\ phase \in {"index", "search"} =>
          /\ runner \in Cached => DenseEntries(runner) \subseteq marked
          /\ \A j \in 1 .. at - 1 : ListOf[runner][j] \in Sources => ListOf[runner][j] \in marked
    /\ phase = "search" =>
          LET x == ListOf[runner][at] IN
          IF x \in Sources THEN x \in marked ELSE Current(x, CorpusOf[runner])

\* A hybrid that believes itself indexed is right about the sources that nobody
\* else indexes, and was indexed with what its index call has just been given.
BeliefInv ==
    /\ \A h \in Hybrids : \A s \in Leaves(h) :
          ready[h] /\ Alone(h, s) => held[s] = chunks[h]
    /\ returned # <<>> =>
          /\ runner = None
          /\ returned[1] \in Direct /\ Current(returned[1], returned[2])

\* What a run evaluates are rankings over its own chunks, by every source
\* of the retriever, whatever earlier runs and calls left behind.
EvaluatedOverRunChunks ==
    phase = "search" =>
        \A s \in Leaves(ListOf[runner][at]) : held[s] = CorpusOf[runner]

\* hybrid.py:128, docs/api-minimum.md:104-106: index(chunks) passes the same
\* chunks to every source, so they all hold them when it returns.
IndexReachesEverySource ==
    returned # <<>> => \A s \in Leaves(returned[1]) : held[s] = returned[2]

\* A run builds the index of a source at most once, however many hybrids
\* share it and wherever the list and the cache name it.
BuiltOnce == \A s \in Sources : builds[s] <= 1

\* The state is well formed, and whatever is evaluated is over the run's chunks;
\* with what makes this inductive.
HybridOK == TypeOK /\ RunInv /\ BeliefInv /\ EvaluatedOverRunChunks
=============================================================================
