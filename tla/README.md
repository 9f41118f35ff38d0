# Verification of retrieval-lab

TLA+ models of retrieval-lab, a Python library that evaluates retrieval
pipelines: it chunks a corpus, indexes retrievers (keyword, BM25, dense,
hybrid), runs an evaluation dataset against them, computes metrics, caches
artifacts, compares runs and gates their quality. Paths below are relative to
`src/src/retrieval_lab/`, line numbers are those of the modelled commit.

Every module translates source code. Algorithms and protocols keep their
control (each state change, guard, early return, error path and their order);
data is reduced to what the properties tell apart.

## Inventory

| component | state it keeps | operations | hard behaviour | what makes it correct |
|---|---|---|---|---|
| asynchronous evaluation `retrievers/async_callable.py` | a job iterator, worker tasks, `completed`, the awaiting task | `evaluate_async_retrievers`: start workers, take a job, call the provider under `asyncio.timeout`, collect, clean up | workers interleave; providers fail, hang, suppress cancellation; timers; repeated cancellation by the caller | no orphaned task, cancellation and failure told apart, the original failure reported, results complete, stops when told to |
| artifact cache `artifacts/cache.py` | content-addressed files | `_atomic_write`, bounded read and validation | several processes, kills, power failures, damage, size limits | entries whole, nobody sees half-written ones, bad ones rebuilt, limits agree |
| evaluation runner `runner.py` | chunks, retrievers, `indexed_retriever_ids`, cache events | `run`, `_prepare_chunk_cache`, `_prepare_dense_cache` | retriever objects shared with other runs and hybrids; failures half way | a run evaluates its own chunks; each index is built once |
| hybrid `retrievers/hybrid.py` | sources, `_indexed`, `_indexed_chunks` | `index`, `_index_sources_once`, `search` (RRF) | early return on remembered chunks, failing sources | every source over the same chunks |
| dense `retrievers/dense.py` | lazy model, vectors, identity, restored revision | `index`, `_cache_restore`, `_cache_export`, `search` | the revision is known only after the first encode | documents and query embedded by one revision, truthful labels |
| keyword, BM25 `retrievers/keyword.py`, `bm25.py` | chunks, term statistics | `index`, `search` | index replaced or kept | (floating-point scores) |
| callable evaluation `retrievers/callable.py` | none | `evaluate_retrievers` | repetitions must agree | as in the asynchronous one, sequentially |
| dataset review `dataset_authoring.py`, `dataset_workflow.py`, `synthetic.py` | a bundle of two files | save, load, review, complete, finalize, generate | crash between the files, overwriting a reviewed bundle, two reviewers | nothing unreviewed loads as reviewed, no judgment lost |
| ranking and metrics `evaluation/` | none | stable ranking, collapse to documents, metrics, percentiles | boundaries, ties | agreement with their definitions |
| chunking `chunkers/` | none | fixed windows with overlap | last window | nothing dropped, exact overlap |
| comparison `comparison.py` | none | comparability, pairing, classification, extremes | tolerance, zero baselines, missing queries and latencies | nothing compared that may not be, nothing skipped silently, swapping the runs swaps the signs |
| quality gates `quality.py`, `domain/gates.py` | the gates a result carries | evaluate, attach | boundaries, drops from zero, a rerun of the same identifier | gates agree with the comparison and never punish getting better |
| result files `artifacts/results.py`, `domain/results.py`, `reporting/` | files | save, load with every check, render | optional parts, the same fact in several places | what is loaded is what was saved |
| configuration `config/` | none | `load_config` field by field, `RetrievalConfig` | faulty fields are replaced and reading goes on | a configuration that loads is the one that was written, and can be run |
| application `application.py` | the files of a project | init, run, compare, gate (validate and inspect only read) | several files replaced one after another; policies embedded in results | reports belong to the result beside them, gates to their run |
| datasets, loaders, answer evaluation, CLI, demo | none | parse, score, print | | |

Components interact by plain calls in one process (runner to retrievers to
backends), by shared Python objects (a dense retriever in the list and inside a
hybrid), and by files (cache directory, bundle, results) that other processes
use without any lock. `PROJECT.json` lists every component with its status and
every hazard at its line.

## Modules

| module | what it is |
|---|---|
| `EvaluationPromise` | what `evaluate_async_retrievers` promises its caller: an evaluation returns complete results, or raises a failure some call really had, or a `CancelledError` exactly if the caller cancelled; afterwards nothing runs |
| `AsyncEvaluation` | the worker pool that implements it |
| `AsyncEvaluationProofs` | its inductive invariant, the safety theorems and the refinement of `EvaluationPromise` |
| `ArtifactStore` | one cache entry, its readers and writers, kills and power failures |
| `ArtifactStoreProofs` | all its invariants and action properties |
| `HybridIndex` | which chunks shared retrievers search: program calls, `HybridRetriever`, `EvaluationRunner.run` |
| `HybridIndexProofs` | its invariants, and the condition on shared sources under which rankings are over one corpus |
| `DenseCache` | the cached dense index across runs, processes and model revisions |
| `DenseCacheProofs` | true labels, and one revision for documents and query |
| `DatasetBundle` | a dataset under review in two files, down to their temporary files |
| `DatasetBundleProofs` | its properties for a single author |
| `FixedSizeChunker` | the windows that documents are cut into |
| `RankedEvaluation` | one query: fusion, validation, order, collapse to documents, cutoffs, metrics |
| `EvaluationPipeline` | the two composed: a corpus is cut, its chunks are indexed, a query is evaluated over them |
| `PipelineProofs` | theorems about chunking, then about rankings, fusion, cutoffs and metrics in every run |
| `RunComparison` | comparability and comparison of two results, as operators |
| `GateChecks` | quality gates, as operators over `RunComparison` |
| `GatedComparison` | the calls a program makes with two results: compare, gate, attach, rerun, save, load |
| `GateProofs` | theorems about the arithmetic of comparison and gates, then about every call |
| `ConfigLoading` | how a YAML file becomes a configuration, as operators |
| `ExperimentProject` | a project directory and the commands on it, over `ConfigLoading` and `GateChecks` |
| `ExperimentProjectProofs` | all its properties, and what loading a configuration establishes |
| `MC...` | constants for the runs of the module of that name |

The operators of comparison, gates and configuration are modules of their own,
so that the state machines that use them, and the proofs, share one translation.

A definition whose comment starts with `Mutant:` is not part of a model. It is a
plausible bug, kept beside the definition that it varies; `PROJECT.json` names
for every property one that the property catches.

### AsyncEvaluation

`state[w]`, `job[w]` and `result[w]` are a worker task: where `run_one` is, the job
it took, how the task ended; `pend`, `asked` and `expired` say that a
`CancelledError` is to come, that the pool asked for it, that the deadline of the
call has passed. `next` is the shared iterator over repetitions of (retriever,
query) pairs, `completed` what was collected. `phase`, `swept`, `mustCancel` and
`verdict` are the awaiting task, `gather`, `noticed` and `first` its
`asyncio.gather` future, with the worker whose exception that took.
`requested` says that the caller has called `cancel()`, which it may do any number
of times. One action is what runs between two suspension points of one coroutine;
each carries the name of what resumes it (a call that returns, raises, is
cancelled or ignores that, a timer, gather's callback, the caller). The rules of
asyncio (cancelling a task, the gather future, `asyncio.timeout`) are those of
Python 3.11 and marked external. What a provider may do is the constant
`Reactions`, so that the runs on liveness can say what they assume.

| run | question | bounds |
|---|---|---|
| `async_safety` | all safety properties, the inductive invariant and the refinement, for arbitrary providers and cancellations | 2 pairs x 2 repetitions, 2 workers: fewer workers than jobs, a repetition of one pair on each worker, jobs left over after a failure |
| `async_ends` | do timers end an evaluation; does a failure or a cancellation end it without them; does no call start afterwards | 3 pairs, 2 workers: a job is left when two calls hang; providers let a `CancelledError` end their call, and may never answer otherwise |

Fairness is weak fairness of each task's own step: the event loop runs every
ready callback. Nothing is assumed of the provider's answer, nor of the caller
(`RequestCancel` is never fair). That due timers fire is the premise of
`Terminates`, not of the specification, so that `CancelEnds` and `FailureEnds`
do not lean on them. A provider that suppresses `CancelledError` and goes on
waiting keeps the evaluation waiting, which is why `async_ends` excludes it.

A provider that suppresses the timer's `CancelledError` and returns late is
accepted: `asyncio.timeout` raises only if the cancellation comes out of the
call. The model has this (`Ignores`, then `Returns`), and the properties above
hold with it. `OutcomeIsTrue` joins three statements on how an evaluation ends:
a cancellation is reported exactly if the caller asked for it, a reported failure
is one that some call really had, and a success has every result.

### ArtifactStore

A file is an inode with its size, the nature of its bytes and the number of
bytes that were fsynced; `entry` is the artifact's path and `past` every inode
that was ever there, since the directory is not fsynced and a power failure may
bring an earlier one back. `Look`, `Open`, `Read` are the three moments of a
read (exists, open and fstat, bounded read and validation); `CreateTemp`,
`WriteFragment`, `WriteNewline`, `Fsync`, `Replace` those of a write, `GiveUp`
its limit and `WriteFails` any `OSError`. `Kill`, `PowerLoss`, `Damage` and
`Clear` come from outside; processes that were not started yet may be after a
power failure. The removal of a temporary file may fail, which the code ignores
(`UnlinkTemp`, cache.py:200-206). So a writer that is killed, fails or gives up may
leave one behind, and nobody ever removes it; `NoLitter` only says that a reported
hit or rebuild leaves none. What counts is that left-over files harm nobody: all
properties hold with any of them there.

`store_runs` has three processes: one with room for exactly the artifact, one
with a byte to spare and one that lacks a byte, which is where an off-by-one
between the writer's count and the reader's bound would show. They share no
state but the entry and each touches it in three steps, so that two writers
that race and a third party that gives up cover the combinations. A payload of
one byte and its newline allow a stop at the beginning, in the middle and at
the end of the file.

### HybridIndex

`held[s]` is the chunk sequence a source was last indexed with; `ready` and
`chunks` are `_indexed` and `_indexed_chunks`; `marked` is
`indexed_retriever_ids`. `Reindex` stops at any source, as an exception does.
A run is split at the points where it can fail: `Prepare` (the dense cache),
`RunSource`/`RunHybrid` (indexing one entry of the list) and `Evaluate`.

| run | configuration | result |
|---|---|---|
| `hybrid_runs` | two cached runners over two corpora with one list (a source, a hybrid that owns its sources, two that share theirs in opposite orders), failures anywhere, index calls of the program in between | every evaluated ranking is over the run's chunks; each index built once; `index` reaches every source of the hybrid that owns them |
| `hybrid_failed_run` | one cached runner besides the program's `hybrid.index` | *violated* |

`hybrid_failed_run` is a real defect: after a cached run over corpus A that
failed once its dense source was prepared, `hybrid.index(B)` returns at once
because it remembers B, and `search` fuses rankings over A and B. Repeating the
steps with the library gives such a mixed ranking. hybrid.py:128 and
docs/api-minimum.md:104-106 say that `index` passes the chunks to every source.
`Alone`, `Settled` and `Covered` delimit when it cannot happen. A source is
`Alone` with a hybrid if nobody else indexes it: neither the program, nor another
hybrid the program indexes or a list names, nor the dense cache of a run. It is
`Settled` in a run if that has indexed it before it comes to the hybrid, by its
cache or by an earlier entry of the list. A list is `Covered` if every source of
every hybrid in it is one or the other, and then every run evaluates over its own
chunks, whichever runs and calls came before and wherever they failed
(`HybridHolds`). `MCHybridIndex` assumes it of its lists, so TLC evaluates it on
the lists of the run. Where a list is not covered, a run too may evaluate a
ranking over two corpora, for the same reason.

### DenseCache

`hub` is the revision a model load resolves to. A process has its loaded
`model`, the restored `override`, the revision of its `vectors` and the
`identity` they were indexed under; `Effective` is `_effective_metadata`. The
artifact, which is taken to fit `cache_max_bytes` (a larger one is never written),
records a revision and holds vectors of a revision, which `EntryHonest`
says are the same. `Read`, `Restore`, `Index`, `Write`, `Search` follow
`_prepare_dense_cache` and the search of the run; `Fail` and `Kill` are bounded
by `MaxFaults`. The model is the built-in backend's: it reports its revision and
keeps it once loaded. A backend that reports none cannot be protected by these
checks and is left out.

`dense_runs` uses three revisions, so that a third party can be behind both
others, and two runs per process for the no-op paths. `dense_runs` and
`dense_stale` ask of `Heals`: is a run that met an artifact of another revision
followed by one that is answered? Yes, if the process stays up for a second run;
*no*, if each process makes one run, as the command line does. All of them hit
the old artifact, fail at the first query and end, for ever. README.md:198-199
says incompatible entries are rebuilt. Fairness is weak fairness of each
process: it goes on with its run, and a next process is started. Nothing says
that the hub moves or a fault occurs.

### DatasetBundle

`file` is the text in each of the two files, `temp` the text in the temporary
file of each, whose name is the same for every writer; `draft[a]` is what an
author holds between load and save; `attested` collects the judgments that a
reviewer saved as reviewed. `Review` and `Complete` are `review_dataset_query`
without and with `--complete-review`, `Refuse` a load whose files disagree,
`Generate` a synthetic draft saved over the bundle. `Open`, `Write` and `Replace`
are the three moments of `_write_text`, once for each file. `handle[a]` follows
the file an author holds open: another author may rename it to its target before
it is written, so that the text goes there, or replace it, so that it is gone.
`Kill` leaves a temporary file as it is, as does an `OSError` whose clean-up fails
too; `Fail` is one that removes whatever has the temporary name. `TooLong` are the
texts above the limits of the loader (1 MiB for the manifest, 64 MiB for the
queries), which `save_bundle` does not have: a review can make a bundle that
nobody can load any more. `_write_text` does not fsync; a power failure, which may
then leave an empty file in the place of a whole one, is not modelled, only stops
of processes.

`bundle_review` checks three queries under symmetry with one reviewer at a time,
who may be killed or fail anywhere and finds the temporary files that were left.
`bundle_generate` is *violated*: between the two files, and for good after a
failure of the second write, generated judgments load as reviewed; with the
shared temporary name it needs no failure, since the reviewer may rename the file
that the generator is still writing. docs/issues-v0.2.md:12 says that synthetic
data must never be silently promoted. Two reviewers at once break `BundleOK`,
`ReviewNeverLost` and `ReviewedIsAttested` alike; no document promises anything
for them, so this is no run.

### FixedSizeChunker, RankedEvaluation and EvaluationPipeline

`Cut` is one turn of the loop of `chunk_document`, which ends with the window
that reaches the end of the text; `document` and `start` are its position in the
corpus. `AsManyAsNeeded` compares with the closed formula for the number of
windows, at every step, and so also says that the loop ends.

`Search` is any response of a retriever or a callable, best first or not, with
repeated chunks, too many of them, or without scores; `SearchHybrid` fuses any
answers of two sources; `Rank` validates and orders, `Evaluate` collapses and
measures at every cutoff. Scores are counted in units of which every
1 / (rrf_k + rank) is a multiple, so that ties are ties. With two sources the
library's floating-point sums tie exactly when the fractions do, since addition
commutes; with three or more they are rounded in the order of source names, which
is not modelled. The weights of nDCG are constants, since only their order
matters: `Discount`, for 1 / log2(rank + 1), falls with the rank, and `Gain`, for
2^grade - 1, is zero at no grade and grows with it. `ScoreUnit` and
`PrecisionUnit` are the units, which the assumption says every share and every
precision is a whole number of.

`Sorted` says what `sorted` promises, not how it gets there: the item at rank n
is the one that n - 1 items are ahead of, ties by where they stood. The same
operator orders results (`StableRank`) and grades (`Ideal`); by position alone,
`InOrder` gives the first chunks of the documents (`FirstOfEach`).

`EvaluationPipeline` joins them as `EvaluationRunner.run` does. The query's side
knows of a chunk its identifier and its document; identifiers are digests, so
`Index` numbers the chunks in any order. A query therefore runs over every
distribution of chunks to documents that cutting can produce, and over no other.

`pipeline` cuts two texts of up to seven characters with every size up to four
and every overlap: texts shorter than, equal to and longer than a window, and
ends that fall into, before and behind an overlap. Corpora of more than
`MaxChunks` = 3 chunks are cut but not followed further. Three chunks of one or
two documents and the cutoffs 1, 2 and 3 are the smallest instance where a cutoff
falls between two chunks of one document, where a repeat displaces another
document, and where two sources can disagree on more than a swap. The cfg's
`VIEW` drops the chunker's variables once the chunks are indexed: no later step
reads or changes them and no property of the query mentions them, while the
chunker's own properties were checked in the states before.

`QueryOK` is the inductive invariant `QueryIInv`, which says what each phase hands
on to the next, together with `StoryAgrees`: the metrics of an evaluated query
agree with each other.

| property | what it says |
|---|---|
| `QueryOK` | metrics are zero together and none exceeds one; AP is one exactly for a ranking that starts with as many relevant items as fit, nDCG only for such; a larger cutoff loses no hit |
| `FusionKeepsAgreement` | a chunk that every source which knows its rival ranks ahead of it stays ahead |
| `ArrivalForgotten` | the order in which a retriever returns scored results does not matter |
| `CutoffsIndependent` | a cutoff has the metrics it has alone |
| `NoCreditForRepeats` | several chunks of one document gain nothing |

`CutoffsIndependent` holds for retrievers that answer best first, as
`BaseRetriever.search` promises, or without scores; a callable that scores some
items of a longer answer and none of the rest has its order changed by a larger
cutoff.

### RunComparison, GateChecks and GatedComparison

A result is its identifier, manifest, metrics over the dataset and per query,
latencies and gates. `Issues` is `check_comparability`, `Diagnostics` what it
tolerates, `CompareRuns` is `compare_runs` down to the query shown as best or
worst; `GateError` and `EvaluateGates` are the two outcomes of
`evaluate_quality_gates`; `AcceptsGates` is what the constructor of a result and
`with_quality_gates` insist on, `Readable` and `FromDict` are `result_from_dict`.
Values are whole numbers of one unit, ratios are fractions, and `math.isclose`
has an absolute part in units and a relative part of `num/den`, so that nothing is
rounded. `Rerun` runs the configuration once more: the run identifier does not
cover latency, so the new result has the old identifier. That it has the same
metrics is what base.py:48-54 asks of a retriever, to be deterministic. `Save` writes a
file of any size in `FileSizes` or fails, `Load` reads one of at most `MaxBytes`
(`Fits`), as `_read_bounded` does: `save_json` has no limit, `load_result` has one of
64 MiB unless the caller names another, so that a large result can be saved and
then not loaded.

`gated_comparison` starts from every pair of measured results (`Macro` and
`FromSamples` build them as the runner does, from two queries), and pairs each
with one of twenty-seven that depart from what a runner produces in one point:
every manifest field absent or malformed, other cutoffs, queries or retrievers, a
query without its metric, an aggregate that is no mean, latency missing in part.
Two queries are enough for an aggregate to move against one of them; three
tolerances are none, a wide one and one with an absolute part only; a file has
exactly `MaxBytes` or one byte more; the policies
hold every constraint alone and in pairs, on a metric and on a latency. The
assumptions of `GatedComparison` are what the constructors insist on (`IsResult`:
whole aggregates and queries for every retriever, latency for all or none) and
what the library produces (no metric is negative; a measured result has the same
queries and metrics throughout, at least one query and a time for each, and its
aggregates are means, that of the times too). TLC evaluates them on every result
of the run.

| property | what it says |
|---|---|
| `NothingSkipped` | two runs that may be compared are compared completely, but for latencies that a diagnostic names |
| `SwapMirrors`, `CulpritShown` | swapping the runs turns improvements into regressions; a metric that got worse is shown with a query that did |
| `DropGatesMatchComparison` | a gate that allows no drop passes exactly what the comparison does not call regressed |
| `BetterNeverFails` | a better value never makes a gate fail, except an upper bound on it |
| `GatesInv`, `ReloadsAsSaved` | the gates a result carries are those of its policy on itself; it loads as it was saved, or not at all, and what a runner measured is refused only if its file is larger than the limit |

Two limits showed up. A gate `max_relative_drop: 0` may pass a latency that the
comparison calls regressed, if the baseline is above 1.0 and the absolute
tolerance wider than the relative one, since the drop is divided by the baseline
before it meets the absolute tolerance; the library's defaults (1e-12 and 1e-9,
comparison.py:60-61) exclude it, and `RelativeDropCounts` states the condition. And
a gate on a drop of latency that is attached after a rerun may have been
evaluated on the earlier run, whose identifier is the same: the constructor
checks absolute values only (`AttachedAreOwn` names the exception).

### ConfigLoading and ExperimentProject

A draft is the file as YAML read it, section by section. `ReadSection` replaces
what does not fit by the default and goes on, `Faults` is what the loader notes,
`IsConfig` the second validation by the typed records, `LoadConfig` their
conjunction. Unknown kinds, hybrids of fewer than two sources and gates that are
none do not reach the typed configuration, exactly as in the loader.

`ExperimentProject` has the directory: the configuration, the inputs at the
template's paths, four reports, a baseline. `InitProject`, `WriteTemplate` and
`InitStops` are `initialize_project`, which may stop before or within any file;
`Start`, `SaveReport` and `Stop` are `run_configured_experiment`;
`EvaluateGatesOf` and `CompareResults` are `evaluate_configured_quality_gates` and
`compare_result_files`. The user edits the configuration, keeps a result as the
baseline and writes other gates into a saved result. A hash is modelled by what
it is of. Commands are taken between runs: `result.json` is replaced atomically
and the configuration read once, so a reader in the middle sees one of the states
between. A command that is refused changes nothing and is no action.

One command writes at a time. Two `run` commands into one directory at once may
leave reports of both there; nothing in the code prevents it or says what it
leaves, and no run of the model covers it. Results are within the `max_bytes` of
the commands that read them; `GatedComparison` has that limit.

`experiment_project` begins with an empty directory or a gated hybrid judged by
chunks, and makes one of fifty-odd edits, each wrong or right in one way, before,
between or after two runs. `MaxEdits` = 1 suffices since a fault is judged
against a file that is otherwise sound; `MaxRuns` = 2 since what a directory
holds of an earlier run is what one earlier run can leave. `IsDraft` says what a
draft may be: a section is absent, null, no mapping, or a mapping with any fields
of any values, and so is every element of a list. `ProjectAssumption`
asks no more of the constants than this, and `MarksApart` that the marks for what
is absent or malformed are no values.

| property | what it says |
|---|---|
| `ProjectInv` | whatever loads has every given value in force, and no constructor or search refuses it |
| `GatedByOwnPolicy` | embedded gates are those the result was configured with, and the baseline too; a result as its run left it can be gated, if the command reads files of its size |
| `ReportsFollowResult` | after any stop, no report of a run that selected JSON is newer than `result.json`, and a finished run left all it selected |
| `HalfTemplateNotRun` | an init that stopped half way leaves nothing that runs on part of the template |

`HalfTemplateNotRun` is about new projects. `init --force` over one that is there
may stop within the configuration, whose beginning may load and run with default
cutoffs; without `~ init.over` TLC shows it. Cutoffs are another curiosity:
`top_k: [null, 1]` is read as `[1]` without a fault (loader.py:392-396), which
`WrittenIsInForce` excepts. Edits by hand change only gates, not hashes; somebody
who recomputes all hashes of a result can of course pass off any policy as its
own.

## Proofs

Every theorem holds for all values of the constants that meet the named
assumptions of its component's module; TLC evaluates these on every run. An
invariant is proved through an inductive one that a run checks too, except where
the text says that it is stated in the proof module. One lemma for each action
says that it preserves the inductive invariant, `Invariance` or a theorem named
for the property combines them, and action properties are read off the steps
under the invariant.

`AsyncEvaluationProofs`: any finite number of pairs, repetitions and workers, any
provider reactions, any number of cancellations. The safety properties are not
inductive: that a failure reported was not one of the pool's own cancellations
needs to know which workers were asked to stop and why; that a result is complete
needs that a job which was handed out is either held by one worker, recorded, or
its holder has ended badly. `IInv` is the conjunction of the type invariant,
`WorkerInv` (what a worker's location says of its job and its end), `OneTaker`
(no job in two hands), `JobInv` (jobs handed out), `GatherInv` (what the gather
future knows of the workers) and `ParentInv` (what the parent's location says of
all of them). The theorems `NoOrphansHolds`, `CancellationDecidesHolds`,
`OriginalFailureHolds` and `SuccessIsCompleteHolds` follow from `IInv` alone, and
together they are `OutcomeIsTrueHolds`. `PoolKeepsPromise` shows under `IInv` that
every action is a step of `EvaluationPromise` or leaves its variables unchanged.
`NoCallOnceStoppedHolds` has a hypothesis on the constants, that no provider
suppresses a cancellation, and an invariant of its own: once the pool was told to
stop, every unfinished worker has a `CancelledError` to come (`StopInv`).

`ArtifactStoreProofs`: any set of processes with any limits and an artifact of any
size, whether clean-ups succeed or fail. That the entry is whole at every instant, even after a power failure,
needs every inode that was ever at the path to be whole and synced (`PathInv`),
and that in turn needs to know what a writer's location says of a file that only
it can reach: its count is the size, what is flushed is the artifact, what is
synced is durable (`WriterInv`). `StoreOK` is these with the type invariant.
`OnlyMeddlingCorruptsHolds` and `ReadsBackOwnHolds` follow; `GoodEntryKeptHolds`
and `RebuiltHolds` are action properties, one case for each step.

`HybridIndexProofs`: any sources, hybrids, lists and corpora. `IInv` (the type
invariant, `RunInv`, `BeliefInv`) needs no condition on sharing: what a run has
marked it has built once and over its chunks, in the order of its list; a hybrid
that calls itself indexed is right about the sources that are its alone.
`BuiltOnceHolds` follows without hypotheses. `HybridHolds` needs the lists to be
covered, `IndexReachesHolds` that nobody else indexes the sources of the hybrids
which the program indexes; both hypotheses are about the constants, and the run
that is violated shows the second one is needed.

`DenseCacheProofs`: any processes, revisions, runs and faults. `MemoryInv` is the
strengthening: vectors in memory are of the revision that the retriever believes
them to be of, in particular from the restoring of an artifact to the first
encoding that loads the model. `CacheHolds` and `OneRevisionHolds` follow.

`DatasetBundleProofs`: any queries and grades and a single author (the hypothesis
`Authors = {a}`), whose saves may be killed or fail anywhere. `SaveInv` says that
the temporary file is the author's, what it holds at each of the three moments,
and that the draft being saved is ahead of the files: it has their judgments and
keeps their review. With two authors the properties are false, as the README's
section on the module says.

`PipelineProofs` begins with the chunker, for any corpus of non-empty texts and any
sizes. That no character
is dropped and that no window lies in another are inductive only with `Position`:
the windows of the current document start before the next one and end at most
`overlap` after its start, which is inside the text. `Windows` bounds each window.
The number of windows needs `Counted`: finished documents have the windows they
need, and the start in the current one is the step times the windows cut so far.
`WindowsNeeded` is the arithmetic: a count whose last window does not reach the
end is below the quotient, and reaching it makes them equal. `PipelineCuts` shows
that a whole run is a behaviour of the chunker, so all of this holds there.

The rest is about the query of a run, for any numbers of sources, chunks and
documents, any cutoffs, grades and weights. `QueryInvariance` is the inductive
invariant `QueryIInv`: whatever a search returns, the ranking handed on is valid
and of chunks of the run, and the metrics are those of the ranking and grades at
hand. Three theories carry the properties. None uses an induction theorem of the
library: where something is to hold for all sizes, a least counterexample is taken
(`Least`) and refuted.

- Sums. `SumFunctionOnSet` is a fold, defined by a recursive function that is
  chosen. `TotalsExist` shows that there is such a function for every finite set,
  from the sums of fewer elements; `SumOfAny`, `SumCompares`, `SumOfPart`,
  `SumOfBoth` and `SumRenamed` are then what one expects of sums, whatever order
  the fold picks the elements in.
- Order. `Counting`: in a strict order of a finite set the number of elements
  ahead of one tells its place, and every place is taken. So what `Sorted` yields
  is a permutation (`Placed`, `RankedResults`), and the only one in that order
  (`SortedUnique`), which is `ArrivalForgottenHolds`. A ranking in order is left
  as it is (`BestFirstKept`); with the cut of a cut being a cut (`CutsAgree`) that
  gives `CutoffsIndependentHolds`. For `FusionKeepsAgreementHolds`, a smaller
  divisor of the unit leaves the greater share, so one chunk has at least the
  other's share of every source and more of one.
- Metrics. A collapsed ranking is named by the first positions of its elements
  (`Collapses`), and that of a longer ranking begins with that of a shorter one
  (`CollapseBegins`). `LongerIsNoWorse`: no metric falls when a ranking goes on.
  Cutting the ranking without repeats leaves one that begins with the ranking
  evaluated, which is `NoCreditForRepeatsHolds`; for two cutoffs the same lemma is
  the last part of `StoryAgrees`.

`QueryOKHolds` adds the two maxima. `PrecisionAgrees`: each hit adds at most one,
and one only if every rank before it is a hit, so that AP is one exactly if the
hits are the first ranks and as many as fit. `IdealIsBest`: up to every rank, a
ranking has gained no more, undiscounted, than the ideal one (`GreatestFirst`:
compare what exceeds the ideal's gain at that rank, all of which the ideal has
already gained), and weights that fall keep this so (`DiscountsKeepOrder`, a
summation by parts), with equality only if both gain the same at each rank.

`GateProofs` begins with the operators, for every value, threshold and tolerance
that is not negative (a lower or an upper bound may be any integer).
`WithinRange` carries it: if the ends of a range are within the tolerance, so are
its parts, although the relative part of the tolerance shrinks with the range.
`CloseIsSymmetric` and `ClassificationMirrors` are the arithmetic of
`SwapMirrors`; `ZeroDropMatches` is that of `DropGatesMatchComparison` under the
condition above, which the proof needs in `RelativeIsFar`; `BetterPasses` is that
of `BetterNeverFails`. The rest is about every sequence of calls on all results
and policies. The inductive invariant `GatedIInv` is stated in the module: both
results are such as the constructors accept; a comparison is of the results at
hand; a report is that of some result with the candidate's identifier and
metrics, though perhaps other latencies; the gates the candidate carries are the
report's, and it accepted them; a file holds the candidate. `RoundTrip` is that
`FromDict` undoes `ToDict`, `ExtremeExists` that a query shown as best or worst
exists and is unique (by well-foundedness of strict inclusion on finite sets,
since the definition picks it out of a set), `ExtremesMirror` that the best of a
comparison is the worst of its mirror image. `CulpritShownHolds` needs sums too:
an aggregate is the mean of its queries, rounded down for a latency
(`MeasuredMeans`), so if no query got worse the mean did not (`SumMonotone`). From these the theorems lift the
arithmetic to whole results: `GatesInvHolds`, `NothingSkippedHolds`,
`SwapMirrorsHolds`, `CulpritShownHolds`, `DropGatesMatchComparisonHolds`,
`BetterNeverFailsHolds`, `ReloadsAsSavedHolds`.

`ExperimentProjectProofs`: any drafts, edits, policies and any number of runs.
`BaseInv`, stated in the module, joins the type invariant with `SavingInv` (what a
run has saved and has still to save), `TemplateInv` (how far an init is, and that
neither it nor a verdict goes together with a run), `ReportsFollowResult` and
`HalfTemplateNotRun`, which are inductive together. `LoadedRuns` and
`LoadedWritten` are about the loader alone: whatever `LoadConfig` lets through can
be run, and has every given value in force; they follow from `FieldRead` (a field
that leaves no fault is read as it was given) section by section. `ResultInv`
says that every result at hand, a tampered one included, is what some experiment
measured, with some policy written into it, and with it `ProjectInvHolds`. For
`GatedByOwnPolicyHolds` the chain is: the gates a result brings along are trusted
exactly if they are those it was configured with, which the policy hash and the
run identifier in the file give away (`Trusted`); what a run measured has every
value its own gates name (`GatesAvailable`); two results of one run identifier may
be compared (`SameRunComparable`); so `OwnGates` says how its own gates end on a
result, with and without a baseline.

Only model-checked:

- All liveness properties (`CancelEnds`, `FailureEnds`, `Terminates`, `Heals`),
  since the proof system handles neither fairness nor `ENABLED`.
- What the runs that expect a violation show.

Every invariant and action property that a passing run checks is a theorem, under
the hypotheses named above.

## Plan

1. That the hypothesis on shared sources is needed, as a theorem: a list that is
   not covered has a behaviour with a mixed ranking.
2. The converse in `StoryAgrees`: which rankings reach an nDCG of one, those whose
   grades fall from rank to rank and leave no greater one out.

## Not modelled

- Floating-point arithmetic of scores, metrics and percentiles, hashing, model
  inference, text normalisation: data the properties do not look into. The
  products 0.5 n and 0.95 n of the latency statistics never round up to a wrong
  rank.
- JSON and YAML syntax, argument types, paths and include globs, report rendering
  and the command line's wording.
- Parsing of documents and datasets, answer evaluation and generation, dataset
  inspection: functions of one input each, without state or order; unit tests
  reach them well.
- `validate` and `inspect`, which only read.

`PROJECT.json` says for every component what is left out.
