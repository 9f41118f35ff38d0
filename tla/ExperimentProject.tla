------------------------- MODULE ExperimentProject -------------------------
(***************************************************************************)
(* A project directory and the commands that work on it (application.py):  *)
(* a template is written file by file, the configuration is edited and     *)
(* run, the reports of a run are saved one file after another, a result is *)
(* kept as the baseline, and the quality gates a result brought along are  *)
(* evaluated on it.                                                        *)
(***************************************************************************)
EXTENDS ConfigLoading

CONSTANTS
    Template,   \* the draft that init writes
    Cuts,       \* what a beginning of that file may read as
    Projects,   \* drafts of projects that are there already
    Edits,      \* part of a draft |-> what somebody may write there
    Policies,   \* gates somebody may write into a saved result
    Queries,    \* the queries of the dataset
    Options,    \* [formats, directory] of the command line: formats or Missing, and
                \* whether an output directory is named
    MaxEdits, MaxRuns

Reports == {"result.json", "summary.csv", "per_query.csv", "report.html"}
Inputs == {"corpus", "queries"}

\* A file that was read: where it is, and what is there.
Files == [path : Paths, holds : {"own", "template", "cut"}]
Chunkers == [type : {"recursive_characters"}, size : Int, overlap : Int]

ASSUME ProjectAssumption ==
    /\ \A project \in {Template} \cup Cuts \cup Projects : IsDraft(project)
    /\ \A part \in DOMAIN Edits : \A raw \in Edits[part] : IsRawPart(part, raw)
    /\ DOMAIN Edits \subseteq Sections \cup Lists
    /\ \A options \in Options : options.formats # Missing =>
           options.formats \subseteq SupportedFormats
    /\ MaxEdits \in Nat /\ MaxRuns \in Nat
    /\ SupportedMetrics # {}

\* The marks of what is absent or malformed are no values.
ASSUME MarksApart ==
    /\ Null # Wrong /\ Missing \notin {Null, Wrong}
    /\ Missing \notin [by : Nat, formats : SUBSET SupportedFormats]
    /\ Missing \notin UNION {[names -> [LatencyStatistics -> {1}]] : names \in SUBSET Kinds}
    /\ \A mark \in {Missing, Bad} :
           /\ mark \notin Nat \cup Words.relevance_level \cup Files \cup (Files \X Chunkers)
           /\ mark # Queries /\ \A cutoffs \in SUBSET {1, 3, 5, 10} : mark # cutoffs

VARIABLES
    draft,     \* the configuration file, or Missing
    inputs,    \* what the paths of Template hold: [corpus, queries], each Missing,
               \* "own" of the project, "template", or "cut", a beginning of it
    init,      \* Missing, or an init that has not written everything:
               \* [todo, over: of a project that was there, live]
    edits,     \* how often it was edited
    runs,      \* how many runs were started
    run,       \* Missing, or the run in progress: [by, formats, result, todo]
    files,     \* report |-> Missing or [by, formats]: the run it shows
    saved,     \* Missing, or the result in result.json
    finished,  \* Missing, or [by, formats] of the last run if it saved everything
    baseline,  \* Missing, or a copy of result.json
    verdict    \* Missing, or what a command found in the results as they are now
projectVars == <<draft, inputs, init>>
vars == <<projectVars, edits, runs, run, files, saved, finished, baseline, verdict>>

Init ==
    /\ \/ draft \in Projects /\ inputs = [corpus |-> "own", queries |-> "own"]
       \/ draft = Missing /\ inputs = [corpus |-> Missing, queries |-> Missing]
    /\ init = Missing
    /\ edits = 0 /\ runs = 0
    /\ run = Missing
    /\ files = [report \in Reports |-> Missing]
    /\ saved = Missing
    /\ finished = Missing
    /\ baseline = Missing
    /\ verdict = Missing

Initializing == init # Missing /\ init.live

\* One command writes at a time: two runs into one directory are left out. A run
\* reads the configuration once, and who only reads result.json meanwhile finds
\* a whole result there, the one before or the one after. A verdict changes nothing, so that nothing has to follow it. What somebody
\* finds who does not wait for init is also what it leaves if it stops there.
Idle == run = Missing /\ verdict = Missing /\ ~ Initializing

Configuration == IF draft = Missing THEN Bad ELSE LoadConfig(draft)

---------------------------------------------------------------------------
(* Beginning a project *)

\* Mutant: the configuration comes last.
FilesConfigLast == <<"corpus", "queries", "draft">>

\* The order in which the template is written.
TemplateFiles == <<"draft", "corpus", "queries">>

\* initialize_project up to the first file. If any of its files is there it
\* has to be forced; doing so counts as an edit.
InitProject ==
    LET found == draft # Missing \/ Range(inputs) # {Missing} IN
    /\ Idle
    /\ edits' = edits + (IF found THEN 1 ELSE 0)
    /\ edits' <= MaxEdits
    /\ init' = [todo |-> TemplateFiles, over |-> found, live |-> TRUE]
    /\ UNCHANGED <<draft, inputs, runs, run, files, saved, finished, baseline, verdict>>

\* The next file of the template gets its text.
WriteTemplate ==
    /\ Initializing
    /\ LET file == Head(init.todo) IN
        IF file = "draft" THEN draft' = Template /\ UNCHANGED inputs
        ELSE inputs' = [inputs EXCEPT ![file] = "template"] /\ UNCHANGED draft
    /\ init' = IF Len(init.todo) > 1 THEN [init EXCEPT !.todo = Tail(@)] ELSE Missing
    /\ UNCHANGED <<edits, runs, run, files, saved, finished, baseline, verdict>>

\* Writing fails or is killed, before the next file is touched or within it.
InitStops ==
    /\ Initializing
    /\ init' = [init EXCEPT !.live = FALSE]
    /\ LET file == Head(init.todo) IN
        \/ UNCHANGED <<draft, inputs>>
        \/ file = "draft" /\ draft' \in Cuts /\ UNCHANGED inputs
        \/ /\ file # "draft"
           /\ inputs' = [inputs EXCEPT ![file] = "cut"] /\ UNCHANGED draft
    /\ UNCHANGED <<edits, runs, run, files, saved, finished, baseline, verdict>>

\* Somebody writes one part of the configuration anew.
Edit ==
    /\ Idle /\ draft # Missing /\ edits < MaxEdits
    /\ edits' = edits + 1
    /\ \E part \in DOMAIN Edits : \E value \in Edits[part] :
           draft' = [draft EXCEPT ![part] = value]
    /\ UNCHANGED <<inputs, init, runs, run, files, saved, finished, baseline, verdict>>

---------------------------------------------------------------------------
(* What a run measures *)

\* What the constructors of chunker, runner and retrievers, and the search of
\* a hybrid, ask for. Hybrids are built of the other retrievers.
RunsWell(config) ==
    LET chunker == config.sections.chunker
        retrievers == config.retrievers
        kind(name) == {retrievers[i].settings : i \in {i \in DOMAIN retrievers :
                                                     retrievers[i].type = name}}
    IN  /\ chunker.size > 0 /\ chunker.overlap \in 0 .. chunker.size - 1
        /\ config.sections.experiment.seed >= 0
        /\ config.top_k # {} /\ \A k \in config.top_k : k > 0
        /\ NamedApart(retrievers)
        /\ \A settings \in kind("bm25") : settings.k1 > 0 /\ settings.b \in 0 .. One
        /\ \A settings \in kind("dense") : settings.batch_size > 0
        /\ \A hybrid \in Hybrids(retrievers) :
               /\ Enough(hybrid.sources)
               /\ hybrid.sources \subseteq
                      {retrievers[i].name : i \in {i \in DOMAIN retrievers :
                                                   retrievers[i].type # "hybrid"}}
               /\ hybrid.settings.rrf_k > 0
               /\ \A k \in config.top_k : hybrid.settings.candidate_k >= k

IdentityFields ==
    {"chunk_hash", "dataset_hash", "index_hashes", "metric_version", "relevance_level",
     "retrievers", "retriever_settings", "seed", "top_k", "quality_gate_policy_hash"}

\* The experiment a configuration stands for: a corpus and a dataset are named
\* by their paths, and by what is there.
Experiment(config) ==
    LET at(section, file) ==
            LET path == config.sections[section].path IN
            [path |-> path,
             holds |-> IF path = Template[section].path THEN inputs[file] ELSE "own"]
    IN  [config |-> config,
         corpus |-> at("corpus", "corpus"), queries |-> at("dataset", "queries")]

\* Documents may be cut short; a line of a dataset may not.
InputsRead(experiment) ==
    /\ experiment.corpus.holds # Missing
    /\ experiment.queries.holds \notin {Missing, "cut"}

\* The fields a run is identified by; a hash is modelled by what it is of.
RunPayload(experiment) ==
    LET config == experiment.config
        retrievers == config.retrievers
        chunks == <<experiment.corpus, config.sections.chunker>>
        dense == {retrievers[i].settings : i \in {i \in DOMAIN retrievers :
                                                retrievers[i].type = "dense"}}
        policy == IF config.gates = << >> THEN {"quality_gate_policy_hash"} ELSE {}
        payload == [chunk_hash |-> chunks,
                    dataset_hash |-> experiment.queries,
                    index_hashes |-> {<<settings, chunks>> : settings \in dense},
                    metric_version |-> 1,
                    relevance_level |-> config.sections.dataset.relevance_level,
                    retrievers |-> [i \in DOMAIN retrievers |-> retrievers[i].name],
                    retriever_settings |-> retrievers,
                    seed |-> config.sections.experiment.seed,
                    top_k |-> config.top_k,
                    quality_gate_policy_hash |-> config.gates]
    IN  Restrict(payload, IdentityFields \ policy)

\* _build_manifest. The configuration is embedded, of it only the gates matter.
Manifest(experiment) ==
    LET payload == RunPayload(experiment) IN
    [field \in DOMAIN payload \cup {"query_ids", "config"} |->
        IF field = "query_ids" THEN Queries
        ELSE IF field = "config" THEN [quality_gates |-> experiment.config.gates]
        ELSE payload[field]]

\* EvaluationRunner.run; origin is the experiment that was run, which no code
\* looks at.
Measure(experiment) ==
    LET names == NamesOf(experiment.config.retrievers)
        metrics == [key \in SupportedMetrics \X experiment.config.top_k |-> One]
        query == [metrics |-> metrics, latency |-> 1]
    IN  [run |-> RunPayload(experiment), manifest |-> Manifest(experiment), gates |-> << >>,
         origin |-> experiment,
         metrics |-> [name \in names |-> metrics],
         queries |-> [name \in names |-> [id \in Queries |-> query]],
         latency |-> [name \in names |-> [statistic \in LatencyStatistics |-> 1]]]

---------------------------------------------------------------------------
(* Running, and saving the reports *)

\* The reports of the selected formats.
Saves(formats) ==
    (IF "json" \in formats THEN {"result.json"} ELSE {})
      \cup (IF "csv" \in formats THEN {"summary.csv", "per_query.csv"} ELSE {})
      \cup (IF "html" \in formats THEN {"report.html"} ELSE {})

\* Mutant: the result is saved after what was made of it.
JsonLast == <<"summary.csv", "per_query.csv", "report.html", "result.json">>

\* The order they are saved in.
SaveOrder == <<"result.json", "summary.csv", "per_query.csv", "report.html">>

ComesFirst(report, others) ==
    \E i \in 1 .. 4 : /\ SaveOrder[i] = report
                      /\ \A j \in 1 .. i - 1 : SaveOrder[j] \notin others

\* run_configured_experiment up to the first save.
Start(options) ==
    /\ Idle /\ runs < MaxRuns
    /\ LET config == Configuration
           selected == IF options.formats = Missing THEN config.formats
                       ELSE options.formats
       IN
        /\ config # Bad
        /\ selected # {}
        /\ options.directory \/ config.sections.report.output_dir # Null
        /\ InputsRead(Experiment(config))
        /\ RunsWell(config)
        /\ runs' = runs + 1
        /\ run' = [by |-> runs', formats |-> selected, result |-> Measure(Experiment(config)),
                   todo |-> Saves(selected)]
        /\ finished' = Missing
        /\ UNCHANGED <<projectVars, edits, files, saved, baseline, verdict>>

\* Each report replaces its predecessor at once.
SaveReport ==
    /\ run # Missing
    /\ \E report \in run.todo :
           /\ ComesFirst(report, run.todo)
           /\ files' = [files EXCEPT ![report] = [by |-> run.by, formats |-> run.formats]]
           /\ saved' = IF report = "result.json" THEN run.result ELSE saved
           /\ IF run.todo # {report}
              THEN /\ run' = [run EXCEPT !.todo = @ \ {report}]
                   /\ UNCHANGED finished
              ELSE /\ run' = Missing
                   /\ finished' = [by |-> run.by, formats |-> run.formats]
    /\ UNCHANGED <<projectVars, edits, runs, baseline, verdict>>

\* The run fails while it measures or saves, or is killed.
Stop ==
    /\ run # Missing
    /\ run' = Missing
    /\ UNCHANGED <<projectVars, edits, runs, files, saved, finished, baseline, verdict>>

---------------------------------------------------------------------------
(* Results on disk *)

KeepAsBaseline ==
    /\ Idle /\ saved # Missing /\ baseline # saved
    /\ baseline' = saved
    /\ UNCHANGED <<projectVars, edits, runs, run, files, saved, finished, verdict>>

\* Somebody writes other gates into the saved result.
Tamper ==
    /\ Idle /\ saved # Missing
    /\ saved.manifest = Manifest(saved.origin)
    /\ \E policy \in Policies :
           saved' = [saved EXCEPT !.manifest["config"].quality_gates = policy]
    /\ UNCHANGED <<projectVars, edits, runs, run, files, finished, baseline, verdict>>

\* Mutant: the policy is not compared with its hash.
EmbeddedErrorOfRun(result) ==
    LET manifest == result.manifest IN
    IF ~ Comparable(result, result) THEN "IncomparableRunError"
    ELSE IF \/ ~ IdentityFields \subseteq DOMAIN manifest
            \/ Range(manifest["retrievers"]) # Names(result)
            \/ result.run # [field \in IdentityFields |-> manifest[field]]
            \/ manifest["config"].quality_gates = << >>
         THEN "ConfigurationError"
    ELSE ""

\* _validate_embedded_candidate and _embedded_quality_gates: why the gates of a
\* result are not trusted, "" if they are.
EmbeddedError(result) ==
    LET manifest == result.manifest IN
    IF ~ Comparable(result, result) THEN "IncomparableRunError"
    ELSE IF \/ ~ IdentityFields \subseteq DOMAIN manifest
            \/ Range(manifest["retrievers"]) # Names(result)
            \/ result.run # [field \in IdentityFields |-> manifest[field]]
            \/ manifest["config"].quality_gates = << >>
            \/ manifest["config"].quality_gates # manifest["quality_gate_policy_hash"]
         THEN "ConfigurationError"
    ELSE ""

\* The candidate is looked at before the baseline.
FirstError(first, second) == IF first # "" THEN first ELSE second

EmbeddedGates(result) == result.manifest["config"].quality_gates

\* evaluate_configured_quality_gates without a configuration file.
EmbeddedVerdict(candidate, against) ==
    LET gates == EmbeddedGates(IF against = Missing THEN candidate ELSE against)
        distrust == FirstError(
            EmbeddedError(candidate),
            IF against = Missing THEN "" ELSE EmbeddedError(against))
        differ == /\ against # Missing
                  /\ candidate.manifest["quality_gate_policy_hash"] #
                         against.manifest["quality_gate_policy_hash"]
    IN  [gates |-> gates,
         error |-> IF distrust # "" THEN distrust
                   ELSE IF differ THEN "ConfigurationError"
                   ELSE GateError(candidate, gates, against)]

\* evaluate_configured_quality_gates with one.
ConfiguredVerdict(candidate, against) ==
    LET config == Configuration IN
    IF config = Bad THEN [gates |-> << >>, error |-> "ConfigurationError"]
    ELSE [gates |-> config.gates, error |-> GateError(candidate, config.gates, against)]

\* Both results are within the max_bytes of the command, which refuses a larger
\* one whatever it holds.
EvaluateGatesOf(candidate, against) ==
    /\ Idle
    /\ \E embedded \in BOOLEAN :
           LET found == IF embedded THEN EmbeddedVerdict(candidate, against)
                        ELSE ConfiguredVerdict(candidate, against)
           IN  verdict' = [command |-> IF embedded THEN "embedded" ELSE "configured",
                           gates |-> found.gates, error |-> found.error,
                           compared |-> against # Missing]
    /\ UNCHANGED <<projectVars, edits, runs, run, files, saved, finished, baseline>>

\* compare_result_files
CompareResults(candidate, against) ==
    /\ Idle
    /\ verdict' = [command |-> "compare", gates |-> << >>,
                   error |-> IF Comparable(against, candidate) THEN ""
                             ELSE "IncomparableRunError",
                   compared |-> TRUE]
    /\ UNCHANGED <<projectVars, edits, runs, run, files, saved, finished, baseline>>

Next ==
    \/ InitProject
    \/ WriteTemplate
    \/ InitStops
    \/ Edit
    \/ \E options \in Options : Start(options)
    \/ SaveReport
    \/ Stop
    \/ KeepAsBaseline
    \/ Tamper
    \/ /\ saved # Missing
       /\ \E against \in {Missing, baseline} : EvaluateGatesOf(saved, against)
    \/ /\ saved # Missing /\ baseline # Missing
       /\ CompareResults(saved, baseline)

Spec == Init /\ [][Next]_vars

---------------------------------------------------------------------------
(* Properties *)

TypeOK ==
    /\ edits \in 0 .. MaxEdits /\ runs \in 0 .. MaxRuns
    /\ inputs \in [Inputs -> {Missing, "own", "template", "cut"}]
    /\ run # Missing =>
           /\ DOMAIN run = {"by", "formats", "result", "todo"}
           /\ run.by = runs /\ runs > 0 /\ run.formats \in SUBSET SupportedFormats
    /\ files \in [Reports -> {Missing} \cup [by : 1 .. runs, formats : SUBSET SupportedFormats]]
    /\ init # Missing =>
           init \in [todo : {TemplateFiles, Tail(TemplateFiles), Tail(Tail(TemplateFiles))},
                    over : BOOLEAN, live : BOOLEAN]
    /\ verdict # Missing =>
           verdict.error \in {"", "ConfigurationError", "IncomparableRunError"}

\* The run a report shows; runs are counted from one.
ShownRun(report) == IF files[report] = Missing THEN 0 ELSE files[report].by

\* What a run need not save any more shows it; all other reports are older.
SavingInv ==
    run # Missing =>
        /\ finished = Missing
        /\ run.todo # {} /\ run.todo \subseteq Saves(run.formats)
        /\ \A report \in Reports :
               ShownRun(report) = runs <=> report \in Saves(run.formats) \ run.todo

\* An init of a new project has not come to its queries while it lasts; and
\* neither it nor a verdict goes together with a run.
TemplateInv ==
    /\ init # Missing =>
           /\ init.live => run = Missing
           /\ ~ init.over => inputs.queries \in {Missing, "cut"}
    /\ verdict # Missing => run = Missing /\ ~ Initializing

\* An experiment that a configuration stands for and a run has read.
IsExperiment(experiment) ==
    LET config == experiment.config IN
    /\ IsConfig(config) /\ RunsWell(config)
    /\ NamesOf(config.retrievers) \subseteq Kinds
    /\ \A i \in DOMAIN config.gates :
           config.gates[i].key \in Timed \cup (SupportedMetrics \X Nat)
    /\ config.sections.chunker \in Chunkers
    /\ config.sections.dataset.relevance_level \in Words.relevance_level
    /\ config.top_k \notin {Missing, Bad}
    /\ {experiment.corpus, experiment.queries} \subseteq Files

\* What a run measured, with a policy written into it.
Under(experiment, policy) ==
    [Measure(experiment) EXCEPT !.manifest["config"].quality_gates = policy]

IsResult(result) ==
    /\ result = Under(result.origin, result.manifest["config"].quality_gates)
    /\ IsExperiment(result.origin)

ResultInv ==
    /\ draft # Missing => IsDraft(draft)
    /\ run # Missing => IsResult(run.result)
    /\ saved # Missing => IsResult(saved)
    /\ baseline # Missing => IsResult(baseline)

\* Every value given in the file is in force, whatever substitutes reading it
\* may have used. Cutoffs left out silently are the exception.
WrittenIsInForce(config) ==
    LET kept(section, raw, read) ==
            \A field \in DOMAIN AsMapping(raw) \cap DOMAIN Defaults[section] :
                raw[field] # Null => read[field] = raw[field]
    IN  /\ \A section \in Sections :
               kept(section, draft[section], config.sections[section])
        /\ DOMAIN config.retrievers = DOMAIN draft.retrievers
        /\ \A i \in DOMAIN config.retrievers :
               LET read == config.retrievers[i] IN
               /\ kept(read.type, draft.retrievers[i], read.settings)
               /\ read.name = draft.retrievers[i].name
               /\ read.type = draft.retrievers[i].type
        /\ DOMAIN config.gates = DOMAIN AsList(draft.quality_gates, << >>)
        /\ draft.formats # Missing => config.formats = Range(draft.formats)
        /\ draft.top_k # Missing => config.top_k = Range(draft.top_k) \ {Null}

\* A configuration that loads is the one that was written, and it can be run:
\* no constructor and no search refuses what the loader let through, and no
\* hybrid names a source that nobody built. With the type invariant, and with
\* what makes the properties below inductive.
ProjectInv ==
    /\ TypeOK
    /\ SavingInv /\ TemplateInv /\ ResultInv
    /\ LET config == Configuration IN
       config # Bad => RunsWell(config) /\ WrittenIsInForce(config)

Untouched(result) == result.manifest = Manifest(result.origin)

\* Gates that come with a result are those it was configured with, and the
\* baseline was configured with the same; a result as a run left it, of a size
\* that the command reads, can be gated by them, unless they ask for a baseline and there is none, or one of
\* another experiment or policy.
GatedByOwnPolicy ==
    verdict # Missing /\ verdict.command = "embedded" =>
        LET candidate == saved
            against == IF verdict.compared THEN baseline ELSE Missing
            gates == candidate.origin.config.gates
        IN  /\ verdict.error = "" =>
                   /\ verdict.gates = gates
                   /\ against # Missing => against.origin.config.gates = gates
            /\ Untouched(candidate) /\ gates # << >> =>
                   /\ against = Missing => (verdict.error # "" <=> HasDrop(gates))
                   /\ against # Missing /\ Untouched(against) =>
                          /\ verdict.error = "ConfigurationError" =>
                                 against.origin.config.gates # gates
                          /\ against.run = candidate.run => verdict.error = ""
                   /\ against # Missing /\ ~ Untouched(against) => verdict.error # ""

\* A new project whose init did not finish does not run on a part of the
\* template: its own queries come last, and nothing runs without them.
HalfTemplateNotRun ==
    run # Missing /\ init # Missing /\ ~ init.over =>
        run.result.origin.queries.holds # "template"

\* Whenever a run stops, the reports of a run that selected JSON are of the run
\* result.json is of or of an earlier one, the queries' table is never newer
\* than the summary, and a run that ended well left every report it selected.
ReportsFollowResult ==
    /\ \A report \in Reports :
           files[report] # Missing /\ "json" \in files[report].formats =>
               ShownRun(report) <= ShownRun("result.json")
    /\ ShownRun("per_query.csv") <= ShownRun("summary.csv")
    /\ finished # Missing =>
           \A report \in Saves(finished.formats) : ShownRun(report) = finished.by
=============================================================================
