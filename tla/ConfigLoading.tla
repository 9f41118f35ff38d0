--------------------------- MODULE ConfigLoading ---------------------------
(***************************************************************************)
(* How a configuration file becomes a RetrievalConfig (config/loader.py,   *)
(* config/models.py): the loader reads it field by field, notes every      *)
(* fault and goes on with a substitute, and raises if it noted any; the    *)
(* typed configuration then checks itself once more.                       *)
(*                                                                         *)
(* A draft, the file as YAML read it, is a record                          *)
(*   root, experiment, corpus, chunker, dataset, evaluation, report        *)
(*              sections: field |-> raw value; Missing, or Wrong           *)
(*   top_k, metrics, formats          lists of raw values; Missing, Wrong  *)
(*   retrievers, quality_gates        lists of sections; Missing, Wrong    *)
(* A raw value is Null, Wrong (of another type, blank, or infinite) or a   *)
(* value. Real numbers are in units, One of them make 1.0; a metric is     *)
(* <<name, cutoff>>, Wrong if it is not written canonically.               *)
(***************************************************************************)
EXTENDS GateChecks, FiniteSets, SequencesExt

CONSTANTS
    Null,             \* a field that is there without a value
    Wrong,            \* a raw value no reader accepts
    Paths,            \* what may be written where a path belongs
    SupportedMetrics  \* SUPPORTED_METRICS

SupportedFormats == {"json", "csv", "html"}

\* The fields of every section and of every kind of retriever, each with the
\* value it has when it is not given: Missing if it must be, Null if it stays
\* unset.
Defaults ==
    [root |-> [schema_version |-> Missing, cache_dir |-> Null],
     experiment |-> [name |-> Null, seed |-> 42, workspace |-> Null, cache_dir |-> Null],
     corpus |-> [path |-> Missing],
     chunker |-> [type |-> "recursive_characters", size |-> 512, overlap |-> 64],
     dataset |-> [path |-> Missing, format |-> "native_jsonl",
                  relevance_level |-> "document"],
     evaluation |-> [repetitions |-> 1, concurrency |-> 1],
     report |-> [output_dir |-> Null],
     keyword |-> << >>,
     bm25 |-> [tokenizer |-> "default", k1 |-> (3 * One) \div 2, b |-> (3 * One) \div 4],
     dense |-> [model |-> "intfloat/multilingual-e5-small", model_revision |-> Null,
                normalize_embeddings |-> TRUE, query_prompt |-> "query: ",
                document_prompt |-> "passage: ", batch_size |-> 32],
     hybrid |-> [fusion |-> "rrf", rrf_k |-> 60, candidate_k |-> 100]]

Lists == {"top_k", "metrics", "formats", "retrievers", "quality_gates"}
Sections == {"root", "experiment", "corpus", "chunker", "dataset", "evaluation", "report"}
Kinds == {"keyword", "bm25", "dense", "hybrid"}

\* The values a field of a word may have.
Words == [tokenizer |-> {"default"}, fusion |-> {"rrf"}, format |-> {"native_jsonl"},
          relevance_level |-> {"document", "chunk"}]

\* What the reader of a field, or the record it goes into, asks of its value.
Admits(section, field, value) ==
    /\ field \in {"size", "k1", "batch_size", "rrf_k", "candidate_k"} => value > 0
    /\ field \in {"seed", "overlap"} => value >= 0
    /\ field = "b" => value \in 0 .. One
    /\ field \in {"schema_version", "repetitions", "concurrency"} => value = 1
    /\ field \in DOMAIN Words => value \in Words[field]
    /\ section = "chunker" /\ field = "type" => value = "recursive_characters"

\* A value YAML may have read for a field: a field that holds none is not
\* there, and a value of another type than the field's is Wrong.
IsRaw(field, value) ==
    /\ value # Missing
    /\ value \notin {Null, Wrong} =>
           /\ field \in {"size", "overlap"} => value \in Int
           /\ field = "path" => value \in Paths
           /\ field = "metric" => value = <<value[1], value[2]>> /\ value[2] \in Nat

IsRawSection(raw) ==
    raw \in {Missing, Null, Wrong} \/ \A field \in DOMAIN raw : IsRaw(field, raw[field])

IsRawPart(part, raw) ==
    /\ part \in Sections => IsRawSection(raw)
    /\ part \in Lists /\ raw \notin {Missing, Null, Wrong} =>
           /\ part = "top_k" => \A cutoffs \in SUBSET Range(raw) : cutoffs \notin {Missing, Bad}
           /\ part \in {"retrievers", "quality_gates"} =>
                  \A i \in DOMAIN raw : IsRawSection(raw[i])

IsDraft(draft) ==
    /\ DOMAIN draft = Sections \cup Lists
    /\ \A part \in DOMAIN draft : IsRawPart(part, draft[part])

---------------------------------------------------------------------------
(* Reading one section *)

\* _mapping: anything else than a mapping counts as an empty one.
AsMapping(raw) == IF raw \in {Missing, Null, Wrong} THEN << >> ELSE raw

\* A field as it was given; a field that is Null counts as not given.
Entry(raw, field) ==
    LET data == AsMapping(raw) IN
    IF field \in DOMAIN data /\ data[field] # Null THEN data[field] ELSE Missing

Value(section, raw, field) ==
    IF Entry(raw, field) = Missing THEN Defaults[section][field] ELSE Entry(raw, field)

Unfit(section, raw, field) ==
    LET value == Value(section, raw, field) IN
    \/ value \in {Missing, Wrong}
    \/ value # Null /\ ~ Admits(section, field, value)

\* A value that does not fit is replaced by the default; the fault is noted.
ReadSection(section, raw) ==
    [field \in DOMAIN Defaults[section] |->
        IF Unfit(section, raw, field) THEN Defaults[section][field]
        ELSE Value(section, raw, field)]

\* Mutant: a value that was replaced by the default is no fault.
SectionFaultsForgiving(section, raw, others) ==
    (DOMAIN AsMapping(raw) \ (DOMAIN Defaults[section] \cup others))
      \cup (IF raw \in {Null, Wrong} THEN {"section"} ELSE {})

SectionFaults(section, raw, others) ==
    {field \in DOMAIN Defaults[section] : Unfit(section, raw, field)}
      \cup (DOMAIN AsMapping(raw) \ (DOMAIN Defaults[section] \cup others))
      \cup (IF raw \in {Null, Wrong} THEN {"section"} ELSE {})

---------------------------------------------------------------------------
(* Reading lists.  A list is a function on the places of its items: what is
   left out leaves its place empty. *)

\* A list; Null is none, and any other thing counts as the empty list.
NoList(raw) == raw \in {Null, Wrong}
AsList(raw, default) ==
    IF raw = Missing THEN default ELSE IF NoList(raw) THEN << >> ELSE raw

\* A cutoff that is Null is left out, and nobody hears of it.
GivenCutoffs(raw) ==
    LET list == AsList(raw, <<1, 3, 5, 10>>)
    IN  Restrict(list, {i \in DOMAIN list : list[i] \notin {Null, Wrong}})

\* EvaluationConfig
CutoffsFit(cutoffs) ==
    /\ DOMAIN cutoffs # {}
    /\ IsInjective(cutoffs)
    /\ \A k \in Range(cutoffs) : k > 0

ReadTopK(raw) ==
    IF NoList(raw) \/ ~ CutoffsFit(GivenCutoffs(raw)) THEN {1, 3, 5, 10}
    ELSE Range(GivenCutoffs(raw))

TopKFault(raw) ==
    \/ NoList(raw)
    \/ Wrong \in Range(AsList(raw, << >>))
    \/ ~ CutoffsFit(GivenCutoffs(raw))

\* The metrics of a configuration are all there are.
MetricsFault(raw) ==
    /\ raw # Missing
    /\ \/ NoList(raw)
       \/ ~ IsInjective(AsList(raw, << >>))
       \/ Range(AsList(raw, << >>)) # SupportedMetrics

ReadFormats(raw) == Range(AsList(raw, << >>)) \cap SupportedFormats
FormatsFault(raw) ==
    \/ NoList(raw)
    \/ ~ IsInjective(AsList(raw, << >>))
    \/ ~ Range(AsList(raw, << >>)) \subseteq SupportedFormats

---------------------------------------------------------------------------
(* Reading retrievers *)

Kind(raw) == IF Entry(raw, "type") \in {Missing, Wrong} THEN "keyword" ELSE Entry(raw, "type")
NameOf(raw) == IF Entry(raw, "name") \in {Missing, Wrong} THEN "invalid" ELSE Entry(raw, "name")

RawSources(raw) ==
    IF "sources" \in DOMAIN AsMapping(raw) THEN AsMapping(raw).sources ELSE Missing
Sources(raw) ==
    IF Kind(raw) = "hybrid" THEN Range(AsList(RawSources(raw), << >>)) \ {Null, Wrong}
    ELSE {}
Enough(sources) == Cardinality(sources) >= 2
SourcesFault(raw) ==
    \/ NoList(RawSources(raw))
    \/ {Null, Wrong} \cap Range(AsList(RawSources(raw), << >>)) # {}
    \/ ~ IsInjective(AsList(RawSources(raw), << >>))
    \/ ~ Enough(Sources(raw))

\* Retrievers of an unknown kind, and hybrids of fewer than two sources, do not
\* reach the configuration.
IsKept(raw) ==
    /\ Kind(raw) \in Kinds
    /\ Kind(raw) = "hybrid" => Enough(Sources(raw))

ReadRetriever(raw) ==
    [name |-> NameOf(raw), type |-> Kind(raw), sources |-> Sources(raw),
     settings |-> ReadSection(Kind(raw), raw)]
ReadRetrievers(list) ==
    LET items == AsList(list, << >>)
    IN  [i \in {i \in DOMAIN items : IsKept(items[i])} |-> ReadRetriever(items[i])]

RetrieverFaults(list) ==
    LET items == AsList(list, << >>) IN
    {<<"retrievers", i>> : i \in {i \in DOMAIN items :
        \/ Entry(items[i], "name") \in {Missing, Wrong}
        \/ Entry(items[i], "type") \in {Missing, Wrong}
        \/ Kind(items[i]) \notin Kinds
        \/ NameOf(items[i]) # Kind(items[i])
        \/ \E j \in 1 .. i - 1 : NameOf(items[j]) = NameOf(items[i])
        \/ SectionFaults(Kind(items[i]), items[i],
               {"name", "type"} \cup
                   (IF Kind(items[i]) = "hybrid" THEN {"sources"} ELSE {})) # {}
        \/ Kind(items[i]) = "hybrid" /\ SourcesFault(items[i])}}
      \cup (IF list = Missing \/ NoList(list) THEN {<<"retrievers", 0>>} ELSE {})

NamesOf(retrievers) == {retrievers[i].name : i \in DOMAIN retrievers}
NamedApart(retrievers) ==
    \A i, j \in DOMAIN retrievers : retrievers[i].name = retrievers[j].name => i = j
Hybrids(retrievers) == {retrievers[i] : i \in {i \in DOMAIN retrievers :
                                               retrievers[i].type = "hybrid"}}

\* _validate_retriever_graph, and RetrievalConfig once more.
IsGraph(retrievers, top_k) ==
    \A hybrid \in Hybrids(retrievers) :
        /\ \A k \in top_k : hybrid.settings.candidate_k >= k
        /\ hybrid.sources \subseteq NamesOf(retrievers) \ {hybrid.name}

---------------------------------------------------------------------------
(* Reading quality gates *)

\* _quality_metric
IsMetric(key) ==
    /\ key # Wrong
    /\ \/ key \in Timed
       \/ key[1] \in SupportedMetrics /\ key[2] > 0

ReadGate(raw) ==
    [retriever |-> IF Entry(raw, "retriever") = Missing THEN Wrong
                   ELSE Entry(raw, "retriever"),
     key |-> IF Entry(raw, "metric") = Missing THEN Wrong ELSE Entry(raw, "metric"),
     limits |-> [constraint \in {c \in Constraints : Entry(raw, c) \notin {Missing, Wrong}}
                    |-> Entry(raw, constraint)]]

\* QualityGateConfig
IsGate(gate) == gate.retriever # Wrong /\ IsMetric(gate.key) /\ WellFormed(gate)

ReadGates(list) ==
    LET items == AsList(list, << >>)
    IN  [i \in {i \in DOMAIN items : IsGate(ReadGate(items[i]))} |-> ReadGate(items[i])]

GateFaults(list) ==
    LET items == AsList(list, << >>) IN
    {<<"quality_gates", i>> : i \in {i \in DOMAIN items :
        \/ items[i] \in {Null, Wrong}
        \/ ~ DOMAIN AsMapping(items[i]) \subseteq {"retriever", "metric"} \cup Constraints
        \/ \E constraint \in Constraints : Entry(items[i], constraint) = Wrong
        \/ ~ IsGate(ReadGate(items[i]))}}
      \cup (IF NoList(list) THEN {<<"quality_gates", 0>>} ELSE {})

---------------------------------------------------------------------------
(* The whole configuration *)

Parse(draft) ==
    [sections |-> [section \in Sections |-> ReadSection(section, draft[section])],
     top_k |-> ReadTopK(draft.top_k),
     formats |-> ReadFormats(draft.formats),
     retrievers |-> ReadRetrievers(draft.retrievers),
     gates |-> ReadGates(draft.quality_gates)]

Noted(what, fault) == IF fault THEN {<<what, 0>>} ELSE {}

\* What concerns a list as a whole, or more than one field.
ListFaults(draft, config) ==
    LET sections == config.sections IN
    Noted("top_k", TopKFault(draft.top_k))
      \cup Noted("metrics", MetricsFault(draft.metrics))
      \cup Noted("formats", FormatsFault(draft.formats))
      \cup Noted("cache_dir", Null \notin {sections.root.cache_dir,
                                          sections.experiment.cache_dir})
      \cup Noted("chunker", sections.chunker.overlap >= sections.chunker.size)
      \cup Noted("graph", ~ IsGraph(config.retrievers, config.top_k))
      \cup Noted("gates", \E i \in DOMAIN config.gates :
                              config.gates[i].retriever \notin NamesOf(config.retrievers))

\* Everything load_config has to say about a draft read as config.
Faults(draft, config) ==
    (UNION {{<<section, field>> : field \in SectionFaults(section, draft[section], {})} :
              section \in Sections})
      \cup RetrieverFaults(draft.retrievers)
      \cup GateFaults(draft.quality_gates)
      \cup ListFaults(draft, config)

\* RetrievalConfig.__post_init__
IsConfig(config) ==
    /\ DOMAIN config.retrievers # {}
    /\ NamedApart(config.retrievers)
    /\ \A i \in DOMAIN config.retrievers :
           config.retrievers[i].name = config.retrievers[i].type
    /\ IsGraph(config.retrievers, config.top_k)
    /\ \A i \in DOMAIN config.gates :
           /\ config.gates[i].retriever \in NamesOf(config.retrievers)
           /\ config.gates[i].key \in Timed \/ config.gates[i].key[2] \in config.top_k

\* load_config: a configuration, or Bad where it raises.
LoadConfig(draft) ==
    LET config == Parse(draft) IN
    IF Faults(draft, config) = {} /\ IsConfig(config) THEN config ELSE Bad
=============================================================================
