------------------------- MODULE MCGatedComparison -------------------------
EXTENDS GatedComparison, TLC

Recall == <<"recall", 1>>

\* A result of one retriever over two queries.
Result(run, recalls, times) ==
    LET queries == [query \in {1, 2} |->
                      [metrics |-> (Recall :> recalls[query]),
                       latency |-> IF times = Missing THEN Missing ELSE times[query]]]
    IN  [run |-> run, gates |-> << >>,
         manifest |-> [dataset_hash |-> "d", relevance_level |-> "document",
                       metric_version |-> 1, top_k |-> {1}, chunk_hash |-> "c",
                       query_ids |-> {1, 2}],
         metrics |-> [bm25 |-> Macro(queries)],
         queries |-> [bm25 |-> queries],
         latency |-> IF times = Missing THEN Missing
                     ELSE [bm25 |-> FromSamples(times)]]

Plain(run) == Result(run, <<2, 4>>, <<2, 4>>)

MCMeasured ==
    {Result(run, recalls, <<2, 4>>) :
        run \in {"b", "c"}, recalls \in {<<0, 0>>, <<4, 0>>, <<2, 4>>, <<4, 4>>}}
    \cup {Result(run, <<2, 4>>, times) :
        run \in {"b", "c"}, times \in {<<0, 0>>, <<8, 2>>, <<11, 3>>}}

InChunks(result) == [result EXCEPT !.manifest["relevance_level"] = "chunk"]
Both == [bm25 |-> TRUE, dense |-> TRUE]

\* One departure each from what a runner produces.
Departures(r) ==
    {[r EXCEPT !.manifest[field] = value] :
        field \in {"dataset_hash", "relevance_level", "metric_version", "top_k",
                   "chunk_hash", "query_ids"}, value \in {Missing, Bad}}
    \cup {InChunks(r),
          [r EXCEPT !.manifest["top_k"] = {1, 2}],
          [r EXCEPT !.manifest["query_ids"] = {1, 3}],
          [InChunks(r) EXCEPT !.manifest["chunk_hash"] = "e"],
          [InChunks(r) EXCEPT !.manifest["chunk_hash"] = Missing],
          \* a query without its metric, or with one of its own
          [r EXCEPT !.queries["bm25"][1].metrics = (<<"mrr", 1>> :> 2)],
          [r EXCEPT !.queries["bm25"][1].metrics = Recall :> 4 @@ <<"mrr", 1>> :> 2],
          \* a query too few
          [r EXCEPT !.queries["bm25"] = 1 :> @[1]],
          \* other metrics, or an aggregate that is no mean
          [r EXCEPT !.metrics["bm25"] = Recall :> 3 @@ <<"mrr", 1>> :> 2],
          [r EXCEPT !.metrics["bm25"] = Recall :> 4],
          \* no latency at all, or only of the aggregate, or only of a query
          Result(r.run, <<2, 4>>, Missing),
          [Result(r.run, <<2, 4>>, Missing) EXCEPT !.latency = r.latency],
          [Result(r.run, <<2, 4>>, Missing) EXCEPT !.queries["bm25"][1].latency = 2],
          \* other retrievers
          [r EXCEPT !.metrics = [dense |-> @["bm25"]], !.queries = [dense |-> @["bm25"]],
                    !.latency = [dense |-> @["bm25"]]],
          [r EXCEPT !.metrics = [name \in DOMAIN Both |-> @["bm25"]],
                    !.queries = [name \in DOMAIN Both |-> @["bm25"]],
                    !.latency = [name \in DOMAIN Both |-> @["bm25"]]]}

MCConstructed == Departures(Plain("c"))

Gate(key, limits) == [retriever |-> "bm25", key |-> key, limits |-> limits]
OneLimit ==
    {"min_value" :> 2, "max_value" :> 2, "max_absolute_drop" :> 0, "max_relative_drop" :> 0,
     "min_value" :> 1 @@ "max_value" :> 3,
     "max_absolute_drop" :> 2 @@ "max_relative_drop" :> 1}
MCPolicies ==
    {<<Gate(key, limits)>> : key \in {Recall, MeanLatency}, limits \in OneLimit}
    \cup {<<Gate(<<"latency_max_ms", NoCutoff>>, "max_relative_drop" :> 0)>>,
          <<Gate(<<"mrr", 1>>, "min_value" :> 1)>>,
          <<[retriever |-> "dense", key |-> Recall, limits |-> "max_absolute_drop" :> 1]>>,
          <<Gate(Recall, "min_value" :> 2), Gate(MeanLatency, "max_absolute_drop" :> 1)>>}

MCTolerances == {[absolute |-> 0, num |-> 0, den |-> 1],
                 [absolute |-> 1, num |-> 1, den |-> 2],
                 [absolute |-> 2, num |-> 0, den |-> 1]}
=============================================================================
