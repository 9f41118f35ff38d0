------------------------ MODULE MCExperimentProject ------------------------
EXTENDS ExperimentProject

Keyword == [name |-> "keyword", type |-> "keyword"]
BM25 == [name |-> "bm25", type |-> "bm25"]
Dense == [name |-> "dense", type |-> "dense", batch_size |-> 8]
Hybrid(sources, candidates) ==
    [name |-> "hybrid", type |-> "hybrid", sources |-> sources, candidate_k |-> candidates]
Both == <<"bm25", "dense">>

RecallGate(retriever, cutoff) ==
    [retriever |-> retriever, metric |-> <<"recall", cutoff>>, min_value |-> 2]
DropGate == [retriever |-> "bm25", metric |-> <<"recall", 3>>, max_absolute_drop |-> 1,
             max_value |-> Null]

\* What init writes.
Plain ==
    [root |-> [schema_version |-> 1],
     experiment |-> [name |-> "retrieval-lab-example", seed |-> 42],
     corpus |-> [path |-> "documents"], chunker |-> [size |-> 512, overlap |-> 64],
     dataset |-> [path |-> "queries"], evaluation |-> [repetitions |-> 1],
     report |-> [output_dir |-> "reports"],
     top_k |-> <<1, 3>>, metrics |-> Missing, formats |-> <<"json", "csv", "html">>,
     retrievers |-> <<Keyword, BM25>>, quality_gates |-> << >>]

\* A hybrid under gates, judged by chunks.
Gated ==
    [Plain EXCEPT !.dataset = [path |-> "queries", relevance_level |-> "chunk"],
                  !.retrievers = <<Hybrid(Both, 3), BM25, Dense>>,
                  !.quality_gates = <<RecallGate("hybrid", 1), DropGate>>]

MCProjects == {Gated}

\* A beginning of the template: nothing of it, some of it up to the retrievers, the
\* first of them or both, and all but the formats.
Nothing == [part \in DOMAIN Plain |-> IF part = "root" THEN Null ELSE Missing]
UpTo(retrievers) ==
    [Plain EXCEPT !.retrievers = retrievers, !.top_k = Missing, !.evaluation = Missing,
                  !.report = Missing, !.formats = Missing, !.quality_gates = Missing]
MCCuts == {Nothing, UpTo(Missing), UpTo(<<[name |-> "keyword"]>>), UpTo(<<Keyword>>),
           UpTo(<<Keyword, BM25>>), [Plain EXCEPT !.formats = Missing]}

MCEdits ==
    [root |-> {[cache_dir |-> Null], [schema_version |-> 2],
               [schema_version |-> 1, cache_dir |-> "cache"]},
     experiment |-> {Null, [seed |-> -1], [seed |-> 7],
                     [sed |-> 7], [cache_dir |-> "elsewhere"]},
     corpus |-> {Missing, [path |-> "other"]},
     chunker |-> {Missing, Null, [size |-> 0], [size |-> 64],
                  [overlap |-> -1], [type |-> "words"]},
     dataset |-> {[path |-> "other"], [path |-> "queries", relevance_level |-> "page"]},
     evaluation |-> {[repetitions |-> 2], [concurrency |-> Null]},
     report |-> {Missing},
     top_k |-> {Missing, Null, << >>, <<0, 1>>, <<1, 1>>, <<Null, 1>>, <<Wrong, 1>>},
     metrics |-> {<<"recall">>, <<"recall", "ndcg", "recall">>},
     formats |-> {Missing, Null, <<"csv">>, <<"json", "json">>, <<"pdf">>},
     retrievers |-> {Missing, << >>, <<BM25>>, <<BM25, BM25>>,
                     <<[BM25 EXCEPT !.name = "mine"]>>, <<[BM25 EXCEPT !.type = "bm26"]>>,
                     <<[name |-> "bm25", type |-> "bm25", k1 |-> 0]>>,
                     <<[name |-> "bm25", type |-> "bm25", b |-> 5]>>,
                     <<[name |-> "bm25", type |-> "bm25", k1 |-> 4, b |-> Null]>>,
                     <<[name |-> "keyword", type |-> "keyword", k1 |-> 4]>>,
                     <<BM25, Dense, Hybrid(Both, 2)>>,
                     <<BM25, Dense, Hybrid(<<"bm25">>, 3)>>,
                     <<BM25, Dense, Hybrid(<<"bm25", "bm25", "dense">>, 3)>>,
                     <<BM25, Hybrid(Both, 3)>>,
                     <<BM25, Dense, Hybrid(<<"bm25", "hybrid">>, 3)>>,
                     <<BM25, Dense, Hybrid(Both, 3), Hybrid(<<"bm25", "hybrid">>, 3)>>,
                     <<[Dense EXCEPT !.batch_size = 0]>>},
     quality_gates |-> {Null, << >>, <<RecallGate("bm25", 1)>>, <<RecallGate("keyword", 3)>>,
                        <<DropGate>>, <<RecallGate("bm25", 2)>>,
                        <<[retriever |-> "bm25", metric |-> <<"latency_p95_ms", 0>>,
                           max_value |-> 8]>>,
                        <<[retriever |-> "bm25", metric |-> Wrong, max_value |-> 8]>>,
                        <<[retriever |-> "bm25", metric |-> <<"recall", 1>>, max_value |-> Null]>>,
                        <<[retriever |-> "bm25", metric |-> <<"recall", 1>>,
                           max_value |-> 1, min_value |-> 2]>>,
                        <<RecallGate("bm25", 1), DropGate>>}]

MCOptions == {[formats |-> Missing, directory |-> FALSE],
              [formats |-> {"csv"}, directory |-> TRUE]}

MCPaths == {"documents", "queries", "other"}

MCPolicies == {<<ReadGate(RecallGate("bm25", 1))>>}
=============================================================================
