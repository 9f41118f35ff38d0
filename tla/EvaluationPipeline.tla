-------------------------- MODULE EvaluationPipeline --------------------------
(***************************************************************************)
(* A run of EvaluationRunner, from documents to the metrics of a query:    *)
(* the chunker cuts every document (runner.py:261), the chunks are given   *)
(* to the retrievers (310, 532), and a query is searched for among them    *)
(* and evaluated.  The query's side knows a chunk by its identifier and    *)
(* its document.  Identifiers are digests of the document and the offsets  *)
(* (chunkers/ids.py), so that their order has nothing to do with the      *)
(* order in which the chunks were cut.                                     *)
(***************************************************************************)
EXTENDS FixedSizeChunker, RankedEvaluation

CONSTANT MaxChunks      \* bound: no query is followed over more chunks

ASSUME BoundAssumption == MaxChunks \in Nat

pipelineVars == <<vars, queryVars>>

PipelineInit == Init /\ QueryInit

Indexed == documentOf # <<>>

CutNext == ~Indexed /\ Cut /\ UNCHANGED queryVars

Numberings == {f \in [DOMAIN chunks -> DOMAIN chunks] : \A i, j \in DOMAIN f : f[i] = f[j] => i = j}

\* Nothing is indexed before every document is cut.
Index ==
    /\ ~Indexed /\ document > Documents /\ Len(chunks) <= MaxChunks
    /\ \E f \in Numberings : documentOf' = [id \in DOMAIN chunks |-> chunks[f[id]].doc]
    /\ UNCHANGED <<vars, phase, answers, pool, ranked, level, grades, metrics>>

Query == Indexed /\ QueryNext /\ UNCHANGED vars

TooManyChunks == ~Indexed /\ Len(chunks) > MaxChunks /\ Done /\ UNCHANGED queryVars

PipelineNext == CutNext \/ Index \/ Query \/ TooManyChunks

PipelineSpec == PipelineInit /\ [][PipelineNext]_pipelineVars
=============================================================================
