--------------------------- MODULE RankedEvaluation ---------------------------
(***************************************************************************)
(* One query of an evaluation, from the answers of retrievers to metrics:  *)
(* reciprocal rank fusion (HybridRetriever.search), the validation and     *)
(* stable order of a ranking (evaluation/ranking.py, and for callables     *)
(* retrievers/callable.py), the collapse of chunks to documents at every   *)
(* cutoff (EvaluationRunner._evaluate_query, evaluate_retrievers) and the  *)
(* metrics of each cutoff (evaluation/engine.py, metrics.py).              *)
(*                                                                         *)
(* Identifiers are numbers, so that they have an order.  Fractions are     *)
(* numbers of units, which all of them are multiples of; 1 / log2(rank + 1)*)
(* is Discount[rank] and 2^grade - 1 is Gain[grade], as only that the one  *)
(* falls with the rank and the other grows with the grade matters.         *)
(***************************************************************************)
EXTENDS Integers, FiniteSets, FiniteSetsExt, Functions, SequencesExt

CONSTANTS
    Sources,        \* retrievers inside the hybrid
    RrfK,
    CandidateK,     \* how many results a source is asked for
    Cutoffs,        \* top_k of the evaluation
    MaxScore,       \* scores of a retriever that is not a hybrid: 1 .. MaxScore
    Unscored,       \* the score of an item that has none
    MaxGrade,       \* relevance grades: 1 .. MaxGrade
    Discount,       \* [rank -> weight]
    Gain,           \* [grade -> weight]
    ScoreUnit,      \* a fused score of 1, in units
    PrecisionUnit   \* a precision of 1, in units

MaxK == Max(Cutoffs)

ASSUME RankingAssumption ==
    /\ IsFiniteSet(Sources) /\ RrfK \in Nat \ {0}
    /\ IsFiniteSet(Cutoffs) /\ Cutoffs \subseteq Nat \ {0} /\ Cutoffs # {}
    /\ CandidateK \in Nat /\ CandidateK >= MaxK
    /\ MaxScore \in Nat \ {0} /\ Unscored = 0 /\ MaxGrade \in Nat \ {0}
    /\ Discount \in [1 .. MaxK -> Nat \ {0}]
    /\ \A i, j \in 1 .. MaxK : i < j => Discount[i] > Discount[j]
    /\ Gain \in [0 .. MaxGrade -> Nat] /\ Gain[0] = 0
    /\ \A a, b \in 0 .. MaxGrade : a < b => Gain[a] < Gain[b]
    /\ ScoreUnit \in Nat \ {0} /\ \A i \in 1 .. CandidateK : ScoreUnit % (RrfK + i) = 0
    /\ PrecisionUnit \in Nat \ {0} /\ \A i \in 1 .. MaxK : PrecisionUnit % i = 0

VARIABLES
    documentOf,     \* [chunk identifiers, numbers -> its document's number]
    phase,
    answers,        \* [Sources -> ranking of chunks], of a hybrid
    pool,           \* what the retriever would return without top_k
    ranked,         \* ranked_chunks of the runner
    level,          \* relevance_level of the dataset
    grades,         \* relevance grades of the query's relevant identifiers
    metrics         \* [Cutoffs -> the metrics at the cutoff]

queryVars == <<documentOf, phase, answers, pool, ranked, level, grades, metrics>>

Chunks == DOMAIN documentOf
DocumentIds == {documentOf[c] : c \in Chunks}
Result == [chunk : Chunks, score : Nat]

Silent == [s \in Sources |-> <<>>]

QueryInit ==
    /\ documentOf = <<>>
    /\ phase = "search"
    /\ answers = Silent
    /\ pool = <<>> /\ ranked = <<>>
    /\ level \in {"document", "chunk"}
    /\ grades = <<>> /\ metrics = <<>>

----------------------------------------------------------------------------
(* Rankings.                                                               *)

ChunksOf(results) == [i \in DOMAIN results |-> results[i].chunk]
FirstN(seq, n) == SubSeq(seq, 1, IF n < Len(seq) THEN n ELSE Len(seq))

\* validate_search_results, of a response's length and identifiers.
ValidResults(chunks, k) == Len(chunks) <= k /\ IsInjective(chunks)

\* Mutant: ties keep the order in which the chunks came.
BeforeByScore(a, b) == a.score > b.score

\* sorted(key=lambda result: (-result.score, result.chunk_id))
Before(a, b) == a.score > b.score \/ (a.score = b.score /\ a.chunk < b.chunk)

\* The positions of a set from first to last, if ahead is a strict order of them.
InOrder(positions, ahead(_, _)) ==
    [n \in 1 .. Cardinality(positions) |->
        CHOOSE i \in positions : Cardinality({j \in positions : ahead(j, i)}) = n - 1]

\* sorted: items of which none is before the other stay as they were.
Sorted(items, before(_, _)) ==
    LET order == InOrder(DOMAIN items, LAMBDA j, i :
                             \/ before(items[j], items[i])
                             \/ j < i /\ ~ before(items[i], items[j]))
    IN  [n \in DOMAIN order |-> items[order[n]]]

StableRank(results) == Sorted(results, Before)

AllScored(results) == \A i \in DOMAIN results : results[i].score # Unscored

\* The runner demands a score of every result; a callable may leave some out,
\* and _normalize_scored_items then keeps the order of the response.
Order(results) == IF AllScored(results) THEN StableRank(results) ELSE results

RankOf(c, ranking) == CHOOSE i \in DOMAIN ranking : ranking[i] = c

\* Mutant: a source's share grows with the rank.
ShareOfLast(c, ranking) ==
    IF c \in ToSet(ranking) THEN ScoreUnit \div (RrfK + 1 + CandidateK - RankOf(c, ranking)) ELSE 0

Share(c, ranking) ==
    IF c \in ToSet(ranking) THEN ScoreUnit \div (RrfK + RankOf(c, ranking)) ELSE 0

FusedScore(c, rankings) == SumFunction([s \in Sources |-> Share(c, rankings[s])])

\* ordered_ids of HybridRetriever.search.
Fused(rankings) ==
    LET found == UNION {ToSet(rankings[s]) : s \in Sources}
    IN  StableRank(SetToSeq({[chunk |-> c, score |-> FusedScore(c, rankings)] : c \in found}))

\* Mutant: every chunk counts.
KeepAll(ids) == ids

\* collapse_to_documents: the first chunk of each document.
FirstOfEach(ids) == InOrder({i \in DOMAIN ids : \A j \in 1 .. i - 1 : ids[j] # ids[i]}, <)
Collapse(ids) == LET first == FirstOfEach(ids) IN [n \in DOMAIN first |-> ids[first[n]]]

DocumentsOf(chunks) == [i \in DOMAIN chunks |-> documentOf[chunks[i]]]

\* Mutant: the collapsed ranking is cut, not the ranking of chunks.
CutAfterCollapse(chunks, k) ==
    FirstN(IF level = "document" THEN Collapse(DocumentsOf(chunks)) ELSE chunks, k)

\* retrieved_ids_by_cutoff: the cutoff counts chunks, also at document level.
IdsAt(chunks, k) ==
    IF level = "document" THEN Collapse(DocumentsOf(FirstN(chunks, k))) ELSE FirstN(chunks, k)

----------------------------------------------------------------------------
(* Metrics of the ranking ids at cutoff k, for the relevance grades g.     *)

HitsTo(ids, g, n) == Cardinality({i \in 1 .. n : ids[i] \in DOMAIN g})

\* The rank whose reciprocal is the reciprocal rank; 0 if there is none.
FirstHit(ids, g) ==
    LET ranks == {i \in DOMAIN ids : ids[i] \in DOMAIN g} IN IF ranks = {} THEN 0 ELSE Min(ranks)

\* Mutant: AP is divided by the number of relevant items at every cutoff.
BestHitsUncut(g, k) == Cardinality(DOMAIN g)

\* The denominator of AP@k.
BestHits(g, k) == IF Cardinality(DOMAIN g) < k THEN Cardinality(DOMAIN g) ELSE k

PrecisionSum(ids, g) ==
    SumFunction([i \in {i \in DOMAIN ids : ids[i] \in DOMAIN g} |->
                    HitsTo(ids, g, i) * (PrecisionUnit \div i)])

Discounted(gradeAt) ==
    SumFunction([i \in DOMAIN gradeAt |-> Gain[gradeAt[i]] * Discount[i]])

Ideal(g, k) ==
    LET items == SetToSeq(DOMAIN g)
    IN  FirstN(Sorted([i \in DOMAIN items |-> g[items[i]]], >), k)

GradesAt(ids, g) == [i \in DOMAIN ids |-> IF ids[i] \in DOMAIN g THEN g[ids[i]] ELSE 0]

\* Recall is hits over the number of relevant items, precision hits over k,
\* AP and nDCG are the quotients of their two numbers.
Metrics(ids, g, k) ==
    [hits |-> HitsTo(ids, g, Len(ids)),
     first |-> FirstHit(ids, g),
     ap |-> <<PrecisionSum(ids, g), BestHits(g, k) * PrecisionUnit>>,
     ndcg |-> <<Discounted(GradesAt(ids, g)), Discounted(Ideal(g, k))>>]

----------------------------------------------------------------------------
(* The evaluation of a query.                                              *)

SeqUpTo(set, n) == UNION {[1 .. i -> set] : i \in 0 .. n}

Fails == phase' = "failed" /\ UNCHANGED <<answers, pool, ranked, level, grades, metrics>>

\* Two sources may not describe one chunk differently.
Agree(rankings, payloadsAgree) ==
    payloadsAgree \/ \A s, t \in Sources : s # t => ToSet(rankings[s]) \cap ToSet(rankings[t]) = {}

SearchHybrid ==
    /\ phase = "search"
    /\ \E rankings \in [Sources -> SeqUpTo(Chunks, CandidateK + 1)], payloadsAgree \in BOOLEAN :
          IF (\A s \in Sources : ValidResults(rankings[s], CandidateK)) /\ Agree(rankings, payloadsAgree)
            THEN /\ phase' = "rank"
                 /\ answers' = rankings
                 /\ pool' = Fused(rankings)
                 /\ UNCHANGED <<ranked, level, grades, metrics>>
            ELSE Fails

\* A retriever of any other kind, or a callable, returns anything.
Search ==
    /\ phase = "search"
    /\ phase' = "rank"
    /\ pool' \in SeqUpTo([chunk : Chunks, score : {Unscored} \cup 1 .. MaxScore], MaxK + 1)
    /\ UNCHANGED <<answers, ranked, level, grades, metrics>>

\* The retriever raises.
SearchFails == phase = "search" /\ Fails

\* A hybrid returns the first top_k of its pool; any other retriever is
\* taken at its word, and validated.
Returned == IF answers = Silent THEN pool ELSE FirstN(pool, MaxK)

Rank ==
    /\ phase = "rank"
    /\ IF ValidResults(ChunksOf(Returned), MaxK)
         THEN /\ phase' = "evaluate"
              /\ ranked' = ChunksOf(Order(Returned))
              /\ UNCHANGED <<answers, pool, level, grades, metrics>>
         ELSE Fails

Relevances == LET ids == IF level = "document" THEN DocumentIds ELSE Chunks
              IN  UNION {[relevant -> 1 .. MaxGrade] : relevant \in (SUBSET ids) \ {{}}}

Evaluate ==
    /\ phase = "evaluate"
    /\ phase' = "done"
    /\ \E g \in Relevances :
          /\ grades' = g
          /\ metrics' = [k \in Cutoffs |-> Metrics(IdsAt(ranked, k), g, k)]
    /\ UNCHANGED <<answers, pool, ranked, level>>

Answered == phase \in {"failed", "done"} /\ UNCHANGED queryVars

QueryNext ==
    /\ SearchHybrid \/ Search \/ SearchFails \/ Rank \/ Evaluate \/ Answered
    /\ UNCHANGED documentOf

----------------------------------------------------------------------------
(* Properties.                                                             *)

QueryTypeOK ==
    /\ documentOf \in Seq(Nat) /\ level \in {"document", "chunk"}
    /\ phase \in {"search", "rank", "evaluate", "done", "failed"}
    /\ answers \in [Sources -> SeqUpTo(Chunks, CandidateK)]
    /\ pool \in Seq(Result)
    /\ ranked \in SeqUpTo(Chunks, MaxK) /\ IsInjective(ranked)
    /\ phase = "done" => grades \in Relevances

\* What each phase leaves behind for the next.
HandedOn ==
    /\ documentOf = <<>> => phase = "search"
    /\ phase = "search" => answers = Silent /\ pool = <<>>
    /\ phase \in {"search", "rank"} => ranked = <<>>
    /\ phase = "rank" =>
          /\ answers = Silent \/ pool = Fused(answers)
          /\ \A s \in Sources : IsInjective(answers[s])
    /\ phase \in {"evaluate", "done"} =>
          ValidResults(ChunksOf(Returned), MaxK) /\ ranked = ChunksOf(Order(Returned))
    /\ phase = "done" =>
          metrics = [k \in Cutoffs |-> Metrics(IdsAt(ranked, k), grades, k)]

\* The inductive invariant behind the properties.
QueryIInv == QueryTypeOK /\ HandedOn

\* A chunk that every source which returned its rival ranks ahead of it is
\* ahead in the fused ranking, and so is never cut off by top_k for its sake.
FusionKeepsAgreement ==
    phase = "rank" =>
        \A i, j \in DOMAIN pool :
            LET c == pool[i].chunk d == pool[j].chunk IN
            (/\ \E s \in Sources : d \in ToSet(answers[s])
             /\ \A s \in Sources : d \in ToSet(answers[s]) =>
                    /\ c \in ToSet(answers[s])
                    /\ RankOf(c, answers[s]) < RankOf(d, answers[s]))
            => i < j

\* evaluation-spec.md, "Stable ranking": what is evaluated depends on the
\* results, not on the order in which the retriever returned them.
ArrivalForgotten ==
    phase = "evaluate" /\ AllScored(pool) =>
        LET results == FirstN(pool, MaxK) IN
        \A f \in [DOMAIN results -> DOMAIN results] : IsInjective(f) =>
            ChunksOf(StableRank([i \in DOMAIN results |-> results[f[i]]])) = ranked

\* test_callable.py:345, "document metrics do not change when a larger cutoff
\* is added": each cutoff has the metrics of an evaluation with no other one,
\* if the retriever returns its results best first, as search promises, or
\* without any score.
BestFirst ==
    \/ AllScored(pool) /\ \A i, j \in DOMAIN pool : i < j => Before(pool[i], pool[j])
    \/ \A i \in DOMAIN pool : pool[i].score = Unscored
CutoffsIndependent ==
    phase = "done" /\ BestFirst =>
        \A k \in Cutoffs :
            metrics[k] = Metrics(IdsAt(ChunksOf(Order(FirstN(pool, k))), k), grades, k)

\* evaluation-spec.md:5-8: a retriever gains nothing by returning several
\* chunks of one document; without the later ones no metric is lower.
NoCreditForRepeats ==
    LET first == FirstOfEach(DocumentsOf(ranked))
        Once == [n \in DOMAIN first |-> ranked[first[n]]]
    IN  phase = "done" /\ level = "document" =>
            \A k \in Cutoffs :
                LET once == Metrics(IdsAt(Once, k), grades, k) IN
                /\ metrics[k].hits <= once.hits
                /\ metrics[k].first > 0 => once.first \in 1 .. metrics[k].first
                /\ metrics[k].ap[1] <= once.ap[1]
                /\ metrics[k].ndcg[1] <= once.ndcg[1]

\* The metrics tell one story: they are zero together, none exceeds one, AP
\* is one exactly if the ranking begins with as many relevant items as fit,
\* nDCG one only then, and a larger cutoff never takes a hit away.
StoryAgrees ==
    phase = "done" =>
        \A k \in Cutoffs :
            LET at == metrics[k]
                ids == IdsAt(ranked, k)
                most == Min({k, Cardinality(DOMAIN grades)})
                begins == Len(ids) >= most /\ \A i \in 1 .. most : ids[i] \in DOMAIN grades
            IN  /\ (at.hits = 0) = (at.first = 0) /\ (at.hits = 0) = (at.ap[1] = 0)
                /\ (at.hits = 0) = (at.ndcg[1] = 0)
                /\ at.hits <= most
                /\ at.ap[1] <= at.ap[2] /\ at.ndcg[1] <= at.ndcg[2]
                /\ (at.ap[1] = at.ap[2]) = begins
                /\ at.ndcg[1] = at.ndcg[2] => begins
                /\ \A j \in Cutoffs : j < k =>
                      /\ metrics[j].hits <= at.hits
                      /\ metrics[j].first > 0 => at.first = metrics[j].first

\* Rankings are valid ones, and the metrics computed from them tell one story.
QueryOK == QueryIInv /\ StoryAgrees
=============================================================================
