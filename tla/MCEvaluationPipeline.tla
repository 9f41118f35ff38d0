------------------------ MODULE MCEvaluationPipeline ------------------------
(* Texts of one to seven characters, windows of one to four.  Weights      *)
(* close to 1000 / log2(rank + 1).                                         *)
EXTENDS EvaluationPipeline

CONSTANTS kw, dn

OneToSeven == 1 .. 7
OneToFour == 1 .. 4

Log2Weights == <<1000, 631, 500>>
PowersOfTwo == [grade \in 0 .. 2 |-> 2 ^ grade - 1]

\* No step after Index reads or changes the chunker's variables, and no
\* property of a query mentions them.
View == IF Indexed THEN <<queryVars>> ELSE <<vars, level>>
=============================================================================
