------------------------- MODULE MCAsyncEvaluation -------------------------
(* Model values for the runs of AsyncEvaluation. *)
EXTENDS AsyncEvaluation

CONSTANTS r1, r2
MCRankings == {r1, r2}
Every == AllReactions
Cooperative == {"reraise", "raise"}
=============================================================================
