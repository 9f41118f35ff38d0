--------------------------- MODULE DenseCacheProofs ---------------------------
(***************************************************************************)
(* Proofs about DenseCache, for any set of processes, any number of        *)
(* revisions and runs, and any bound on faults.                            *)
(***************************************************************************)
EXTENDS DenseCache, TLAPS

\* What the artifact may be.
Entries == [recorded : Known, vectors : Known]

\* A load resolves to a revision, and no revision is None.
LEMMA Revision == /\ None \notin Revisions /\ 1 \in Revisions
                  /\ None \in Known /\ Revisions \subseteq Known
                  /\ NoEntry \in Entries
BY DenseAssumption DEF Revisions, Known, NoEntry, Entries

LEMMA LoadedType ==
    ASSUME TypeOK, NEW p \in Processes
    PROVE  /\ Loaded(p) \in Revisions /\ Effective(p) \in Known
           /\ model[p] # None => Loaded(p) = model[p]
BY Revision DEF TypeOK, Loaded, Effective, Metadata, Known

\* There is no artifact at the start, and nobody holds vectors.
LEMMA InitCacheOK == Init => CacheOK
<1>. SUFFICES ASSUME Init PROVE CacheOK
  OBVIOUS
<1>. USE Revision, DenseAssumption DEF Init
<1>1. TypeOK
  BY DEF TypeOK, Entries
<1>2. EntryHonest
  BY DEF EntryHonest, NoEntry
<1>3. MemoryInv
  BY DEF MemoryInv
<1>. QED
  BY <1>1, <1>2, <1>3 DEF CacheOK

LEMMA RunCacheOK == ASSUME CacheOK, NEW p \in Processes, Run(p) PROVE CacheOK'
<1>. USE DEF CacheOK, Run, Go, memory
<1>1. TypeOK'
  BY DenseAssumption DEF TypeOK
<1>2. EntryHonest' /\ MemoryInv'
  BY DEF TypeOK, EntryHonest, MemoryInv, Effective, Metadata
<1>. QED
  BY <1>1, <1>2

\* What a read returns is honest and of the loaded model's revision.
LEMMA ReadCacheOK == ASSUME CacheOK, NEW p \in Processes, Read(p) PROVE CacheOK'
<1>. USE DEF CacheOK, Read, Go
<1>1. TypeOK'
  <2>1. payload' \in [Processes -> Entries]
    BY DEF TypeOK, Entries
  <2>2. pc' \in [Processes -> {"idle", "read", "restore", "build", "write", "search"}]
    BY DEF TypeOK
  <2>. QED
    BY <2>1, <2>2 DEF TypeOK, Entries
<1>2. EntryHonest'
  BY DEF EntryHonest
<1>3. CASE /\ entry # NoEntry /\ Compatible(p, entry.recorded)
           /\ payload' = [payload EXCEPT ![p] = entry]
           /\ pc' = [pc EXCEPT ![p] = "restore"]
  <2>1. entry.recorded # None /\ entry.recorded = entry.vectors
    BY <1>3 DEF TypeOK, EntryHonest, NoEntry
  <2>2. Metadata(model[p], entry.recorded) = entry.recorded
    BY <1>3, <2>1 DEF Compatible, Effective, Metadata
  <2>. QED
    BY <1>1, <1>2, <1>3, <2>1, <2>2 DEF TypeOK, MemoryInv, Effective, Metadata
<1>4. CASE UNCHANGED payload /\ pc' = [pc EXCEPT ![p] = "build"]
  BY <1>1, <1>2, <1>4 DEF TypeOK, MemoryInv, Effective, Metadata
<1>. QED
  BY <1>3, <1>4

LEMMA RestoreCacheOK == ASSUME CacheOK, NEW p \in Processes, Restore(p) PROVE CacheOK'
<1>. USE DEF CacheOK, Restore, Go
<1>1. /\ Metadata(model[p], payload[p].recorded) = payload[p].recorded
      /\ payload[p].recorded = payload[p].vectors /\ payload[p].recorded \in Known
      /\ payload[p].recorded # None
  BY DEF TypeOK, MemoryInv
<1>2. TypeOK'
  BY <1>1 DEF TypeOK
<1>3. EntryHonest'
  BY DEF EntryHonest
<1>4. MemoryInv'
  BY <1>1 DEF TypeOK, MemoryInv, Effective, Metadata
<1>. QED
  BY <1>2, <1>3, <1>4

\* A no-op leaves vectors of the effective revision, and so does an encoding.
LEMMA IndexCacheOK == ASSUME CacheOK, NEW p \in Processes, Index(p) PROVE CacheOK'
<1>. USE Revision DEF CacheOK
<1>0. /\ Loaded(p) \in Known /\ Loaded(p) # None
      /\ pc' = [pc EXCEPT ![p] = "write"]
      /\ UNCHANGED <<hub, entry, payload, logged, runs, outcome, faults>>
  BY LoadedType DEF Index, Go
<1>1. EntryHonest'
  BY <1>0 DEF EntryHonest
<1>2. CASE Same(p) /\ UNCHANGED <<model, override, vectors, identity>>
  <2>1. TypeOK'
    BY <1>0, <1>2 DEF TypeOK
  <2>2. MemoryInv'
    BY <1>0, <1>2 DEF TypeOK, MemoryInv, Effective, Metadata, Same
  <2>. QED
    BY <1>1, <2>1, <2>2
<1>3. CASE /\ model' = [model EXCEPT ![p] = Loaded(p)]
           /\ override' = [override EXCEPT ![p] = None]
           /\ vectors' = [vectors EXCEPT ![p] = Loaded(p)]
           /\ identity' = [identity EXCEPT ![p] = Loaded(p)]
  <2>1. TypeOK'
    BY <1>0, <1>3 DEF TypeOK
  <2>2. MemoryInv'
    BY <1>0, <1>3 DEF TypeOK, MemoryInv, Effective, Metadata
  <2>. QED
    BY <1>1, <2>1, <2>2
<1>. QED
  BY <1>2, <1>3 DEF Index, Load

\* The label of what is written is true.
LEMMA WriteCacheOK == ASSUME CacheOK, NEW p \in Processes, Write(p) PROVE CacheOK'
<1>. USE Revision, LoadedType DEF CacheOK, Write, Go
<1>1. TypeOK'
  BY DEF TypeOK
<1>2. EntryHonest'
  BY DEF EntryHonest, MemoryInv
<1>3. MemoryInv'
  BY DEF TypeOK, MemoryInv, Effective, Metadata
<1>. QED
  BY <1>1, <1>2, <1>3

LEMMA SearchCacheOK == ASSUME CacheOK, NEW p \in Processes, Search(p) PROVE CacheOK'
<1>. USE Revision, LoadedType DEF CacheOK, Search, Go, Ends, Load
<1>1. TypeOK'
  BY DEF TypeOK
<1>2. EntryHonest' /\ MemoryInv'
  BY DEF TypeOK, EntryHonest, MemoryInv, Effective, Metadata
<1>. QED
  BY <1>1, <1>2

\* A failure may leave a model loaded, which the vectors held need not be of.
LEMMA FailCacheOK == ASSUME CacheOK, NEW p \in Processes, Fail(p) PROVE CacheOK'
<1>. USE Revision, LoadedType, DenseAssumption DEF CacheOK, Fail, Go, Ends, Load
<1>1. TypeOK'
  BY DEF TypeOK
<1>2. EntryHonest' /\ MemoryInv'
  BY DEF TypeOK, EntryHonest, MemoryInv, Effective, Metadata
<1>. QED
  BY <1>1, <1>2

\* A next process holds nothing.
LEMMA FreshCacheOK ==
    ASSUME CacheOK, NEW p \in Processes, Exit(p) \/ Kill(p)
    PROVE  CacheOK'
<1>. USE Revision DEF CacheOK
<1>1. /\ Fresh(p)
      /\ \/ UNCHANGED <<outcome, faults>>
         \/ /\ outcome' = [outcome EXCEPT ![p] = "failed"]
            /\ faults < MaxFaults /\ faults' = faults + 1
  BY DEF Exit, Kill
<1>2. TypeOK'
  <2>1. /\ model' \in [Processes -> Known] /\ override' \in [Processes -> Known]
        /\ vectors' \in [Processes -> Known] /\ identity' \in [Processes -> Known]
        /\ logged' \in [Processes -> Known] /\ UNCHANGED <<hub, entry>>
    BY <1>1 DEF TypeOK, Fresh
  <2>2. payload' \in [Processes -> Entries]
    BY <1>1 DEF TypeOK, Fresh, Entries
  <2>3. /\ pc' \in [Processes -> {"idle", "read", "restore", "build", "write", "search"}]
        /\ runs' \in [Processes -> 0 .. RunsPerProcess]
    BY <1>1, DenseAssumption DEF TypeOK, Fresh, Go
  <2>4. /\ outcome' \in [Processes -> {"none", "answered", "stale", "failed"}]
        /\ faults' \in 0 .. MaxFaults
    BY <1>1, DenseAssumption DEF TypeOK
  <2>. QED
    BY <2>1, <2>2, <2>3, <2>4 DEF TypeOK, Entries
<1>3. EntryHonest' /\ MemoryInv'
  BY <1>1 DEF TypeOK, EntryHonest, MemoryInv, Effective, Metadata, Fresh, Go
<1>. QED
  BY <1>2, <1>3

LEMMA HubMovesCacheOK == ASSUME CacheOK, HubMoves PROVE CacheOK'
<1>. USE DenseAssumption DEF CacheOK, HubMoves, memory
<1>1. TypeOK'
  BY DEF TypeOK, Revisions
<1>2. EntryHonest' /\ MemoryInv'
  BY DEF TypeOK, EntryHonest, MemoryInv, Effective, Metadata
<1>. QED
  BY <1>1, <1>2

LEMMA NextCacheOK == CacheOK /\ [Next]_vars => CacheOK'
<1>. SUFFICES ASSUME CacheOK, [Next]_vars PROVE CacheOK'
  OBVIOUS
<1>1. ASSUME NEW p \in Processes, Step(p) \/ Fail(p) \/ Kill(p) PROVE CacheOK'
  BY <1>1, RunCacheOK, ReadCacheOK, RestoreCacheOK, IndexCacheOK, WriteCacheOK,
     SearchCacheOK, FailCacheOK, FreshCacheOK DEF Step
<1>2. CASE HubMoves
  BY <1>2, HubMovesCacheOK
<1>3. CASE UNCHANGED vars
  BY <1>3 DEF vars, memory, CacheOK, TypeOK, EntryHonest, MemoryInv, Effective, Metadata
<1>. QED
  BY <1>1, <1>2, <1>3 DEF Next

\* The label of the dense-index artifact is true whichever process wrote it,
\* and whatever that had restored, encoded or failed to encode before
\* (_cache_export, _cache_restore, index).
THEOREM CacheHolds == Spec => []CacheOK
<1>. QED
  BY InitCacheOK, NextCacheOK, PTL DEF Spec

\* Only a search ends in an answer, and then the model, the vectors and the
\* event are of one revision.
LEMMA AnswerIsOfOne ==
    ASSUME CacheOK, Next, NEW p \in Processes,
           outcome[p] # "answered", outcome'[p] = "answered"
    PROVE  vectors'[p] = model'[p] /\ logged'[p] = model'[p]
<1>1. ASSUME NEW q \in Processes, Search(q)
      PROVE  vectors'[p] = model'[p] /\ logged'[p] = model'[p]
  <2>1. /\ outcome' = [outcome EXCEPT ![q] =
                          IF Loaded(q) = identity[q] THEN "answered" ELSE "stale"]
        /\ model' = [model EXCEPT ![q] = Loaded(q)] /\ pc[q] = "search"
        /\ UNCHANGED <<vectors, logged>>
    BY <1>1 DEF Search, Ends, Load
  <2>2. p = q /\ Loaded(p) = identity[p]
    BY <2>1 DEF CacheOK, TypeOK
  <2>. QED
    BY <2>1, <2>2 DEF CacheOK, TypeOK, MemoryInv
<1>2. ASSUME NEW q \in Processes,
             Run(q) \/ Read(q) \/ Restore(q) \/ Index(q) \/ Write(q) \/ Exit(q) \/ Fail(q) \/ Kill(q)
      PROVE  FALSE
  BY <1>2 DEF Run, Read, Restore, Index, Write, Exit, Fail, Kill, Ends, CacheOK, TypeOK
<1>3. ~HubMoves
  BY DEF HubMoves
<1>. QED
  BY <1>1, <1>2, <1>3 DEF Next, Step

\* A run that is answered ranked documents and query with one revision, the one
\* its cache event reports.
THEOREM OneRevisionHolds == Spec => OneRevision
<1>1. CacheOK /\ [Next]_vars =>
          [\A p \in Processes :
              outcome[p] # "answered" /\ outcome'[p] = "answered" =>
                  /\ vectors'[p] = model'[p]
                  /\ logged'[p] = model'[p]]_vars
  BY AnswerIsOfOne
<1>. QED
  BY <1>1, CacheHolds, PTL DEF Spec, OneRevision
=============================================================================
