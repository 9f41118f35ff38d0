----------------------------- MODULE DenseCache -----------------------------
(***************************************************************************)
(* The cached index of a dense retriever across runs, processes and model  *)
(* revisions: EvaluationRunner._prepare_dense_cache, the dense-index       *)
(* artifact of artifacts/cache.py, and DenseRetriever with its lazily      *)
(* loaded model (retrievers/dense.py).                                     *)
(*                                                                         *)
(* A model that is requested without a pinned revision resolves to what    *)
(* the hub holds when it is loaded, at the first encode of a process.  The *)
(* artifact's address leaves the revision out, since a process must find   *)
(* the artifact before it loads the model; the artifact records it.        *)
(*                                                                         *)
(* Every process indexes the same chunks with the same settings, so that   *)
(* all share one artifact.  Its file is read and replaced atomically (see  *)
(* ArtifactStore) and fits the limit.  A loaded model reports its          *)
(* revision and keeps it.                                                  *)
(***************************************************************************)
EXTENDS Naturals

CONSTANTS
    Processes,
    LastRevision,       \* the hub moves through revisions 1 .. LastRevision
    RunsPerProcess,     \* how often a process calls run() before it ends
    MaxFaults,          \* bound on failures and kills
    None

ASSUME DenseAssumption ==
    /\ LastRevision \in Nat \ {0}
    /\ RunsPerProcess \in Nat \ {0}
    /\ MaxFaults \in Nat
    /\ None \notin Nat

Revisions == 1 .. LastRevision
Known == Revisions \cup {None}
NoEntry == [recorded |-> None, vectors |-> None]

VARIABLES
    hub,                \* the revision a load resolves to
    entry,              \* the artifact: recorded revision, revision of its vectors
    model,              \* [Processes -> revision of the loaded model, or None]
    override,           \* [Processes -> _metadata_override's revision, or None]
    vectors,            \* [Processes -> revision the held vectors were made with]
    identity,           \* [Processes -> revision in _indexed_identity]
    payload,            \* [Processes -> the artifact a read returned]
    logged,             \* [Processes -> revision in the run's cache event]
    pc, runs, outcome,  \* [Processes -> ...]
    faults

memory == <<model, override, vectors, identity, payload, logged>>
vars == <<hub, entry, memory, pc, runs, outcome, faults>>

Init ==
    /\ hub = 1
    /\ entry = NoEntry
    /\ model = [p \in Processes |-> None]
    /\ override = [p \in Processes |-> None]
    /\ vectors = [p \in Processes |-> None]
    /\ identity = [p \in Processes |-> None]
    /\ payload = [p \in Processes |-> NoEntry]
    /\ logged = [p \in Processes |-> None]
    /\ pc = [p \in Processes |-> "idle"]
    /\ runs = [p \in Processes |-> 0]
    /\ outcome = [p \in Processes |-> "none"]
    /\ faults = 0

\* _effective_metadata: a restored revision counts until the backend has its own.
Metadata(own, restored) == IF own = None THEN restored ELSE own
Effective(p) == Metadata(model[p], override[p])

\* _get_model: the first encode loads what the hub holds.
Loaded(p) == IF model[p] = None THEN hub ELSE model[p]
Load(p) == model' = [model EXCEPT ![p] = Loaded(p)]

Go(p, where) == pc' = [pc EXCEPT ![p] = where]
Ends(p, how) == Go(p, "idle") /\ outcome' = [outcome EXCEPT ![p] = how]

----------------------------------------------------------------------------
(* EvaluationRunner.run                                                    *)

Run(p) ==
    /\ pc[p] = "idle" /\ runs[p] < RunsPerProcess
    /\ runs' = [runs EXCEPT ![p] = @ + 1]
    /\ outcome' = [outcome EXCEPT ![p] = "none"]
    /\ Go(p, "read")
    /\ UNCHANGED <<hub, entry, memory, faults>>

\* read_dense_index_artifact: only a revision known by now is compared.
Compatible(p, recorded) == Effective(p) = None \/ Effective(p) = recorded

Read(p) ==
    /\ pc[p] = "read"
    /\ \/ /\ entry # NoEntry /\ Compatible(p, entry.recorded)
          /\ payload' = [payload EXCEPT ![p] = entry]
          /\ Go(p, "restore")
       \/ /\ entry = NoEntry \/ ~Compatible(p, entry.recorded)
          /\ UNCHANGED payload
          /\ Go(p, "build")
    /\ UNCHANGED <<hub, entry, model, override, vectors, identity, logged, runs, outcome, faults>>

\* _cache_restore.  Its own comparison with the backend's revision cannot
\* fail: a loaded model's revision was compared by the read.
Restore(p) ==
    /\ pc[p] = "restore"
    /\ override' = [override EXCEPT ![p] = payload[p].recorded]
    /\ vectors' = [vectors EXCEPT ![p] = payload[p].vectors]
    /\ identity' = [identity EXCEPT ![p] = Metadata(model[p], payload[p].recorded)]
    /\ logged' = [logged EXCEPT ![p] = Metadata(model[p], payload[p].recorded)]
    /\ Go(p, "search")
    /\ UNCHANGED <<hub, entry, model, payload, runs, outcome, faults>>

\* Mutant: indexing again is a no-op whenever the chunks are the same.
SameChunks(p) == vectors[p] # None

\* index is a no-op for the same chunks and the same identity.
Same(p) == vectors[p] # None /\ identity[p] = Effective(p)

Index(p) ==
    /\ pc[p] = "build"
    /\ \/ Same(p) /\ UNCHANGED <<model, override, vectors, identity>>
       \/ /\ ~Same(p)
          /\ Load(p)
          /\ override' = [override EXCEPT ![p] = None]
          /\ vectors' = [vectors EXCEPT ![p] = Loaded(p)]
          /\ identity' = [identity EXCEPT ![p] = Loaded(p)]
    /\ Go(p, "write")
    /\ UNCHANGED <<hub, entry, payload, logged, runs, outcome, faults>>

\* Mutant: the artifact is labelled with what the hub holds by now.
WriteLatest(p) ==
    /\ pc[p] = "write"
    /\ entry' = [recorded |-> hub, vectors |-> vectors[p]]
    /\ logged' = [logged EXCEPT ![p] = Effective(p)]
    /\ Go(p, "search")
    /\ UNCHANGED <<hub, model, override, vectors, identity, payload, runs, outcome, faults>>

\* _cache_export and write_dense_index_artifact.
Write(p) ==
    /\ pc[p] = "write"
    /\ entry' = [recorded |-> Effective(p), vectors |-> vectors[p]]
    /\ logged' = [logged EXCEPT ![p] = Effective(p)]
    /\ Go(p, "search")
    /\ UNCHANGED <<hub, model, override, vectors, identity, payload, runs, outcome, faults>>

\* Mutant: the identity is not compared after the query was encoded.
SearchUnchecked(p) ==
    /\ pc[p] = "search"
    /\ Load(p)
    /\ Ends(p, "answered")
    /\ UNCHANGED <<hub, entry, override, vectors, identity, payload, logged, runs, faults>>

\* search encodes the query first, which may load the model, and refuses to
\* rank with vectors of another revision.
Search(p) ==
    /\ pc[p] = "search"
    /\ Load(p)
    /\ Ends(p, IF Loaded(p) = identity[p] THEN "answered" ELSE "stale")
    /\ UNCHANGED <<hub, entry, override, vectors, identity, payload, logged, runs, faults>>

----------------------------------------------------------------------------
(* Around the run                                                          *)

\* The disk or the encoding of documents or of a query fails.  A failed
\* index puts the override back; the model may have been loaded by then.
Fail(p) ==
    /\ pc[p] \in {"build", "write", "search"} /\ faults < MaxFaults
    /\ \/ UNCHANGED model
       \/ pc[p] # "write" /\ ~(pc[p] = "build" /\ Same(p)) /\ Load(p)
    /\ Ends(p, "failed")
    /\ faults' = faults + 1
    /\ UNCHANGED <<hub, entry, override, vectors, identity, payload, logged, runs>>

\* The next process starts with nothing but the cache directory.
Fresh(p) ==
    /\ model' = [model EXCEPT ![p] = None]
    /\ override' = [override EXCEPT ![p] = None]
    /\ vectors' = [vectors EXCEPT ![p] = None]
    /\ identity' = [identity EXCEPT ![p] = None]
    /\ payload' = [payload EXCEPT ![p] = NoEntry]
    /\ logged' = [logged EXCEPT ![p] = None]
    /\ runs' = [runs EXCEPT ![p] = 0]
    /\ Go(p, "idle")
    /\ UNCHANGED <<hub, entry>>

Exit(p) ==
    /\ pc[p] = "idle" /\ runs[p] = RunsPerProcess
    /\ Fresh(p)
    /\ UNCHANGED <<outcome, faults>>

Kill(p) ==
    /\ pc[p] # "idle" /\ faults < MaxFaults
    /\ Fresh(p)
    /\ outcome' = [outcome EXCEPT ![p] = "failed"]
    /\ faults' = faults + 1

HubMoves ==
    /\ hub < LastRevision
    /\ hub' = hub + 1
    /\ UNCHANGED <<entry, memory, pc, runs, outcome, faults>>

Step(p) ==
    Run(p) \/ Read(p) \/ Restore(p) \/ Index(p) \/ Write(p) \/ Search(p) \/ Exit(p)

Next == (\E p \in Processes : Step(p) \/ Fail(p) \/ Kill(p)) \/ HubMoves

Spec == Init /\ [][Next]_vars

\* Every process goes on, one run after the other and one process after the
\* other; nothing says that the hub moves or that something fails.
FairSpec == Spec /\ \A p \in Processes : WF_vars(Step(p))

----------------------------------------------------------------------------
(* Properties.                                                             *)

TypeOK ==
    /\ hub \in Revisions
    /\ entry \in [recorded : Known, vectors : Known]
    /\ model \in [Processes -> Known] /\ override \in [Processes -> Known]
    /\ vectors \in [Processes -> Known] /\ identity \in [Processes -> Known]
    /\ payload \in [Processes -> [recorded : Known, vectors : Known]]
    /\ logged \in [Processes -> Known]
    /\ pc \in [Processes -> {"idle", "read", "restore", "build", "write", "search"}]
    /\ runs \in [Processes -> 0 .. RunsPerProcess]
    /\ outcome \in [Processes -> {"none", "answered", "stale", "failed"}]
    /\ faults \in 0 .. MaxFaults

\* The artifact's label is true: its vectors were made by the revision that
\* it records, whichever process wrote it and whatever that had restored,
\* encoded or failed to encode before.
EntryHonest == entry.recorded = entry.vectors

\* A run that is answered ranked documents and query with one revision, and
\* that is the one its cache event reports: the hash the event logged before
\* the model was loaded is the hash of the finished run's manifest.
OneRevision ==
    [][\A p \in Processes :
          outcome[p] # "answered" /\ outcome'[p] = "answered" =>
              /\ vectors'[p] = model'[p]
              /\ logged'[p] = model'[p]]_vars

\* README.md:198-199: incompatible entries are rebuilt rather than used.  A
\* run that met one is followed, sooner or later, by a run that is answered
\* with vectors of its own revision.
Heals ==
    \A p \in Processes :
        outcome[p] = "stale" ~>
            outcome[p] = "answered" /\ model[p] # None /\ vectors[p] = model[p]

\* The revision that a retriever believes its vectors are of is the one they
\* were made with, and is what a write records and a cache event reports.
MemoryInv ==
    \A p \in Processes :
        /\ vectors[p] # None => identity[p] = vectors[p]
        /\ pc[p] = "restore" =>
              /\ payload[p].recorded = payload[p].vectors /\ payload[p].recorded # None
              /\ Metadata(model[p], payload[p].recorded) = payload[p].recorded
        /\ pc[p] = "write" => vectors[p] # None /\ Effective(p) = vectors[p]
        /\ pc[p] = "search" => vectors[p] # None /\ logged[p] = vectors[p]

\* The state is well formed, and the artifact on disk is what its label says;
\* with what makes this inductive.
CacheOK == TypeOK /\ EntryHonest /\ MemoryInv
=============================================================================
