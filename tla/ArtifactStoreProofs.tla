------------------------- MODULE ArtifactStoreProofs -------------------------
(***************************************************************************)
(* Proofs about ArtifactStore, for any set of processes, with any limits,  *)
(* an artifact of any size, and any damage, clearing and power failures.   *)
(***************************************************************************)
EXTENDS ArtifactStore, TLAPS

LEMMA Sizes == /\ PayloadBytes \in Nat /\ PayloadBytes > 0
               /\ ArtifactBytes \in Nat /\ ArtifactBytes = PayloadBytes + 1
               /\ \A p \in Processes : Limit[p] \in Nat
BY StoreAssumption DEF ArtifactBytes

\* Inodes are told apart: no process is Old, and none of them is NoFile.
LEMMA Apart == /\ Old \in Inodes /\ NoFile \notin Inodes
               /\ \A p \in Processes : p \in Inodes /\ p # Old /\ p # NoFile
BY StoreAssumption DEF Inodes

\* At the start no process has a file, and an entry that is there is whole.
LEMMA InitStoreOK == Init => StoreOK
<1>. SUFFICES ASSUME Init PROVE StoreOK
  OBVIOUS
<1>. USE Sizes, Apart DEF Init
<1>1. TypeOK
  BY DEF TypeOK, Inodes
<1>2. EntryWhole /\ NoLitter
  BY DEF EntryWhole, NoLitter
<1>3. WriterInv
  BY DEF WriterInv
<1>4. PathInv
  BY DEF PathInv
<1>. QED
  BY <1>1, <1>2, <1>3, <1>4 DEF StoreOK

\* The read of an entry touches no file.
LEMMA LookStoreOK == ASSUME StoreOK, NEW p \in Processes, Look(p) PROVE StoreOK'
<1>. USE Sizes, Apart DEF StoreOK, Look, Go, Report, files
<1>1. TypeOK'
  BY DEF TypeOK
<1>2. EntryWhole' /\ NoLitter'
  BY DEF TypeOK, EntryWhole, NoLitter, Temp
<1>3. WriterInv'
  BY DEF TypeOK, WriterInv
<1>4. PathInv'
  BY DEF TypeOK, PathInv
<1>. QED
  BY <1>1, <1>2, <1>3, <1>4

LEMMA OpenStoreOK == ASSUME StoreOK, NEW p \in Processes, Open(p) PROVE StoreOK'
<1>. USE Sizes, Apart DEF StoreOK, Open, Go, Report, files
<1>1. TypeOK'
  BY DEF TypeOK
<1>2. EntryWhole' /\ NoLitter'
  BY DEF TypeOK, EntryWhole, NoLitter, Temp
<1>3. WriterInv'
  BY DEF TypeOK, WriterInv
<1>4. PathInv'
  BY DEF TypeOK, PathInv
<1>. QED
  BY <1>1, <1>2, <1>3, <1>4

\* A validation that fails saw a file above the limit, or neither an artifact
\* nor another schema's.
LEMMA CorruptVerdict ==
    ASSUME NEW p, NEW i, Verdict(p, i) = "corrupt"
    PROVE  ~Fits(p, i) \/ (~Complete(i) /\ kind[i] # "foreign")
<1>1. CASE Fits(p, i) /\ Complete(i)
  <2>1. Verdict(p, i) = "hit"
    BY <1>1, Zenon DEF Verdict
  <2>. QED
    BY <2>1
<1>2. CASE Fits(p, i) /\ ~Complete(i) /\ kind[i] = "foreign"
  <2>1. Verdict(p, i) = "version_mismatch"
    BY <1>2, Zenon DEF Verdict
  <2>. QED
    BY <2>1
<1>. QED
  BY <1>1, <1>2

LEMMA ReadStoreOK == ASSUME StoreOK, NEW p \in Processes, Read(p) PROVE StoreOK'
<1>. USE Sizes, Apart DEF StoreOK, Read, Go, Report, files
<1>0. Verdict(p, fd[p]) \in {"hit", "version_mismatch", "corrupt"}
  BY DEF Verdict
<1>1. TypeOK'
  BY <1>0 DEF TypeOK
<1>2. EntryWhole' /\ NoLitter'
  BY DEF TypeOK, EntryWhole, NoLitter, Temp
<1>3. WriterInv'
  BY DEF TypeOK, WriterInv
<1>4. PathInv'
  BY DEF TypeOK, PathInv
<1>. QED
  BY <1>1, <1>2, <1>3, <1>4

\* The temporary file of a writer is at no path but its own.
LEMMA CreateTempStoreOK == ASSUME StoreOK, NEW p \in Processes, CreateTemp(p) PROVE StoreOK'
<1>. USE Sizes, Apart DEF StoreOK, CreateTemp, Go, Temp
<1>0. p \notin past
  BY DEF TypeOK, WriterInv
<1>1. TypeOK'
  BY DEF TypeOK
<1>2. EntryWhole' /\ NoLitter'
  BY <1>0 DEF TypeOK, EntryWhole, NoLitter
<1>3. WriterInv'
  BY <1>0 DEF TypeOK, WriterInv
<1>4. PathInv'
  BY <1>0 DEF TypeOK, PathInv
<1>. QED
  BY <1>1, <1>2, <1>3, <1>4

\* The count stays below the limit, so the newline fits when the payload is done.
LEMMA WriteFragmentStoreOK == ASSUME StoreOK, NEW p \in Processes, WriteFragment(p) PROVE StoreOK'
<1>. USE Sizes, Apart DEF StoreOK, WriteFragment, Go, Report, UnlinkTemp, OverLimit, files, Temp
<1>0. p \notin past
  BY DEF TypeOK, WriterInv
<1>1. TypeOK'
  BY DEF TypeOK
<1>2. EntryWhole' /\ NoLitter'
  BY <1>0 DEF TypeOK, EntryWhole, NoLitter
<1>3. WriterInv'
  BY <1>0 DEF TypeOK, WriterInv
<1>4. PathInv'
  BY <1>0 DEF TypeOK, PathInv
<1>. QED
  BY <1>1, <1>2, <1>3, <1>4

\* A writer that gives up says so, and its file is gone or left over.
LEMMA GiveUpStoreOK == ASSUME StoreOK, NEW p \in Processes, GiveUp(p) PROVE StoreOK'
<1>. USE Sizes, Apart DEF StoreOK, GiveUp, Go, Report, UnlinkTemp, OverLimit, files, Temp
<1>0. p \notin past
  BY DEF TypeOK, WriterInv
<1>1. TypeOK'
  BY DEF TypeOK
<1>2. EntryWhole' /\ NoLitter'
  BY <1>0 DEF TypeOK, EntryWhole, NoLitter
<1>3. WriterInv'
  BY <1>0 DEF TypeOK, WriterInv
<1>4. PathInv'
  BY <1>0 DEF TypeOK, PathInv
<1>. QED
  BY <1>1, <1>2, <1>3, <1>4

\* With the newline, the file is the artifact.
LEMMA WriteNewlineStoreOK == ASSUME StoreOK, NEW p \in Processes, WriteNewline(p) PROVE StoreOK'
<1>. USE Sizes, Apart DEF StoreOK, WriteNewline, Go, Report, UnlinkTemp, OverLimit, files, Temp
<1>0. p \notin past
  BY DEF TypeOK, WriterInv
<1>1. TypeOK'
  BY DEF TypeOK
<1>2. EntryWhole' /\ NoLitter'
  BY <1>0 DEF TypeOK, EntryWhole, NoLitter
<1>3. WriterInv'
  BY <1>0 DEF TypeOK, WriterInv
<1>4. PathInv'
  BY <1>0 DEF TypeOK, PathInv
<1>. QED
  BY <1>1, <1>2, <1>3, <1>4

\* Only now would the artifact outlive a power failure.
LEMMA FsyncStoreOK == ASSUME StoreOK, NEW p \in Processes, Fsync(p) PROVE StoreOK'
<1>. USE Sizes, Apart DEF StoreOK, Fsync, Go, Report, UnlinkTemp, OverLimit, files, Temp
<1>0. p \notin past
  BY DEF TypeOK, WriterInv
<1>1. TypeOK'
  BY DEF TypeOK
<1>2. EntryWhole' /\ NoLitter'
  BY <1>0 DEF TypeOK, EntryWhole, NoLitter
<1>3. WriterInv'
  BY <1>0 DEF TypeOK, WriterInv
<1>4. PathInv'
  BY <1>0 DEF TypeOK, PathInv
<1>. QED
  BY <1>1, <1>2, <1>3, <1>4

\* A writer that fails says so, too.
LEMMA WriteFailsStoreOK == ASSUME StoreOK, NEW p \in Processes, WriteFails(p) PROVE StoreOK'
<1>. USE Sizes, Apart DEF StoreOK, WriteFails, Go, Report, UnlinkTemp, OverLimit, files, Temp
<1>0. p \notin past
  BY DEF TypeOK, WriterInv
<1>1. TypeOK'
  BY DEF TypeOK
<1>2. EntryWhole' /\ NoLitter'
  BY <1>0 DEF TypeOK, EntryWhole, NoLitter
<1>3. WriterInv'
  BY <1>0 DEF TypeOK, WriterInv
<1>4. PathInv'
  BY <1>0 DEF TypeOK, PathInv
<1>. QED
  BY <1>1, <1>2, <1>3, <1>4

\* A killed writer leaves its file, which is at no path.
LEMMA KillStoreOK == ASSUME StoreOK, NEW p \in Processes, Kill(p) PROVE StoreOK'
<1>. USE Sizes, Apart DEF StoreOK, Kill, Go, Report, UnlinkTemp, OverLimit, files, Temp
<1>0. p \notin past
  BY DEF TypeOK, WriterInv
<1>1. TypeOK'
  BY DEF TypeOK
<1>2. EntryWhole' /\ NoLitter'
  BY <1>0 DEF TypeOK, EntryWhole, NoLitter
<1>3. WriterInv'
  BY <1>0 DEF TypeOK, WriterInv
<1>4. PathInv'
  BY <1>0 DEF TypeOK, PathInv
<1>. QED
  BY <1>1, <1>2, <1>3, <1>4

\* What the rename puts at the path is whole, and durable.
LEMMA ReplaceStoreOK == ASSUME StoreOK, NEW p \in Processes, Replace(p) PROVE StoreOK'
<1>. USE Sizes, Apart DEF StoreOK, Replace, Go, files, Temp
<1>0. p \notin past /\ kind[p] = "artifact" /\ size[p] = ArtifactBytes /\ durable[p] = ArtifactBytes
  BY DEF TypeOK, WriterInv
<1>1. TypeOK'
  BY DEF TypeOK
<1>2. EntryWhole' /\ NoLitter'
  BY <1>0 DEF TypeOK, EntryWhole, NoLitter
<1>3. WriterInv'
  BY <1>0 DEF TypeOK, WriterInv
<1>4. PathInv'
  BY <1>0 DEF TypeOK, PathInv
<1>. QED
  BY <1>1, <1>2, <1>3, <1>4

\* A power failure takes back renames and bytes, but of the files that were
\* ever at the path no byte that it could lose is an artifact's.
LEMMA PowerLossStoreOK == ASSUME StoreOK, PowerLoss PROVE StoreOK'
<1>. USE Sizes, Apart DEF StoreOK, PowerLoss
<1>0. PICK lost \in SUBSET (past \ {NoFile}) :
          size' = [i \in Inodes |-> IF i \in lost THEN durable[i] ELSE size[i]]
  OBVIOUS
<1>1. TypeOK'
  BY <1>0 DEF TypeOK
<1>2. PathInv'
  BY <1>0, <1>1 DEF TypeOK, PathInv
<1>3. EntryWhole' /\ NoLitter'
  BY <1>1, <1>2 DEF TypeOK, EntryWhole, NoLitter, PathInv, Temp
<1>4. WriterInv'
  BY DEF TypeOK, WriterInv
<1>. QED
  BY <1>1, <1>2, <1>3, <1>4

\* Damage makes the entry something else than an artifact.
LEMMA DamageStoreOK == ASSUME StoreOK, Damage PROVE StoreOK'
<1>. USE Sizes, Apart DEF StoreOK, Damage
<1>1. TypeOK'
  BY DEF TypeOK
<1>2. EntryWhole' /\ NoLitter'
  BY DEF TypeOK, EntryWhole, NoLitter, Temp
<1>3. WriterInv'
  BY DEF TypeOK, WriterInv
<1>4. PathInv'
  BY DEF TypeOK, PathInv
<1>. QED
  BY <1>1, <1>2, <1>3, <1>4

LEMMA ClearStoreOK == ASSUME StoreOK, Clear PROVE StoreOK'
<1>. USE Sizes, Apart DEF StoreOK, Clear, files
<1>1. TypeOK'
  BY DEF TypeOK
<1>2. EntryWhole' /\ NoLitter'
  BY DEF TypeOK, EntryWhole, NoLitter, Temp
<1>3. WriterInv'
  BY DEF TypeOK, WriterInv
<1>4. PathInv'
  BY DEF TypeOK, PathInv
<1>. QED
  BY <1>1, <1>2, <1>3, <1>4

LEMMA StutterStoreOK == ASSUME StoreOK, UNCHANGED vars PROVE StoreOK'
BY DEF StoreOK, TypeOK, EntryWhole, NoLitter, Temp, WriterInv, PathInv, vars, files

\* Every step of the cache preserves the invariant.
LEMMA NextStoreOK == StoreOK /\ [Next]_vars => StoreOK'
<1>. SUFFICES ASSUME StoreOK, [Next]_vars PROVE StoreOK'
  OBVIOUS
<1>1. ASSUME NEW p \in Processes, Step(p) PROVE StoreOK'
  BY <1>1, LookStoreOK, OpenStoreOK, ReadStoreOK, CreateTempStoreOK, WriteFragmentStoreOK,
     GiveUpStoreOK, WriteNewlineStoreOK, FsyncStoreOK, ReplaceStoreOK, WriteFailsStoreOK
     DEF Step
<1>2. ASSUME NEW p \in Processes, Kill(p) PROVE StoreOK'
  BY <1>2, KillStoreOK
<1>3. CASE PowerLoss \/ Damage \/ Clear
  BY <1>3, PowerLossStoreOK, DamageStoreOK, ClearStoreOK
<1>4. CASE Over \/ UNCHANGED vars
  BY <1>4, StutterStoreOK DEF Over
<1>. QED
  BY <1>1, <1>2, <1>3, <1>4 DEF Next

\* The artifact at the path of the entry is whole at every instant, and whoever
\* reports a hit or a rebuild left no temporary file, whatever interleaving, kill,
\* power failure, damage or failed clean-up there was (_atomic_write).
THEOREM StoreHolds == Spec => []StoreOK
<1>. QED
  BY InitStoreOK, NextStoreOK, PTL DEF Spec

----------------------------------------------------------------------------
(* What follows for the processes.                                         *)

\* The reports that a step may change, one action at a time.
LEMMA CorruptHasReason ==
    ASSUME StoreOK, OnlyMeddlingCorrupts, [Next]_vars
    PROVE  OnlyMeddlingCorrupts'
<1>. USE Sizes, Apart DEF StoreOK, TypeOK, OnlyMeddlingCorrupts, Report
<1>1. ASSUME NEW p \in Processes, Look(p) PROVE OnlyMeddlingCorrupts'
  BY <1>1 DEF Look
<1>2. ASSUME NEW p \in Processes, Open(p) PROVE OnlyMeddlingCorrupts'
  <2>1. meddled \/ Limit[p] < ArtifactBytes \/ UNCHANGED status
    BY <1>2 DEF Open, PathInv, Fits
  <2>. QED
    BY <1>2, <2>1 DEF Open
<1>3. ASSUME NEW p \in Processes, Read(p) PROVE OnlyMeddlingCorrupts'
  <2>1. CASE Verdict(p, fd[p]) # "corrupt"
    BY <1>3, <2>1 DEF Read
  <2>2. CASE Verdict(p, fd[p]) = "corrupt"
    <3>1. ~Fits(p, fd[p]) \/ (~Complete(fd[p]) /\ kind[fd[p]] # "foreign")
      BY <2>2, CorruptVerdict
    <3>2. fd[p] \in past \ {NoFile}
      BY <1>3 DEF Read, PathInv
    <3>3. meddled \/ Limit[p] < ArtifactBytes
      BY <3>1, <3>2 DEF PathInv, Fits, Complete
    <3>. QED
      BY <1>3, <3>3 DEF Read
  <2>. QED
    BY <2>1, <2>2
<1>4. ASSUME NEW p \in Processes, CreateTemp(p) \/ WriteFragment(p) \/ GiveUp(p)
             \/ WriteNewline(p) \/ Fsync(p) \/ Replace(p) \/ WriteFails(p) \/ Kill(p)
      PROVE  OnlyMeddlingCorrupts'
  BY <1>4 DEF CreateTemp, WriteFragment, GiveUp, WriteNewline, Fsync, Replace, WriteFails, Kill
<1>5. CASE PowerLoss \/ Damage \/ Clear \/ Over \/ UNCHANGED vars
  BY <1>5 DEF PowerLoss, Damage, Clear, Over, vars
<1>. QED
  BY <1>1, <1>2, <1>3, <1>4, <1>5 DEF Next, Step

\* A process never takes the artifact of another for damaged: only meddling,
\* or a limit below the artifact's size, makes it report "corrupt"
\* (read_chunk_artifact while others are in _atomic_write).
THEOREM OnlyMeddlingCorruptsHolds == Spec => []OnlyMeddlingCorrupts
<1>1. Init => OnlyMeddlingCorrupts
  BY DEF Init, OnlyMeddlingCorrupts
<1>. QED
  BY <1>1, CorruptHasReason, StoreHolds, PTL DEF Spec

\* Whoever stored the artifact can read it back under its own limit: the byte
\* counts of _atomic_write and _read_bytes agree.
THEOREM ReadsBackOwnHolds == Spec => []ReadsBackOwn
<1>1. StoreOK => ReadsBackOwn
  BY Sizes, Apart DEF StoreOK, TypeOK, WriterInv, PathInv, ReadsBackOwn, Fits
<1>. QED
  BY <1>1, StoreHolds, PTL

\* A step of a process leaves files at the path alone and puts only a whole
\* artifact there.
LEMMA StepKeepsValid ==
    ASSUME StoreOK, Valid, NEW p \in Processes, Step(p)
    PROVE  Valid'
<1>. USE Sizes, Apart DEF StoreOK, TypeOK, Valid, Complete, files, Temp
<1>1. CASE Replace(p)
  BY <1>1 DEF Replace, WriterInv
<1>2. CASE CreateTemp(p) \/ WriteFragment(p) \/ WriteNewline(p)
  BY <1>2 DEF CreateTemp, WriteFragment, WriteNewline, WriterInv
<1>3. CASE Look(p) \/ Open(p) \/ Read(p) \/ GiveUp(p) \/ Fsync(p) \/ WriteFails(p)
  BY <1>3 DEF Look, Open, Read, GiveUp, Fsync, WriteFails
<1>. QED
  BY <1>1, <1>2, <1>3 DEF Step

\* No step of a process takes a good entry from the others, be it finished,
\* failed or given up.
THEOREM GoodEntryKeptHolds == Spec => GoodEntryKept
<1>1. StoreOK /\ [Next]_vars => [(\E p \in Processes : Step(p)) /\ Valid => Valid']_vars
  BY StepKeepsValid
<1>. QED
  BY <1>1, StoreHolds, PTL DEF Spec, GoodEntryKept

\* Which steps end a process, and what it then reports.
LEMMA EndedWell ==
    ASSUME StoreOK, Next, NEW p \in Processes, pc[p] # "done", pc'[p] = "done",
           status'[p] \in {"miss", "corrupt", "version_mismatch"}
    PROVE  Valid'
<1>. USE Sizes, Apart DEF StoreOK, TypeOK, Go, Report
<1>1. ASSUME NEW q \in Processes, Step(q) PROVE Valid'
  <2>1. CASE Look(q) \/ Open(q) \/ CreateTemp(q) \/ WriteFragment(q) \/ WriteNewline(q) \/ Fsync(q)
    BY <2>1 DEF Look, Open, CreateTemp, WriteFragment, WriteNewline, Fsync
  <2>2. CASE Read(q)
    BY <2>2 DEF Read
  <2>3. CASE GiveUp(q) \/ WriteFails(q)
    BY <2>3 DEF GiveUp, WriteFails
  <2>4. CASE Replace(q)
    BY <2>4 DEF Replace, Valid, Complete, WriterInv, Temp, files
  <2>. QED
    BY <1>1, <2>1, <2>2, <2>3, <2>4 DEF Step
<1>2. ASSUME NEW q \in Processes, Kill(q) PROVE Valid'
  BY <1>2 DEF Kill
<1>3. CASE PowerLoss \/ Damage \/ Clear \/ Over
  BY <1>3 DEF PowerLoss, Damage, Clear, Over, vars
<1>. QED
  BY <1>1, <1>2, <1>3 DEF Next

\* README.md:198-199: a process that reported no entry, a corrupt one or one
\* of another schema, and neither failed nor gave up, leaves a good one.
THEOREM RebuiltHolds == Spec => Rebuilt
<1>1. StoreOK /\ [Next]_vars =>
          [\A p \in Processes :
              pc[p] # "done" /\ pc'[p] = "done"
                /\ status'[p] \in {"miss", "corrupt", "version_mismatch"} => Valid']_vars
  BY EndedWell
<1>. QED
  BY <1>1, StoreHolds, PTL DEF Spec, Rebuilt
=============================================================================
