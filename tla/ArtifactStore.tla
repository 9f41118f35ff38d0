---------------------------- MODULE ArtifactStore ----------------------------
(***************************************************************************)
(* One entry of the content-addressed cache (artifacts/cache.py) as the    *)
(* runner uses it (EvaluationRunner._prepare_chunk_cache): processes that  *)
(* need the same artifact read the entry, and rebuild it when it is absent *)
(* or not usable by writing a temporary file and renaming it over the      *)
(* entry.  They share nothing but the directory, may be killed anywhere,   *)
(* may run with different size limits, and the machine may lose power.     *)
(*                                                                         *)
(* A file is an inode: its size, what its bytes are, and how many of them  *)
(* would survive a power failure.  A reader keeps the inode it opened.     *)
(***************************************************************************)
EXTENDS Naturals

CONSTANTS
    Processes,      \* runs that want the artifact, each at most once
    Old,            \* the inode of an entry that is there from the start
    NoFile,         \* no directory entry
    PayloadBytes,   \* size of the artifact's JSON, without its newline
    Limit           \* [Processes -> cache_max_bytes]

ASSUME StoreAssumption ==
    /\ Old \notin Processes /\ NoFile \notin Processes \cup {Old}
    /\ PayloadBytes \in Nat \ {0}
    /\ Limit \in [Processes -> Nat \ {0}]

ArtifactBytes == PayloadBytes + 1
Inodes == Processes \cup {Old}

VARIABLES
    size,           \* [Inodes -> bytes in the file]
    kind,           \* [Inodes -> "artifact", "foreign" schema or "garbage"]
    durable,        \* [Inodes -> bytes that were fsynced]
    entry,          \* the inode at the artifact's path, or NoFile
    past,           \* every inode that was ever at that path
    temps,          \* inodes that still have their temporary name
    pc,             \* [Processes -> where the process is]
    fd,             \* [Processes -> the inode it reads]
    written,        \* [Processes -> the counter of _atomic_write]
    status,         \* [Processes -> the cache event it reports]
    meddled         \* somebody else changed or removed files

files == <<size, kind, durable>>
vars == <<files, entry, past, temps, pc, fd, written, status, meddled>>

\* Mutant: one temporary name for all writers of the artifact.
SharedTemp(p) == CHOOSE q \in Processes : TRUE

\* NamedTemporaryFile: a name, and so an inode, of its own for each writer.
Temp(p) == p

Complete(i) == kind[i] = "artifact" /\ size[i] = ArtifactBytes
Valid == entry # NoFile /\ Complete(entry)

Init ==
    /\ kind \in {[i \in Inodes |-> IF i = Old THEN k ELSE "artifact"] :
                    k \in {"artifact", "foreign", "garbage"}}
    /\ size = [i \in Inodes |-> IF i = Old THEN ArtifactBytes ELSE 0]
    /\ durable = size
    /\ entry \in {Old, NoFile}
    /\ past = {entry}
    /\ temps = {}
    /\ pc = [p \in Processes |-> "start"]
    /\ fd = [p \in Processes |-> NoFile]
    /\ written = [p \in Processes |-> 0]
    /\ status = [p \in Processes |-> "none"]
    /\ meddled = (kind[Old] = "garbage")

----------------------------------------------------------------------------
(* read_chunk_artifact                                                     *)

Go(p, where) == pc' = [pc EXCEPT ![p] = where]
Report(p, what) == status' = [status EXCEPT ![p] = what]

\* path.exists() comes before, and apart from, the open.
Look(p) ==
    /\ pc[p] = "start"
    /\ \/ entry = NoFile /\ Report(p, "miss") /\ Go(p, "write")
       \/ entry # NoFile /\ Go(p, "open") /\ UNCHANGED status
    /\ UNCHANGED <<files, entry, past, temps, fd, written, meddled>>

\* fstat and the bounded reads reject a file above the reader's own limit.
Fits(p, i) == size[i] <= Limit[p]

Open(p) ==
    /\ pc[p] = "open"
    /\ \/ /\ entry # NoFile => ~Fits(p, entry)
          /\ Report(p, "corrupt") /\ Go(p, "write") /\ UNCHANGED fd
       \/ /\ entry # NoFile /\ Fits(p, entry)
          /\ fd' = [fd EXCEPT ![p] = entry] /\ Go(p, "read") /\ UNCHANGED status
    /\ UNCHANGED <<files, entry, past, temps, written, meddled>>

\* What the validation says of the bytes of an inode: a truncated or altered
\* artifact fails json.loads, a field check or its content hash.
Verdict(p, i) ==
    CASE Fits(p, i) /\ Complete(i) -> "hit"
      [] Fits(p, i) /\ kind[i] = "foreign" -> "version_mismatch"
      [] OTHER -> "corrupt"

Read(p) ==
    /\ pc[p] = "read"
    /\ Report(p, Verdict(p, fd[p]))
    /\ Go(p, IF Verdict(p, fd[p]) = "hit" THEN "done" ELSE "write")
    /\ fd' = [fd EXCEPT ![p] = NoFile]
    /\ UNCHANGED <<files, entry, past, temps, written, meddled>>

----------------------------------------------------------------------------
(* _atomic_write                                                           *)

\* Mutant: the artifact is written in place, without a temporary file.
CreateInPlace(p) ==
    /\ pc[p] = "write"
    /\ size' = [size EXCEPT ![Temp(p)] = 0]
    /\ temps' = temps \cup {Temp(p)}
    /\ entry' = Temp(p) /\ past' = past \cup {Temp(p)}
    /\ Go(p, "writing")
    /\ UNCHANGED <<kind, durable, fd, written, status, meddled>>

CreateTemp(p) ==
    /\ pc[p] = "write"
    /\ size' = [size EXCEPT ![Temp(p)] = 0]
    /\ temps' = temps \cup {Temp(p)}
    /\ Go(p, "writing")
    /\ UNCHANGED <<kind, durable, entry, past, fd, written, status, meddled>>

\* Mutant: the newline that follows the payload is not counted.
OverLimitNoNewline(p, bytes) == bytes > Limit[p]

\* The newline that follows the payload counts.
OverLimit(p, bytes) == bytes + 1 > Limit[p]

\* finally: a temporary file that was not renamed is removed, unless the
\* removal fails as well, which is ignored.
UnlinkTemp(p) == temps' \in {temps, temps \ {Temp(p)}}

WriteFragment(p) ==
    /\ pc[p] = "writing" /\ written[p] < PayloadBytes
    /\ ~OverLimit(p, written[p] + 1)
    /\ written' = [written EXCEPT ![p] = @ + 1]
    /\ size' = [size EXCEPT ![Temp(p)] = @ + 1]
    /\ UNCHANGED <<kind, durable, entry, past, temps, pc, fd, status, meddled>>

\* Mutant: giving up, a process evicts the entry that is too large for it.
GiveUpEvicts(p) ==
    /\ pc[p] = "writing" /\ written[p] < PayloadBytes
    /\ OverLimit(p, written[p] + 1)
    /\ UnlinkTemp(p)
    /\ entry' = NoFile
    /\ Report(p, "skipped") /\ Go(p, "done")
    /\ UNCHANGED <<files, past, fd, written, meddled>>

\* CacheCapacityError: the run goes on without the cache.
GiveUp(p) ==
    /\ pc[p] = "writing" /\ written[p] < PayloadBytes
    /\ OverLimit(p, written[p] + 1)
    /\ UnlinkTemp(p)
    /\ Report(p, "skipped") /\ Go(p, "done")
    /\ UNCHANGED <<files, entry, past, fd, written, meddled>>

WriteNewline(p) ==
    /\ pc[p] = "writing" /\ written[p] = PayloadBytes
    /\ size' = [size EXCEPT ![Temp(p)] = @ + 1]
    /\ Go(p, "flushed")
    /\ UNCHANGED <<kind, durable, entry, past, temps, fd, written, status, meddled>>

\* Mutant: the file is flushed to the system and no further.
FlushOnly(p) ==
    /\ pc[p] = "flushed"
    /\ Go(p, "synced")
    /\ UNCHANGED <<files, entry, past, temps, fd, written, status, meddled>>

Fsync(p) ==
    /\ pc[p] = "flushed"
    /\ durable' = [durable EXCEPT ![Temp(p)] = size[Temp(p)]]
    /\ Go(p, "synced")
    /\ UNCHANGED <<size, kind, entry, past, temps, fd, written, status, meddled>>

\* os.replace; the reported status stays that of the read.
Replace(p) ==
    /\ pc[p] = "synced" /\ Temp(p) \in temps
    /\ entry' = Temp(p)
    /\ past' = past \cup {Temp(p)}
    /\ temps' = temps \ {Temp(p)}
    /\ Go(p, "done")
    /\ UNCHANGED <<files, fd, written, status, meddled>>

\* An OSError of mkdir, of the temporary file, of a write, of the fsync or of
\* the rename (also because somebody removed the file): the run fails.
WriteFails(p) ==
    /\ pc[p] \in {"write", "writing", "flushed", "synced"}
    /\ UnlinkTemp(p)
    /\ Report(p, "error") /\ Go(p, "done")
    /\ UNCHANGED <<files, entry, past, fd, written, meddled>>

Step(p) ==
    \/ Look(p) \/ Open(p) \/ Read(p)
    \/ CreateTemp(p) \/ WriteFragment(p) \/ GiveUp(p) \/ WriteNewline(p)
    \/ Fsync(p) \/ Replace(p) \/ WriteFails(p)

----------------------------------------------------------------------------
(* What happens to processes and files from outside.                       *)

\* Killed without a temporary file, a process just takes no further step.
Kill(p) ==
    /\ pc[p] \in {"writing", "flushed", "synced"}
    /\ Go(p, "dead")
    /\ UNCHANGED <<files, entry, past, temps, fd, written, status, meddled>>

\* Unsynced bytes may be gone, and so may the latest renames: the directory
\* itself is not fsynced.  What was started is over, its temporary files, there
\* or not, are nobody's; processes that were not may start afterwards.
PowerLoss ==
    /\ pc' = [p \in Processes |-> IF pc[p] = "start" THEN "start" ELSE "dead"]
    /\ size' \in {[i \in Inodes |-> IF i \in lost THEN durable[i] ELSE size[i]] :
                    lost \in SUBSET (past \ {NoFile})}
    /\ entry' \in past
    /\ fd' = [p \in Processes |-> NoFile]
    /\ written' = [p \in Processes |-> 0]
    /\ UNCHANGED <<kind, durable, past, temps, status, meddled>>

\* Another program damages the entry in place, or the user clears the cache.
Damage ==
    /\ entry # NoFile
    /\ kind' = [kind EXCEPT ![entry] = "garbage"]
    /\ \E bytes \in {0, ArtifactBytes + 1} : size' = [size EXCEPT ![entry] = bytes]
    /\ meddled' = TRUE
    /\ UNCHANGED <<durable, entry, past, temps, pc, fd, written, status>>

Clear ==
    /\ entry # NoFile \/ temps # {}
    /\ entry' = NoFile
    /\ past' = past \cup {NoFile}
    /\ temps' = {}
    /\ meddled' = TRUE
    /\ UNCHANGED <<files, pc, fd, written, status>>

Over == (\A p \in Processes : pc[p] \in {"done", "dead"}) /\ UNCHANGED vars

Next ==
    \/ \E p \in Processes : Step(p) \/ Kill(p)
    \/ PowerLoss \/ Damage \/ Clear
    \/ Over

Spec == Init /\ [][Next]_vars

----------------------------------------------------------------------------
(* Properties.                                                             *)

TypeOK ==
    /\ size \in [Inodes -> Nat]
    /\ kind \in [Inodes -> {"artifact", "foreign", "garbage"}]
    /\ durable \in [Inodes -> Nat]
    /\ entry \in Inodes \cup {NoFile}
    /\ past \subseteq Inodes \cup {NoFile} /\ entry \in past
    /\ temps \subseteq Processes
    /\ pc \in [Processes -> {"start", "open", "read", "write", "writing", "flushed",
                             "synced", "done", "dead"}]
    /\ fd \in [Processes -> Inodes \cup {NoFile}]
    /\ written \in [Processes -> 0 .. PayloadBytes]
    /\ status \in [Processes -> {"none", "hit", "miss", "corrupt", "version_mismatch",
                                 "skipped", "error"}]
    /\ meddled \in BOOLEAN

\* An artifact at the entry's path is whole: neither a writer killed half
\* way, nor two writers at once, nor a power failure leaves a part of one.
EntryWhole == entry # NoFile /\ kind[entry] = "artifact" => size[entry] = ArtifactBytes

\* A process never takes the artifact of another for damaged, whatever the
\* other was doing when it looked: only a change from outside, or a smaller
\* limit than the writer's, makes it report "corrupt".
OnlyMeddlingCorrupts ==
    \A p \in Processes :
        status[p] = "corrupt" => meddled \/ Limit[p] < ArtifactBytes

\* What a process stored it can read back under its own limit: the writer's
\* count of bytes and the reader's bound agree at the boundary.
ReadsBackOwn == entry \in Processes /\ ~meddled => Fits(entry, entry)

\* A temporary file belongs to a writer, or is left over from one that was
\* killed, reports a failure or gave up: whoever reports a hit or a rebuild left
\* none behind.
NoLitter ==
    \A p \in Processes :
        Temp(p) \in temps =>
            \/ pc[p] \in {"writing", "flushed", "synced", "dead"}
            \/ pc[p] = "done" /\ status[p] \in {"error", "skipped"}

\* No step of a process, failed, given up or finished, takes a good entry
\* from the others.
GoodEntryKept == [][(\E p \in Processes : Step(p)) /\ Valid => Valid']_vars

\* README.md:198-199: corrupt or incompatible entries are rebuilt.  A process
\* that reports one, and neither a failure nor a limit, leaves a good entry,
\* whatever the others did, unless the cache was meddled with since.
Rebuilt ==
    [][\A p \in Processes :
          pc[p] # "done" /\ pc'[p] = "done"
            /\ status'[p] \in {"miss", "corrupt", "version_mismatch"} => Valid']_vars

\* What a writer's location says of its own file: nobody else reaches it before
\* it is renamed, its count is the size, and what is synced is the artifact.
WriterInv ==
    \A p \in Processes :
        /\ p \in past => pc[p] \in {"done", "dead"} /\ ArtifactBytes <= Limit[p]
        /\ p \notin past => kind[p] = "artifact"
        /\ pc[p] \in {"start", "open", "read", "write"} => p \notin temps /\ written[p] = 0
        /\ pc[p] = "writing" => size[p] = written[p] /\ (written[p] > 0 => written[p] < Limit[p])
        /\ pc[p] \in {"flushed", "synced"} => size[p] = ArtifactBytes /\ ArtifactBytes <= Limit[p]
        /\ pc[p] = "synced" => durable[p] = ArtifactBytes

\* What was ever at the path, and did not get there by meddling, is there to
\* stay, also after a power failure; a process that looks finds one of these.
PathInv ==
    /\ \A i \in past \ {NoFile} :
          kind[i] = "artifact" \/ ~meddled =>
              /\ kind[i] # "garbage"
              /\ size[i] = ArtifactBytes /\ durable[i] = ArtifactBytes
    /\ \A p \in Processes :
          /\ pc[p] = "open" /\ ~meddled => entry # NoFile
          /\ pc[p] = "read" => fd[p] \in past \ {NoFile}

\* The state is well formed, the entry whole at every instant, and a reported
\* hit or rebuild leaves no temporary file; with what makes this inductive.
StoreOK == TypeOK /\ EntryWhole /\ NoLitter /\ WriterInv /\ PathInv
=============================================================================
