---------------------------- MODULE DatasetBundle ----------------------------
(***************************************************************************)
(* A dataset under review, kept in a directory of two files: the queries   *)
(* with their judgments (evaluation.jsonl) and the manifest that says      *)
(* where they come from and whether somebody has reviewed them             *)
(* (dataset-manifest.json).  DatasetDraft.save_bundle replaces the first   *)
(* and then the second, each through a temporary file whose name is always *)
(* the same; load_dataset_draft reads both and compares what they share    *)
(* (dataset_authoring.py, dataset_workflow.py).                            *)
(*                                                                         *)
(* Authors are processes: a reviewer runs dataset review, a generator      *)
(* saves a fresh synthetic draft over the bundle.  A judgment is the grade *)
(* a query's relevant document got, 0 while it has none.  The status       *)
(* in_review counts as unreviewed, as it does for human_reviewed.          *)
(***************************************************************************)
EXTENDS Naturals, Sequences

CONSTANTS
    Queries,            \* the query IDs; a review never changes them
    MaxGrade,
    Reviewers,
    Generators,
    Missing,            \* no file of that name
    Empty,              \* a file that is empty or cut short
    Mixed,              \* a text over the rest of a longer one
    TooLong             \* texts above the byte limits of the loader

Authors == Reviewers \cup Generators
Judgments == [Queries -> 0 .. MaxGrade]
Origins == {"human", "synthetic"}
Provenances == [origin : Origins, status : {"unreviewed", "reviewed"}]
Pending(judged) == {q \in Queries : judged[q] = 0}
Drafts == [judged : Judgments, provenance : Provenances]
Manifests == [provenance : Provenances, pending : SUBSET Queries]

ASSUME BundleAssumption ==
    /\ Queries # {} /\ MaxGrade \in Nat \ {0}
    /\ Reviewers \cap Generators = {}
    /\ {Missing, Empty, Mixed} \cap (Judgments \cup Manifests) = {}
    /\ TooLong \subseteq Judgments \cup Manifests

VARIABLES
    file,               \* [lines, manifest -> the text in it]
    temp,               \* [lines, manifest -> the text in its temporary file]
    pc,                 \* [Authors -> what comes next in save_bundle]
    at,                 \* [Authors -> which file is being written]
    handle,             \* [Authors -> where the file they hold open is now]
    draft,              \* [Authors -> the draft in memory]
    attested,           \* judgments a reviewer saved as reviewed
    interrupted         \* a save stopped between its two files

files == <<file, temp, handle>>
ghosts == <<attested, interrupted>>
vars == <<files, pc, at, draft, ghosts>>

jsonl == file.lines             \* the judgments in evaluation.jsonl
manifest == file.manifest       \* the provenance and the pending IDs

\* A dataset from elsewhere, or a generated one, that is still to be reviewed.
Init ==
    /\ \E judged \in {[q \in Queries |-> 0], [q \in Queries |-> 1]}, o \in Origins :
          LET unreviewed == [origin |-> o, status |-> "unreviewed"] IN
          /\ file = [lines |-> judged,
                     manifest |-> [provenance |-> unreviewed, pending |-> Pending(judged)]]
          /\ draft = [a \in Authors |-> [judged |-> judged, provenance |-> unreviewed]]
    /\ temp = [lines |-> Missing, manifest |-> Missing]
    /\ pc = [a \in Authors |-> "idle"]
    /\ at = [a \in Authors |-> 1]
    /\ handle = [a \in Authors |-> "none"]
    /\ attested = {}
    /\ interrupted = FALSE

Whole == file.lines \in Judgments /\ file.manifest \in Manifests

\* The pending IDs (and the number of queries) of the manifest are the lines'.
Agree == Whole /\ manifest.pending = Pending(jsonl)

\* load_dataset_draft accepts the bundle.  It reads both files under limits
\* that save_bundle does not have, so a save may lock everybody out.
Loadable == Agree /\ {jsonl, manifest} \cap TooLong = {}
Bundle == [judged |-> jsonl, provenance |-> manifest.provenance]

Save(a, what) ==
    /\ pc' = [pc EXCEPT ![a] = "open"]
    /\ at' = [at EXCEPT ![a] = 1]
    /\ draft' = [draft EXCEPT ![a] = what]
    /\ UNCHANGED files

----------------------------------------------------------------------------
(* Commands                                                                *)

\* dataset review: a positive grade for one query; everything else stays,
\* the status included.
Review(r, q, grade) ==
    /\ pc[r] = "idle" /\ Loadable
    /\ Save(r, [Bundle EXCEPT !.judged[q] = grade])
    /\ attested' = IF manifest.provenance.status = "reviewed"
                     THEN attested \cup {[jsonl EXCEPT ![q] = grade]} ELSE attested
    /\ UNCHANGED interrupted

\* With --complete-review: only if no query is left without a judgment.
Complete(r, q, grade) ==
    /\ pc[r] = "idle" /\ Loadable
    /\ Pending(jsonl) \subseteq {q}
    /\ Save(r, [Bundle EXCEPT !.judged[q] = grade, !.provenance.status = "reviewed"])
    /\ attested' = attested \cup {[jsonl EXCEPT ![q] = grade]}
    /\ UNCHANGED interrupted

\* A bundle whose files disagree, or are too large, is refused by every command.
Refuse(r) ==
    /\ pc[r] = "idle" /\ ~Loadable
    /\ UNCHANGED vars

\* generate_synthetic_draft and save_bundle: every query has a judgment.
Generate(g) ==
    /\ pc[g] = "idle"
    /\ \E grade \in 1 .. MaxGrade :
          Save(g, [judged |-> [q \in Queries |-> grade],
                   provenance |-> [origin |-> "synthetic", status |-> "unreviewed"]])
    /\ UNCHANGED ghosts

----------------------------------------------------------------------------
(* save_bundle, and _write_text for each of its two files.                 *)

\* Mutant: the manifest is written before the lines.
ManifestFirst == <<"manifest", "lines">>

Order == <<"lines", "manifest">>

FileOf(a) == Order[at[a]]

\* Mutant: the pending IDs are those of the lines that are on the disk.
TextStale(a) ==
    IF FileOf(a) = "lines" THEN draft[a].judged
    ELSE [provenance |-> draft[a].provenance, pending |-> manifest.pending]

Text(a) ==
    IF FileOf(a) = "lines" THEN draft[a].judged
    ELSE [provenance |-> draft[a].provenance, pending |-> Pending(draft[a].judged)]

\* Those who hold the temporary file of f open, under whatever name it goes on.
Holding(f, to) ==
    [a \in Authors |-> IF handle[a] = "temp" /\ FileOf(a) = f THEN to ELSE handle[a]]

\* Mutant: a temporary file that is there already is not emptied.
OpenAppending(a) ==
    /\ pc[a] = "open"
    /\ temp' = [temp EXCEPT ![FileOf(a)] = IF @ = Missing THEN Empty ELSE @]
    /\ handle' = [handle EXCEPT ![a] = "temp"]
    /\ pc' = [pc EXCEPT ![a] = "write"]
    /\ UNCHANGED <<file, at, draft, ghosts>>

\* write_text creates the temporary file, or empties the one that is there.
Open(a) ==
    /\ pc[a] = "open"
    /\ temp' = [temp EXCEPT ![FileOf(a)] = Empty]
    /\ handle' = [handle EXCEPT ![a] = "temp"]
    /\ pc' = [pc EXCEPT ![a] = "write"]
    /\ UNCHANGED <<file, at, draft, ghosts>>

\* The text goes to the file that was opened, over what it holds by now.
Over(old, new) == IF old \in {Empty, new} THEN {new} ELSE {new, Mixed}

Write(a) ==
    /\ pc[a] = "write"
    /\ LET f == FileOf(a) IN
       \/ /\ handle[a] = "temp"
          /\ \E text \in Over(temp[f], Text(a)) : temp' = [temp EXCEPT ![f] = text]
          /\ UNCHANGED file
       \/ /\ handle[a] = "target"
          /\ \E text \in Over(file[f], Text(a)) : file' = [file EXCEPT ![f] = text]
          /\ UNCHANGED temp
       \/ handle[a] = "gone" /\ UNCHANGED <<file, temp>>
    /\ handle' = [handle EXCEPT ![a] = "none"]
    /\ pc' = [pc EXCEPT ![a] = "replace"]
    /\ UNCHANGED <<at, draft, ghosts>>

\* Whatever has the temporary name becomes the file.
Replace(a) ==
    /\ pc[a] = "replace" /\ temp[FileOf(a)] # Missing
    /\ LET f == FileOf(a) IN
       /\ file' = [file EXCEPT ![f] = temp[f]]
       /\ temp' = [temp EXCEPT ![f] = Missing]
       /\ handle' = [b \in Authors |->
                        IF handle[b] = "target" /\ FileOf(b) = f THEN "gone" ELSE Holding(f, "target")[b]]
    /\ IF at[a] < Len(Order)
         THEN at' = [at EXCEPT ![a] = @ + 1] /\ pc' = [pc EXCEPT ![a] = "open"]
         ELSE pc' = [pc EXCEPT ![a] = "idle"] /\ UNCHANGED at
    /\ UNCHANGED <<draft, ghosts>>

Stop(a) ==
    /\ pc[a] # "idle"
    /\ pc' = [pc EXCEPT ![a] = "idle"]
    /\ interrupted' = (interrupted \/ at[a] = Len(Order))
    /\ UNCHANGED <<file, at, draft, attested>>

\* Killed: the temporary file stays as it is.  So it does after an OSError
\* whose clean-up fails as well, which is ignored.
Kill(a) ==
    /\ Stop(a)
    /\ handle' = [handle EXCEPT ![a] = "none"]
    /\ UNCHANGED temp

\* An OSError, also because nothing has the temporary name any more: what
\* has it is removed.
Fail(a) ==
    /\ Stop(a)
    /\ temp' = [temp EXCEPT ![FileOf(a)] = Missing]
    /\ handle' = [Holding(FileOf(a), "gone") EXCEPT ![a] = "none"]

Next ==
    \/ \E r \in Reviewers, q \in Queries, grade \in 1 .. MaxGrade :
          Review(r, q, grade) \/ Complete(r, q, grade)
    \/ \E r \in Reviewers : Refuse(r)
    \/ \E g \in Generators : Generate(g)
    \/ \E a \in Authors : Open(a) \/ Write(a) \/ Replace(a) \/ Kill(a) \/ Fail(a)

Spec == Init /\ [][Next]_vars

----------------------------------------------------------------------------
(* Properties.                                                             *)

Texts == {Missing, Empty, Mixed}
TypeOK ==
    /\ DOMAIN file = {"lines", "manifest"} /\ DOMAIN temp = DOMAIN file
    /\ file.lines \in Judgments \cup Texts /\ temp.lines \in Judgments \cup Texts
    /\ file.manifest \in Manifests \cup Texts /\ temp.manifest \in Manifests \cup Texts
    /\ pc \in [Authors -> {"idle", "open", "write", "replace"}]
    /\ at \in [Authors -> DOMAIN Order]
    /\ handle \in [Authors -> {"none", "temp", "target", "gone"}]
    /\ draft \in [Authors -> Drafts]
    /\ attested \subseteq Judgments
    /\ interrupted \in BOOLEAN

\* docs/issues-v0.2.md:12: what a command loads as reviewed are judgments that
\* a reviewer saved as such, at every instant and after every crash.
ReviewedIsAttested ==
    Loadable /\ manifest.provenance.status = "reviewed" => jsonl \in attested

\* A query that has a judgment never loses it, and a reviewed dataset never
\* becomes unreviewed, however the reviews are cut short and whatever a
\* temporary file of an earlier one holds.
ReviewNeverLost ==
    [][/\ Whole'
       /\ Pending(jsonl') \subseteq Pending(jsonl)
       /\ manifest.provenance.status = "reviewed" => manifest'.provenance.status = "reviewed"
      ]_vars

\* The files agree, and can be loaded if they are not too large, except while
\* they are saved, and afterwards unless the save was cut short between the two.
AgreeUnlessInterrupted ==
    Agree \/ interrupted \/ \E a \in Authors : pc[a] # "idle" /\ at[a] = Len(Order)

IsReviewed(provenance) == provenance.status = "reviewed"

\* A single author has the temporary file to themselves, and the draft they
\* save is ahead of the files: it has the judgments, and keeps the review.
SaveInv ==
    /\ Whole
    /\ IsReviewed(manifest.provenance) => jsonl \in attested /\ Reviewers # {}
    /\ \A a \in Authors :
          /\ handle[a] = IF pc[a] = "write" THEN "temp" ELSE "none"
          /\ pc[a] = "write" => temp[FileOf(a)] = Empty
          /\ pc[a] = "replace" => temp[FileOf(a)] = Text(a)
          /\ pc[a] # "idle" =>
                /\ Pending(draft[a].judged) \subseteq Pending(jsonl)
                /\ IsReviewed(manifest.provenance) => IsReviewed(draft[a].provenance)
                /\ IsReviewed(draft[a].provenance) => draft[a].judged \in attested /\ Reviewers # {}
                /\ at[a] = 2 => jsonl = draft[a].judged

\* The state is well formed, and only an interrupted save makes the files differ;
\* with what makes this inductive when there is a single author.
BundleOK == TypeOK /\ AgreeUnlessInterrupted /\ SaveInv
=============================================================================
