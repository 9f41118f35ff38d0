------------------------- MODULE DatasetBundleProofs -------------------------
(***************************************************************************)
(* Proofs about DatasetBundle, for any set of queries and grades, and a    *)
(* single author, whose saves are cut short anywhere.  With two authors    *)
(* the run bundle_generate shows that ReviewedIsAttested fails.            *)
(***************************************************************************)
EXTENDS DatasetBundle, TLAPS

\* A judged text is no marker, and judgments leave IDs pending.
LEMMA Values == /\ \A j \in Judgments : j \notin Texts /\ Pending(j) \in SUBSET Queries
                /\ \A m \in Manifests : m \notin Texts
                /\ "human" \in Origins /\ "synthetic" \in Origins
                /\ DOMAIN Order = {1, 2} /\ Len(Order) = 2
                /\ Order[1] = "lines" /\ Order[2] = "manifest"
BY BundleAssumption DEF Texts, Pending, Origins, Order

\* What is saved: the judgments, or the manifest that fits them.
LEMMA SavedText ==
    ASSUME TypeOK, NEW a \in Authors
    PROVE  /\ at[a] = 1 => FileOf(a) = "lines" /\ Text(a) = draft[a].judged /\ Text(a) \in Judgments
           /\ at[a] = 2 => /\ FileOf(a) = "manifest" /\ Text(a) \in Manifests
                           /\ Text(a) = [provenance |-> draft[a].provenance,
                                         pending |-> Pending(draft[a].judged)]
           /\ at[a] \in {1, 2}
<1>1. at[a] \in {1, 2} /\ draft[a] \in Drafts
  BY Values DEF TypeOK
<1>2. draft[a].judged \in Judgments /\ draft[a].provenance \in Provenances
  BY <1>1 DEF Drafts
<1>3. [provenance |-> draft[a].provenance, pending |-> Pending(draft[a].judged)] \in Manifests
  BY <1>2, Values DEF Manifests
<1>. QED
  BY <1>1, <1>2, <1>3, Values DEF FileOf, Text

\* The bundle one starts with can be loaded, and is unreviewed.
LEMMA InitBundleOK == Init => BundleOK
<1>. SUFFICES ASSUME Init PROVE BundleOK
  OBVIOUS
<1>1. PICK judged \in {[q \in Queries |-> 0], [q \in Queries |-> 1]}, o \in Origins :
          LET unreviewed == [origin |-> o, status |-> "unreviewed"] IN
          /\ file = [lines |-> judged,
                     manifest |-> [provenance |-> unreviewed, pending |-> Pending(judged)]]
          /\ draft = [a \in Authors |-> [judged |-> judged, provenance |-> unreviewed]]
  BY DEF Init
<1>. DEFINE u == [origin |-> o, status |-> "unreviewed"]
<1>2. judged \in Judgments
  BY BundleAssumption DEF Judgments
<1>3. u \in Provenances /\ u.status = "unreviewed"
  BY DEF Provenances
<1>4. [provenance |-> u, pending |-> Pending(judged)] \in Manifests
  BY <1>2, <1>3, Values DEF Manifests
<1>5. [judged |-> judged, provenance |-> u] \in Drafts
  BY <1>2, <1>3 DEF Drafts
<1>6. TypeOK
  BY <1>1, <1>2, <1>4, <1>5, Values DEF Init, TypeOK, Texts
<1>7. Whole /\ Agree /\ manifest.provenance = u
  BY <1>1, <1>2, <1>4 DEF Whole, Agree, jsonl, manifest
<1>8. SaveInv
  BY <1>3, <1>7 DEF Init, SaveInv, IsReviewed
<1>. QED
  BY <1>6, <1>7, <1>8 DEF BundleOK, AgreeUnlessInterrupted

\* A save begins with a draft that is ahead of the files.
LEMMA SaveBundleOK ==
    ASSUME NEW a, Authors = {a}, BundleOK, NEW what \in Drafts,
           pc[a] = "idle", Save(a, what),
           attested \subseteq attested', attested' \subseteq Judgments, UNCHANGED interrupted,
           Pending(what.judged) \subseteq Pending(jsonl),
           IsReviewed(manifest.provenance) => IsReviewed(what.provenance),
           IsReviewed(what.provenance) => what.judged \in attested' /\ Reviewers # {}
    PROVE  BundleOK'
<1>1. /\ file' = file /\ temp' = temp /\ handle' = handle
      /\ pc' = [pc EXCEPT ![a] = "open"] /\ at' = [at EXCEPT ![a] = 1]
      /\ draft' = [draft EXCEPT ![a] = what]
  BY DEF Save, files
<1>2. TypeOK'
  BY <1>1, Values DEF BundleOK, TypeOK
<1>3. AgreeUnlessInterrupted'
  BY <1>1 DEF BundleOK, AgreeUnlessInterrupted, Agree, Whole, jsonl, manifest
<1>4. SaveInv'
  <2>1. pc'[a] = "open" /\ at'[a] = 1 /\ draft'[a] = what /\ handle'[a] = "none"
    BY <1>1 DEF BundleOK, TypeOK, SaveInv
  <2>2. Whole' /\ (IsReviewed(manifest'.provenance) => jsonl' \in attested' /\ Reviewers # {})
    BY <1>1 DEF BundleOK, SaveInv, Whole, jsonl, manifest
  <2>. QED
    BY <1>1, <2>1, <2>2 DEF SaveInv, jsonl, manifest
<1>. QED
  BY <1>2, <1>3, <1>4 DEF BundleOK

\* A draft that is loaded and judged.
LEMMA JudgedDraft ==
    ASSUME TypeOK, Loadable, NEW q \in Queries, NEW grade \in 1 .. MaxGrade
    PROVE  /\ Bundle.judged = jsonl /\ Bundle.provenance = manifest.provenance
           /\ Bundle \in Drafts
           /\ [jsonl EXCEPT ![q] = grade] \in Judgments
           /\ Pending([jsonl EXCEPT ![q] = grade]) \subseteq Pending(jsonl)
<1>1. jsonl \in Judgments /\ manifest \in Manifests
  BY DEF Loadable, Agree, Whole, jsonl, manifest
<1>2. manifest.provenance \in Provenances
  BY <1>1 DEF Manifests
<1>. QED
  BY <1>1, <1>2, BundleAssumption DEF Bundle, Drafts, Judgments, Pending

LEMMA ReviewBundleOK ==
    ASSUME NEW a, Authors = {a}, BundleOK, NEW q \in Queries, NEW grade \in 1 .. MaxGrade,
           a \in Reviewers, Review(a, q, grade)
    PROVE  BundleOK'
<1>. DEFINE what == [Bundle EXCEPT !.judged[q] = grade]
<1>1. /\ pc[a] = "idle" /\ Loadable /\ Save(a, what) /\ UNCHANGED interrupted
      /\ attested' = IF manifest.provenance.status = "reviewed"
                       THEN attested \cup {[jsonl EXCEPT ![q] = grade]} ELSE attested
  BY DEF Review
<1>2. /\ Bundle.judged = jsonl /\ Bundle.provenance = manifest.provenance
      /\ Bundle \in Drafts
      /\ [jsonl EXCEPT ![q] = grade] \in Judgments
      /\ Pending([jsonl EXCEPT ![q] = grade]) \subseteq Pending(jsonl)
  BY <1>1, JudgedDraft DEF BundleOK
<1>3. /\ what.judged = [jsonl EXCEPT ![q] = grade]
      /\ what.provenance = manifest.provenance /\ what \in Drafts
  BY <1>2 DEF Drafts
<1>. HIDE DEF what
<1>4. attested \subseteq attested' /\ attested' \subseteq Judgments
  BY <1>1, <1>2 DEF BundleOK, TypeOK
<1>5. IsReviewed(what.provenance) => what.judged \in attested' /\ Reviewers # {}
  BY <1>1, <1>3 DEF IsReviewed
<1>6. IsReviewed(manifest.provenance) => IsReviewed(what.provenance)
  BY <1>3
<1>7. Pending(what.judged) \subseteq Pending(jsonl)
  BY <1>2, <1>3
<1>. QED
  BY <1>1, <1>3, <1>4, <1>5, <1>6, <1>7, SaveBundleOK

\* Whoever completes a review attests the judgments that are saved.
LEMMA CompleteBundleOK ==
    ASSUME NEW a, Authors = {a}, BundleOK, NEW q \in Queries, NEW grade \in 1 .. MaxGrade,
           a \in Reviewers, Complete(a, q, grade)
    PROVE  BundleOK'
<1>. DEFINE what == [Bundle EXCEPT !.judged[q] = grade, !.provenance.status = "reviewed"]
<1>1. /\ pc[a] = "idle" /\ Loadable /\ Save(a, what) /\ UNCHANGED interrupted
      /\ attested' = attested \cup {[jsonl EXCEPT ![q] = grade]}
  BY DEF Complete
<1>2. /\ Bundle.judged = jsonl /\ Bundle.provenance = manifest.provenance
      /\ Bundle \in Drafts
      /\ [jsonl EXCEPT ![q] = grade] \in Judgments
      /\ Pending([jsonl EXCEPT ![q] = grade]) \subseteq Pending(jsonl)
  BY <1>1, JudgedDraft DEF BundleOK
<1>3. /\ what.judged = [jsonl EXCEPT ![q] = grade]
      /\ what.provenance.status = "reviewed" /\ what \in Drafts
  BY <1>2 DEF Drafts, Provenances
<1>. HIDE DEF what
<1>4. attested \subseteq attested' /\ attested' \subseteq Judgments
  BY <1>1, <1>2 DEF BundleOK, TypeOK
<1>5. /\ IsReviewed(what.provenance)
      /\ what.judged \in attested' /\ Reviewers # {}
  BY <1>1, <1>3 DEF IsReviewed
<1>6. Pending(what.judged) \subseteq Pending(jsonl)
  BY <1>2, <1>3
<1>. QED
  BY <1>1, <1>3, <1>4, <1>5, <1>6, SaveBundleOK

\* A generator that is the only author finds nothing reviewed.
LEMMA GenerateBundleOK ==
    ASSUME NEW a, Authors = {a}, BundleOK, a \in Generators, Generate(a)
    PROVE  BundleOK'
<1>1. PICK grade \in 1 .. MaxGrade :
          Save(a, [judged |-> [q \in Queries |-> grade],
                   provenance |-> [origin |-> "synthetic", status |-> "unreviewed"]])
  BY DEF Generate
<1>. DEFINE what == [judged |-> [q \in Queries |-> grade],
                     provenance |-> [origin |-> "synthetic", status |-> "unreviewed"]]
<1>2. what.judged \in Judgments /\ Pending(what.judged) = {}
  BY BundleAssumption DEF Judgments, Pending
<1>3. what.provenance \in Provenances /\ ~IsReviewed(what.provenance)
  BY Values DEF Provenances, IsReviewed
<1>4. what \in Drafts
  BY <1>2, <1>3 DEF Drafts
<1>5. Reviewers = {}
  BY BundleAssumption DEF Authors
<1>6. ~IsReviewed(manifest.provenance)
  BY <1>5 DEF BundleOK, SaveInv
<1>7. pc[a] = "idle" /\ UNCHANGED <<attested, interrupted>> /\ attested \subseteq Judgments
  BY DEF Generate, ghosts, BundleOK, TypeOK
<1>8. Save(a, what)
  BY <1>1
<1>. HIDE DEF what
<1>. QED
  BY <1>2, <1>3, <1>4, <1>6, <1>7, <1>8, SaveBundleOK

\* What SaveInv says of the only author.
LEMMA Alone ==
    ASSUME NEW a, Authors = {a}, BundleOK
    PROVE  /\ a \in Authors /\ TypeOK
           /\ at[a] \in {1, 2} /\ pc[a] \in {"idle", "open", "write", "replace"}
           /\ DOMAIN file = {"lines", "manifest"} /\ DOMAIN temp = {"lines", "manifest"}
           /\ file.lines \in Judgments /\ file.manifest \in Manifests
           /\ handle = [b \in Authors |-> IF pc[a] = "write" THEN "temp" ELSE "none"]
<1>1. handle \in [Authors -> {"none", "temp", "target", "gone"}]
  BY DEF BundleOK, TypeOK
<1>2. handle[a] = IF pc[a] = "write" THEN "temp" ELSE "none"
  BY DEF BundleOK, SaveInv
<1>. QED
  BY <1>1, <1>2, Values DEF BundleOK, TypeOK, SaveInv, Whole

\* The temporary file belongs to the author until it is renamed or removed.
LEMMA TempBundleOK ==
    ASSUME NEW a, Authors = {a}, BundleOK,
           pc[a] # "idle", pc'[a] \in {"idle", "write", "replace"},
           pc' \in [Authors -> {"idle", "open", "write", "replace"}],
           UNCHANGED <<file, at, draft, attested>>,
           interrupted' = (interrupted \/ (pc'[a] = "idle" /\ at[a] = 2)),
           DOMAIN temp' = {"lines", "manifest"},
           temp'.lines \in Judgments \cup Texts, temp'.manifest \in Manifests \cup Texts,
           handle' = [b \in Authors |-> IF pc'[a] = "write" THEN "temp" ELSE "none"],
           pc'[a] = "write" => temp'[FileOf(a)] = Empty,
           pc'[a] = "replace" => temp'[FileOf(a)] = Text(a)
    PROVE  BundleOK'
<1>1. TypeOK'
  BY DEF BundleOK, TypeOK
<1>2. AgreeUnlessInterrupted'
  <2>1. (Agree' <=> Agree) /\ Len(Order) = 2
    BY Values DEF Agree, Whole, jsonl, manifest
  <2>2. interrupted' \in BOOLEAN /\ at' = at
    BY <1>1 DEF TypeOK
  <2>3. CASE Agree \/ interrupted
    BY <2>1, <2>3 DEF AgreeUnlessInterrupted
  <2>4. CASE at[a] = 2
    BY <2>1, <2>2, <2>4 DEF AgreeUnlessInterrupted
  <2>. QED
    BY <2>1, <2>3, <2>4 DEF BundleOK, AgreeUnlessInterrupted
<1>3. SaveInv'
  <2>1. FileOf(a)' = FileOf(a) /\ Text(a)' = Text(a)
    BY DEF FileOf, Text
  <2>2. Whole' /\ (IsReviewed(manifest'.provenance) => jsonl' \in attested' /\ Reviewers # {})
    BY DEF BundleOK, SaveInv, Whole, jsonl, manifest
  <2>. QED
    BY <2>1, <2>2 DEF BundleOK, SaveInv, jsonl, manifest
<1>. QED
  BY <1>1, <1>2, <1>3 DEF BundleOK

LEMMA OpenBundleOK == ASSUME NEW a, Authors = {a}, BundleOK, Open(a) PROVE BundleOK'
<1>1. /\ pc[a] = "open" /\ pc' = [pc EXCEPT ![a] = "write"]
      /\ temp' = [temp EXCEPT ![FileOf(a)] = Empty]
      /\ handle' = [handle EXCEPT ![a] = "temp"]
      /\ UNCHANGED <<file, at, draft, attested, interrupted>>
  BY DEF Open, ghosts
<1>2. TypeOK /\ a \in Authors /\ FileOf(a) \in {"lines", "manifest"}
  BY Alone, SavedText
<1>3. /\ pc' \in [Authors -> {"idle", "open", "write", "replace"}] /\ pc'[a] = "write"
      /\ DOMAIN temp' = {"lines", "manifest"} /\ temp'[FileOf(a)] = Empty
      /\ temp'.lines \in Judgments \cup Texts /\ temp'.manifest \in Manifests \cup Texts
  BY <1>1, <1>2 DEF TypeOK, Texts
<1>4. handle' = [b \in Authors |-> IF pc'[a] = "write" THEN "temp" ELSE "none"]
  BY <1>1, <1>2, <1>3, Alone
<1>5. interrupted' = (interrupted \/ (pc'[a] = "idle" /\ at[a] = 2))
  BY <1>1, <1>2, <1>3 DEF TypeOK
<1>. QED
  BY <1>1, <1>3, <1>4, <1>5, TempBundleOK

\* The text goes to a file that is empty, so it is the text.
LEMMA WriteBundleOK == ASSUME NEW a, Authors = {a}, BundleOK, Write(a) PROVE BundleOK'
<1>1. /\ pc[a] = "write" /\ pc' = [pc EXCEPT ![a] = "replace"]
      /\ handle' = [handle EXCEPT ![a] = "none"]
      /\ UNCHANGED <<at, draft, attested, interrupted>>
  BY DEF Write, ghosts
<1>2. TypeOK /\ a \in Authors /\ handle[a] = "temp" /\ temp[FileOf(a)] = Empty
  BY <1>1, Alone DEF BundleOK, SaveInv
<1>3. temp' = [temp EXCEPT ![FileOf(a)] = Text(a)] /\ UNCHANGED file
  BY <1>2 DEF Write, Over
<1>4. /\ FileOf(a) \in {"lines", "manifest"}
      /\ FileOf(a) = "lines" => Text(a) \in Judgments
      /\ FileOf(a) = "manifest" => Text(a) \in Manifests
  BY <1>2, SavedText
<1>5. /\ pc' \in [Authors -> {"idle", "open", "write", "replace"}] /\ pc'[a] = "replace"
      /\ DOMAIN temp' = {"lines", "manifest"} /\ temp'[FileOf(a)] = Text(a)
      /\ temp'.lines \in Judgments \cup Texts /\ temp'.manifest \in Manifests \cup Texts
  BY <1>1, <1>2, <1>3, <1>4 DEF TypeOK
<1>6. handle' = [b \in Authors |-> IF pc'[a] = "write" THEN "temp" ELSE "none"]
  BY <1>1, <1>2, <1>5, Alone
<1>7. interrupted' = (interrupted \/ (pc'[a] = "idle" /\ at[a] = 2))
  BY <1>1, <1>2, <1>5 DEF TypeOK
<1>. QED
  BY <1>1, <1>3, <1>5, <1>6, <1>7, TempBundleOK

\* Whoever stops leaves the files, and the temporary one as it is or not at all.
LEMMA StopBundleOK ==
    ASSUME NEW a, Authors = {a}, BundleOK, Kill(a) \/ Fail(a)
    PROVE  BundleOK'
<1>1. /\ pc[a] # "idle" /\ pc' = [pc EXCEPT ![a] = "idle"]
      /\ interrupted' = (interrupted \/ at[a] = Len(Order))
      /\ UNCHANGED <<file, at, draft, attested>>
      /\ temp' \in {temp, [temp EXCEPT ![FileOf(a)] = Missing]}
  BY DEF Kill, Fail, Stop
<1>2. TypeOK /\ a \in Authors /\ Len(Order) = 2
  BY Alone, Values
<1>3. /\ pc' \in [Authors -> {"idle", "open", "write", "replace"}] /\ pc'[a] = "idle"
      /\ DOMAIN temp' = {"lines", "manifest"}
      /\ temp'.lines \in Judgments \cup Texts /\ temp'.manifest \in Manifests \cup Texts
  BY <1>1, <1>2 DEF TypeOK, Texts
<1>4. handle' = [b \in Authors |-> "none"]
  <2>1. CASE Kill(a)
    BY <1>2, <2>1, Alone DEF Kill
  <2>2. CASE Fail(a)
    BY <1>2, <2>2 DEF Fail, Holding
  <2>. QED
    BY <2>1, <2>2
<1>5. handle' = [b \in Authors |-> IF pc'[a] = "write" THEN "temp" ELSE "none"]
  BY <1>3, <1>4
<1>6. interrupted' = (interrupted \/ (pc'[a] = "idle" /\ at[a] = 2))
  BY <1>1, <1>2, <1>3 DEF TypeOK
<1>. QED
  BY <1>1, <1>3, <1>5, <1>6, TempBundleOK

\* What a replacement changes: one file becomes the text of the draft.
LEMMA ReplaceEffect ==
    ASSUME NEW a, Authors = {a}, BundleOK, Replace(a)
    PROVE  /\ handle' = [b \in Authors |-> "none"]
           /\ UNCHANGED <<draft, attested, interrupted>>
           /\ \/ /\ at[a] = 1
                 /\ file' = [file EXCEPT !["lines"] = draft[a].judged]
                 /\ temp' = [temp EXCEPT !["lines"] = Missing]
                 /\ at' = [at EXCEPT ![a] = 2] /\ pc' = [pc EXCEPT ![a] = "open"]
              \/ /\ at[a] = 2
                 /\ file' = [file EXCEPT !["manifest"] =
                                [provenance |-> draft[a].provenance,
                                 pending |-> Pending(draft[a].judged)]]
                 /\ temp' = [temp EXCEPT !["manifest"] = Missing]
                 /\ at' = at /\ pc' = [pc EXCEPT ![a] = "idle"]
<1>1. /\ pc[a] = "replace" /\ TypeOK /\ a \in Authors /\ temp[FileOf(a)] = Text(a)
      /\ UNCHANGED <<draft, attested, interrupted>>
  BY Alone DEF Replace, BundleOK, SaveInv, ghosts
<1>2. handle = [b \in Authors |-> "none"]
  BY <1>1, Alone
<1>3. handle' = [b \in Authors |-> "none"]
  BY <1>2 DEF Replace, Holding
<1>4. CASE at[a] = 1
  <2>1. FileOf(a) = "lines" /\ Text(a) = draft[a].judged /\ at[a] < Len(Order)
    BY <1>1, <1>4, SavedText, Values
  <2>2. /\ file' = [file EXCEPT !["lines"] = draft[a].judged]
        /\ temp' = [temp EXCEPT !["lines"] = Missing]
    BY <1>1, <2>1 DEF Replace
  <2>3. at' = [at EXCEPT ![a] = 2] /\ pc' = [pc EXCEPT ![a] = "open"]
    BY <1>4, <2>1 DEF Replace
  <2>. QED
    BY <1>1, <1>3, <1>4, <2>2, <2>3
<1>5. CASE at[a] = 2
  <2>1. /\ FileOf(a) = "manifest" /\ ~(at[a] < Len(Order))
        /\ Text(a) = [provenance |-> draft[a].provenance, pending |-> Pending(draft[a].judged)]
    BY <1>1, <1>5, SavedText, Values
  <2>2. /\ file' = [file EXCEPT !["manifest"] =
                        [provenance |-> draft[a].provenance, pending |-> Pending(draft[a].judged)]]
        /\ temp' = [temp EXCEPT !["manifest"] = Missing]
    BY <1>1, <2>1 DEF Replace
  <2>3. at' = at /\ pc' = [pc EXCEPT ![a] = "idle"]
    BY <2>1 DEF Replace
  <2>. QED
    BY <1>1, <1>3, <1>5, <2>2, <2>3
<1>. QED
  BY <1>1, <1>4, <1>5, SavedText

\* After the lines the bundle may be unloadable, after the manifest it is not.
LEMMA ReplaceBundleOK ==
    ASSUME NEW a, Authors = {a}, BundleOK, Replace(a)
    PROVE  BundleOK'
<1>1. /\ a \in Authors /\ TypeOK /\ pc[a] = "replace" /\ handle' = [b \in Authors |-> "none"]
      /\ UNCHANGED <<draft, attested, interrupted>>
      /\ DOMAIN file = {"lines", "manifest"} /\ DOMAIN temp = {"lines", "manifest"}
      /\ file.lines \in Judgments /\ file.manifest \in Manifests
  BY Alone, ReplaceEffect DEF Replace
<1>2. /\ draft[a].judged \in Judgments /\ draft[a].provenance \in Provenances
      /\ [provenance |-> draft[a].provenance, pending |-> Pending(draft[a].judged)] \in Manifests
  BY <1>1, Values DEF TypeOK, Drafts, Manifests
<1>3. /\ Pending(draft[a].judged) \subseteq Pending(jsonl)
      /\ IsReviewed(manifest.provenance) => IsReviewed(draft[a].provenance)
      /\ IsReviewed(draft[a].provenance) => draft[a].judged \in attested /\ Reviewers # {}
      /\ at[a] = 2 => jsonl = draft[a].judged
  BY <1>1 DEF BundleOK, SaveInv
<1>4. CASE /\ at[a] = 1
           /\ file' = [file EXCEPT !["lines"] = draft[a].judged]
           /\ temp' = [temp EXCEPT !["lines"] = Missing]
           /\ at' = [at EXCEPT ![a] = 2] /\ pc' = [pc EXCEPT ![a] = "open"]
  <2>1. /\ file'.lines = draft[a].judged /\ file'.manifest = file.manifest
        /\ DOMAIN file' = {"lines", "manifest"} /\ DOMAIN temp' = {"lines", "manifest"}
        /\ temp'.lines = Missing /\ temp'.manifest = temp.manifest
        /\ at'[a] = 2 /\ pc'[a] = "open"
    BY <1>1, <1>4 DEF TypeOK
  <2>2. TypeOK'
    BY <1>1, <1>2, <1>4, <2>1, Values DEF TypeOK, Texts
  <2>3. AgreeUnlessInterrupted'
    BY <1>1, <2>1, Values DEF AgreeUnlessInterrupted
  <2>4. SaveInv'
    <3>1. Whole' /\ (IsReviewed(manifest'.provenance) => jsonl' \in attested' /\ Reviewers # {})
      BY <1>1, <1>2, <1>3, <2>1 DEF Whole, jsonl, manifest
    <3>2. handle'[a] = "none"
      BY <1>1
    <3>. QED
      BY <1>1, <1>3, <2>1, <3>1, <3>2 DEF SaveInv, jsonl, manifest
  <2>. QED
    BY <2>2, <2>3, <2>4 DEF BundleOK
<1>5. CASE /\ at[a] = 2
           /\ file' = [file EXCEPT !["manifest"] =
                          [provenance |-> draft[a].provenance,
                           pending |-> Pending(draft[a].judged)]]
           /\ temp' = [temp EXCEPT !["manifest"] = Missing]
           /\ at' = at /\ pc' = [pc EXCEPT ![a] = "idle"]
  <2>1. /\ file'.lines = draft[a].judged
        /\ file'.manifest = [provenance |-> draft[a].provenance,
                             pending |-> Pending(draft[a].judged)]
        /\ DOMAIN file' = {"lines", "manifest"} /\ DOMAIN temp' = {"lines", "manifest"}
        /\ temp'.lines = temp.lines /\ temp'.manifest = Missing /\ pc'[a] = "idle"
    BY <1>1, <1>3, <1>5 DEF TypeOK, jsonl
  <2>2. TypeOK'
    BY <1>1, <1>2, <1>5, <2>1, Values DEF TypeOK, Texts
  <2>3. Agree' /\ AgreeUnlessInterrupted'
    BY <1>2, <2>1 DEF AgreeUnlessInterrupted, Agree, Whole, jsonl, manifest
  <2>4. SaveInv'
    <3>1. Whole' /\ (IsReviewed(manifest'.provenance) => jsonl' \in attested' /\ Reviewers # {})
      BY <1>1, <1>3, <2>1, <2>3 DEF Agree, jsonl, manifest
    <3>2. handle'[a] = "none"
      BY <1>1
    <3>. QED
      BY <2>1, <3>1, <3>2 DEF SaveInv
  <2>. QED
    BY <2>2, <2>3, <2>4 DEF BundleOK
<1>. QED
  BY <1>4, <1>5, ReplaceEffect

LEMMA StutterBundleOK == ASSUME BundleOK, UNCHANGED vars PROVE BundleOK'
<1>. USE DEF vars, files, ghosts, BundleOK
<1>1. TypeOK'
  BY DEF TypeOK
<1>2. AgreeUnlessInterrupted'
  BY DEF AgreeUnlessInterrupted, Agree, Whole, jsonl, manifest
<1>3. SaveInv'
  BY DEF SaveInv, Whole, jsonl, manifest, FileOf, Text
<1>. QED
  BY <1>1, <1>2, <1>3

\* Every step of the only author preserves the invariant.
LEMMA NextBundleOK ==
    ASSUME NEW a, Authors = {a}, BundleOK, [Next]_vars
    PROVE  BundleOK'
<1>1. ASSUME NEW r \in Reviewers, NEW q \in Queries, NEW grade \in 1 .. MaxGrade,
             Review(r, q, grade) \/ Complete(r, q, grade)
      PROVE  BundleOK'
  <2>1. r = a
    BY DEF Authors
  <2>. QED
    BY <1>1, <2>1, ReviewBundleOK, CompleteBundleOK
<1>2. ASSUME NEW g \in Generators, Generate(g)
      PROVE  BundleOK'
  <2>1. g = a
    BY DEF Authors
  <2>. QED
    BY <1>2, <2>1, GenerateBundleOK
<1>3. ASSUME NEW b \in Authors, Open(b) \/ Write(b) \/ Replace(b) \/ Kill(b) \/ Fail(b)
      PROVE  BundleOK'
  BY <1>3, OpenBundleOK, WriteBundleOK, ReplaceBundleOK, StopBundleOK
<1>4. CASE (\E r \in Reviewers : Refuse(r)) \/ UNCHANGED vars
  BY <1>4, StutterBundleOK DEF Refuse
<1>. QED
  BY <1>1, <1>2, <1>3, <1>4 DEF Next

\* With a single author, whatever save was cut short: both files are whole, and
\* the bundle can be loaded unless a save was interrupted between the two.
THEOREM BundleHolds ==
    ASSUME NEW a, Authors = {a}
    PROVE  Spec => []BundleOK
<1>1. Init => BundleOK
  BY InitBundleOK
<1>2. BundleOK /\ [Next]_vars => BundleOK'
  BY NextBundleOK
<1>. QED
  BY <1>1, <1>2, PTL DEF Spec

\* docs/issues-v0.2.md:12: what a single author's commands load as reviewed are
\* judgments that were saved as such, after every crash.
THEOREM ReviewedIsAttestedHolds ==
    ASSUME NEW a, Authors = {a}
    PROVE  Spec => []ReviewedIsAttested
<1>1. BundleOK => ReviewedIsAttested
  BY DEF BundleOK, SaveInv, IsReviewed, ReviewedIsAttested
<1>2. Spec => []BundleOK
  BY BundleHolds
<1>. QED
  BY <1>1, <1>2, PTL

\* A file that changes becomes the draft's, which is ahead of it.
LEMMA StepLosesNothing ==
    ASSUME NEW a, Authors = {a}, BundleOK, Next
    PROVE  /\ Whole'
           /\ Pending(jsonl') \subseteq Pending(jsonl)
           /\ manifest.provenance.status = "reviewed" => manifest'.provenance.status = "reviewed"
<1>1. Whole'
  BY NextBundleOK DEF BundleOK, SaveInv
<1>2. CASE UNCHANGED file
  BY <1>1, <1>2 DEF jsonl, manifest
<1>3. CASE Replace(a)
  <2>1. /\ Pending(draft[a].judged) \subseteq Pending(jsonl)
        /\ IsReviewed(manifest.provenance) => IsReviewed(draft[a].provenance)
        /\ DOMAIN file = {"lines", "manifest"}
    BY <1>3, Alone DEF BundleOK, SaveInv, Replace
  <2>2. \/ file' = [file EXCEPT !["lines"] = draft[a].judged]
        \/ file' = [file EXCEPT !["manifest"] =
                        [provenance |-> draft[a].provenance, pending |-> Pending(draft[a].judged)]]
    BY <1>3, ReplaceEffect
  <2>. QED
    BY <1>1, <2>1, <2>2 DEF jsonl, manifest, IsReviewed
<1>4. UNCHANGED file \/ Replace(a)
  <2>1. ASSUME NEW b \in Authors, Write(b) PROVE UNCHANGED file
    <3>1. handle[b] = "temp" /\ b = a
      BY <2>1, Alone DEF Write
    <3>. QED
      BY <2>1, <3>1 DEF Write
  <2>2. ASSUME NEW b \in Authors, Open(b) \/ Kill(b) \/ Fail(b) PROVE UNCHANGED file
    BY <2>2 DEF Open, Kill, Fail, Stop
  <2>3. ASSUME NEW b \in Authors, Replace(b) PROVE Replace(a)
    BY <2>3
  <2>4. ASSUME NEW r \in Reviewers, NEW q \in Queries, NEW grade \in 1 .. MaxGrade,
               Review(r, q, grade) \/ Complete(r, q, grade)
        PROVE  UNCHANGED file
    BY <2>4 DEF Review, Complete, Save, files
  <2>5. ASSUME NEW g \in Generators, Generate(g) PROVE UNCHANGED file
    BY <2>5 DEF Generate, Save, files
  <2>6. ASSUME NEW r \in Reviewers, Refuse(r) PROVE UNCHANGED file
    BY <2>6 DEF Refuse, vars, files
  <2>. QED
    BY <2>1, <2>2, <2>3, <2>4, <2>5, <2>6 DEF Next
<1>. QED
  BY <1>2, <1>3, <1>4

\* With a single author no judgment and no review is lost, however the saves
\* are cut short and whatever a temporary file of an earlier one holds.
THEOREM ReviewNeverLostHolds ==
    ASSUME NEW a, Authors = {a}
    PROVE  Spec => ReviewNeverLost
<1>1. BundleOK /\ [Next]_vars =>
        [/\ Whole'
         /\ Pending(jsonl') \subseteq Pending(jsonl)
         /\ manifest.provenance.status = "reviewed" => manifest'.provenance.status = "reviewed"
        ]_vars
  BY StepLosesNothing
<1>2. Spec => []BundleOK
  BY BundleHolds
<1>. QED
  BY <1>1, <1>2, PTL DEF Spec, ReviewNeverLost
=============================================================================
