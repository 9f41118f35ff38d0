----------------------- MODULE ExperimentProjectProofs -----------------------
(***************************************************************************)
(* Proofs about ConfigLoading and ExperimentProject, for any drafts, edits *)
(* and policies and any number of runs: what loads can be run and is what  *)
(* was written, reports belong to the result beside them, a template that  *)
(* was written in part is not run, and the gates a result brings along are *)
(* those it was configured with.                                           *)
(***************************************************************************)
EXTENDS ExperimentProject, TLAPS

---------------------------------------------------------------------------
(* The reports                                                             *)

\* What the reports have to be for the next run to keep the promise.
ReportsInv == TypeOK /\ SavingInv /\ ReportsFollowResult

LEMMA InitReports == Init => TypeOK /\ SavingInv /\ ReportsFollowResult
<1>. SUFFICES ASSUME Init PROVE TypeOK /\ SavingInv /\ ReportsFollowResult
  OBVIOUS
<1>. USE ProjectAssumption DEF Init
<1>1. TypeOK
  BY DEF TypeOK, Inputs
<1>2. SavingInv
  BY DEF SavingInv
<1>3. ReportsFollowResult
  BY DEF ReportsFollowResult, ShownRun, Reports
<1>. QED
  BY <1>1, <1>2, <1>3

LEMMA Bounds == MaxEdits \in Nat /\ MaxRuns \in Nat
BY ProjectAssumption

LEMMA RunType ==
    ASSUME TypeOK
    PROVE  /\ runs \in Nat
           /\ run # Missing =>
                  /\ run.by = runs /\ runs > 0 /\ run.formats \in SUBSET SupportedFormats
                  /\ DOMAIN run = {"by", "formats", "result", "todo"}
           /\ \A report \in Reports : ShownRun(report) \in 0 .. runs
<1>. DEFINE Shown == [by : 1 .. runs, formats : SUBSET SupportedFormats]
<1>1. runs \in Nat
  <2>1. runs \in 0 .. MaxRuns
    BY DEF TypeOK
  <2>. QED
    BY <2>1, Bounds
<1>2. files \in [Reports -> {Missing} \cup Shown]
  BY DEF TypeOK
<1>3. \A shown \in Shown : shown.by \in 1 .. runs
  <2>. TAKE shown \in Shown
  <2>. QED
    BY Zenon
<1>4. \A report \in Reports : ShownRun(report) \in 0 .. runs
  <2>. HIDE DEF Shown
  <2>. QED
    BY <1>1, <1>2, <1>3 DEF ShownRun
<1>. QED
  BY <1>1, <1>4 DEF TypeOK

\* Which of the reports still to be saved is the next.
LEMMA NextReport ==
    ASSUME NEW formats \in SUBSET SupportedFormats,
           NEW todo \in SUBSET Saves(formats), NEW report \in todo,
           ComesFirst(report, todo)
    PROVE  /\ report \in Reports
           /\ report # "result.json" => "result.json" \notin todo
           /\ report = "per_query.csv" =>
                  "summary.csv" \in Saves(formats) /\ "summary.csv" \notin todo
<1>1. report \in Reports
  BY DEF Saves, Reports
<1>2. PICK i \in 1 .. 4 : /\ SaveOrder[i] = report
                          /\ \A j \in 1 .. i - 1 : SaveOrder[j] \notin todo
  BY DEF ComesFirst
<1>3. SaveOrder[1] = "result.json" /\ SaveOrder[2] = "summary.csv"
  BY DEF SaveOrder
<1>4. report # "result.json" => "result.json" \notin todo
  BY <1>2, <1>3
<1>5. report = "per_query.csv" => i = 3
  BY <1>2 DEF SaveOrder
<1>6. report = "per_query.csv" => "csv" \in formats
  BY DEF Saves
<1>. QED
  BY <1>1, <1>2, <1>3, <1>4, <1>5, <1>6 DEF Saves

LEMMA SaveReportReports ==
    ASSUME ReportsInv, SaveReport
    PROVE  TypeOK' /\ SavingInv' /\ ReportsFollowResult'
<1>. USE DEF ReportsInv, SaveReport, projectVars
<1>1. PICK report \in run.todo :
        /\ ComesFirst(report, run.todo)
        /\ files' = [files EXCEPT ![report] = [by |-> run.by, formats |-> run.formats]]
        /\ IF run.todo # {report}
           THEN /\ run' = [run EXCEPT !.todo = @ \ {report}]
                /\ UNCHANGED finished
           ELSE /\ run' = Missing
                /\ finished' = [by |-> run.by, formats |-> run.formats]
  OBVIOUS
<1>. DEFINE now == [by |-> run.by, formats |-> run.formats]
<1>2. /\ run.by = runs /\ runs \in Nat /\ runs > 0 /\ run.formats \in SUBSET SupportedFormats
      /\ DOMAIN run = {"by", "formats", "result", "todo"}
      /\ now \in [by : 1 .. runs, formats : SUBSET SupportedFormats]
      /\ now # Missing
  <2>1. /\ run.by = runs /\ runs \in Nat /\ runs > 0
        /\ run.formats \in SUBSET SupportedFormats
        /\ DOMAIN run = {"by", "formats", "result", "todo"}
    BY RunType
  <2>2. now \in [by : 1 .. runs, formats : SUBSET SupportedFormats]
    BY <2>1
  <2>3. now \in [by : Nat, formats : SUBSET SupportedFormats]
    BY <2>1
  <2>4. now # Missing
    BY <2>3, MarksApart
  <2>. QED
    BY <2>1, <2>2, <2>4
<1>3. /\ report \in Reports
      /\ report # "result.json" => "result.json" \notin run.todo
      /\ report = "per_query.csv" =>
             "summary.csv" \in Saves(run.formats) /\ "summary.csv" \notin run.todo
  BY <1>1, <1>2, NextReport DEF SavingInv
<1>4. files' \in [Reports -> {Missing} \cup [by : 1 .. runs, formats : SUBSET SupportedFormats]]
  BY <1>1, <1>2, <1>3 DEF TypeOK
<1>5. /\ ShownRun(report)' = runs
      /\ \A other \in Reports \ {report} :
             ShownRun(other)' = ShownRun(other) /\ files'[other] = files[other]
  <2>. DEFINE Shown == {Missing} \cup [by : 1 .. runs, formats : SUBSET SupportedFormats]
  <2>1. files \in [Reports -> Shown]
    BY DEF TypeOK
  <2>2. now.by = runs
    BY <1>2
  <2>. HIDE DEF Shown, now
  <2>3. files' = [files EXCEPT ![report] = now]
    BY <1>1 DEF now
  <2>. QED
    BY <1>2, <1>3, <2>1, <2>2, <2>3 DEF ShownRun
<1>6. \A other \in Reports : ShownRun(other) \in 0 .. runs
  BY RunType
<1>7. /\ run' # Missing => /\ run'.by = runs /\ run'.formats = run.formats
                           /\ DOMAIN run' = {"by", "formats", "result", "todo"}
                           /\ run'.todo = run.todo \ {report} /\ run'.todo # {}
                           /\ finished' = finished
      /\ finished' # Missing => finished' = now /\ run.todo = {report}
  <2>1. CASE run.todo # {report}
    <3>1. run' = [run EXCEPT !.todo = @ \ {report}] /\ finished' = finished
      BY <1>1, <2>1
    <3>. QED
      BY <1>2, <2>1, <3>1 DEF SavingInv
  <2>2. CASE run.todo = {report}
    BY <1>1, <2>2
  <2>. QED
    BY <2>1, <2>2
<1>8. TypeOK'
  BY <1>2, <1>4, <1>7 DEF TypeOK
<1>9. SavingInv'
  BY <1>2, <1>3, <1>5, <1>7 DEF SavingInv, Reports
<1>10. ReportsFollowResult'
  <2>1. ASSUME NEW other \in Reports, files'[other] # Missing, "json" \in files'[other].formats
        PROVE  ShownRun(other)' <= ShownRun("result.json")'
    <3>1. CASE report = "result.json"
      BY <1>2, <1>5, <1>6, <3>1
    <3>2. CASE report # "result.json" /\ other = report
      <4>1. "json" \in run.formats
        BY <1>1, <1>3, <1>4, <2>1, <3>2 DEF TypeOK
      <4>2. "result.json" \in Saves(run.formats) \ run.todo /\ "result.json" \in Reports
        BY <1>3, <3>2, <4>1 DEF Saves, Reports
      <4>. QED
        BY <1>2, <1>5, <3>2, <4>2 DEF SavingInv
    <3>3. CASE report # "result.json" /\ other # report
      BY <1>5, <2>1, <3>3 DEF ReportsFollowResult, Reports
    <3>. QED
      BY <3>1, <3>2, <3>3
  <2>2. ShownRun("per_query.csv")' <= ShownRun("summary.csv")'
    <3>1. CASE report = "per_query.csv"
      BY <1>2, <1>3, <1>5, <3>1 DEF SavingInv, Reports
    <3>2. CASE report # "per_query.csv"
      BY <1>2, <1>5, <1>6, <3>2 DEF ReportsFollowResult, Reports
    <3>. QED
      BY <3>1, <3>2
  <2>3. ASSUME finished' # Missing, NEW other \in Saves(finished'.formats)
        PROVE  ShownRun(other)' = finished'.by
    <3>1. run.todo = {report} /\ finished' = now
      BY <1>7, <2>3
    <3>2. other \in Saves(run.formats) /\ finished'.by = runs
      BY <1>2, <2>3, <3>1
    <3>3. other \in Reports
      BY <3>2 DEF Saves, Reports
    <3>. QED
      BY <1>2, <1>5, <1>7, <3>1, <3>2, <3>3 DEF SavingInv
  <2>. QED
    BY <2>1, <2>2, <2>3 DEF ReportsFollowResult
<1>. QED
  BY <1>8, <1>9, <1>10

LEMMA StartReports ==
    ASSUME ReportsInv, NEW options \in Options, Start(options)
    PROVE  TypeOK' /\ SavingInv' /\ ReportsFollowResult'
<1>. USE DEF ReportsInv, Start, projectVars
<1>. DEFINE config == Configuration
            selected == IF options.formats = Missing THEN config.formats
                        ELSE options.formats
<1>1. /\ config # Bad /\ selected # {}
      /\ runs' = runs + 1 /\ runs < MaxRuns
      /\ run' = [by |-> runs', formats |-> selected, result |-> Measure(Experiment(config)),
                 todo |-> Saves(selected)]
      /\ finished' = Missing
      /\ UNCHANGED <<projectVars, edits, files, saved, baseline, verdict>>
  OBVIOUS
<1>2. config.formats \in SUBSET SupportedFormats
  <2>1. config = Parse(draft)
    BY <1>1 DEF Configuration, LoadConfig
  <2>. QED
    BY <2>1 DEF Parse, ReadFormats
<1>3. selected \in SUBSET SupportedFormats
  BY <1>2, ProjectAssumption
<1>4. runs \in Nat /\ runs' \in 0 .. MaxRuns /\ runs' = runs + 1
  BY <1>1, RunType, Bounds
<1>. HIDE DEF config, selected, Start
<1>5. /\ DOMAIN run' = {"by", "formats", "result", "todo"}
      /\ run'.by = runs' /\ run'.formats = selected /\ run'.todo = Saves(selected)
  BY <1>1
<1>6. TypeOK'
  <2>1. files' \in [Reports -> {Missing} \cup [by : 1 .. runs', formats : SUBSET SupportedFormats]]
    <3>1. files \in [Reports -> {Missing} \cup [by : 1 .. runs, formats : SUBSET SupportedFormats]]
      BY DEF TypeOK
    <3>2. [by : 1 .. runs, formats : SUBSET SupportedFormats]
             \subseteq [by : 1 .. runs', formats : SUBSET SupportedFormats]
      BY <1>4
    <3>. QED
      BY <1>1, <3>1, <3>2
  <2>2. UNCHANGED <<edits, inputs, init, verdict>>
    BY <1>1
  <2>3. /\ DOMAIN run' = {"by", "formats", "result", "todo"}
        /\ run'.by = runs' /\ runs' > 0 /\ run'.formats \in SUBSET SupportedFormats
    BY <1>3, <1>4, <1>5
  <2>. QED
    BY <1>4, <2>1, <2>2, <2>3, Zenon DEF TypeOK
<1>7. \A report \in Reports : ShownRun(report)' = ShownRun(report) /\ ShownRun(report) < runs'
  <2>1. \A report \in Reports : ShownRun(report) \in 0 .. runs
    BY RunType
  <2>. QED
    BY <1>1, <1>4, <2>1 DEF ShownRun
<1>8. SavingInv'
  <2>1. Saves(selected) # {}
    BY <1>1, <1>3 DEF Saves, SupportedFormats
  <2>. QED
    BY <1>1, <1>4, <1>5, <1>7, <2>1 DEF SavingInv
<1>9. ReportsFollowResult'
  BY <1>1, <1>7 DEF ReportsFollowResult, Reports
<1>. QED
  BY <1>6, <1>8, <1>9

\* Nothing else writes a report or starts a run.
LEMMA OthersReports ==
    ASSUME ReportsInv, TypeOK', UNCHANGED <<runs, files, finished>>, run' \in {run, Missing}
    PROVE  SavingInv' /\ ReportsFollowResult'
<1>1. \A report : ShownRun(report)' = ShownRun(report)
  BY DEF ShownRun
<1>2. SavingInv'
  BY <1>1 DEF ReportsInv, SavingInv
<1>3. ReportsFollowResult'
  BY <1>1 DEF ReportsInv, ReportsFollowResult
<1>. QED
  BY <1>2, <1>3

---------------------------------------------------------------------------
(* Beginning a project                                                     *)

\* The state of an init, and the properties that depend on it.
BeginInv == TypeOK /\ TemplateInv /\ HalfTemplateNotRun

\* What is left to write, and whether it is the last.
LEMMA TemplateOrder ==
    /\ Head(TemplateFiles) = "draft" /\ Len(TemplateFiles) > 1
    /\ Head(Tail(TemplateFiles)) = "corpus" /\ Len(Tail(TemplateFiles)) > 1
    /\ Head(Tail(Tail(TemplateFiles))) = "queries" /\ ~ (Len(Tail(Tail(TemplateFiles))) > 1)
BY DEF TemplateFiles

LEMMA InitType ==
    ASSUME TypeOK, init # Missing
    PROVE  /\ init.todo \in {TemplateFiles, Tail(TemplateFiles), Tail(Tail(TemplateFiles))}
           /\ init.over \in BOOLEAN /\ init.live \in BOOLEAN
           /\ init = [todo |-> init.todo, over |-> init.over, live |-> init.live]
<1>. DEFINE Todos == {TemplateFiles, Tail(TemplateFiles), Tail(Tail(TemplateFiles))}
<1>1. init \in [todo : Todos, over : BOOLEAN, live : BOOLEAN]
  BY DEF TypeOK
<1>. HIDE DEF Todos
<1>2. /\ init.todo \in Todos
      /\ init.over \in BOOLEAN /\ init.live \in BOOLEAN
      /\ init = [todo |-> init.todo, over |-> init.over, live |-> init.live]
  BY <1>1
<1>. QED
  BY <1>2 DEF Todos

\* A step that neither starts a run nor saves a report keeps the types but for
\* those of what it writes.
LEMMA TypeKept ==
    ASSUME TypeOK, runs' = runs, files' = files, run' \in {run, Missing},
           edits' \in 0 .. MaxEdits,
           inputs' \in [Inputs -> {Missing, "own", "template", "cut"}],
           init' # Missing =>
               init' \in [todo : {TemplateFiles, Tail(TemplateFiles),
                                  Tail(Tail(TemplateFiles))},
                          over : BOOLEAN, live : BOOLEAN],
           verdict' # Missing =>
               verdict'.error \in {"", "ConfigurationError", "IncomparableRunError"}
    PROVE  TypeOK'
<1>1. run' # Missing => run' = run
  OBVIOUS
<1>. QED
  BY <1>1, Zenon DEF TypeOK

LEMMA InputsType ==
    ASSUME TypeOK
    PROVE  /\ inputs \in [Inputs -> {Missing, "own", "template", "cut"}]
           /\ edits \in 0 .. MaxEdits
           /\ verdict # Missing =>
                  verdict.error \in {"", "ConfigurationError", "IncomparableRunError"}
BY DEF TypeOK

LEMMA InitBegin == Init => TemplateInv /\ HalfTemplateNotRun
BY DEF Init, TemplateInv, HalfTemplateNotRun

LEMMA InitProjectBegin ==
    ASSUME BeginInv, InitProject
    PROVE  TypeOK' /\ TemplateInv' /\ HalfTemplateNotRun'
<1>. USE DEF BeginInv, InitProject, Idle
<1>. DEFINE found == draft # Missing \/ Range(inputs) # {Missing}
            now == [todo |-> TemplateFiles, over |-> found, live |-> TRUE]
<1>1. /\ init' = now /\ run' = run /\ run = Missing /\ verdict' = verdict /\ verdict = Missing
      /\ inputs' = inputs
  OBVIOUS
<1>2. now \in [todo : {TemplateFiles, Tail(TemplateFiles), Tail(Tail(TemplateFiles))},
               over : BOOLEAN, live : BOOLEAN]
  OBVIOUS
<1>3. edits' \in 0 .. MaxEdits
  <2>1. edits \in 0 .. MaxEdits
    BY DEF TypeOK
  <2>. QED
    BY <2>1, Bounds
<1>4. TypeOK'
  <2>1. inputs' \in [Inputs -> {Missing, "own", "template", "cut"}]
    BY <1>1 DEF TypeOK
  <2>. QED
    BY <1>1, <1>2, <1>3, <2>1, TypeKept
<1>5. ~ found => inputs["queries"] = Missing
  <2>1. inputs["queries"] \in Range(inputs)
    BY DEF TypeOK, Inputs, Range
  <2>. QED
    BY <2>1
<1>6. TemplateInv' /\ HalfTemplateNotRun'
  <2>1. init'.over = found
    BY <1>1
  <2>2. ~ init'.over => inputs'["queries"] = Missing
    BY <1>1, <1>5, <2>1
  <2>. QED
    BY <1>1, <2>2, Zenon DEF TemplateInv, HalfTemplateNotRun
<1>. QED
  BY <1>4, <1>6

LEMMA WriteTemplateBegin ==
    ASSUME BeginInv, WriteTemplate
    PROVE  TypeOK' /\ TemplateInv' /\ HalfTemplateNotRun'
<1>. USE DEF BeginInv, WriteTemplate, Initializing
<1>. DEFINE file == Head(init.todo)
<1>1. /\ run' = run /\ run = Missing /\ verdict' = verdict /\ verdict = Missing
      /\ init # Missing /\ init.live
  BY DEF TemplateInv
<1>2. CASE init.todo = Tail(Tail(TemplateFiles))
  <2>1. init' = Missing /\ inputs' = [inputs EXCEPT !["queries"] = "template"]
    <3>1. Head(init.todo) = "queries" /\ ~ (Len(init.todo) > 1)
      BY <1>2, TemplateOrder, Zenon
    <3>. QED
      BY <3>1
  <2>2. inputs' \in [Inputs -> {Missing, "own", "template", "cut"}]
    BY <2>1 DEF TypeOK, Inputs
  <2>3. TypeOK'
    <3>1. edits' \in 0 .. MaxEdits
      BY DEF TypeOK
    <3>. QED
      BY <1>1, <2>1, <2>2, <3>1, TypeKept
  <2>. QED
    BY <1>1, <2>1, <2>3 DEF TemplateInv, HalfTemplateNotRun
<1>3. CASE init.todo \in {TemplateFiles, Tail(TemplateFiles)}
  <2>1. /\ init' = [init EXCEPT !.todo = Tail(@)]
        /\ \/ inputs' = inputs
           \/ inputs' = [inputs EXCEPT !["corpus"] = "template"]
    <3>1. Head(init.todo) \in {"draft", "corpus"} /\ Len(init.todo) > 1
      BY <1>3, TemplateOrder, Zenon
    <3>. QED
      BY <3>1
  <2>. DEFINE now == [todo |-> Tail(init.todo), over |-> init.over, live |-> init.live]
  <2>2. init' = now
    BY <1>1, <2>1, InitType
  <2>3. now \in [todo : {TemplateFiles, Tail(TemplateFiles), Tail(Tail(TemplateFiles))},
                 over : BOOLEAN, live : BOOLEAN]
    BY <1>1, <1>3, InitType
  <2>4. /\ inputs' \in [Inputs -> {Missing, "own", "template", "cut"}]
        /\ inputs'["queries"] = inputs["queries"]
    BY <2>1, InputsType DEF Inputs
  <2>5. TypeOK'
    <3>1. edits' \in 0 .. MaxEdits
      BY DEF TypeOK
    <3>. QED
      BY <1>1, <2>2, <2>3, <2>4, <3>1, TypeKept
  <2>. QED
    <3>1. init'.over = init.over
      BY <2>2
    <3>2. TemplateInv' /\ HalfTemplateNotRun'
      BY <1>1, <2>4, <3>1, Zenon DEF TemplateInv, HalfTemplateNotRun
    <3>. QED
      BY <2>5, <3>2
<1>. QED
  BY <1>1, <1>2, <1>3, InitType

LEMMA InitStopsBegin ==
    ASSUME BeginInv, InitStops
    PROVE  TypeOK' /\ TemplateInv' /\ HalfTemplateNotRun'
<1>. USE DEF BeginInv, InitStops, Initializing
<1>1. /\ run' = run /\ run = Missing /\ verdict' = verdict /\ verdict = Missing
      /\ init # Missing /\ init.live /\ init' = [init EXCEPT !.live = FALSE]
  BY DEF TemplateInv
<1>. DEFINE now == [todo |-> init.todo, over |-> init.over, live |-> FALSE]
<1>2. init' = now
  BY <1>1, InitType
<1>3. now \in [todo : {TemplateFiles, Tail(TemplateFiles), Tail(Tail(TemplateFiles))},
               over : BOOLEAN, live : BOOLEAN]
  BY <1>1, InitType
<1>4. Head(init.todo) # "draft" => Head(init.todo) \in Inputs
  BY <1>1, InitType, TemplateOrder DEF Inputs
<1>5. \/ inputs' = inputs
      \/ \E file \in Inputs : inputs' = [inputs EXCEPT ![file] = "cut"]
  BY <1>4
<1>6. /\ inputs' \in [Inputs -> {Missing, "own", "template", "cut"}]
      /\ inputs'["queries"] \in {inputs["queries"], "cut"}
  <2>1. inputs \in [Inputs -> {Missing, "own", "template", "cut"}]
    BY InputsType
  <2>2. CASE inputs' = inputs
    BY ONLY <2>1, <2>2
  <2>3. CASE \E file \in Inputs : inputs' = [inputs EXCEPT ![file] = "cut"]
    <3>1. PICK file \in Inputs : inputs' = [inputs EXCEPT ![file] = "cut"]
      BY <2>3
    <3>. QED
      BY ONLY <2>1, <3>1 DEF Inputs
  <2>. QED
    BY ONLY <1>5, <2>2, <2>3
<1>7. TypeOK'
  <2>1. edits' \in 0 .. MaxEdits
    BY DEF TypeOK
  <2>. QED
    BY <1>1, <1>2, <1>3, <1>6, <2>1, TypeKept
<1>8. init'.over = init.over
  BY <1>2
<1>9. ~ init.over => inputs'["queries"] \in {Missing, "cut"}
  BY <1>1, <1>6 DEF TemplateInv
<1>10. TemplateInv' /\ HalfTemplateNotRun'
  <2>1. ~ init'.live
    BY <1>2
  <2>. QED
    BY <1>1, <1>8, <1>9, <2>1, Zenon DEF TemplateInv, HalfTemplateNotRun
<1>. QED
  BY <1>7, <1>10

\* A run finds queries at the template's path only if they were there to read.
LEMMA StartBegin ==
    ASSUME BeginInv, NEW options \in Options, Start(options)
    PROVE  TemplateInv' /\ HalfTemplateNotRun'
<1>. USE DEF BeginInv, Start, Idle, projectVars
<1>. DEFINE experiment == Experiment(Configuration)
<1>1. /\ InputsRead(experiment) /\ run'.result = Measure(experiment)
      /\ UNCHANGED <<inputs, init, verdict>> /\ ~ Initializing /\ verdict = Missing
  OBVIOUS
<1>2. experiment.queries.holds \in {inputs["queries"], "own"}
  BY DEF Experiment
<1>3. experiment.queries.holds \notin {Missing, "cut"}
  BY <1>1 DEF InputsRead
<1>4. run'.result.origin = experiment
  BY <1>1 DEF Measure
<1>. HIDE DEF experiment, Start
<1>5. TemplateInv'
  BY <1>1 DEF TemplateInv, Initializing
<1>6. HalfTemplateNotRun'
  BY <1>1, <1>2, <1>3, <1>4 DEF TemplateInv, HalfTemplateNotRun
<1>. QED
  BY <1>5, <1>6

LEMMA OthersBegin ==
    ASSUME TemplateInv, HalfTemplateNotRun, UNCHANGED <<inputs, init>>,
           run' \in {run, Missing}, verdict' = verdict \/ (run = Missing /\ ~ Initializing)
    PROVE  TemplateInv' /\ HalfTemplateNotRun'
BY DEF TemplateInv, HalfTemplateNotRun, Initializing

LEMMA SaveReportBegin ==
    ASSUME BeginInv, SaveReport
    PROVE  TemplateInv' /\ HalfTemplateNotRun'
<1>. USE DEF BeginInv, SaveReport, projectVars
<1>1. \/ run' = Missing
      \/ \E report : run' = [run EXCEPT !.todo = @ \ {report}]
  OBVIOUS
<1>2. DOMAIN run = {"by", "formats", "result", "todo"}
  BY RunType
<1>3. run' # Missing => run'.result = run.result
  BY <1>1, <1>2
<1>4. UNCHANGED <<inputs, init, verdict>> /\ run # Missing
  OBVIOUS
<1>. QED
  BY <1>3, <1>4 DEF TemplateInv, HalfTemplateNotRun, Initializing

---------------------------------------------------------------------------
(* Verdicts                                                                *)

Errors == {"", "ConfigurationError", "IncomparableRunError"}

LEMMA ErrorTypes ==
    ASSUME NEW candidate, NEW against, NEW gates
    PROVE  /\ EmbeddedError(candidate) \in Errors
           /\ GateError(candidate, gates, against) \in Errors
           /\ EmbeddedVerdict(candidate, against).error \in Errors
           /\ ConfiguredVerdict(candidate, against).error \in Errors
<1>1. \A result : EmbeddedError(result) \in Errors
  BY DEF EmbeddedError, Errors
<1>2. \A policy : GateError(candidate, policy, against) \in Errors
  BY DEF GateError, Errors
<1>3. EmbeddedVerdict(candidate, against).error \in Errors
  BY <1>1, <1>2 DEF EmbeddedVerdict, FirstError, Errors
<1>4. ConfiguredVerdict(candidate, against).error \in Errors
  BY <1>2 DEF ConfiguredVerdict, Errors
<1>. QED
  BY <1>1, <1>2, <1>3, <1>4

LEMMA VerdictTypes ==
    ASSUME NEW candidate, NEW against,
           EvaluateGatesOf(candidate, against) \/ CompareResults(candidate, against)
    PROVE  verdict'.error \in Errors
<1>1. CASE EvaluateGatesOf(candidate, against)
  <2>1. PICK embedded \in BOOLEAN :
            verdict'.error = IF embedded THEN EmbeddedVerdict(candidate, against).error
                             ELSE ConfiguredVerdict(candidate, against).error
    BY <1>1 DEF EvaluateGatesOf
  <2>. QED
    BY <2>1, ErrorTypes
<1>2. CASE CompareResults(candidate, against)
  BY <1>2 DEF CompareResults, Errors
<1>. QED
  BY <1>1, <1>2

---------------------------------------------------------------------------
(* Every step                                                              *)

BaseInv == TypeOK /\ SavingInv /\ ReportsFollowResult /\ TemplateInv /\ HalfTemplateNotRun

LEMMA NextBase == BaseInv /\ [Next]_vars => BaseInv'
<1>. SUFFICES ASSUME BaseInv, [Next]_vars PROVE BaseInv'
  OBVIOUS
<1>0. ReportsInv /\ BeginInv
  BY DEF BaseInv, ReportsInv, BeginInv
<1>. DEFINE Rest == /\ UNCHANGED <<inputs, init, runs, files, finished>>
                    /\ run' \in {run, Missing}
                    /\ edits' \in 0 .. MaxEdits
                    /\ \/ verdict' = verdict
                       \/ /\ run = Missing /\ ~ Initializing
                          /\ verdict'.error \in Errors
<1>1. CASE InitProject
  <2>1. UNCHANGED <<runs, files, finished>> /\ run' \in {run, Missing}
    BY <1>1 DEF InitProject
  <2>. QED
    BY <1>0, <1>1, <2>1, InitProjectBegin, OthersReports DEF BaseInv
<1>2. CASE WriteTemplate
  <2>1. UNCHANGED <<runs, files, finished>> /\ run' \in {run, Missing}
    BY <1>2 DEF WriteTemplate
  <2>. QED
    BY <1>0, <1>2, <2>1, WriteTemplateBegin, OthersReports DEF BaseInv
<1>3. CASE InitStops
  <2>1. UNCHANGED <<runs, files, finished>> /\ run' \in {run, Missing}
    BY <1>3 DEF InitStops
  <2>. QED
    BY <1>0, <1>3, <2>1, InitStopsBegin, OthersReports DEF BaseInv
<1>4. ASSUME NEW options \in Options, Start(options) PROVE BaseInv'
  BY <1>0, <1>4, StartReports, StartBegin DEF BaseInv
<1>5. CASE SaveReport
  BY <1>0, <1>5, SaveReportReports, SaveReportBegin DEF BaseInv
<1>6. ASSUME Rest PROVE BaseInv'
  <2>1. TypeOK
    BY DEF BaseInv
  <2>2. TypeOK'
    <3>1. inputs' \in [Inputs -> {Missing, "own", "template", "cut"}]
      BY <1>6, <2>1, InputsType
    <3>2. init' # Missing =>
              init' \in [todo : {TemplateFiles, Tail(TemplateFiles),
                                 Tail(Tail(TemplateFiles))},
                         over : BOOLEAN, live : BOOLEAN]
      BY <1>6, <2>1, Zenon DEF TypeOK
    <3>3. verdict' # Missing =>
              verdict'.error \in {"", "ConfigurationError", "IncomparableRunError"}
      BY <1>6, <2>1, InputsType DEF Errors
    <3>. QED
      BY <1>6, <2>1, <3>1, <3>2, <3>3, TypeKept, Zenon
  <2>3. TemplateInv' /\ HalfTemplateNotRun'
    BY <1>6, OthersBegin DEF BaseInv
  <2>. QED
    BY <1>0, <1>6, <2>2, <2>3, OthersReports DEF BaseInv
<1>7. TypeOK /\ edits \in 0 .. MaxEdits
  BY InputsType DEF BaseInv
<1>8. CASE Edit
  <2>1. edits' \in 0 .. MaxEdits
    BY <1>7, <1>8, Bounds DEF Edit
  <2>2. Rest
    BY <1>8, <2>1 DEF Edit
  <2>. QED
    BY <1>6, <2>2
<1>9. CASE Stop \/ KeepAsBaseline \/ Tamper
  <2>1. Rest
    BY <1>7, <1>9 DEF Stop, KeepAsBaseline, Tamper, projectVars
  <2>. QED
    BY <1>6, <2>1
<1>10. ASSUME NEW candidate, NEW against,
              EvaluateGatesOf(candidate, against) \/ CompareResults(candidate, against)
       PROVE  BaseInv'
  <2>1. verdict'.error \in Errors
    BY <1>10, VerdictTypes
  <2>2. Rest
    BY <1>7, <1>10, <2>1 DEF EvaluateGatesOf, CompareResults, Idle, projectVars
  <2>. QED
    BY <1>6, <2>2
<1>11. CASE UNCHANGED vars
  <2>1. Rest
    BY <1>7, <1>11 DEF vars, projectVars
  <2>. QED
    BY <1>6, <2>1
<1>. QED
  BY <1>1, <1>2, <1>3, <1>4, <1>5, <1>8, <1>9, <1>10, <1>11 DEF Next

\* A report never belongs to a later run than the result beside it.
THEOREM ReportsFollowResultHolds == Spec => []ReportsFollowResult
<1>1. Init => BaseInv
  BY InitReports, InitBegin DEF BaseInv
<1>2. BaseInv => ReportsFollowResult
  BY DEF BaseInv
<1>. QED
  BY <1>1, <1>2, NextBase, PTL DEF Spec

\* What an interrupted init of a new project leaves is not run as a project.
THEOREM HalfTemplateNotRunHolds == Spec => []HalfTemplateNotRun
<1>1. Init => BaseInv
  BY InitReports, InitBegin DEF BaseInv
<1>2. BaseInv => HalfTemplateNotRun
  BY DEF BaseInv
<1>. QED
  BY <1>1, <1>2, NextBase, PTL DEF Spec

---------------------------------------------------------------------------
(* Loading a configuration                                                 *)

LEMMA SectionFields ==
    /\ DOMAIN Defaults["chunker"] = {"type", "size", "overlap"}
    /\ Defaults["chunker"]["type"] = "recursive_characters"
    /\ Defaults["chunker"]["size"] = 512 /\ Defaults["chunker"]["overlap"] = 64
    /\ "seed" \in DOMAIN Defaults["experiment"] /\ Defaults["experiment"]["seed"] = 42
    /\ "path" \in DOMAIN Defaults["corpus"] /\ Defaults["corpus"]["path"] = Missing
    /\ "path" \in DOMAIN Defaults["dataset"] /\ Defaults["dataset"]["path"] = Missing
    /\ "relevance_level" \in DOMAIN Defaults["dataset"]
    /\ Defaults["dataset"]["relevance_level"] = "document"
BY DEF Defaults

LEMMA RetrieverFields ==
    /\ {"k1", "b"} \subseteq DOMAIN Defaults["bm25"]
    /\ Defaults["bm25"]["k1"] > 0 /\ Defaults["bm25"]["b"] \in 0 .. One
    /\ "batch_size" \in DOMAIN Defaults["dense"] /\ Defaults["dense"]["batch_size"] = 32
    /\ {"rrf_k", "candidate_k"} \subseteq DOMAIN Defaults["hybrid"]
    /\ Defaults["hybrid"]["rrf_k"] = 60
<1>1. (3 * One) \div 2 > 0 /\ (3 * One) \div 4 \in 0 .. One
  BY OneAssumption
<1>2. /\ DOMAIN Defaults["bm25"] = {"tokenizer", "k1", "b"}
      /\ Defaults["bm25"]["k1"] = (3 * One) \div 2
      /\ Defaults["bm25"]["b"] = (3 * One) \div 4
  BY DEF Defaults
<1>. QED
  BY <1>1, <1>2 DEF Defaults

\* A section without a fault was read as it was written.
LEMMA SectionRead ==
    ASSUME NEW section, NEW raw, NEW others, SectionFaults(section, raw, others) = {},
           IsRawSection(raw)
    PROVE  /\ raw \notin {Null, Wrong}
           /\ \A field \in DOMAIN Defaults[section] :
                  /\ ReadSection(section, raw)[field] = Value(section, raw, field)
                  /\ ~ Unfit(section, raw, field)
           /\ \A field \in DOMAIN AsMapping(raw) \cap DOMAIN Defaults[section] :
                  raw[field] # Null => ReadSection(section, raw)[field] = raw[field]
<1>1. raw \notin {Null, Wrong}
  BY DEF SectionFaults
<1>2. \A field \in DOMAIN Defaults[section] : ~ Unfit(section, raw, field)
  BY DEF SectionFaults
<1>3. \A field \in DOMAIN Defaults[section] :
          ReadSection(section, raw)[field] = Value(section, raw, field)
  BY <1>2 DEF ReadSection
<1>4. ASSUME NEW field \in DOMAIN AsMapping(raw) \cap DOMAIN Defaults[section],
             raw[field] # Null
      PROVE  ReadSection(section, raw)[field] = raw[field]
  <2>1. raw # Missing
    BY <1>4 DEF AsMapping
  <2>2. AsMapping(raw) = raw /\ raw[field] # Missing
    BY <1>1, <1>4, <2>1 DEF AsMapping, IsRawSection, IsRaw
  <2>3. Value(section, raw, field) = raw[field]
    BY <1>4, <2>2 DEF Value, Entry
  <2>. QED
    BY <1>3, <1>4, <2>3
<1>. QED
  BY <1>1, <1>2, <1>3, <1>4

\* A field that was read without a fault has its default or is admitted.
LEMMA FieldRead ==
    ASSUME NEW section, NEW raw, NEW others, SectionFaults(section, raw, others) = {},
           IsRawSection(raw), NEW field \in DOMAIN Defaults[section]
    PROVE  LET read == ReadSection(section, raw)[field] IN
           /\ read \notin {Missing, Wrong}
           /\ \/ read = Defaults[section][field]
              \/ read # Null /\ Admits(section, field, read) /\ IsRaw(field, read)
<1>. DEFINE read == ReadSection(section, raw)[field]
<1>1. read = Value(section, raw, field) /\ ~ Unfit(section, raw, field)
  BY SectionRead
<1>2. read \notin {Missing, Wrong} /\ (read # Null => Admits(section, field, read))
  BY <1>1 DEF Unfit
<1>3. CASE Entry(raw, field) = Missing
  BY <1>1, <1>2, <1>3 DEF Value
<1>4. CASE Entry(raw, field) # Missing
  <2>1. /\ raw \notin {Missing, Null, Wrong} /\ field \in DOMAIN raw
        /\ read = raw[field] /\ raw[field] # Null
    <3>1. /\ field \in DOMAIN AsMapping(raw) /\ AsMapping(raw)[field] # Null
          /\ Entry(raw, field) = AsMapping(raw)[field]
      BY <1>4 DEF Entry
    <3>2. raw \notin {Missing, Null, Wrong}
      BY <3>1 DEF AsMapping
    <3>. QED
      BY <1>1, <1>4, <3>1, <3>2 DEF AsMapping, Value
  <2>2. IsRaw(field, read)
    BY <2>1 DEF IsRawSection
  <2>. QED
    BY <1>2, <2>1, <2>2
<1>. QED
  BY <1>2, <1>3, <1>4

\* What a draft that loads has to say of every part: nothing.
LEMMA NoFaults ==
    ASSUME NEW raw, LoadConfig(raw) # Bad
    PROVE  LET config == Parse(raw) IN
           /\ LoadConfig(raw) = config /\ IsConfig(config)
           /\ \A section \in Sections : SectionFaults(section, raw[section], {}) = {}
           /\ RetrieverFaults(raw.retrievers) = {}
           /\ GateFaults(raw.quality_gates) = {}
           /\ ~ TopKFault(raw.top_k) /\ ~ FormatsFault(raw.formats)
           /\ ~ (config.sections.chunker.overlap >= config.sections.chunker.size)
<1>. DEFINE config == Parse(raw)
<1>1. LoadConfig(raw) = config /\ IsConfig(config) /\ Faults(raw, config) = {}
  BY DEF LoadConfig
<1>. HIDE DEF config
<1>2. ASSUME NEW section \in Sections
      PROVE  SectionFaults(section, raw[section], {}) = {}
  <2>1. ASSUME NEW field \in SectionFaults(section, raw[section], {})
        PROVE  FALSE
    <3>1. <<section, field>> \in Faults(raw, config)
      BY DEF Faults
    <3>. QED
      BY <1>1, <3>1
  <2>. QED
    BY <2>1
<1>3. /\ RetrieverFaults(raw.retrievers) = {} /\ GateFaults(raw.quality_gates) = {}
      /\ ListFaults(raw, config) = {}
  BY <1>1 DEF Faults
<1>4. /\ ~ TopKFault(raw.top_k) /\ ~ FormatsFault(raw.formats)
      /\ ~ (config.sections.chunker.overlap >= config.sections.chunker.size)
  <2>1. /\ Noted("top_k", TopKFault(raw.top_k)) = {}
        /\ Noted("formats", FormatsFault(raw.formats)) = {}
        /\ Noted("chunker", config.sections.chunker.overlap
                              >= config.sections.chunker.size) = {}
    BY <1>3 DEF ListFaults
  <2>. QED
    BY <2>1 DEF Noted
<1>. QED
  BY <1>1, <1>2, <1>3, <1>4 DEF config

\* Retrievers without a fault are kept, every one as it was written.
LEMMA RetrieversRead ==
    ASSUME NEW list, RetrieverFaults(list) = {},
           IsRawPart("retrievers", list)
    PROVE  /\ list \notin {Missing, Null, Wrong}
           /\ DOMAIN ReadRetrievers(list) = DOMAIN list
           /\ \A i \in DOMAIN list :
                  LET read == ReadRetrievers(list)[i] IN
                  /\ IsRawSection(list[i])
                  /\ read.name = list[i].name /\ read.type = list[i].type
                  /\ read.type \in Kinds
                  /\ read.type = "hybrid" => Enough(read.sources)
                  /\ read.settings = ReadSection(read.type, list[i])
                  /\ \E others : SectionFaults(read.type, list[i], others) = {}
<1>. DEFINE Fault(i) ==
        \/ Entry(list[i], "name") \in {Missing, Wrong}
        \/ Entry(list[i], "type") \in {Missing, Wrong}
        \/ Kind(list[i]) \notin Kinds
        \/ NameOf(list[i]) # Kind(list[i])
        \/ \E j \in 1 .. i - 1 : NameOf(list[j]) = NameOf(list[i])
        \/ SectionFaults(Kind(list[i]), list[i],
               {"name", "type"} \cup
                   (IF Kind(list[i]) = "hybrid" THEN {"sources"} ELSE {})) # {}
        \/ Kind(list[i]) = "hybrid" /\ SourcesFault(list[i])
<1>1. list \notin {Missing, Null, Wrong}
  BY DEF RetrieverFaults, NoList
<1>2. AsList(list, << >>) = list
  BY <1>1 DEF AsList, NoList
<1>3. \A i \in DOMAIN list : ~ Fault(i)
  <2>1. ASSUME NEW i \in DOMAIN list, Fault(i) PROVE FALSE
    <3>1. <<"retrievers", i>> \in RetrieverFaults(list)
      BY <1>2, <2>1, Zenon DEF RetrieverFaults
    <3>. QED
      BY <3>1
  <2>. QED
    BY <2>1
<1>4. ASSUME NEW i \in DOMAIN list
      PROVE  /\ IsKept(list[i]) /\ IsRawSection(list[i])
             /\ NameOf(list[i]) = list[i].name /\ Kind(list[i]) = list[i].type
             /\ Kind(list[i]) \in Kinds
             /\ Kind(list[i]) = "hybrid" => Enough(Sources(list[i]))
             /\ \E others : SectionFaults(Kind(list[i]), list[i], others) = {}
  <2>1. ~ Fault(i)
    BY <1>3
  <2>. DEFINE raw == list[i]
  <2>2. IsRawSection(raw)
    BY <1>1 DEF IsRawPart, Lists
  <2>3. /\ Kind(raw) = Entry(raw, "type") /\ Entry(raw, "type") # Missing
        /\ NameOf(raw) = Entry(raw, "name") /\ Entry(raw, "name") # Missing
    BY <2>1 DEF Kind, NameOf
  <2>4. Kind(raw) \in Kinds /\ (Kind(raw) = "hybrid" => Enough(Sources(raw)))
    BY <2>1 DEF SourcesFault
  <2>5. \E others : SectionFaults(Kind(raw), raw, others) = {}
    BY <2>1
  <2>. HIDE DEF raw
  <2>6. AsMapping(raw) = raw
    BY <2>3 DEF Entry, AsMapping
  <2>7. NameOf(raw) = raw.name /\ Kind(raw) = raw.type
    BY <2>3, <2>6 DEF Entry
  <2>. QED
    BY <2>2, <2>4, <2>5, <2>7 DEF IsKept, raw
<1>5. ReadRetrievers(list) = [i \in DOMAIN list |-> ReadRetriever(list[i])]
  BY <1>2, <1>4 DEF ReadRetrievers
<1>6. \A i \in DOMAIN list :
          LET read == ReadRetrievers(list)[i] IN
          /\ read.name = NameOf(list[i]) /\ read.type = Kind(list[i])
          /\ read.sources = Sources(list[i])
          /\ read.settings = ReadSection(Kind(list[i]), list[i])
  BY <1>5 DEF ReadRetriever
<1>. QED
  BY <1>1, <1>4, <1>5, <1>6, Zenon

LEMMA Parsed ==
    ASSUME NEW raw
    PROVE  LET config == Parse(raw) IN
           /\ \A section \in Sections :
                  config.sections[section] = ReadSection(section, raw[section])
           /\ config.top_k = ReadTopK(raw.top_k)
           /\ config.formats = ReadFormats(raw.formats)
           /\ config.retrievers = ReadRetrievers(raw.retrievers)
           /\ config.gates = ReadGates(raw.quality_gates)
BY DEF Parse

LEMMA DraftParts ==
    ASSUME NEW raw, IsDraft(raw)
    PROVE  /\ \A section \in Sections : IsRawSection(raw[section])
           /\ IsRawPart("top_k", raw.top_k)
           /\ IsRawPart("retrievers", raw.retrievers)
           /\ IsRawPart("quality_gates", raw.quality_gates)
BY DEF IsDraft, IsRawPart, Lists

LEMMA LoadedSections ==
    ASSUME NEW raw, IsDraft(raw), LoadConfig(raw) # Bad
    PROVE  LET sections == LoadConfig(raw).sections IN
           /\ sections.chunker \in Chunkers
           /\ sections.chunker.size > 0
           /\ sections.chunker.overlap \in 0 .. sections.chunker.size - 1
           /\ sections.experiment.seed >= 0
           /\ sections.corpus.path \in Paths /\ sections.dataset.path \in Paths
           /\ sections.dataset.relevance_level \in Words.relevance_level
<1>. DEFINE sections == Parse(raw).sections
<1>1. /\ LoadConfig(raw).sections = sections
      /\ ~ (sections.chunker.overlap >= sections.chunker.size)
  BY NoFaults
<1>2. ASSUME NEW section \in Sections, NEW field \in DOMAIN Defaults[section]
      PROVE  /\ sections[section] = ReadSection(section, raw[section])
             /\ sections[section][field] \notin {Missing, Wrong}
             /\ \/ sections[section][field] = Defaults[section][field]
                \/ /\ sections[section][field] # Null
                   /\ Admits(section, field, sections[section][field])
                   /\ IsRaw(field, sections[section][field])
  <2>1. SectionFaults(section, raw[section], {}) = {} /\ IsRawSection(raw[section])
    BY NoFaults, DraftParts
  <2>2. sections[section] = ReadSection(section, raw[section])
    BY Parsed
  <2>. QED
    BY <2>1, <2>2, FieldRead
<1>. HIDE DEF sections
<1>3. {"chunker", "experiment", "corpus", "dataset"} \subseteq Sections
  BY DEF Sections
<1>4. /\ sections["chunker"]["size"] \in Int /\ sections["chunker"]["size"] > 0
      /\ sections["chunker"]["overlap"] \in Int /\ sections["chunker"]["overlap"] >= 0
      /\ sections["chunker"]["type"] = "recursive_characters"
  BY <1>2, <1>3, SectionFields DEF Admits, IsRaw
<1>5. sections["chunker"] \in Chunkers
  <2>1. sections["chunker"] = ReadSection("chunker", raw["chunker"])
    BY <1>2, <1>3, SectionFields
  <2>2. sections["chunker"] = [field \in {"type", "size", "overlap"} |->
                                  sections["chunker"][field]]
    BY <2>1, SectionFields DEF ReadSection
  <2>3. sections["chunker"] = [type |-> sections["chunker"]["type"],
                               size |-> sections["chunker"]["size"],
                               overlap |-> sections["chunker"]["overlap"]]
    BY <2>2
  <2>. DEFINE type == sections["chunker"]["type"]
              size == sections["chunker"]["size"]
              overlap == sections["chunker"]["overlap"]
  <2>4. type \in {"recursive_characters"} /\ size \in Int /\ overlap \in Int
    BY <1>4
  <2>5. sections["chunker"] = [type |-> type, size |-> size, overlap |-> overlap]
    BY <2>3
  <2>. HIDE DEF type, size, overlap
  <2>. QED
    BY <2>4, <2>5 DEF Chunkers
<1>6. sections["experiment"]["seed"] >= 0
  BY <1>2, <1>3, SectionFields DEF Admits
<1>7. sections["corpus"]["path"] \in Paths /\ sections["dataset"]["path"] \in Paths
  <2>1. \A section \in {"corpus", "dataset"} : IsRaw("path", sections[section]["path"])
    BY <1>2, <1>3, SectionFields
  <2>2. \A section \in {"corpus", "dataset"} : sections[section]["path"] \notin {Null, Wrong}
    BY <1>2, <1>3, SectionFields
  <2>. QED
    BY <2>1, <2>2 DEF IsRaw
<1>8. sections["dataset"]["relevance_level"] \in Words.relevance_level
  <2>1. /\ "relevance_level" \in DOMAIN Words
        /\ Words["relevance_level"] = {"document", "chunk"}
    BY DEF Words
  <2>2. \/ sections["dataset"]["relevance_level"] = "document"
        \/ Admits("dataset", "relevance_level", sections["dataset"]["relevance_level"])
    BY <1>2, <1>3, SectionFields
  <2>. QED
    BY <2>1, <2>2 DEF Admits
<1>. QED
  BY <1>1, <1>4, <1>5, <1>6, <1>7, <1>8

\* Cutoffs are at least one, all are positive, and none but Null was left out.
LEMMA LoadedCutoffs ==
    ASSUME NEW raw, IsDraft(raw), LoadConfig(raw) # Bad
    PROVE  LET config == LoadConfig(raw) IN
           /\ config.top_k # {} /\ \A k \in config.top_k : k > 0
           /\ config.top_k \notin {Missing, Bad}
           /\ raw.top_k # Missing => config.top_k = Range(raw.top_k) \ {Null}
<1>. DEFINE list == raw.top_k
            given == GivenCutoffs(list)
<1>1. ~ NoList(list) /\ CutoffsFit(given) /\ Wrong \notin Range(AsList(list, << >>))
  BY NoFaults DEF TopKFault
<1>2. LoadConfig(raw).top_k = Range(given)
  BY <1>1, NoFaults, Parsed DEF ReadTopK
<1>3. Range(given) # {} /\ \A k \in Range(given) : k > 0
  BY <1>1 DEF CutoffsFit, Range
<1>4. list # Missing => Range(given) = Range(list) \ {Null}
  BY <1>1 DEF GivenCutoffs, AsList, Range, Restrict
<1>5. Range(given) \notin {Missing, Bad}
  <2>1. CASE list = Missing
    <3>1. given = Restrict(<<1, 3, 5, 10>>, DOMAIN given) /\ DOMAIN given \subseteq 1 .. 4
      BY <2>1 DEF GivenCutoffs, AsList, Restrict
    <3>2. \A i \in 1 .. 4 : <<1, 3, 5, 10>>[i] \in {1, 3, 5, 10}
      OBVIOUS
    <3>3. Range(given) \in SUBSET {1, 3, 5, 10}
      BY <3>1, <3>2 DEF Range, Restrict
    <3>. QED
      BY <3>3, MarksApart
  <2>2. CASE list # Missing
    <3>1. Range(given) \in SUBSET Range(list)
      BY <1>4, <2>2
    <3>. QED
      BY <1>1, <2>2, <3>1, DraftParts DEF IsRawPart, Lists, NoList
  <2>. QED
    BY <2>1, <2>2
<1>. QED
  BY <1>2, <1>3, <1>4, <1>5

LEMMA LoadedGates ==
    ASSUME NEW raw, IsDraft(raw), LoadConfig(raw) # Bad
    PROVE  LET gates == LoadConfig(raw).gates IN
           /\ DOMAIN gates = DOMAIN AsList(raw.quality_gates, << >>)
           /\ \A i \in DOMAIN gates : gates[i].key \in Timed \cup (SupportedMetrics \X Nat)
<1>. DEFINE list == raw.quality_gates
            items == AsList(list, << >>)
<1>1. GateFaults(list) = {} /\ LoadConfig(raw).gates = ReadGates(list)
  BY NoFaults, Parsed
<1>2. \A i \in DOMAIN items : IsGate(ReadGate(items[i])) /\ IsRawSection(items[i])
  <2>1. ASSUME NEW i \in DOMAIN items, ~ IsGate(ReadGate(items[i])) PROVE FALSE
    <3>1. <<"quality_gates", i>> \in GateFaults(list)
      BY <2>1 DEF GateFaults
    <3>. QED
      BY <1>1, <3>1
  <2>2. IsRawPart("quality_gates", list)
    BY DraftParts
  <2>3. ASSUME NEW i \in DOMAIN items PROVE IsRawSection(items[i])
    <3>1. list \notin {Missing, Null, Wrong} /\ items = list
      BY <2>3 DEF AsList, NoList
    <3>. QED
      BY <2>2, <3>1 DEF IsRawPart, Lists
  <2>. QED
    BY <2>1, <2>3
<1>3. ReadGates(list) = [i \in DOMAIN items |-> ReadGate(items[i])]
  BY <1>2 DEF ReadGates
<1>4. ASSUME NEW i \in DOMAIN items
      PROVE  ReadGate(items[i]).key \in Timed \cup (SupportedMetrics \X Nat)
  <2>. DEFINE gate == items[i]
              key == ReadGate(gate).key
  <2>1. IsMetric(key) /\ key # Wrong
    BY <1>2 DEF IsGate, IsMetric
  <2>2. key = Entry(gate, "metric") /\ Entry(gate, "metric") # Missing
    BY <2>1 DEF ReadGate
  <2>3. IsRawSection(gate)
    BY <1>2
  <2>. HIDE DEF gate
  <2>4. IsRaw("metric", key) /\ key # Null
    <3>1. /\ "metric" \in DOMAIN AsMapping(gate)
          /\ Entry(gate, "metric") = AsMapping(gate)["metric"]
          /\ AsMapping(gate)["metric"] # Null
      BY <2>2 DEF Entry
    <3>2. gate \notin {Missing, Null, Wrong}
      BY <3>1 DEF AsMapping
    <3>. QED
      BY <2>2, <2>3, <3>1, <3>2 DEF AsMapping, IsRawSection
  <2>. HIDE DEF key
  <2>5. key \notin Timed => key \in SupportedMetrics \X Nat
    <3>1. key = <<key[1], key[2]>> /\ key[2] \in Nat
      BY <2>1, <2>4 DEF IsRaw
    <3>. SUFFICES ASSUME key \notin Timed PROVE key \in SupportedMetrics \X Nat
      OBVIOUS
    <3>2. key[1] \in SupportedMetrics
      BY <2>1 DEF IsMetric
    <3>. DEFINE metric == key[1]
                cutoff == key[2]
    <3>3. key = <<metric, cutoff>> /\ metric \in SupportedMetrics /\ cutoff \in Nat
      BY <3>1, <3>2
    <3>. HIDE DEF metric, cutoff
    <3>. QED
      BY <3>3
  <2>. QED
    BY <2>5 DEF key, gate
<1>. QED
  BY <1>1, <1>3, <1>4

\* A configuration that loads passes every constructor and every search.
LEMMA LoadedRuns ==
    ASSUME NEW raw, IsDraft(raw), LoadConfig(raw) # Bad
    PROVE  /\ IsConfig(LoadConfig(raw)) /\ RunsWell(LoadConfig(raw))
           /\ NamesOf(LoadConfig(raw).retrievers) \subseteq Kinds
<1>. DEFINE config == LoadConfig(raw)
            list == raw.retrievers
            retrievers == config.retrievers
<1>1. IsConfig(config) /\ retrievers = ReadRetrievers(list) /\ RetrieverFaults(list) = {}
  BY NoFaults, Parsed
<1>2. \A i \in DOMAIN retrievers :
          /\ retrievers[i].type \in Kinds
          /\ retrievers[i].type = "hybrid" => Enough(retrievers[i].sources)
          /\ \A field \in DOMAIN Defaults[retrievers[i].type] :
                 LET read == retrievers[i].settings[field] IN
                 \/ read = Defaults[retrievers[i].type][field]
                 \/ Admits(retrievers[i].type, field, read)
  <2>1. IsRawPart("retrievers", list)
    BY DraftParts
  <2>2. TAKE i \in DOMAIN retrievers
  <2>3. /\ IsRawSection(list[i]) /\ retrievers[i].type \in Kinds
        /\ retrievers[i].type = "hybrid" => Enough(retrievers[i].sources)
        /\ retrievers[i].settings = ReadSection(retrievers[i].type, list[i])
        /\ \E others : SectionFaults(retrievers[i].type, list[i], others) = {}
    BY <1>1, <2>1, RetrieversRead
  <2>4. PICK others : SectionFaults(retrievers[i].type, list[i], others) = {}
    BY <2>3
  <2>. HIDE DEF config
  <2>. QED
    BY <2>3, <2>4, FieldRead
<1>. HIDE DEF config
<1>3. NamesOf(retrievers) \subseteq Kinds
  BY <1>1, <1>2 DEF IsConfig, NamesOf
<1>4. \A i \in DOMAIN retrievers :
          retrievers[i].type = "bm25" =>
              retrievers[i].settings.k1 > 0 /\ retrievers[i].settings.b \in 0 .. One
  BY <1>2, RetrieverFields DEF Admits
<1>5. \A i \in DOMAIN retrievers :
          retrievers[i].type = "dense" => retrievers[i].settings.batch_size > 0
  BY <1>2, RetrieverFields DEF Admits
<1>6. ASSUME NEW hybrid \in Hybrids(retrievers)
      PROVE  /\ Enough(hybrid.sources) /\ hybrid.settings.rrf_k > 0
             /\ hybrid.sources \subseteq
                    {retrievers[i].name : i \in {i \in DOMAIN retrievers :
                                                 retrievers[i].type # "hybrid"}}
             /\ \A k \in config.top_k : hybrid.settings.candidate_k >= k
  <2>1. PICK i \in DOMAIN retrievers : hybrid = retrievers[i] /\ hybrid.type = "hybrid"
    BY DEF Hybrids
  <2>2. Enough(hybrid.sources) /\ hybrid.settings.rrf_k > 0
    BY <1>2, <2>1, RetrieverFields DEF Admits
  <2>3. hybrid.sources \subseteq NamesOf(retrievers) \ {"hybrid"}
    BY <1>1, <2>1 DEF IsConfig, IsGraph
  <2>4. \A k \in config.top_k : hybrid.settings.candidate_k >= k
    BY <1>1 DEF IsConfig, IsGraph
  <2>. QED
    BY <1>1, <2>2, <2>3, <2>4 DEF IsConfig, NamesOf
<1>7. /\ config.top_k # {} /\ \A k \in config.top_k : k > 0
      /\ config.sections.chunker.size > 0
      /\ config.sections.chunker.overlap \in 0 .. config.sections.chunker.size - 1
      /\ config.sections.experiment.seed >= 0
      /\ NamedApart(retrievers)
  BY <1>1, LoadedSections, LoadedCutoffs DEF IsConfig, config
<1>8. RunsWell(config)
  BY <1>4, <1>5, <1>6, <1>7 DEF RunsWell
<1>. QED
  BY <1>1, <1>3, <1>8 DEF config

\* A configuration that loads is the one that was written.
LEMMA LoadedWritten ==
    ASSUME IsDraft(draft), LoadConfig(draft) # Bad
    PROVE  WrittenIsInForce(LoadConfig(draft))
<1>. DEFINE config == LoadConfig(draft)
<1>1. /\ config = Parse(draft)
      /\ \A section \in Sections : SectionFaults(section, draft[section], {}) = {}
      /\ RetrieverFaults(draft.retrievers) = {} /\ ~ FormatsFault(draft.formats)
  BY NoFaults
<1>2. ASSUME NEW section \in Sections
      PROVE  \A field \in DOMAIN AsMapping(draft[section]) \cap DOMAIN Defaults[section] :
                 draft[section][field] # Null =>
                     config.sections[section][field] = draft[section][field]
  <2>1. SectionFaults(section, draft[section], {}) = {} /\ IsRawSection(draft[section])
    BY <1>1, DraftParts
  <2>2. config.sections[section] = ReadSection(section, draft[section])
    BY <1>1, Parsed
  <2>. HIDE DEF config
  <2>. QED
    BY <2>1, <2>2, SectionRead
<1>3. /\ DOMAIN config.retrievers = DOMAIN draft.retrievers
      /\ \A i \in DOMAIN config.retrievers :
             LET read == config.retrievers[i]
                 written == draft.retrievers[i]
             IN  /\ read.name = written.name /\ read.type = written.type
                 /\ \A field \in DOMAIN AsMapping(written) \cap DOMAIN Defaults[read.type] :
                        written[field] # Null => read.settings[field] = written[field]
  <2>. DEFINE list == draft.retrievers
              retrievers == config.retrievers
  <2>1. IsRawPart("retrievers", list) /\ retrievers = ReadRetrievers(list)
    BY <1>1, DraftParts, Parsed
  <2>2. DOMAIN retrievers = DOMAIN list
    BY <1>1, <2>1, RetrieversRead
  <2>3. ASSUME NEW i \in DOMAIN retrievers
        PROVE  LET read == retrievers[i]
                   written == list[i]
               IN  /\ read.name = written.name /\ read.type = written.type
                   /\ \A field \in DOMAIN AsMapping(written) \cap DOMAIN Defaults[read.type] :
                          written[field] # Null => read.settings[field] = written[field]
    <3>1. /\ retrievers[i].name = list[i].name /\ retrievers[i].type = list[i].type
          /\ IsRawSection(list[i])
          /\ retrievers[i].settings = ReadSection(retrievers[i].type, list[i])
          /\ \E others : SectionFaults(retrievers[i].type, list[i], others) = {}
      BY <1>1, <2>1, <2>2, <2>3, RetrieversRead
    <3>2. PICK others : SectionFaults(retrievers[i].type, list[i], others) = {}
      BY <3>1
    <3>. HIDE DEF config, list, retrievers
    <3>. QED
      BY <3>1, <3>2, SectionRead
  <2>. HIDE DEF config
  <2>. QED
    BY <2>2, <2>3
<1>4. draft.formats # Missing => config.formats = Range(draft.formats)
  BY <1>1, Parsed DEF ReadFormats, FormatsFault, AsList
<1>. HIDE DEF config
<1>5. /\ DOMAIN config.gates = DOMAIN AsList(draft.quality_gates, << >>)
      /\ draft.top_k # Missing => config.top_k = Range(draft.top_k) \ {Null}
  BY LoadedGates, LoadedCutoffs DEF config
<1>. QED
  BY <1>2, <1>3, <1>4, <1>5 DEF WrittenIsInForce, config

---------------------------------------------------------------------------
(* Results                                                                 *)

\* A run is identified by the policy only if it has one.
LEMMA PayloadFields ==
    ASSUME NEW experiment
    PROVE  LET config == experiment.config
               payload == RunPayload(experiment)
           IN  /\ DOMAIN payload =
                      IdentityFields \ (IF config.gates = << >>
                                        THEN {"quality_gate_policy_hash"} ELSE {})
               /\ payload["dataset_hash"] = experiment.queries
               /\ payload["relevance_level"] = config.sections.dataset.relevance_level
               /\ payload["metric_version"] = 1
               /\ payload["top_k"] = config.top_k
               /\ payload["chunk_hash"] = <<experiment.corpus, config.sections.chunker>>
               /\ payload["retrievers"] =
                      [i \in DOMAIN config.retrievers |-> config.retrievers[i].name]
               /\ config.gates # << >> =>
                      payload["quality_gate_policy_hash"] = config.gates
BY DEF RunPayload, Restrict, IdentityFields

LEMMA ManifestFields ==
    ASSUME NEW experiment
    PROVE  LET manifest == Manifest(experiment)
               payload == RunPayload(experiment)
           IN  /\ DOMAIN manifest = DOMAIN payload \cup {"query_ids", "config"}
               /\ manifest["query_ids"] = Queries
               /\ manifest["config"] = [quality_gates |-> experiment.config.gates]
               /\ \A field \in DOMAIN payload : manifest[field] = payload[field]
<1>. DEFINE payload == RunPayload(experiment)
<1>1. "query_ids" \notin DOMAIN payload /\ "config" \notin DOMAIN payload
  <2>1. DOMAIN payload \subseteq IdentityFields
    BY PayloadFields
  <2>. HIDE DEF payload
  <2>. QED
    BY <2>1 DEF IdentityFields
<1>. HIDE DEF payload
<1>2. Manifest(experiment) =
          [field \in DOMAIN payload \cup {"query_ids", "config"} |->
              IF field = "query_ids" THEN Queries
              ELSE IF field = "config" THEN [quality_gates |-> experiment.config.gates]
              ELSE payload[field]]
  BY DEF Manifest, payload
<1>. DEFINE manifest == Manifest(experiment)
<1>3. /\ DOMAIN manifest = DOMAIN payload \cup {"query_ids", "config"}
      /\ manifest["query_ids"] = Queries
      /\ manifest["config"] = [quality_gates |-> experiment.config.gates]
      /\ \A field \in DOMAIN payload : manifest[field] = payload[field]
  <2>. HIDE DEF manifest
  <2>1. manifest = [field \in DOMAIN payload \cup {"query_ids", "config"} |->
                      IF field = "query_ids" THEN Queries
                      ELSE IF field = "config"
                           THEN [quality_gates |-> experiment.config.gates]
                      ELSE payload[field]]
    BY <1>2 DEF manifest
  <2>. QED
    BY <1>1, <2>1
<1>. QED
  BY <1>3 DEF payload

\* What somebody writes there changes the embedded gates and nothing else.
LEMMA UnderFields ==
    ASSUME NEW experiment, NEW policy
    PROVE  LET result == Under(experiment, policy)
               measured == Measure(experiment)
           IN  /\ result.origin = experiment /\ result.run = RunPayload(experiment)
               /\ result.metrics = measured.metrics /\ result.queries = measured.queries
               /\ result.latency = measured.latency
               /\ DOMAIN result.manifest = DOMAIN Manifest(experiment)
               /\ result.manifest["config"].quality_gates = policy
               /\ \A field \in DOMAIN Manifest(experiment) \ {"config"} :
                      result.manifest[field] = Manifest(experiment)[field]
<1>. DEFINE measured == Measure(experiment)
            manifest == Manifest(experiment)
            result == Under(experiment, policy)
<1>1. /\ DOMAIN measured = {"run", "manifest", "gates", "origin", "metrics", "queries",
                            "latency"}
      /\ measured.manifest = manifest /\ measured.origin = experiment
      /\ measured.run = RunPayload(experiment)
  BY DEF Measure
<1>2. /\ "config" \in DOMAIN manifest
      /\ manifest["config"] = [quality_gates |-> experiment.config.gates]
  BY ManifestFields
<1>3. result = [measured EXCEPT !.manifest["config"].quality_gates = policy]
  BY DEF Under
<1>. HIDE DEF measured, manifest, result
<1>4. result.manifest = [manifest EXCEPT !["config"].quality_gates = policy]
  BY <1>1, <1>3
<1>5. [manifest["config"] EXCEPT !.quality_gates = policy] = [quality_gates |-> policy]
  BY <1>2
<1>6. result.manifest = [manifest EXCEPT !["config"] = [quality_gates |-> policy]]
  BY <1>4, <1>5
<1>. QED
  BY <1>1, <1>2, <1>3, <1>6 DEF measured, manifest, result

LEMMA MeasureFields ==
    ASSUME NEW experiment
    PROVE  LET measured == Measure(experiment) IN
           /\ measured = [field \in DOMAIN measured |-> measured[field]]
           /\ measured.manifest = Manifest(experiment)
<1>1. \A run1, manifest, origin, metrics, queries1, latency :
          LET measured == [run |-> run1, manifest |-> manifest, gates |-> << >>,
                           origin |-> origin, metrics |-> metrics, queries |-> queries1,
                           latency |-> latency]
          IN  /\ measured = [field \in DOMAIN measured |-> measured[field]]
              /\ measured.manifest = manifest
  OBVIOUS
<1>. QED
  BY <1>1, Zenon DEF Measure

\* As it was measured, it is under its own gates.
LEMMA MeasuredUnder ==
    ASSUME NEW experiment
    PROVE  Under(experiment, experiment.config.gates) = Measure(experiment)
<1>. DEFINE measured == Measure(experiment)
            manifest == Manifest(experiment)
            gates == experiment.config.gates
<1>1. /\ measured = [field \in DOMAIN measured |-> measured[field]]
      /\ measured.manifest = manifest
  BY MeasureFields
<1>2. /\ "config" \in DOMAIN manifest /\ manifest["config"] = [quality_gates |-> gates]
      /\ manifest = [field \in DOMAIN manifest |-> manifest[field]]
  BY ManifestFields DEF Manifest
<1>3. Under(experiment, gates) = [measured EXCEPT !.manifest["config"].quality_gates = gates]
  BY DEF Under
<1>. HIDE DEF measured, manifest, gates
<1>4. [manifest["config"] EXCEPT !.quality_gates = gates] = manifest["config"]
  BY <1>2
<1>5. [manifest EXCEPT !["config"].quality_gates = gates] = manifest
  <2>1. [manifest EXCEPT !["config"].quality_gates = gates]
            = [manifest EXCEPT !["config"] = [manifest["config"] EXCEPT !.quality_gates = gates]]
    OBVIOUS
  <2>. QED
    BY <1>2, <1>4, <2>1
<1>6. [measured EXCEPT !.manifest["config"].quality_gates = gates] = measured
  BY <1>1, <1>5
<1>. QED
  BY <1>3, <1>6 DEF measured, gates

LEMMA ResultUnder ==
    ASSUME NEW experiment, NEW policy, IsExperiment(experiment)
    PROVE  IsResult(Under(experiment, policy))
<1>. DEFINE result == Under(experiment, policy)
<1>1. result.origin = experiment /\ result.manifest["config"].quality_gates = policy
  <2>1. result.origin = experiment
    BY UnderFields
  <2>2. result.manifest["config"].quality_gates = policy
    BY UnderFields
  <2>. QED
    BY <2>1, <2>2
<1>2. result = Under(experiment, policy)
  OBVIOUS
<1>. HIDE DEF result
<1>3. IsResult(result)
  BY <1>1, <1>2 DEF IsResult
<1>. QED
  BY <1>3 DEF result

\* An experiment that starts is one of a configuration that loaded.
LEMMA StartsExperiment ==
    ASSUME TypeOK, draft # Missing => IsDraft(draft), NEW options \in Options, Start(options)
    PROVE  IsExperiment(Experiment(Configuration))
<1>. DEFINE config == Configuration
            experiment == Experiment(config)
<1>1. config # Bad /\ InputsRead(experiment)
  BY DEF Start
<1>2. draft # Missing /\ IsDraft(draft) /\ config = LoadConfig(draft)
  BY <1>1 DEF Configuration
<1>. HIDE DEF config
<1>3. /\ experiment.config = config
      /\ experiment.corpus = [path |-> config.sections.corpus.path,
                              holds |-> experiment.corpus.holds]
      /\ experiment.queries = [path |-> config.sections.dataset.path,
                               holds |-> experiment.queries.holds]
      /\ experiment.corpus.holds \in {inputs["corpus"], "own"}
      /\ experiment.queries.holds \in {inputs["queries"], "own"}
  BY DEF Experiment
<1>4. /\ experiment.corpus.holds \in {"own", "template", "cut"}
      /\ experiment.queries.holds \in {"own", "template", "cut"}
  <2>1. inputs["corpus"] \in {Missing, "own", "template", "cut"}
    BY InputsType DEF Inputs
  <2>2. inputs["queries"] \in {Missing, "own", "template", "cut"}
    BY InputsType DEF Inputs
  <2>. QED
    BY <1>1, <1>3, <2>1, <2>2 DEF InputsRead
<1>5. /\ config.sections.chunker \in Chunkers
      /\ config.sections.corpus.path \in Paths /\ config.sections.dataset.path \in Paths
      /\ config.sections.dataset.relevance_level \in Words.relevance_level
      /\ config.top_k \notin {Missing, Bad}
      /\ \A i \in DOMAIN config.gates :
             config.gates[i].key \in Timed \cup (SupportedMetrics \X Nat)
      /\ IsConfig(config) /\ RunsWell(config)
      /\ NamesOf(config.retrievers) \subseteq Kinds
  BY <1>1, <1>2, LoadedSections, LoadedCutoffs, LoadedGates, LoadedRuns, Zenon
<1>6. {experiment.corpus, experiment.queries} \subseteq Files
  <2>1. \A path \in Paths, holds \in {"own", "template", "cut"} :
            [path |-> path, holds |-> holds] \in Files
    BY DEF Files
  <2>. HIDE DEF experiment
  <2>. QED
    BY <1>3, <1>4, <1>5, <2>1
<1>. HIDE DEF experiment
<1>7. IsExperiment(experiment)
  BY <1>3, <1>5, <1>6 DEF IsExperiment
<1>. QED
  BY <1>7 DEF experiment, config

\* What a result says about itself.
LEMMA ResultFields ==
    ASSUME NEW result, IsResult(result)
    PROVE  LET experiment == result.origin
               config == experiment.config
               manifest == result.manifest
           IN  /\ Names(result) = NamesOf(config.retrievers) /\ Names(result) # {}
               /\ \A name \in Names(result) :
                      /\ Shape(result, name) = SupportedMetrics \X config.top_k
                      /\ QueriesOf(result, name) = Queries
                      /\ \A query \in Queries :
                             QueryShape(result, name, query) = Shape(result, name)
               /\ HasLatency(result)
               /\ result.run = RunPayload(experiment)
               /\ DOMAIN manifest = DOMAIN result.run \cup {"query_ids", "config"}
               /\ \A field \in DOMAIN result.run : manifest[field] = result.run[field]
               /\ manifest["query_ids"] = Queries
               /\ IsExperiment(experiment)
<1>. DEFINE experiment == result.origin
            config == experiment.config
            measured == Measure(experiment)
<1>1. /\ result.run = RunPayload(experiment)
      /\ result.metrics = measured.metrics /\ result.queries = measured.queries
      /\ result.latency = measured.latency
      /\ DOMAIN result.manifest = DOMAIN Manifest(experiment)
      /\ \A field \in DOMAIN Manifest(experiment) \ {"config"} :
             result.manifest[field] = Manifest(experiment)[field]
      /\ IsExperiment(experiment)
  <2>1. PICK policy : result = Under(experiment, policy) /\ IsExperiment(experiment)
    BY DEF IsResult
  <2>. HIDE DEF experiment
  <2>. QED
    <3>1. /\ result.run = RunPayload(experiment)
          /\ result.metrics = measured.metrics /\ result.queries = measured.queries
          /\ result.latency = measured.latency
      BY <2>1, UnderFields, Zenon
    <3>2. /\ DOMAIN result.manifest = DOMAIN Manifest(experiment)
          /\ \A field \in DOMAIN Manifest(experiment) \ {"config"} :
                 result.manifest[field] = Manifest(experiment)[field]
      BY <2>1, UnderFields
    <3>. QED
      BY <2>1, <3>1, <3>2
<1>2. /\ measured.metrics = [name \in NamesOf(config.retrievers) |->
                                [key \in SupportedMetrics \X config.top_k |-> One]]
      /\ measured.queries = [name \in NamesOf(config.retrievers) |->
                                [id \in Queries |->
                                    [metrics |-> [key \in SupportedMetrics \X config.top_k
                                                     |-> One], latency |-> 1]]]
      /\ measured.latency = [name \in NamesOf(config.retrievers) |->
                                [statistic \in LatencyStatistics |-> 1]]
  BY DEF Measure
<1>. HIDE DEF measured, config, experiment
<1>3. Names(result) = NamesOf(config.retrievers)
  BY <1>1, <1>2 DEF Names
<1>4. Names(result) # {}
  <2>1. DOMAIN config.retrievers # {}
    BY <1>1 DEF IsExperiment, IsConfig, config
  <2>2. PICK i \in DOMAIN config.retrievers : TRUE
    BY <2>1
  <2>3. config.retrievers[i].name \in NamesOf(config.retrievers)
    BY DEF NamesOf
  <2>. QED
    BY <1>3, <2>3
<1>5. ASSUME NEW name \in Names(result)
      PROVE  /\ Shape(result, name) = SupportedMetrics \X config.top_k
             /\ QueriesOf(result, name) = Queries
             /\ \A query \in Queries :
                    QueryShape(result, name, query) = Shape(result, name)
  <2>1. name \in NamesOf(config.retrievers)
    BY <1>3
  <2>2. result.metrics[name] = [key \in SupportedMetrics \X config.top_k |-> One]
    BY <1>1, <1>2, <2>1
  <2>3. result.queries[name] =
            [id \in Queries |-> [metrics |-> [key \in SupportedMetrics \X config.top_k
                                                 |-> One], latency |-> 1]]
    BY <1>1, <1>2, <2>1
  <2>. QED
    <3>1. Shape(result, name) = SupportedMetrics \X config.top_k
      BY <2>2 DEF Shape
    <3>2. QueriesOf(result, name) = Queries
      BY <2>3 DEF QueriesOf
    <3>3. ASSUME NEW query \in Queries
          PROVE  QueryShape(result, name, query) = SupportedMetrics \X config.top_k
      <4>1. result.queries[name][query].metrics =
                [key \in SupportedMetrics \X config.top_k |-> One]
        BY <2>3
      <4>. QED
        BY <4>1 DEF QueryShape
    <3>. QED
      BY <3>1, <3>2, <3>3
<1>6. HasLatency(result)
  <2>1. NamesOf(config.retrievers) \in SUBSET Kinds
    BY <1>1 DEF IsExperiment, config
  <2>2. measured.latency \in [NamesOf(config.retrievers) -> [LatencyStatistics -> {1}]]
    BY <1>2
  <2>. QED
    <3>1. ASSUME NEW names \in SUBSET Kinds, NEW latency \in [names -> [LatencyStatistics -> {1}]]
          PROVE  latency # Missing
      BY MarksApart, Zenon
    <3>2. measured.latency # Missing
      BY <2>1, <2>2, <3>1, Zenon
    <3>. QED
      BY <1>1, <3>2 DEF HasLatency
<1>7. /\ DOMAIN result.manifest = DOMAIN result.run \cup {"query_ids", "config"}
      /\ \A field \in DOMAIN result.run : result.manifest[field] = result.run[field]
      /\ result.manifest["query_ids"] = Queries
  <2>1. DOMAIN result.run \subseteq IdentityFields
    <3>1. DOMAIN RunPayload(experiment) \subseteq IdentityFields
      BY ONLY PayloadFields
    <3>. QED
      BY ONLY <1>1, <3>1
  <2>2. "config" \notin DOMAIN result.run
    BY <2>1 DEF IdentityFields
  <2>3. /\ DOMAIN Manifest(experiment) = DOMAIN result.run \cup {"query_ids", "config"}
        /\ Manifest(experiment)["query_ids"] = Queries
        /\ \A field \in DOMAIN result.run : Manifest(experiment)[field] = result.run[field]
    <3>1. result.run = RunPayload(experiment)
      BY <1>1
    <3>. QED
      BY <3>1, ManifestFields, Zenon
  <2>. QED
    BY <1>1, <2>2, <2>3
<1>. QED
  BY <1>1, <1>3, <1>4, <1>5, <1>6, <1>7 DEF config, experiment

---------------------------------------------------------------------------
(* Configurations and results stay what they are                           *)

LEMMA InitResult == Init => ResultInv
<1>. SUFFICES ASSUME Init PROVE ResultInv
  OBVIOUS
<1>1. run = Missing /\ saved = Missing /\ baseline = Missing
  BY DEF Init
<1>2. draft # Missing => IsDraft(draft)
  BY ProjectAssumption DEF Init
<1>. QED
  BY <1>1, <1>2 DEF ResultInv

\* Every text the file ever gets is a draft.
LEMMA DraftKept ==
    ASSUME draft # Missing => IsDraft(draft),
           InitStops \/ WriteTemplate \/ Edit
    PROVE  draft' # Missing => IsDraft(draft')
<1>1. CASE InitStops \/ WriteTemplate
  <2>1. draft' = draft \/ draft' \in {Template} \cup Cuts
    BY <1>1 DEF InitStops, WriteTemplate
  <2>. QED
    BY <2>1, ProjectAssumption
<1>2. CASE Edit
  <2>1. PICK part \in DOMAIN Edits : \E raw \in Edits[part] :
            draft' = [draft EXCEPT ![part] = raw]
    BY <1>2 DEF Edit
  <2>2. PICK raw \in Edits[part] : draft' = [draft EXCEPT ![part] = raw]
    BY <2>1
  <2>3. IsRawPart(part, raw) /\ IsDraft(draft)
    BY <1>2, ProjectAssumption DEF Edit
  <2>. QED
    BY <2>2, <2>3 DEF IsDraft
<1>. QED
  BY <1>1, <1>2

LEMMA StartResult ==
    ASSUME TypeOK, ResultInv, NEW options \in Options, Start(options)
    PROVE  ResultInv'
<1>. DEFINE experiment == Experiment(Configuration)
<1>1. /\ run'.result = Measure(experiment)
      /\ UNCHANGED <<draft, saved, baseline>>
  BY DEF Start, projectVars
<1>2. IsExperiment(experiment)
  BY StartsExperiment DEF ResultInv
<1>. HIDE DEF experiment
<1>3. IsResult(run'.result)
  BY <1>1, <1>2, MeasuredUnder, ResultUnder
<1>. QED
  BY <1>1, <1>3 DEF ResultInv

LEMMA SaveReportResult ==
    ASSUME TypeOK, ResultInv, SaveReport
    PROVE  ResultInv'
<1>. USE DEF SaveReport, projectVars
<1>1. run # Missing /\ (\/ run' = Missing
                        \/ \E report : run' = [run EXCEPT !.todo = @ \ {report}])
  OBVIOUS
<1>2. DOMAIN run = {"by", "formats", "result", "todo"}
  BY <1>1, RunType
<1>3. run' # Missing => run'.result = run.result
  BY <1>1, <1>2
<1>4. saved' \in {saved, run.result} /\ UNCHANGED <<draft, baseline>>
  OBVIOUS
<1>. QED
  BY <1>1, <1>3, <1>4 DEF ResultInv

\* Gates written into a result that has its own leave all the rest of it.
LEMMA TamperResult ==
    ASSUME ResultInv, Tamper
    PROVE  ResultInv'
<1>. DEFINE experiment == saved.origin
<1>1. PICK policy \in Policies :
          saved' = [saved EXCEPT !.manifest["config"].quality_gates = policy]
  BY DEF Tamper
<1>2. /\ saved # Missing /\ saved.manifest = Manifest(experiment)
      /\ UNCHANGED <<draft, run, baseline>>
  BY DEF Tamper, projectVars
<1>3. IsResult(saved)
  BY <1>2 DEF ResultInv
<1>4. saved = Under(experiment, experiment.config.gates) /\ IsExperiment(experiment)
  <2>1. saved.manifest["config"].quality_gates = experiment.config.gates
    <3>1. Manifest(experiment)["config"] = [quality_gates |-> experiment.config.gates]
      BY ManifestFields
    <3>. QED
      BY <1>2, <3>1
  <2>. QED
    BY <1>3, <2>1 DEF IsResult
<1>. HIDE DEF experiment
<1>5. saved' = Under(experiment, policy)
  BY <1>1, <1>4, MeasuredUnder DEF Under
<1>6. IsResult(saved')
  BY <1>4, <1>5, ResultUnder
<1>. QED
  BY <1>2, <1>6 DEF ResultInv

LEMMA NextResult == BaseInv /\ ResultInv /\ [Next]_vars => ResultInv'
<1>. SUFFICES ASSUME BaseInv, ResultInv, [Next]_vars PROVE ResultInv'
  OBVIOUS
<1>0. TypeOK /\ (draft # Missing => IsDraft(draft))
  BY DEF BaseInv, ResultInv
<1>1. ASSUME UNCHANGED <<saved, baseline>>, run' \in {run, Missing},
             draft' # Missing => IsDraft(draft')
      PROVE  ResultInv'
  BY <1>1 DEF ResultInv
<1>2. CASE InitStops \/ WriteTemplate \/ Edit
  <2>1. UNCHANGED <<saved, baseline, run>>
    BY <1>2 DEF InitStops, WriteTemplate, Edit
  <2>. QED
    BY <1>0, <1>1, <1>2, <2>1, DraftKept
<1>3. CASE InitProject \/ Stop \/ UNCHANGED vars
  <2>1. UNCHANGED <<draft, saved, baseline>> /\ run' \in {run, Missing}
    BY <1>3 DEF InitProject, Stop, vars, projectVars
  <2>. QED
    BY <1>0, <1>1, <2>1
<1>4. ASSUME NEW options \in Options, Start(options) PROVE ResultInv'
  BY <1>0, <1>4, StartResult
<1>5. CASE SaveReport
  BY <1>0, <1>5, SaveReportResult
<1>6. CASE KeepAsBaseline
  <2>1. baseline' = saved /\ UNCHANGED <<draft, run, saved>>
    BY <1>6 DEF KeepAsBaseline, projectVars
  <2>. QED
    BY <2>1 DEF ResultInv
<1>7. CASE Tamper
  BY <1>7, TamperResult
<1>8. ASSUME NEW candidate, NEW against,
             EvaluateGatesOf(candidate, against) \/ CompareResults(candidate, against)
      PROVE  ResultInv'
  <2>1. UNCHANGED <<draft, saved, baseline, run>>
    BY <1>8 DEF EvaluateGatesOf, CompareResults, projectVars
  <2>. QED
    BY <1>0, <1>1, <2>1
<1>. QED
  BY <1>2, <1>3, <1>4, <1>5, <1>6, <1>7, <1>8 DEF Next

\* What loads can be run and is what was written; with the types, and with what
\* every other property here rests on.
THEOREM ProjectInvHolds == Spec => []ProjectInv
<1>1. Init => BaseInv /\ ResultInv
  BY InitReports, InitBegin, InitResult DEF BaseInv
<1>2. BaseInv /\ ResultInv /\ [Next]_vars => BaseInv' /\ ResultInv'
  BY NextBase, NextResult
<1>3. BaseInv /\ ResultInv => ProjectInv
  <2>. SUFFICES ASSUME BaseInv, ResultInv PROVE ProjectInv
    OBVIOUS
  <2>1. Configuration # Bad => RunsWell(Configuration) /\ WrittenIsInForce(Configuration)
    <3>. SUFFICES ASSUME Configuration # Bad
                  PROVE  RunsWell(Configuration) /\ WrittenIsInForce(Configuration)
      OBVIOUS
    <3>1. draft # Missing /\ Configuration = LoadConfig(draft)
      BY DEF Configuration
    <3>2. IsDraft(draft)
      BY <3>1 DEF ResultInv
    <3>. QED
      BY <3>1, <3>2, LoadedRuns, LoadedWritten
  <2>. QED
    BY <2>1 DEF BaseInv, ProjectInv
<1>. QED
  BY <1>1, <1>2, <1>3, PTL DEF Spec

---------------------------------------------------------------------------
(* The gates a result brings along                                         *)

\* The fields a comparison asks for are there.
LEMMA GivenFields ==
    ASSUME NEW result, IsResult(result)
    PROVE  LET config == result.origin.config IN
           /\ StrictFields \cup {"chunk_hash", "retrievers"} \subseteq DOMAIN result.run
           /\ \A field \in StrictFields \cup {"chunk_hash", "query_ids"} : Given(result, field)
           /\ result.manifest["top_k"] = config.top_k
           /\ Range(result.manifest["retrievers"]) = Names(result)
           /\ Names(result) = Range(result.run["retrievers"])
<1>. DEFINE experiment == result.origin
            config == experiment.config
            payload == RunPayload(experiment)
<1>1. /\ result.run = payload /\ IsExperiment(experiment)
      /\ \A field \in DOMAIN payload : result.manifest[field] = payload[field]
      /\ result.manifest["query_ids"] = Queries
      /\ Names(result) = NamesOf(config.retrievers)
  BY ResultFields
<1>2. DOMAIN payload = IdentityFields \ (IF config.gates = << >>
                                         THEN {"quality_gate_policy_hash"} ELSE {})
  BY PayloadFields
<1>3. /\ payload["dataset_hash"] = experiment.queries
      /\ payload["relevance_level"] = config.sections.dataset.relevance_level
      /\ payload["metric_version"] = 1 /\ payload["top_k"] = config.top_k
      /\ payload["chunk_hash"] = <<experiment.corpus, config.sections.chunker>>
      /\ payload["retrievers"] = [i \in DOMAIN config.retrievers |-> config.retrievers[i].name]
  BY PayloadFields
<1>4. /\ experiment.queries \in Files /\ experiment.corpus \in Files
      /\ config.sections.chunker \in Chunkers
      /\ config.sections.dataset.relevance_level \in Words.relevance_level
      /\ config.top_k \notin {Missing, Bad}
  BY <1>1 DEF IsExperiment
<1>. HIDE DEF experiment, config, payload
<1>5. StrictFields \cup {"chunk_hash", "retrievers"} \subseteq DOMAIN payload
  BY <1>2 DEF StrictFields, IdentityFields
<1>6. <<experiment.corpus, config.sections.chunker>> \in Files \X Chunkers
  BY <1>4
<1>7. \A mark \in {Missing, Bad} :
          /\ mark \notin Words.relevance_level /\ mark \notin Files
          /\ mark \notin Files \X Chunkers /\ mark # 1 /\ mark # Queries
  <2>1. \A mark \in {Missing, Bad} :
            mark \notin Nat \cup Words.relevance_level \cup Files \cup (Files \X Chunkers)
            /\ mark # Queries
    BY MarksApart, Zenon
  <2>. QED
    BY <2>1
<1>8. ASSUME NEW field \in StrictFields \cup {"chunk_hash", "query_ids"}
      PROVE  Given(result, field)
  <2>1. result.manifest[field] \in
            {experiment.queries, config.sections.dataset.relevance_level, 1, config.top_k,
             <<experiment.corpus, config.sections.chunker>>, Queries}
    BY <1>1, <1>3, <1>5 DEF StrictFields
  <2>2. result.manifest[field] \notin {Missing, Bad}
    BY <1>4, <1>6, <1>7, <2>1
  <2>. QED
    BY <2>2 DEF Given
<1>9. Range(payload["retrievers"]) = NamesOf(config.retrievers)
  BY <1>3 DEF Range, NamesOf
<1>. QED
  BY <1>1, <1>3, <1>5, <1>8, <1>9 DEF StrictFields, config, experiment

\* Results of the same run may be compared, and so a result with itself.
LEMMA SameRunComparable ==
    ASSUME NEW left, IsResult(left), NEW right, IsResult(right), left.run = right.run
    PROVE  /\ Comparable(left, right)
           /\ Names(left) = Names(right)
<1>. DEFINE cutoffs == left.origin.config.top_k
<1>1. \A field \in StrictFields \cup {"chunk_hash", "query_ids"} :
          ~ StrictIssue(left, right, field)
  <2>1. \A field \in StrictFields \cup {"chunk_hash"} :
            left.manifest[field] = right.manifest[field]
    BY ResultFields, GivenFields
  <2>2. left.manifest["query_ids"] = right.manifest["query_ids"]
    BY ResultFields
  <2>3. \A field \in StrictFields \cup {"chunk_hash", "query_ids"} :
            Given(left, field) /\ Given(right, field)
    BY GivenFields
  <2>. QED
    BY <2>1, <2>2, <2>3 DEF StrictIssue
<1>2. /\ left.manifest["top_k"] = cutoffs /\ right.manifest["top_k"] = cutoffs
      /\ right.origin.config.top_k = cutoffs
  <2>1. left.manifest["top_k"] = right.manifest["top_k"]
    BY <1>1 DEF StrictIssue, StrictFields
  <2>. QED
    BY <2>1, GivenFields
<1>3. Names(left) = Names(right) /\ Names(left) # {}
  <2>1. Names(left) # {}
    BY ResultFields
  <2>. QED
    BY <2>1, GivenFields
<1>4. CommonRetrievers(left, right) = Names(left)
  BY <1>3 DEF CommonRetrievers
<1>5. \A result \in {left, right} : \A name \in Names(left) :
          /\ Shape(result, name) = SupportedMetrics \X cutoffs
          /\ QueriesOf(result, name) = Queries
          /\ result.manifest["query_ids"] = Queries
          /\ \A query \in Queries : QueryShape(result, name, query) = SupportedMetrics \X cutoffs
  <2>1. ASSUME NEW name \in Names(left)
        PROVE  /\ Shape(left, name) = SupportedMetrics \X cutoffs
               /\ QueriesOf(left, name) = Queries
               /\ left.manifest["query_ids"] = Queries
               /\ \A query \in Queries :
                      QueryShape(left, name, query) = SupportedMetrics \X cutoffs
    BY ResultFields
  <2>2. ASSUME NEW name \in Names(right)
        PROVE  /\ Shape(right, name) = SupportedMetrics \X right.origin.config.top_k
               /\ QueriesOf(right, name) = Queries
               /\ right.manifest["query_ids"] = Queries
               /\ \A query \in Queries :
                      QueryShape(right, name, query)
                          = SupportedMetrics \X right.origin.config.top_k
    BY ResultFields
  <2>. HIDE DEF cutoffs
  <2>. QED
    BY <1>2, <1>3, <2>1, <2>2
<1>. HIDE DEF cutoffs
<1>6. ~ CutoffIssue(left, right)
  <2>1. PICK metric \in SupportedMetrics : TRUE
    BY ProjectAssumption
  <2>2. {key[2] : key \in SupportedMetrics \X cutoffs} = cutoffs
    <3>1. \A k \in cutoffs : /\ <<metric, k>> \in SupportedMetrics \X cutoffs
                             /\ <<metric, k>>[2] = k
      BY <2>1
    <3>2. \A k \in cutoffs : k \in {key[2] : key \in SupportedMetrics \X cutoffs}
      BY <3>1
    <3>3. \A key \in SupportedMetrics \X cutoffs : key[2] \in cutoffs
      OBVIOUS
    <3>. QED
      BY <3>2, <3>3
  <2>. QED
    BY <1>2, <1>4, <1>5, <2>2 DEF CutoffIssue, Cutoffs
<1>7. ~ ChunkIssue(left, right) /\ ~ QueryIssue(left, right)
  BY <1>1, <1>4, <1>5 DEF ChunkIssue, QueryIssue
<1>8. ~ QueryShapeIssue(left, right) /\ ~ AggregateShapeIssue(left, right)
  BY <1>4, <1>5 DEF QueryShapeIssue, AggregateShapeIssue
<1>9. {field \in StrictFields : StrictIssue(left, right, field)} = {}
  BY <1>1
<1>10. Issues(left, right) = {}
  BY <1>3, <1>4, <1>6, <1>7, <1>8, <1>9 DEF Issues
<1>. QED
  BY <1>3, <1>10 DEF Comparable

\* The gates embedded in a result are trusted if the result was configured with
\* gates and those are the embedded ones, and for no other reason.
LEMMA Trusted ==
    ASSUME NEW result, IsResult(result)
    PROVE  LET gates == result.origin.config.gates IN
           /\ EmbeddedError(result) \in {"", "ConfigurationError"}
           /\ EmbeddedError(result) = "" <=> gates # << >> /\ EmbeddedGates(result) = gates
           /\ gates # << >> => result.manifest["quality_gate_policy_hash"] = gates
           /\ gates # << >> <=> "quality_gate_policy_hash" \in DOMAIN result.run
<1>. DEFINE gates == result.origin.config.gates
            manifest == result.manifest
            payload == RunPayload(result.origin)
<1>1. /\ result.run = payload
      /\ DOMAIN manifest = DOMAIN result.run \cup {"query_ids", "config"}
      /\ \A field \in DOMAIN result.run : manifest[field] = result.run[field]
  BY ResultFields
<1>2. DOMAIN payload = IdentityFields \ (IF gates = << >>
                                         THEN {"quality_gate_policy_hash"} ELSE {})
  BY PayloadFields
<1>3. gates # << >> => payload["quality_gate_policy_hash"] = gates
  BY PayloadFields
<1>4. payload = [field \in DOMAIN payload |-> payload[field]]
  BY DEF RunPayload, Restrict
<1>5. Comparable(result, result) /\ Range(manifest["retrievers"]) = Names(result)
  BY SameRunComparable, GivenFields
<1>6. "quality_gate_policy_hash" \in IdentityFields
  BY DEF IdentityFields
<1>. HIDE DEF gates, manifest, payload
<1>7. CASE gates = << >>
  <2>1. "quality_gate_policy_hash" \notin DOMAIN payload
    BY <1>2, <1>7
  <2>2. ~ (IdentityFields \subseteq DOMAIN manifest)
    BY <1>1, <1>6, <2>1
  <2>3. EmbeddedError(result) = "ConfigurationError"
    BY <1>5, <2>2 DEF EmbeddedError, manifest
  <2>. QED
    BY <1>1, <1>7, <2>1, <2>3 DEF gates
<1>8. CASE gates # << >>
  <2>1. DOMAIN payload = IdentityFields
    BY <1>2, <1>8
  <2>2. /\ IdentityFields \subseteq DOMAIN manifest
        /\ result.run = [field \in IdentityFields |-> manifest[field]]
        /\ manifest["quality_gate_policy_hash"] = gates
    BY <1>1, <1>3, <1>4, <1>6, <1>8, <2>1
  <2>3. EmbeddedError(result) =
            IF manifest["config"].quality_gates = << >>
               \/ manifest["config"].quality_gates # manifest["quality_gate_policy_hash"]
            THEN "ConfigurationError" ELSE ""
    BY <1>5, <2>2, Zenon DEF EmbeddedError, manifest
  <2>4. EmbeddedGates(result) = manifest["config"].quality_gates
    BY DEF EmbeddedGates, manifest
  <2>. QED
    BY <1>1, <1>6, <1>8, <2>1, <2>2, <2>3, <2>4 DEF gates, manifest
<1>. QED
  BY <1>7, <1>8

\* A result is as its run left it exactly if it embeds its own gates.
LEMMA UntouchedGates ==
    ASSUME NEW result, IsResult(result)
    PROVE  Untouched(result) <=> EmbeddedGates(result) = result.origin.config.gates
<1>. DEFINE experiment == result.origin
<1>1. ASSUME Untouched(result) PROVE EmbeddedGates(result) = experiment.config.gates
  <2>1. Manifest(experiment)["config"] = [quality_gates |-> experiment.config.gates]
    BY ManifestFields
  <2>. QED
    BY <1>1, <2>1 DEF Untouched, EmbeddedGates
<1>2. ASSUME EmbeddedGates(result) = experiment.config.gates PROVE Untouched(result)
  <2>1. result = Under(experiment, experiment.config.gates)
    BY <1>2 DEF IsResult, EmbeddedGates
  <2>2. result.manifest = Manifest(experiment)
    BY <2>1, MeasuredUnder, MeasureFields
  <2>. QED
    BY <2>2 DEF Untouched
<1>. QED
  BY <1>1, <1>2

\* Whatever a result is gated by was configured for it: the metric is there.
LEMMA GatesAvailable ==
    ASSUME NEW result, IsResult(result), NEW i \in DOMAIN result.origin.config.gates
    PROVE  LET gate == result.origin.config.gates[i] IN
           /\ Available(result, gate)
           /\ gate.key \in Timed \/ gate.key \in Shape(result, gate.retriever)
<1>. DEFINE config == result.origin.config
            gate == config.gates[i]
<1>1. /\ gate.retriever \in NamesOf(config.retrievers)
      /\ gate.key \in Timed \/ gate.key[2] \in config.top_k
      /\ gate.key \in Timed \cup (SupportedMetrics \X Nat)
  BY ResultFields DEF IsExperiment, IsConfig
<1>2. /\ gate.retriever \in Names(result) /\ HasLatency(result)
      /\ Shape(result, gate.retriever) = SupportedMetrics \X config.top_k
  BY <1>1, ResultFields
<1>. HIDE DEF config, gate
<1>3. gate.key \in Timed \/ gate.key \in SupportedMetrics \X config.top_k
  BY <1>1
<1>4. /\ Available(result, gate)
      /\ gate.key \in Timed \/ gate.key \in Shape(result, gate.retriever)
  BY <1>2, <1>3 DEF Available
<1>. QED
  BY <1>4 DEF config, gate

\* What its own gates say of a result, with a baseline under the same gates.
LEMMA OwnGates ==
    ASSUME NEW candidate, IsResult(candidate), NEW against,
           against # Missing =>
               /\ IsResult(against)
               /\ against.origin.config.gates = candidate.origin.config.gates
    PROVE  LET gates == candidate.origin.config.gates IN
           /\ against = Missing =>
                  (GateError(candidate, gates, against) # "" <=> HasDrop(gates))
           /\ against # Missing =>
                  /\ GateError(candidate, gates, against) # "ConfigurationError"
                  /\ against.run = candidate.run => GateError(candidate, gates, against) = ""
<1>. DEFINE gates == candidate.origin.config.gates
<1>1. \A i \in DOMAIN gates :
          /\ Available(candidate, gates[i])
          /\ gates[i].key \in Timed \/ gates[i].key \in Shape(candidate, gates[i].retriever)
  BY GatesAvailable
<1>2. against # Missing =>
          \A i \in DOMAIN gates : InComparison(against, candidate, gates[i])
  <2>. SUFFICES ASSUME against # Missing, NEW i \in DOMAIN gates
                PROVE  InComparison(against, candidate, gates[i])
    OBVIOUS
  <2>1. /\ Available(against, gates[i])
        /\ gates[i].key \in Timed \/ gates[i].key \in Shape(against, gates[i].retriever)
    BY GatesAvailable
  <2>2. HasLatency(against) /\ HasLatency(candidate)
    BY ResultFields
  <2>. QED
    BY <1>1, <2>1, <2>2 DEF InComparison, Available, CommonRetrievers, ComparedKeys
<1>3. against # Missing /\ against.run = candidate.run => Comparable(against, candidate)
  BY SameRunComparable
<1>. HIDE DEF gates
<1>4. CASE against = Missing
  <2>1. ~ HasDrop(gates) => \A i \in DOMAIN gates : ~ IsDrop(gates[i])
    BY DEF HasDrop
  <2>. QED
    BY <1>1, <1>4, <2>1 DEF GateError, gates
<1>5. CASE against # Missing
  BY <1>1, <1>2, <1>3, <1>5 DEF GateError, gates
<1>. QED
  BY <1>4, <1>5

\* GatedByOwnPolicy, of a candidate and the baseline it is held against.
LEMMA EmbeddedVerdicts ==
    ASSUME NEW candidate, IsResult(candidate),
           NEW against, against # Missing => IsResult(against)
    PROVE  LET found == EmbeddedVerdict(candidate, against)
               gates == candidate.origin.config.gates
           IN  /\ found.error = "" =>
                      /\ found.gates = gates
                      /\ against # Missing => against.origin.config.gates = gates
               /\ Untouched(candidate) /\ gates # << >> =>
                      /\ against = Missing => (found.error # "" <=> HasDrop(gates))
                      /\ against # Missing /\ Untouched(against) =>
                             /\ found.error = "ConfigurationError" =>
                                    against.origin.config.gates # gates
                             /\ against.run = candidate.run => found.error = ""
                      /\ against # Missing /\ ~ Untouched(against) => found.error # ""
<1>. DEFINE gates == candidate.origin.config.gates
            others == against.origin.config.gates
            found == EmbeddedVerdict(candidate, against)
            hash(result) == result.manifest["quality_gate_policy_hash"]
<1>1. /\ EmbeddedError(candidate) = "" <=> gates # << >> /\ EmbeddedGates(candidate) = gates
      /\ gates # << >> => hash(candidate) = gates
      /\ Untouched(candidate) <=> EmbeddedGates(candidate) = gates
      /\ gates # << >> <=> "quality_gate_policy_hash" \in DOMAIN candidate.run
  BY Trusted, UntouchedGates
<1>2. ASSUME against # Missing
      PROVE  /\ EmbeddedError(against) = "" <=> others # << >> /\ EmbeddedGates(against) = others
             /\ others # << >> => hash(against) = others
             /\ Untouched(against) <=> EmbeddedGates(against) = others
             /\ others # << >> <=> "quality_gate_policy_hash" \in DOMAIN against.run
             /\ others # << >> => against.run["quality_gate_policy_hash"] = others
  <2>1. IsResult(against)
    BY <1>2
  <2>2. others # << >> => RunPayload(against.origin)["quality_gate_policy_hash"] = others
    BY PayloadFields
  <2>3. against.run = RunPayload(against.origin)
    BY <2>1, ResultFields
  <2>. QED
    BY <2>1, <2>2, <2>3, Trusted, UntouchedGates
<1>3. gates # << >> => candidate.run["quality_gate_policy_hash"] = gates
  <2>1. gates # << >> => RunPayload(candidate.origin)["quality_gate_policy_hash"] = gates
    BY PayloadFields
  <2>2. candidate.run = RunPayload(candidate.origin)
    BY ResultFields
  <2>. QED
    BY <2>1, <2>2
<1>4. /\ against = Missing =>
             (GateError(candidate, gates, against) # "" <=> HasDrop(gates))
      /\ against # Missing /\ others = gates =>
             /\ GateError(candidate, gates, against) # "ConfigurationError"
             /\ against.run = candidate.run => GateError(candidate, gates, against) = ""
  BY OwnGates
<1>5. CASE against = Missing
  <2>1. /\ found.gates = EmbeddedGates(candidate)
        /\ found.error = IF EmbeddedError(candidate) # "" THEN EmbeddedError(candidate)
                         ELSE GateError(candidate, EmbeddedGates(candidate), against)
    BY <1>5 DEF EmbeddedVerdict, FirstError
  <2>. HIDE DEF found, gates
  <2>2. /\ found.error = "" => found.gates = gates
        /\ Untouched(candidate) /\ gates # << >> => (found.error # "" <=> HasDrop(gates))
    BY <1>1, <1>4, <1>5, <2>1
  <2>. QED
    BY <1>5, <2>2 DEF found, gates
<1>6. CASE against # Missing
  <2>1. /\ found.gates = EmbeddedGates(against)
        /\ found.error = IF EmbeddedError(candidate) # "" THEN EmbeddedError(candidate)
                         ELSE IF EmbeddedError(against) # "" THEN EmbeddedError(against)
                         ELSE IF hash(candidate) # hash(against) THEN "ConfigurationError"
                         ELSE GateError(candidate, EmbeddedGates(against), against)
    BY <1>6 DEF EmbeddedVerdict, FirstError
  <2>. HIDE DEF found, gates, others, hash
  <2>2. found.error = "" => found.gates = gates /\ others = gates
    BY <1>1, <1>2, <1>6, <2>1
  <2>3. ASSUME Untouched(candidate), gates # << >>
        PROVE  /\ ~ Untouched(against) => found.error # ""
               /\ Untouched(against) /\ found.error = "ConfigurationError" => others # gates
               /\ Untouched(against) /\ against.run = candidate.run => found.error = ""
    <3>1. EmbeddedError(candidate) = ""
      BY <1>1, <2>3
    <3>2. ~ Untouched(against) => EmbeddedError(against) # ""
      BY <1>2, <1>6
    <3>3. others = gates /\ Untouched(against) =>
              /\ EmbeddedError(against) = "" /\ hash(candidate) = hash(against)
              /\ EmbeddedGates(against) = gates
      BY <1>1, <1>2, <1>6, <2>3
    <3>4. against.run = candidate.run => others = gates
      BY <1>1, <1>2, <1>3, <1>6, <2>3
    <3>. QED
      BY <1>4, <1>6, <2>1, <3>1, <3>2, <3>3, <3>4
  <2>. QED
    BY <1>6, <2>2, <2>3 DEF found, gates, others
<1>. QED
  BY <1>5, <1>6

LEMMA NextGated ==
    BaseInv /\ ResultInv /\ GatedByOwnPolicy /\ [Next]_vars => GatedByOwnPolicy'
<1>. SUFFICES ASSUME BaseInv, ResultInv, GatedByOwnPolicy, [Next]_vars
              PROVE  GatedByOwnPolicy'
  OBVIOUS
<1>1. CASE verdict # Missing
  <2>1. run = Missing /\ ~ Initializing
    BY <1>1 DEF BaseInv, TemplateInv
  <2>2. ~ Next
    BY <1>1, <2>1 DEF Next, Idle, InitProject, WriteTemplate, InitStops, Edit, Start,
           SaveReport, Stop, KeepAsBaseline, Tamper, EvaluateGatesOf, CompareResults
  <2>3. UNCHANGED <<verdict, saved, baseline>>
    BY <2>2 DEF vars, projectVars
  <2>. QED
    BY <2>3 DEF GatedByOwnPolicy
<1>2. CASE verdict = Missing
  <2>1. ASSUME verdict' = verdict PROVE GatedByOwnPolicy'
    BY <1>2, <2>1 DEF GatedByOwnPolicy
  <2>2. ASSUME NEW against \in {Missing, baseline}, saved # Missing,
               EvaluateGatesOf(saved, against)
        PROVE  GatedByOwnPolicy'
    <3>1. /\ UNCHANGED <<saved, baseline>>
          /\ verdict'.command = "embedded" =>
                 /\ verdict'.gates = EmbeddedVerdict(saved, against).gates
                 /\ verdict'.error = EmbeddedVerdict(saved, against).error
          /\ verdict'.compared <=> against # Missing
      <4>1. PICK embedded \in BOOLEAN :
                LET found == IF embedded THEN EmbeddedVerdict(saved, against)
                             ELSE ConfiguredVerdict(saved, against)
                IN  verdict' = [command |-> IF embedded THEN "embedded" ELSE "configured",
                                gates |-> found.gates, error |-> found.error,
                                compared |-> against # Missing]
        BY <2>2 DEF EvaluateGatesOf
      <4>2. /\ verdict'.command = IF embedded THEN "embedded" ELSE "configured"
            /\ embedded => /\ verdict'.gates = EmbeddedVerdict(saved, against).gates
                           /\ verdict'.error = EmbeddedVerdict(saved, against).error
        BY <4>1
      <4>3. verdict'.compared <=> against # Missing
        BY <4>1, Zenon
      <4>. QED
        BY <2>2, <4>2, <4>3 DEF EvaluateGatesOf
    <3>2. IsResult(saved) /\ (against # Missing => IsResult(against))
      BY <2>2 DEF ResultInv
    <3>3. (IF verdict'.compared THEN baseline ELSE Missing) = against
      BY <2>2, <3>1
    <3>. DEFINE gates == saved.origin.config.gates
                found == EmbeddedVerdict(saved, against)
                Says(error, shown) ==
                    /\ error = "" =>
                           /\ shown = gates
                           /\ against # Missing => against.origin.config.gates = gates
                    /\ Untouched(saved) /\ gates # << >> =>
                           /\ against = Missing => (error # "" <=> HasDrop(gates))
                           /\ against # Missing /\ Untouched(against) =>
                                  /\ error = "ConfigurationError" =>
                                         against.origin.config.gates # gates
                                  /\ against.run = saved.run => error = ""
                           /\ against # Missing /\ ~ Untouched(against) => error # ""
    <3>. HIDE DEF found
    <3>4. Says(found.error, found.gates)
      BY <3>2, EmbeddedVerdicts, Zenon DEF found
    <3>5. saved' = saved /\ (IF verdict'.compared THEN baseline' ELSE Missing) = against
      BY <3>1, <3>3
    <3>. HIDE DEF gates
    <3>6. ASSUME verdict'.command = "embedded"
          PROVE  LET other == IF verdict'.compared THEN baseline' ELSE Missing
                     own == saved'.origin.config.gates
                 IN  /\ verdict'.error = "" =>
                            /\ verdict'.gates = own
                            /\ other # Missing => other.origin.config.gates = own
                     /\ Untouched(saved') /\ own # << >> =>
                            /\ other = Missing => (verdict'.error # "" <=> HasDrop(own))
                            /\ other # Missing /\ Untouched(other) =>
                                   /\ verdict'.error = "ConfigurationError" =>
                                          other.origin.config.gates # own
                                   /\ other.run = saved'.run => verdict'.error = ""
                            /\ other # Missing /\ ~ Untouched(other) => verdict'.error # ""
      <4>1. verdict'.error = found.error /\ verdict'.gates = found.gates
        BY <3>1, <3>6 DEF found
      <4>. QED
        BY <3>4, <3>5, <4>1 DEF gates
    <3>. QED
      BY <3>6 DEF GatedByOwnPolicy
  <2>3. CASE saved # Missing /\ baseline # Missing /\ CompareResults(saved, baseline)
    BY <2>3 DEF CompareResults, GatedByOwnPolicy
  <2>4. CASE \/ InitProject \/ WriteTemplate \/ InitStops \/ Edit \/ SaveReport \/ Stop
             \/ KeepAsBaseline \/ Tamper \/ UNCHANGED vars
             \/ \E options \in Options : Start(options)
    BY <2>1, <2>4 DEF InitProject, WriteTemplate, InitStops, Edit, Start, SaveReport, Stop,
           KeepAsBaseline, Tamper, vars, projectVars
  <2>. QED
    BY <2>2, <2>3, <2>4 DEF Next
<1>. QED
  BY <1>1, <1>2

\* Gates that come with a result are trusted only if they are its own, and then
\* they can be evaluated on a result that is within the command's limit, unless
\* the baseline is missing, touched or another's.
THEOREM GatedByOwnPolicyHolds == Spec => []GatedByOwnPolicy
<1>1. Init => BaseInv /\ ResultInv /\ GatedByOwnPolicy
  BY InitReports, InitBegin, InitResult DEF BaseInv, Init, GatedByOwnPolicy
<1>2. BaseInv /\ ResultInv /\ GatedByOwnPolicy /\ [Next]_vars =>
          BaseInv' /\ ResultInv' /\ GatedByOwnPolicy'
  BY NextBase, NextResult, NextGated
<1>. QED
  BY <1>1, <1>2, PTL DEF Spec
=============================================================================
