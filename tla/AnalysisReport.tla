--------------------------- MODULE AnalysisReport ---------------------------
(***************************************************************************)
(* The commands of ghalo_analyze.py, called one after the other on a tree  *)
(* of bundles to which migrations add meanwhile, and the files that report *)
(* leaves in one output directory, call over call.                         *)
(*                                                                         *)
(* An input is [kind, path]: a bundle's directory ("dir"), a directory of  *)
(* bundles ("tree"), or a result file ("json", "csv").  A file of the      *)
(* output is a tuple, and its content the number of the call that wrote it *)
(* and the measurements it shows.  What is printed is not kept: the        *)
(* properties compute it.                                                  *)
(***************************************************************************)
EXTENDS Migration, RunAnalysis

-----------------------------------------------------------------------------
(* What the trees and the calls are like. *)

\* The alphabet has all words there are, and the labels without the backend's name.
\* No label is empty, and no part of a backend's name has a count.
ASSUME WordsAssumption ==
  /\ Alphabet \in Seq(STRING) /\ Labels \in Seq(Seq(STRING))
  /\ CATEGORIES \cup {"", "none", "rocm-"} \cup DOMAIN BackendWords \subseteq ToSet(Alphabet)
  /\ \A label \in ToSet(Labels), backend \in DOMAIN BackendWords :
       normalize_label(label, backend) \in ToSet(Labels)
  /\ <<>> \notin ToSet(Labels)
  /\ \A backend \in DOMAIN BackendWords :
       ToSet(BackendWords[backend]) \cap (DOMAIN NodesIn \cup DOMAIN RanksIn) = {}
  /\ \A counts \in {NodesIn, RanksIn} : \A word \in DOMAIN counts : counts[word] \in Nat

Versions == ToSet(Alphabet) \X ToSet(Alphabet)

Paths ==
  [system : ToSet(Alphabet), version : ToSet(Alphabet), category : ToSet(Alphabet),
   name : [stamp : ToSet(Alphabet), backend : DOMAIN BackendWords, label : ToSet(Labels),
           suffix : Nat \ {0}]]

\* The phases of a result are those its backend timed, and what it made of them,
\* or there are none.
KnownPhases(r) ==
  LET Timed(names) == [i \in DOMAIN names |-> Phase(r, names[i])]
      mpiHip == Timed(<<"input_device_copy", "north_south_sync", "east_west_sync",
                        "north_south_mpi", "transpose_device_copy", "transpose_copy_sync",
                        "east_west_mpi">>)
      rccl == Timed(<<"north_south_communication", "north_south_sync", "transpose_copy",
                      "transpose_sync", "east_west_communication", "east_west_sync">>)
      streamOrdered == Timed(<<"north_south_communication_enqueue", "transpose_copy_enqueue",
                               "east_west_communication_enqueue", "final_stream_sync">>)
  IN \/ DOMAIN r.phases = {}
     \/ ToSet(mpiHip) \subseteq Nat /\ r.phases = mpi_hip_phases(mpiHip, r.seconds)
     \/ ToSet(rccl) \subseteq Nat /\ r.phases = rccl_phases(rccl, r.seconds)
     \/ ToSet(streamOrdered) \subseteq Nat
          /\ r.phases = stream_ordered_phases(streamOrdered, r.seconds)

KnownResult(r) ==
  /\ {r.halo, r.bytes, r.seconds} \subseteq Int
  /\ {r.ranks, r.rows, r.cols, r.nodes, r.perNode} \subseteq Nat
  /\ r.backend \in DOMAIN BackendRank /\ r.mode \in DOMAIN ModeRank /\ r.rocm \in Versions
  /\ KnownPhases(r)

KnownResults(file) ==
  /\ file.state \in {"read", "malformed", "mistyped"}
  /\ file.results \in Seq(ToSet(file.results))
  /\ \A r \in ToSet(file.results) : KnownResult(r)

KnownValues(values) ==
  \A key \in DOMAIN values :
    CASE key \in {"nodes", "requested_nodes", "ranks_per_node", "requested_ranks_per_node"} ->
           values[key] \in Nat
      [] key \in {"active_system", "timestamp"} -> values[key] \in ToSet(Alphabet)
      [] key \in {"rocm_version", "loaded_rocm_module"} -> values[key] \in Versions
      [] key = "backend" -> values[key] \in DOMAIN BackendWords
      [] key = "rccl_sync_mode" -> values[key] \in DOMAIN ModeRank
      [] OTHER -> TRUE

Measured(results) == {<<r.halo, r.bytes, r.seconds>> : r \in ToSet(results)}

\* ghalo.csv is written from the results and in the precision of ghalo.json.
KnownBundle(bundle) ==
  /\ \A file \in DOMAIN bundle :
       /\ file \in Results => KnownResults(bundle[file])
       /\ file \in ToSet(MetadataFiles) => KnownValues(bundle[file])
       /\ file = "slurm-job.txt" => bundle[file] \in Seq(Seq(STRING \X Nat) \ {<<>>})
  /\ Results \subseteq DOMAIN bundle /\ (\A file \in Results : bundle[file].state = "read") =>
       Measured(bundle["ghalo.json"].results) = Measured(bundle["ghalo.csv"].results)

\* The flat layout has no suffixes, and a bundle whose label says a mode has the
\* backend in its name that made it.
KnownFlat(path, bundle) ==
  LET saysMode == ToSet(path.name.label) \cap {"stream-ordered", "conservative"} # {}
  IN /\ path.name.suffix = 1
     /\ path.name.stamp # "unknown" /\ saysMode =>
          infer_bundle(path, bundle).backend = path.name.backend

ASSUME TreesAssumption ==
  \A c \in Commands :
    /\ IsFiniteSet(DOMAIN c.tree) /\ DOMAIN c.tree \subseteq Paths
    /\ \A path \in DOMAIN c.tree : KnownBundle(c.tree[path])
    /\ \A path \in DOMAIN c.tree : path.version = "" => KnownFlat(path, c.tree[path])

\* What argparse lets through.
ASSUME CallsAssumption ==
  \A c \in Commands :
    /\ c.calls \in Seq(ToSet(c.calls))
    /\ \A k \in ToSet(c.calls) :
         /\ k.command \in {"summarize", "compare", "aggregate", "scaling", "plot", "report"}
         /\ k.baseline.kind \in {"path", "nodes", "smallest"}
         /\ k.inputs \in Seq(ToSet(k.inputs)) /\ k.inputs # <<>>

-----------------------------------------------------------------------------
VARIABLES
  calls,      \* all the calls, in order
  current,    \* the number of the call at hand, or of the next
  phase,      \* "idle", "load", "loaded", "write" or "exited"
  inputs,     \* the bundles and files to load
  runs,       \* those loaded
  todo,       \* outputs of the report still to be written
  skipped,    \* outputs it skipped
  out,        \* the files of the output directory
  status      \* exit status of the call

analysisVars == <<calls, current, phase, inputs, runs, todo, skipped, out, status>>

call == calls[current]

-----------------------------------------------------------------------------
(* Inputs *)

Under(dir, path) ==
  /\ path.system = dir.system
  /\ dir.version \in {"", path.version} /\ dir.category \in {"", path.category}

InOrder(paths) ==
  LET Before(p, q) == Precedes(PathKey(p), PathKey(q)) IN Ordered(paths, Before)

\* A directory without results stands for the bundles below it with ghalo.json,
\* for those with ghalo.csv if there are none.
Expanded(input) ==
  LET Having(file) == {p \in DOMAIN tree : Under(input.path, p) /\ file \in DOMAIN tree[p]}
      found == InOrder(IF Having("ghalo.json") # {} THEN Having("ghalo.json")
                       ELSE Having("ghalo.csv"))
  IN IF input.kind # "tree" \/ found = <<>> THEN <<input>>
     ELSE [i \in DOMAIN found |-> [kind |-> "dir", path |-> found[i]]]

\* The files that are read; an explicit ghalo.csv is read beside a ghalo.json.
View(input) ==
  [file \in DOMAIN tree[input.path] \ (IF input.kind = "csv" THEN {"ghalo.json"} ELSE {})
     |-> tree[input.path][file]]

\* A directory that does not exist is an AnalysisError, a file is not.
Outcome(input) ==
  IF input.kind = "tree" THEN "error"
  ELSE IF input.path \notin DOMAIN tree THEN IF input.kind = "dir" THEN "error" ELSE "crash"
  ELSE IF input.kind = "json" /\ "ghalo.json" \notin DOMAIN tree[input.path] THEN "crash"
  ELSE IF input.kind = "csv" /\ "ghalo.csv" \notin DOMAIN tree[input.path] THEN "crash"
  ELSE load_run(View(input))

Loaded(input) == RunAt(input.path, View(input))

Directory(path) == [kind |-> "dir", path |-> path]

-----------------------------------------------------------------------------
(* What the commands make of their runs *)

\* "ok", or how choose_baseline fails.
BaselineOutcome(rs) ==
  CASE call.baseline.kind = "path" ->
         IF Outcome(Directory(call.baseline.path)) = "loaded" THEN "ok"
         ELSE Outcome(Directory(call.baseline.path))
    [] call.baseline.kind = "nodes" ->
         IF \E i \in DOMAIN rs : rs[i].nodes = call.baseline.nodes THEN "ok" ELSE "error"
    [] call.baseline.kind = "smallest" -> "ok"

choose_baseline(rs) ==
  CASE call.baseline.kind = "path" -> Loaded(Directory(call.baseline.path))
    [] call.baseline.kind = "nodes" -> rs[Min({i \in DOMAIN rs : rs[i].nodes = call.baseline.nodes})]
    [] call.baseline.kind = "smallest" -> smallest_nodes(rs)

\* The two runs have the same sizes, of the same bytes.
CanPlotDifference(rs) == Len(rs) = 2 /\ Sizes(rs[1]) = Sizes(rs[2])

\* command_plot: what it checks, in turn.  The ticks of a scaling plot are
\* converted to int, which raises a ValueError for ranks that are not known.
\* The directory of the output is there, and can be written.
PlotOutcome(kind, rs) ==
  LET axis == choose_scaling_x_axis(rs, call.xAxis)
      baseline == BaselineOutcome(rs)
  IN IF call.labels \notin {0, Len(rs)} THEN "error"
     ELSE IF axis = "error" THEN "error"
     ELSE IF kind = "percent-difference" /\ ~CanPlotDifference(rs) THEN "error"
     ELSE IF ~call.matplotlib THEN "error"
     ELSE IF kind = "phase" /\ ~rs[1].phase_timing_enabled THEN "error"
     ELSE IF kind # "scaling" THEN "ok"
     ELSE IF baseline # "ok" THEN baseline
     ELSE IF axis = "ranks" /\ \E row \in scaling_rows(rs, choose_baseline(rs)) : row.ranks = 0
     THEN "crash" ELSE "ok"

\* The plots load the bundles of their runs again, by directory.
PlotAgain(kind, rs) ==
  LET again == [i \in DOMAIN rs |-> Directory(rs[i].path)]
      bad == {i \in DOMAIN again : Outcome(again[i]) # "loaded"}
  IN IF bad # {} THEN Outcome(again[Min(bad)])
     ELSE PlotOutcome(kind, [i \in DOMAIN again |-> Loaded(again[i])])

Slug(run) == <<run.backend, run.rccl_sync_mode, run.nodes, run.ranks>>

Request(file, kind, rs) == [file |-> file, kind |-> kind, runs |-> rs]

\* Fault: provenance.json is written first as well.
OpeningWithProvenance(rs) ==
  <<Request(<<"provenance.json">>, "table", rs),
    Request(<<"summary.csv">>, "table", rs), Request(<<"summary.json">>, "table", rs),
    Request(<<"summary.md">>, "table", rs), Request(<<"scaling.csv">>, "baseline", rs),
    Request(<<"comparison.csv">>, "comparison", rs)>>

Opening(rs) ==
  <<Request(<<"summary.csv">>, "table", rs), Request(<<"summary.json">>, "table", rs),
    Request(<<"summary.md">>, "table", rs), Request(<<"scaling.csv">>, "baseline", rs),
    Request(<<"comparison.csv">>, "comparison", rs)>>

\* The outputs of a report on rs, which are in output order, in turn.
RequestsWith(pairs, rs) ==
  LET Pair(name, n, kind) ==
        LET a == rs[pairs[n][1]]
            b == rs[pairs[n][2]]
        IN Request(<<name, n, Slug(a), Slug(b)>>, kind, <<a, b>>)
      timed == Chosen(rs, {i \in DOMAIN rs : rs[i].phase_timing_enabled})
  IN Opening(rs)
     \o [n \in DOMAIN pairs |-> Pair("pair.csv", n, "table")]
     \o <<Request(<<"latency.png">>, "latency", rs),
          Request(<<"effective-rate.png">>, "effective-rate", rs),
          Request(<<"scaling.png">>, "scaling", rs)>>
     \o (IF Len(rs) = 2
         THEN <<Request(<<"percent-difference.png">>, "percent-difference", rs)>> ELSE <<>>)
     \o [n \in DOMAIN pairs |-> Pair("pair.png", n, "percent-difference")]
     \o [n \in DOMAIN timed |-> Request(IF Len(timed) = 1 THEN <<"phase.png">>
                                        ELSE <<"phase.png", n, Slug(timed[n])>>,
                                        "phase", <<timed[n]>>)]
     \o <<Request(<<"provenance.json">>, "table", rs), Request(<<"report.md">>, "table", rs)>>

Requests(rs) == RequestsWith(percent_difference_pairs(rs), rs)

\* An output is written or skipped, or the report ends: an AnalysisError is
\* caught where a comparison or a plot is made, not around the baseline.
RequestOutcome(q) ==
  CASE q.kind = "table" -> "ok"
    [] q.kind = "baseline" -> BaselineOutcome(q.runs)
    [] q.kind = "comparison" ->
         IF Len(q.runs) = 2 /\ Halos(q.runs[1]) = Halos(q.runs[Len(q.runs)]) THEN "ok" ELSE "skip"
    [] OTHER -> IF PlotAgain(q.kind, q.runs) = "error" THEN "skip"
                ELSE PlotAgain(q.kind, q.runs)

ExitOf(outcome) == CASE outcome = "ok" -> 0 [] outcome = "error" -> 2 [] outcome = "crash" -> 1

\* The exit status of a command that only prints.
PrintedStatus ==
  CASE call.command = "summarize" -> 0
    [] call.command = "compare" ->
         IF Len(runs) # 2 THEN 1
         ELSE IF ~CanCompare(runs[1], runs[2], call.allowMissing) THEN 2
         ELSE IF call.failOnRegression
                   /\ Regressed(compare_rows(runs[1], runs[2], call.allowMissing), call.percent)
         THEN 1 ELSE 0
    [] call.command = "aggregate" ->
         IF CanAggregate(sorted_runs_for_output(runs), call.allowMixed, call.groupBy) THEN 0 ELSE 2
    [] call.command = "scaling" -> ExitOf(BaselineOutcome(sorted_runs_for_output(runs)))
    [] call.command = "plot" ->
         LET rs == IF call.kind = "percent-difference" THEN runs ELSE sorted_runs_for_output(runs)
         IN ExitOf(PlotOutcome(call.kind, rs))

-----------------------------------------------------------------------------
ReportInit ==
  \E c \in Commands :
    /\ MigrationInitOf(c)
    /\ calls = c.calls
    /\ current = 1 /\ phase = "idle" /\ status = 0
    /\ inputs = <<>> /\ runs = <<>> /\ todo = <<>> /\ skipped = {}
    /\ out = [file \in {} |-> {}]

\* load_runs first finds all bundles, then loads them.
Expand ==
  /\ phase = "idle" /\ current <= Len(calls)
  /\ inputs' = FlattenSeq([i \in DOMAIN call.inputs |-> Expanded(call.inputs[i])])
  /\ runs' = <<>> /\ skipped' = {} /\ status' = 0
  /\ phase' = "load"
  /\ UNCHANGED <<calls, current, todo, out>>

Exit(code) == phase' = "exited" /\ status' = code

\* Fault: an input that cannot be loaded is left out, if one before it was.
LoadOrLeaveOut ==
  /\ phase = "load" /\ Len(runs) < Len(inputs)
  /\ LET input == inputs[Len(runs) + 1]
     IN IF Outcome(input) = "loaded"
        THEN runs' = Append(runs, Loaded(input)) /\ UNCHANGED <<inputs, phase, status>>
        ELSE IF runs # <<>>
        THEN inputs' = SelectSeq(inputs, LAMBDA x : x # input) /\ UNCHANGED <<runs, phase, status>>
        ELSE Exit(2) /\ UNCHANGED <<inputs, runs>>
  /\ UNCHANGED <<calls, current, todo, skipped, out>>

\* One input that cannot be loaded ends the call.
Load ==
  /\ phase = "load" /\ Len(runs) < Len(inputs)
  /\ LET input == inputs[Len(runs) + 1]
     IN CASE Outcome(input) = "loaded" ->
               runs' = Append(runs, Loaded(input)) /\ UNCHANGED <<phase, status>>
          [] Outcome(input) = "error" -> Exit(2) /\ UNCHANGED runs
          [] Outcome(input) = "crash" -> Exit(1) /\ UNCHANGED runs
  /\ UNCHANGED <<calls, current, inputs, todo, skipped, out>>

AllLoaded ==
  /\ phase = "load" /\ Len(runs) = Len(inputs)
  /\ phase' = "loaded"
  /\ UNCHANGED <<calls, current, inputs, runs, todo, skipped, out, status>>

\* A plot is written to a file of its own, which is not kept here.
PrintRows ==
  /\ phase = "loaded" /\ call.command # "report"
  /\ Exit(PrintedStatus)
  /\ UNCHANGED <<calls, current, inputs, runs, todo, skipped, out>>

\* The output directory must be one, or become one, that can be written to.
BeginReport ==
  /\ phase = "loaded" /\ call.command = "report"
  /\ IF call.writable
     THEN todo' = Requests(sorted_runs_for_output(runs)) /\ phase' = "write" /\ UNCHANGED status
     ELSE Exit(2) /\ UNCHANGED todo
  /\ UNCHANGED <<calls, current, inputs, runs, skipped, out>>

\* The measurements a file shows, by bundle.
Shown(rs) ==
  [call |-> current, runs |-> {<<rs[i].path, Measured(rs[i].results)>> : i \in DOMAIN rs}]

\* What a request shows: a plot the bundles as they are now.
Content(q) ==
  IF q.kind \in {"table", "baseline", "comparison"} THEN Shown(q.runs)
  ELSE Shown([i \in DOMAIN q.runs |-> Loaded(Directory(q.runs[i].path))])

\* What is skipped is noted for provenance.json and report.md.
Attend(q, outcome) ==
  /\ out' = IF outcome = "ok" THEN With(out, q.file, Content(q)) ELSE out
  /\ skipped' = IF outcome = "skip" THEN skipped \cup {q.file} ELSE skipped
  /\ IF outcome \in {"error", "crash"} THEN Exit(ExitOf(outcome))
     ELSE IF Len(todo) = 1 THEN Exit(0) ELSE UNCHANGED <<phase, status>>

WriteOutput ==
  /\ phase = "write"
  /\ Attend(Head(todo), RequestOutcome(Head(todo)))
  /\ todo' = Tail(todo)
  /\ UNCHANGED <<calls, current, inputs, runs>>

\* The user interrupts the call.
Interrupt ==
  /\ phase \in {"load", "write"}
  /\ Exit(130)
  /\ UNCHANGED <<calls, current, inputs, runs, todo, skipped, out>>

NextCall ==
  /\ phase = "exited" /\ current < Len(calls)
  /\ current' = current + 1
  /\ phase' = "idle"
  /\ UNCHANGED <<calls, inputs, runs, todo, skipped, out, status>>

Analyse ==
  \/ Expand \/ Load \/ AllLoaded \/ PrintRows \/ BeginReport \/ WriteOutput \/ Interrupt
  \/ NextCall

Terminating ==
  /\ \A m \in Migrations : state[m] \in {"done", "failed", "killed"}
  /\ IF calls = <<>> THEN phase = "idle" ELSE phase = "exited" /\ current = Len(calls)
  /\ UNCHANGED <<migrationVars, analysisVars>>

Next ==
  \/ MigrationNext /\ UNCHANGED analysisVars
  \/ Analyse /\ UNCHANGED migrationVars
  \/ Terminating

Spec == ReportInit /\ [][Next]_<<migrationVars, analysisVars>>

-----------------------------------------------------------------------------
(* Properties. *)

\* The states of the migrations and of the calls; what is loaded is valid.
TypeOK ==
  /\ state \in [Migrations -> {"walk", "make", "copy", "done", "failed", "killed"}]
  /\ \A m \in Migrations : state[m] = "copy" => dest[m] \in DOMAIN tree
  /\ phase \in {"idle", "load", "loaded", "write", "exited"} /\ status \in {0, 1, 2, 130}
  /\ Len(runs) <= Len(inputs)
  /\ \A i \in DOMAIN runs : Valid(runs[i].results)
  /\ phase = "write" => todo # <<>>

\* A copy is read like the flat bundle it was made of: the same results, nodes,
\* ranks, mode, time and system, and a version where the original had one.  It
\* is a copy for which a version was found and whose name was free
\* (infer_bundle and unique_destination against infer_path_metadata).
CopyReadsLikeOriginal ==
  \A m \in Migrations : \A x \in copies[m] :
    x[1].version = "" /\ x[2].version # "none" /\ x[2].name.suffix = 1
      /\ load_run(tree[x[1]]) = "loaded" =>
        LET original == RunAt(x[1], tree[x[1]])
            copy == RunAt(x[2], tree[x[2]])
        IN /\ <<copy.results, copy.nodes, copy.ranks, copy.ranks_per_node, copy.system,
               copy.rccl_sync_mode, copy.timestamp>>
                = <<original.results, original.nodes, original.ranks, original.ranks_per_node,
                    original.system, original.rccl_sync_mode, original.timestamp>>
           /\ original.rocm_version # NoVersion => copy.rocm_version = original.rocm_version

SaysNodes(run) ==
  {Value(run.bundle, "result-metadata.txt", "requested_nodes", 0), run.results[1].nodes,
   Value(run.bundle, "submission.txt", "nodes", 0), SlurmNodes(run),
   Value(run.bundle, "environment.txt", "nodes", 0), path_metadata(run).nodes} \ {0}

SaysPerNode(run) ==
  {run.results[1].perNode, Value(run.bundle, "result-metadata.txt", "requested_ranks_per_node", 0),
   meta_value(run, "ranks_per_node", 0)} \ {0}

\* Nodes are never guessed from ranks alone: something says how many there are,
\* or how many ranks each has.  If one number is all that is said, the other
\* that follows from it divides the ranks (nodes and ranks_per_node).
NodesAreEvidenced ==
  phase = "loaded" =>
    \A i \in DOMAIN runs :
      LET n == runs[i].nodes
          perNode == runs[i].ranks_per_node
          said == Cardinality(SaysNodes(runs[i])) + Cardinality(SaysPerNode(runs[i]))
      IN /\ n # 0 \/ perNode # 0 => said # 0
         /\ said = 1 /\ n # 0 /\ perNode # 0 => n * perNode = runs[i].ranks

RowsAddUp(rows) ==
  LET CountOf(h) == SumFunction([i \in DOMAIN rows |-> IF rows[i].halo = h THEN rows[i].count ELSE 0])
  IN /\ \A h \in UNION {Halos(runs[i]) : i \in DOMAIN runs} :
          CountOf(h) = Cardinality({i \in DOMAIN runs : h \in Halos(runs[i])})
     /\ \A i \in DOMAIN rows :
          /\ 100 * rows[i].minimum <= rows[i].q1 /\ rows[i].q1 <= 50 * rows[i].median2
          /\ 50 * rows[i].median2 <= rows[i].q3 /\ rows[i].q3 <= 100 * rows[i].maximum

\* Every result is in one row of an aggregate, whose quartiles lie around the
\* median between minimum and maximum; unless groups are asked for, no group
\* has runs of different bytes, ranks or backends.
AggregatesAddUp ==
  phase = "loaded" /\ call.command = "aggregate" =>
    LET groups == Groups(sorted_runs_for_output(runs), call.allowMixed, call.groupBy)
    IN /\ RowsAddUp(aggregate_rows(groups))
       /\ call.groupBy = {} =>
            \A n \in DOMAIN groups : \A a, b \in ToSet(groups[n]) :
              Sizes(a) = Sizes(b) /\ a.ranks = b.ranks /\ a.backend = b.backend

\* The order of the output, and so the baseline, the pairs and the groups, does
\* not depend on the order of the arguments.  The baseline has the fewest nodes
\* of the runs whose nodes are known, its own rows have the ratio one, and no row
\* of a node axis lacks its nodes.
RunsInOrder ==
  phase = "loaded" /\ Cardinality({runs[i].path : i \in DOMAIN runs}) = Len(runs) =>
    LET ordered == sorted_runs_for_output(runs)
        baseline == smallest_nodes(ordered)
        rows == scaling_rows(runs, baseline)
    IN /\ sorted_runs_for_output(Reverse(runs)) = ordered
       /\ \A i \in DOMAIN runs : runs[i].nodes # 0 => baseline.nodes \in 1 .. runs[i].nodes
       /\ baseline.nodes = 0 => \A i \in DOMAIN runs : baseline.ranks <= runs[i].ranks
       /\ \A h \in Halos(baseline) : \E row \in rows :
            row.halo = h /\ row.seconds = row.base /\ row.nodes = baseline.nodes
       /\ choose_scaling_x_axis(runs, "auto") = "nodes" => \A row \in rows : row.nodes # 0

\* The pair files of a report: any two bundles that measured the same sizes on
\* the same nodes, ranks and version are compared once, and no others.
PairsAreComparable ==
  phase = "loaded" =>
    LET ordered == sorted_runs_for_output(runs)
        pairs == percent_difference_pairs(ordered)
        Comparable(a, b) ==
          /\ Sizes(a) = Sizes(b) /\ a.nodes = b.nodes /\ a.ranks = b.ranks
          /\ a.rocm_version = b.rocm_version /\ a.system = b.system
          /\ a.cartesian = b.cartesian
    IN \A i, j \in DOMAIN ordered :
         i < j /\ ordered[i].path # ordered[j].path =>
           Cardinality({n \in DOMAIN pairs : {pairs[n][1], pairs[n][2]} = {i, j}})
             = IF Comparable(ordered[i], ordered[j]) THEN 1 ELSE 0

\* Every phase a backend times is in one category, under whichever of its names,
\* so that the categories and the remainder make up the exchange; but for the
\* enqueue phases of stream-ordered RCCL, which are in none.
CategoriesMakeUpExchange ==
  phase = "loaded" =>
    \A i \in DOMAIN runs : \A r \in ToSet(runs[i].results) :
      DOMAIN r.phases # {} =>
        LET c == phase_categories(r)
            enqueue == Phase(r, "north_south_communication_enqueue")
                         + Phase(r, "transpose_copy_enqueue")
                         + Phase(r, "east_west_communication_enqueue")
        IN c.device_copy + c.communication + c.synchronization + c.remainder + enqueue = r.seconds

\* A call that ends well, or has written anything, has loaded all it was given:
\* each bundle and file, and of a tree each flat bundle with ghalo.json.  A report
\* that ends well has written each output or noted that it skipped it, and has
\* compared two runs just if they have the same sizes.
AllAccountedFor ==
  LET endsWell == phase = "exited" /\ status = 0
      Written(file) == file \in DOMAIN out /\ out[file].call = current
      Given(input) ==
        IF input.kind = "tree"
        THEN {p \in DOMAIN tree : Under(input.path, p) /\ p.version = ""
                                    /\ "ghalo.json" \in DOMAIN tree[p]}
        ELSE {input.path}
  IN /\ endsWell \/ (\E f \in DOMAIN out : Written(f)) =>
          \A i \in DOMAIN call.inputs :
            Given(call.inputs[i]) \subseteq {runs[k].path : k \in DOMAIN runs}
     /\ endsWell /\ call.command = "report" =>
          /\ \A q \in ToSet(Requests(sorted_runs_for_output(runs))) :
               Written(q.file) <=> q.file \notin skipped
          /\ Written(<<"comparison.csv">>) <=>
               Len(runs) = 2 /\ Halos(runs[1]) = Halos(runs[Len(runs)])

Plots == {"latency.png", "effective-rate.png", "scaling.png", "percent-difference.png",
          "pair.png", "phase.png"}

\* Whatever ended the calls, provenance.json and report.md are not of a later
\* call than the tables beside them, and with those of the same call they name
\* the runs the tables show.  The plots, which load their bundles again, show
\* results that the summary of the same call lists, though bundles are added to
\* the tree meanwhile.
FilesAreOfOneReport ==
  /\ \A file \in {<<"provenance.json">>, <<"report.md">>} \cap DOMAIN out :
       \A table \in {<<"summary.csv">>, <<"summary.json">>, <<"summary.md">>, <<"scaling.csv">>} :
         /\ table \in DOMAIN out
         /\ out[table].call >= out[file].call
         /\ out[table].call = out[file].call => out[table].runs = out[file].runs
  /\ \A file \in DOMAIN out :
       file[1] \in Plots /\ out[file].call = out[<<"summary.csv">>].call =>
         out[file].runs \subseteq out[<<"summary.csv">>].runs

=============================================================================
