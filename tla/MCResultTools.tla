--------------------------- MODULE MCResultTools ---------------------------
(***************************************************************************)
(* Model-checking instances of AnalysisReport: migrations that run at once *)
(* or beside a report, and calls on bundles that nobody adds to.           *)
(***************************************************************************)
EXTENDS AnalysisReport

CONSTANTS m1, m2

Both == {m1, m2}

WordNodes == ("2node" :> 2) @@ ("3node" :> 3)
WordRanks == ("8rank" :> 8)

\* Each field of a sort key has its values in order.
Ascii == <<"", "6.4.2", "7.0.2", "t1", "t2", "t3", "frontier", "mpi_hip", "mpi", "none",
           "phase-timing", "rccl", "repeatability", "rocm-", "rocm/", "scaling", "unknown",
           "validation">>

AllLabels == <<<<"2node", "8rank">>, <<"8rank", "2node">>, <<"mpi", "run">>, <<"rccl", "rccl", "run">>,
               <<"rccl", "run">>, <<"run">>, <<"run", "conservative">>>>

Name(stamp, b, label) == [stamp |-> stamp, backend |-> b, label |-> label, suffix |-> 1]
Flat(name) == [system |-> "frontier", version |-> "", category |-> "", name |-> name]
Versioned(version, name) ==
  [system |-> "frontier", version |-> version, category |-> "repeatability", name |-> name]

NoPhases == [name \in {} |-> 0]

Result(halo, bytes, seconds) ==
  [halo |-> halo, bytes |-> bytes, seconds |-> seconds, backend |-> "rccl", ranks |-> 8,
   rows |-> 2, cols |-> 4, nodes |-> 0, perNode |-> 0, rocm |-> NoVersion, mode |-> "",
   validation |-> FALSE, phases |-> NoPhases]

Json(results) == "ghalo.json" :> [state |-> "read", results |-> results]
Csv(results) == "ghalo.csv" :> [state |-> "read", results |-> results]
Metadata(values) == "result-metadata.txt" :> values

Usual == <<Result(1, 10, 4), Result(2, 20, 6)>>

Idle == [m \in Both |-> [args |-> <<>>, apply |-> FALSE]]

Dir(path) == [kind |-> "dir", path |-> path]
Tree == [kind |-> "tree", path |-> Flat(Name("", "", <<>>))]

Call(command, ins) ==
  [command |-> command, inputs |-> ins, baseline |-> [kind |-> "smallest"], xAxis |-> "auto",
   matplotlib |-> TRUE, labels |-> 0, allowMissing |-> FALSE, failOnRegression |-> TRUE,
   percent |-> 20, allowMixed |-> FALSE, groupBy |-> {}, kind |-> "scaling", writable |-> TRUE]

Calling(t, cs) == [tree |-> t, run |-> Idle, calls |-> cs]

-----------------------------------------------------------------------------
\* Migrations.  X and Y of one stamp have one destination, Z is a CPU run that
\* left only CSV, W has a version only in its metadata.
X == Flat(Name("t1", "rccl", <<"rccl", "rccl", "run">>))
Y == Flat(Name("t1", "rccl", <<"run">>))
Z == Flat(Name("t2", "mpi", <<"8rank", "2node">>))
W == Flat(Name("unknown", "unknown", <<"mpi", "run">>))

Rocm(results, version) == [i \in DOMAIN results |-> [results[i] EXCEPT !.rocm = version]]
On(results, b) == [i \in DOMAIN results |-> [results[i] EXCEPT !.backend = b]]

OfX == Json(Rocm(Usual, <<"", "7.0.2">>)) @@ Metadata("requested_nodes" :> 2)
OfY == Json(Rocm(<<Result(1, 10, 5)>>, <<"", "7.0.2">>)) @@ Csv(<<Result(1, 10, 5)>>)
OfZ == Csv(On(Usual, "mpi")) @@ Metadata("result_category" :> "scaling")
OfW == Json(On(Usual, "mpi")) @@ Metadata("loaded_rocm_module" :> <<"rocm/", "6.4.2">>)

AllOf(applied) == [args |-> <<[kind |-> "dir", path |-> Flat(Name("", "", <<>>))]>>, apply |-> applied]
Of(paths) == [args |-> [i \in DOMAIN paths |-> [kind |-> "bundle", path |-> paths[i]]], apply |-> TRUE]

Copied1 == Versioned("7.0.2", Y.name)

Migrating(t, first, second, cs) ==
  [tree |-> t, run |-> (m1 :> first) @@ (m2 :> second), calls |-> cs]

MigrationCommands ==
  {Migrating(X :> OfX @@ Y :> OfY, AllOf(TRUE), AllOf(TRUE), <<>>),
   Migrating(X :> OfX @@ Y :> OfY @@ Z :> OfZ @@ W :> OfW, AllOf(TRUE), AllOf(FALSE), <<>>),
   Migrating(W :> OfW @@ Z :> OfZ @@ Y :> OfY, Of(<<W, Y>>), Of(<<Z>>), <<>>),
   Migrating(X :> OfX, Of(<<X>>), [args |-> <<[kind |-> "dir", path |-> Copied1]>>, apply |-> TRUE], <<>>),
   Migrating(X :> OfX @@ Y :> OfY, Of(<<X, Y>>), Of(<<>>), <<Call("report", <<Tree>>)>>),
   Migrating(X :> OfX @@ Y :> OfY, Of(<<X>>), Of(<<Y>>), <<Call("report", <<Dir(Copied1)>>)>>)}

\* A copy of each flat bundle there may be, one at a time.
OneBundle ==
  {[path |-> Flat(Name(stamp, b, label)),
    files |-> Json(On(Rocm(Usual, version), b)) @@ Metadata(values)]
     : stamp \in {"t1", "unknown"}, b \in {"rccl", "mpi"},
       label \in ToSet(AllLabels), version \in {NoVersion, <<"", "7.0.2">>},
       values \in {"requested_nodes" :> 3, "rocm_version" :> <<"rocm-", "6.4.2">>,
                   "loaded_rocm_module" :> <<"rocm/", "6.4.2">>}}

CopyCommands ==
  {Migrating(x.path :> x.files, Of(<<x.path>>), Of(<<>>), <<>>) : x \in OneBundle}

-----------------------------------------------------------------------------
\* Every combination of what says how many nodes, and ranks per node, there are.
Key(key, n) == IF n = 0 THEN [k \in {} |-> 0] ELSE key :> n

EvidenceCommands ==
  {Calling(Flat(Name("t1", "rccl", label)) :>
             (Json(<<[Result(1, 10, 4) EXCEPT !.nodes = n, !.perNode = per, !.ranks = r]>>)
                @@ Metadata(Key("requested_nodes", requested) @@ Key("requested_ranks_per_node", requestedPer))
                @@ "submission.txt" :> Key("nodes", submitted)
                @@ "slurm-job.txt" :> lines),
           <<Call("scaling", <<Dir(Flat(Name("t1", "rccl", label)))>>)>>)
     : label \in {<<"run">>, <<"2node", "8rank">>}, n \in {0, 3}, per \in {0, 4}, r \in {0, 8},
       requested \in {0, 2}, requestedPer \in {0, 3}, submitted \in {0, 2},
       lines \in {<<<<<<"job", 1>>>>>>, <<<<<<"job", 1>>, <<"nodes", 3>>>>>>,
                  <<<<<<"job", 1>>>>, <<<<"nodes", 3>>, <<"cpus", 9>>>>>>}}

\* Exchanges of each backend whose phases took no time or two units.
Sum(v) == FoldLeft(+, 0, v)
PhaseResults ==
  {[Result(1, 10, Sum(v) + 3) EXCEPT !.backend = "mpi_hip", !.phases = mpi_hip_phases(v, Sum(v) + 3)]
     : v \in [1 .. 7 -> {0, 2}]}
  \cup {[Result(1, 10, Sum(v) + 3) EXCEPT !.phases = rccl_phases(v, Sum(v) + 3)] : v \in [1 .. 6 -> {0, 2}]}
  \cup {[Result(1, 10, Sum(v) + 3) EXCEPT !.phases = stream_ordered_phases(v, Sum(v) + 3)]
          : v \in [1 .. 4 -> {0, 2}]}

PhaseCommands ==
  {Calling(X :> Json(<<r>>), <<Call("plot", <<Dir(X)>>)>>) : r \in PhaseResults}

-----------------------------------------------------------------------------
\* Two and three bundles, of which one varies.
Variants ==
  {Json(Usual), Csv(Usual), Json(<<Result(1, 10, 4)>>), Json(<<Result(1, 10, 9), Result(2, 20, 5)>>),
   Json(<<Result(1, 11, 3), Result(2, 20, 6)>>), Json(On(Usual, "mpi")),
   Json(Rocm(Usual, <<"", "6.4.2">>)), Json(<<Result(3, 30, 2)>>),
   Json(Usual) @@ Metadata("requested_nodes" :> 2), Json(Usual) @@ Metadata("requested_nodes" :> 3),
   Json([i \in DOMAIN Usual |-> [Usual[i] EXCEPT !.ranks = 0]]),
   Json([i \in DOMAIN Usual |-> [Usual[i] EXCEPT !.mode = "conservative"]]),
   Json([i \in DOMAIN Usual |-> [Usual[i] EXCEPT !.phases = rccl_phases(<<1, 0, 1, 0, 1, 0>>, Usual[i].seconds)]]),
   "ghalo.json" :> [state |-> "malformed", results |-> <<>>],
   "ghalo.json" :> [state |-> "mistyped", results |-> <<>>],
   Json(<<Result(1, 10, 4), Result(1, 10, 5)>>), Json(<<>>), Metadata("requested_nodes" :> 2)}

V1 == Flat(Name("t2", "rccl", <<"run">>))
V2 == Versioned("7.0.2", Name("t2", "rccl", <<"run">>))
P == Flat(Name("t3", "rccl", <<"run">>))

Options(command, ins) ==
  LET c == Call(command, ins)
  IN CASE command = "aggregate" ->
            {c, [c EXCEPT !.allowMixed = TRUE], [c EXCEPT !.allowMixed = TRUE, !.groupBy = {"nodes", "ranks"}],
             [c EXCEPT !.allowMixed = TRUE, !.groupBy = {"system", "backend"}]}
       [] command = "compare" -> {c, [c EXCEPT !.allowMissing = TRUE], [c EXCEPT !.percent = 0]}
       [] command = "scaling" ->
            {c, [c EXCEPT !.baseline = [kind |-> "nodes", nodes |-> 2]],
             [c EXCEPT !.baseline = [kind |-> "path", path |-> V1]]}
       [] command = "plot" ->
            {c, [c EXCEPT !.xAxis = "nodes"], [c EXCEPT !.kind = "phase"], [c EXCEPT !.labels = 2],
             [c EXCEPT !.kind = "percent-difference"], [c EXCEPT !.matplotlib = FALSE]}
       [] OTHER -> {c}

Arguments ==
  {<<Dir(V1), Dir(P)>>, <<Dir(P), Dir(V1)>>, <<Tree>>, <<Dir(V1), Dir(V2), Dir(P)>>,
   <<[kind |-> "json", path |-> V1], Dir(V2)>>, <<[kind |-> "csv", path |-> V1], Dir(V1)>>}

CallCommands ==
  UNION {{Calling(V1 :> variant @@ V2 :> Json(Usual) @@ P :> Json(Usual), <<c>>)
            : variant \in Variants, c \in Options(command, ins)}
           : command \in {"aggregate", "compare", "scaling", "plot", "summarize"}, ins \in Arguments}
  \cup {Calling(V1 :> Csv(Usual) @@ P :> Csv(Usual), <<Call("compare", <<Tree>>)>>)}

-----------------------------------------------------------------------------
\* Reports, also a second one into the directory of the first.
Reports(ins) ==
  LET c == Call("report", ins)
  IN {c, [c EXCEPT !.matplotlib = FALSE], [c EXCEPT !.xAxis = "nodes"], [c EXCEPT !.writable = FALSE],
      [c EXCEPT !.xAxis = "ranks"], [c EXCEPT !.baseline = [kind |-> "nodes", nodes |-> 2]]}

ReportCommands ==
  UNION {{Calling(V1 :> variant @@ V2 :> Json(Usual) @@ P :> Json(Usual), <<c>>) : c \in Reports(ins)}
           : variant \in Variants, ins \in {<<Dir(V1), Dir(P)>>, <<Dir(P), Dir(V1), Dir(V2)>>}}
  \cup {Calling(V1 :> Json(Usual) @@ P :> Json(Usual) @@ V2 :> Json(<<Result(1, 10, 4)>>),
                <<Call("report", <<Dir(V1), Dir(P)>>), second>>)
          : second \in Reports(<<Dir(P), Dir(V2)>>) \cup Reports(<<Tree>>)}

AllCommands ==
  MigrationCommands \cup CopyCommands \cup EvidenceCommands \cup PhaseCommands
    \cup CallCommands \cup ReportCommands

=============================================================================
