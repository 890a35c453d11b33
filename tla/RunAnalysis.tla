----------------------------- MODULE RunAnalysis -----------------------------
(***************************************************************************)
(* What ghalo_analyze.py computes from result bundles: how a bundle is     *)
(* loaded, what is known of its run, the order of runs, comparisons,       *)
(* aggregates, scaling tables and phase categories.                        *)
(*                                                                         *)
(* A run is [path, bundle, results].  A result has halo, bytes (per rank), *)
(* seconds (an integer), backend, ranks, rows, cols, nodes, perNode, rocm, *)
(* mode, phases.  A count that is not known is 0.  Keys with aliases, like *)
(* nodes and SLURM_JOB_NUM_NODES, are one key.  slurm-job.txt is its lines *)
(* of <<key, value>> tokens.                                               *)
(***************************************************************************)
EXTENDS ResultPaths, Statistics, FiniteSets, TLC

CONSTANTS
  Alphabet,    \* the strings of paths and versions, in their order
  Labels       \* the labels, in their order

Position(sequence, x) == CHOOSE i \in DOMAIN sequence : sequence[i] = x

-----------------------------------------------------------------------------
(* Loading *)

\* The files and the results they have; ghalo.json is preferred.
Source(bundle) ==
  IF "ghalo.json" \in DOMAIN bundle THEN bundle["ghalo.json"] ELSE bundle["ghalo.csv"]

\* validate_run: one size once, times above zero, one number of ranks.
Valid(results) ==
  /\ results # <<>>
  /\ \A i, j \in DOMAIN results : results[i].halo = results[j].halo => i = j
  /\ \A i \in DOMAIN results : results[i].seconds > 0 /\ results[i].ranks = results[1].ranks

\* "loaded", "error" for an AnalysisError, or "crash" for the ValueError of a
\* field that is no number, which main does not catch.
load_run(bundle) ==
  IF DOMAIN bundle \cap {"ghalo.json", "ghalo.csv"} = {} THEN "error"
  ELSE IF Source(bundle).state = "mistyped" THEN "crash"
  ELSE IF Source(bundle).state = "malformed" \/ ~Valid(Source(bundle).results) THEN "error"
  ELSE "loaded"

-----------------------------------------------------------------------------
(* What is known of a run *)

MetadataFiles ==
  <<"system-resolution.txt", "submission.txt", "environment.txt", "git.txt",
    "command.txt", "result-metadata.txt">>

\* The value of the first file that has the key.
meta_value(run, key, default) ==
  LET having == {i \in DOMAIN MetadataFiles :
        MetadataFiles[i] \in DOMAIN run.bundle /\ key \in DOMAIN run.bundle[MetadataFiles[i]]}
  IN IF having = {} THEN default ELSE run.bundle[MetadataFiles[Min(having)]][key]

\* A line is first read as one key and the rest as its value, which is a number
\* only if the line ends there; the tokens of the lines are read after that.
SlurmNodes(run) ==
  IF "slurm-job.txt" \notin DOMAIN run.bundle THEN 0
  ELSE LET lines == run.bundle["slurm-job.txt"]
           first == {i \in DOMAIN lines : lines[i][1][1] = "nodes"}
           tokens == FlattenSeq(lines)
           later == {i \in DOMAIN tokens : tokens[i][1] = "nodes"}
       IN IF first # {} THEN IF Len(lines[Max(first)]) = 1 THEN lines[Max(first)][1][2] ELSE 0
          ELSE IF later # {} THEN tokens[Max(later)][2] ELSE 0

\* The first count that is known.
FirstCount(counts) ==
  IF \A i \in DOMAIN counts : counts[i] = 0 THEN 0
  ELSE counts[Min({i \in DOMAIN counts : counts[i] # 0})]

\* Fault: the quotient is taken though it leaves a remainder.
QuotientRounded(a, b) == IF b = 0 THEN 0 ELSE a \div b

Quotient(a, b) == IF b = 0 THEN 0 ELSE IF a % b = 0 THEN a \div b ELSE 0

path_metadata(run) == infer_path_metadata(run.path)

ranks(run) == FirstCount(<<run.results[1].ranks, path_metadata(run).ranks>>)

nodes_without_derivation(run) ==
  FirstCount(<<run.results[1].nodes, Value(run.bundle, "submission.txt", "nodes", 0),
               SlurmNodes(run), Value(run.bundle, "environment.txt", "nodes", 0)>>)

\* The number of nodes requested is not looked at here, nor the path.
ranks_per_node(run) ==
  FirstCount(<<run.results[1].perNode,
               Value(run.bundle, "result-metadata.txt", "requested_ranks_per_node", 0),
               meta_value(run, "ranks_per_node", 0),
               Quotient(ranks(run), nodes_without_derivation(run))>>)

nodes(run) ==
  FirstCount(<<Value(run.bundle, "result-metadata.txt", "requested_nodes", 0),
               nodes_without_derivation(run), path_metadata(run).nodes,
               Quotient(ranks(run), ranks_per_node(run))>>)

system(run) == meta_value(run, "active_system", run.path.system)

rocm_version(run) ==
  FirstVersion(<<run.results[1].rocm, meta_value(run, "rocm_version", NoVersion),
                 path_metadata(run).rocm>>)

rccl_sync_mode(run) ==
  IF run.results[1].mode # "" THEN run.results[1].mode
  ELSE meta_value(run, "rccl_sync_mode", path_metadata(run).mode)

timestamp(run) == meta_value(run, "timestamp", path_metadata(run).stamp)

\* A run with the values of the properties above.
RunAt(path, bundle) ==
  LET run == [path |-> path, bundle |-> bundle, results |-> Source(bundle).results]
  IN [path |-> path, bundle |-> bundle, results |-> run.results,
      nodes |-> nodes(run), ranks |-> ranks(run), ranks_per_node |-> ranks_per_node(run),
      system |-> system(run), backend |-> run.results[1].backend,
      rocm_version |-> rocm_version(run), rccl_sync_mode |-> rccl_sync_mode(run),
      timestamp |-> timestamp(run),
      cartesian |-> <<run.results[1].rows, run.results[1].cols>>,
      phase_timing_enabled |-> \E i \in DOMAIN run.results : DOMAIN run.results[i].phases # {}]

-----------------------------------------------------------------------------
(* Order *)

BackendRank == [mpi_hip |-> 0, rccl |-> 1, mpi |-> 2]
ModeRank ==
  [mode \in {"", "conservative", "stream-ordered"} |->
     IF mode = "" THEN 0 ELSE IF mode = "conservative" THEN 1 ELSE 2]

\* A count that is not known comes after those that are.
CountKey(n) == IF n = 0 THEN <<1, 0>> ELSE <<0, n>>

Spelled(version) == <<Position(Alphabet, version[1]), Position(Alphabet, version[2])>>

PathKey(path) ==
  <<Position(Alphabet, path.system), Position(Alphabet, path.version),
    Position(Alphabet, path.category), Position(Alphabet, path.name.stamp),
    Position(Alphabet, path.name.backend), Position(Labels, path.name.label), path.name.suffix>>

\* Fault: the path is not in the key.
run_output_sort_key_without_path(run) ==
  <<Position(Alphabet, run.system)>> \o Spelled(run.rocm_version)
    \o <<BackendRank[run.backend], ModeRank[run.rccl_sync_mode]>>
    \o CountKey(run.nodes) \o CountKey(run.ranks) \o <<Position(Alphabet, run.timestamp)>>

run_output_sort_key(run) ==
  <<Position(Alphabet, run.system)>> \o Spelled(run.rocm_version)
    \o <<BackendRank[run.backend], ModeRank[run.rccl_sync_mode]>>
    \o CountKey(run.nodes) \o CountKey(run.ranks) \o <<Position(Alphabet, run.timestamp)>>
    \o PathKey(run.path)

sorted_runs_for_output(runs) ==
  LET key == [i \in DOMAIN runs |-> run_output_sort_key(runs[i])]
      Before(i, j) == Precedes(key[i], key[j]) \/ (key[i] = key[j] /\ i < j)
      order == Ordered(DOMAIN runs, Before)
  IN [n \in DOMAIN runs |-> runs[order[n]]]

Halos(run) == {run.results[i].halo : i \in DOMAIN run.results}

\* The result of a size.
At(run, halo) == CHOOSE r \in ToSet(run.results) : r.halo = halo

\* The sizes of runs, by the fewest bytes they have in one of them.
SizesInOrder(runs) ==
  LET all == {<<r.bytes, r.halo>> : r \in UNION {ToSet(runs[i].results) : i \in DOMAIN runs}}
      fewest == {x \in all : \A y \in all : y[2] = x[2] => x[1] <= y[1]}
  IN Ordered(fewest, Precedes)

-----------------------------------------------------------------------------
(* Comparison of two runs *)

\* Without the system of the build, the commit and the target time, which no
\* other definition looks at.
configuration_signature(run) ==
  <<run.system, run.backend, run.ranks, run.nodes, run.ranks_per_node, run.cartesian,
    run.phase_timing_enabled>>

CanCompare(a, b, allowMissing) == allowMissing \/ Halos(a) = Halos(b)

\* The rows, by size; a size that one of them lacks has no times.
compare_rows(a, b, allowMissing) ==
  {[halo |-> h,
    missing |-> IF h \notin Halos(a) THEN "A" ELSE IF h \notin Halos(b) THEN "B" ELSE "",
    a |-> IF h \in Halos(a) \cap Halos(b) THEN At(a, h).seconds ELSE 0,
    b |-> IF h \in Halos(a) \cap Halos(b) THEN At(b, h).seconds ELSE 0,
    differs |-> configuration_signature(a) # configuration_signature(b)]
     : h \in Halos(a) \cup Halos(b)}

\* --fail-on-regression: some size is slower by more than percent.  One that a
\* run lacks counts as unchanged.
Regressed(rows, percent) ==
  \E row \in rows : IF row.missing = "" THEN 100 * (row.b - row.a) > percent * row.a
                    ELSE 0 > percent

Sizes(run) == {<<r.halo, r.bytes>> : r \in ToSet(run.results)}

percent_difference_pair_key(run) ==
  <<run.system, run.rocm_version, run.nodes, run.ranks, run.cartesian, Sizes(run)>>

\* Fault: the places of equal keys are paired both ways.
AfterOrBefore(i, j) == i # j

After(i, j) == i < j

\* Two of the runs, in output order, of equal keys (so that their sizes and bytes
\* are the same); a bundle that was given twice is not paired with itself.
percent_difference_pairs(ordered) ==
  LET key == [i \in DOMAIN ordered |-> percent_difference_pair_key(ordered[i])]
      Same(i, j) == /\ ordered[i].backend = ordered[j].backend
                    /\ ordered[i].rccl_sync_mode = ordered[j].rccl_sync_mode
                    /\ ordered[i].path = ordered[j].path
      Makes(p) == After(p[1], p[2]) /\ key[p[1]] = key[p[2]] /\ ~Same(p[1], p[2])
  IN Ordered({p \in (DOMAIN ordered) \X (DOMAIN ordered) : Makes(p)}, Precedes)

-----------------------------------------------------------------------------
(* Aggregates *)

\* Fault: the byte counts are not compared.
compatibility_key_without_bytes(run) ==
  <<run.backend, run.ranks, run.nodes, run.cartesian, run.rocm_version,
    run.rccl_sync_mode, run.phase_timing_enabled>>

\* The system has no part in it.
compatibility_key(run) ==
  <<run.backend, run.ranks, run.nodes, run.cartesian, run.rocm_version,
    run.rccl_sync_mode, run.phase_timing_enabled, Sizes(run)>>

\* The fields of --group-by in the order given, then mode and version.
grouping_key(run, groupBy) ==
  <<[f \in groupBy |-> CASE f = "system" -> Position(Alphabet, run.system)
                         [] f = "backend" -> BackendRank[run.backend]
                         [] f = "nodes" -> run.nodes
                         [] f = "ranks" -> run.ranks],
    run.rccl_sync_mode, run.rocm_version>>

KeyOf(run, allowMixed, groupBy) ==
  IF allowMixed /\ groupBy # {} THEN <<"grouped", grouping_key(run, groupBy)>>
  ELSE <<"compatible", compatibility_key(run)>>

\* The groups, each a sequence of runs, in the order of their first runs.
InGroups(ordered, key) ==
  LET firsts == Ascending({i \in DOMAIN ordered : \A j \in 1 .. i - 1 : key[j] # key[i]})
  IN [n \in DOMAIN firsts |-> Chosen(ordered, {j \in DOMAIN ordered : key[j] = key[firsts[n]]})]

\* The groups of runs that are in output order.
Groups(ordered, allowMixed, groupBy) ==
  InGroups(ordered, [i \in DOMAIN ordered |-> KeyOf(ordered[i], allowMixed, groupBy)])

CanAggregate(ordered, allowMixed, groupBy) ==
  allowMixed \/ Len(Groups(ordered, allowMixed, groupBy)) = 1

\* The row of a size that some run of group number n has.  Twice the median,
\* and 100 times the quartiles, are kept as integers.
AggregateRow(n, group, halo) ==
  LET having == Chosen(group, {k \in DOMAIN group : halo \in Halos(group[k])})
      values == [k \in DOMAIN having |-> At(having[k], halo).seconds]
  IN [group |-> n, halo |-> halo, count |-> Len(values),
      minimum |-> Min(ToSet(values)), maximum |-> Max(ToSet(values)),
      sum |-> SumFunction(values), median2 |-> MedianTwice(values),
      q1 |-> Percentile100(values, 25), q3 |-> Percentile100(values, 75)]

aggregate_rows(groups) ==
  LET Rows(n) == LET sizes == SizesInOrder(groups[n])
                 IN [k \in DOMAIN sizes |-> AggregateRow(n, groups[n], sizes[k][2])]
  IN FlattenSeq([n \in DOMAIN groups |-> Rows(n)])

-----------------------------------------------------------------------------
(* Scaling *)

\* The first of the fewest nodes, then ranks; by ranks if no nodes are known.
smallest_nodes(runs) ==
  LET known == {i \in DOMAIN runs : runs[i].nodes # 0}
      Key(i) == IF known # {} THEN <<runs[i].nodes, runs[i].ranks>> ELSE <<0, runs[i].ranks>>
      candidates == IF known # {} THEN known ELSE DOMAIN runs
  IN runs[CHOOSE i \in candidates : \A j \in candidates :
            Precedes(Key(i), Key(j)) \/ (Key(i) = Key(j) /\ i <= j)]

\* A row for each result whose size the baseline has, with the base's seconds.
scaling_rows(runs, baseline) ==
  LET ordered == sorted_runs_for_output(runs)
      Row(i, r) ==
        [run |-> i, nodes |-> ordered[i].nodes, ranks |-> ordered[i].ranks, halo |-> r.halo,
         seconds |-> r.seconds, base |-> At(baseline, r.halo).seconds]
      Shared(i) == {r \in ToSet(ordered[i].results) : r.halo \in Halos(baseline)}
  IN UNION {{Row(i, r) : r \in Shared(i)} : i \in DOMAIN ordered}

\* "nodes", "ranks", or "error" if nodes are asked for and not all known.
choose_scaling_x_axis(runs, requested) ==
  LET known == \A i \in DOMAIN runs : runs[i].nodes # 0
  IN CASE requested = "ranks" -> "ranks"
       [] requested = "nodes" -> IF known THEN "nodes" ELSE "error"
       [] requested = "auto" -> IF known THEN "nodes" ELSE "ranks"

-----------------------------------------------------------------------------
(* Phases *)

Phase(r, name) == IF name \in DOMAIN r.phases THEN r.phases[name] ELSE 0

\* What the backends write: the phases timed, v, under their names, the exchange
\* as a whole and what the phases leave of it.
WithTotal(phases, v, total) ==
  [name \in DOMAIN phases
             \cup {"total_exchange", "total_minus_sum_of_phase_maxima", "unattributed"} |->
     IF name \in DOMAIN phases THEN phases[name]
     ELSE IF name = "total_exchange" THEN total ELSE total - SumFunction(v)]

mpi_hip_phases(v, total) ==
  WithTotal(
    [input_device_copy |-> v[1], north_south_sync |-> v[2], east_west_sync |-> v[3],
     north_south_mpi |-> v[4], transpose_device_copy |-> v[5],
     transpose_copy_sync |-> v[6], east_west_mpi |-> v[7],
     north_south_communication |-> v[4], transpose_copy |-> v[5],
     transpose_sync |-> v[6], east_west_communication |-> v[7]], v, total)

rccl_phases(v, total) ==
  WithTotal(
    [north_south_communication |-> v[1], north_south_sync |-> v[2], transpose_copy |-> v[3],
     transpose_sync |-> v[4], east_west_communication |-> v[5], east_west_sync |-> v[6]], v, total)

stream_ordered_phases(v, total) ==
  WithTotal(
    [north_south_communication_enqueue |-> v[1], transpose_copy_enqueue |-> v[2],
     east_west_communication_enqueue |-> v[3], final_stream_sync |-> v[4]], v, total)

HasGenericPhase(r) ==
  \E name \in {"north_south_communication", "transpose_copy", "transpose_sync",
               "east_west_communication", "north_south_communication_enqueue",
               "transpose_copy_enqueue", "east_west_communication_enqueue",
               "final_stream_sync", "total_exchange"} : Phase(r, name) # 0

\* Fault: a value under two names counts twice.
Plus(a, b) == a + b

\* What an old and a generic name both stand for: the generic value if not zero.
Or(a, b) == IF a # 0 THEN a ELSE b

phase_categories(r) ==
  LET northSouth == Or(Phase(r, "north_south_communication"), Phase(r, "north_south_mpi"))
      copy == Or(Phase(r, "transpose_copy"), Phase(r, "transpose_device_copy"))
      sync == Or(Phase(r, "transpose_sync"), Phase(r, "transpose_copy_sync"))
      eastWest == Or(Phase(r, "east_west_communication"), Phase(r, "east_west_mpi"))
  IN [device_copy |-> Phase(r, "input_device_copy") + copy,
      communication |-> northSouth + eastWest,
      mpi |-> Phase(r, "north_south_mpi") + Phase(r, "east_west_mpi"),
      synchronization |-> Phase(r, "north_south_sync") + sync + Phase(r, "east_west_sync")
                            + Phase(r, "final_stream_sync"),
      remainder |-> Phase(r, IF HasGenericPhase(r) THEN "total_minus_sum_of_phase_maxima"
                             ELSE "unattributed")]

=============================================================================
