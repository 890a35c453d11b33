----------------------------- MODULE StallTools -----------------------------
(***************************************************************************)
(* The two programs over stall summaries: analyze_iteration_stalls.py      *)
(* reports the directories it is given, compare_rccl_versions.py compares  *)
(* exactly one run of each ROCm version.  Both find their directories,     *)
(* analyse them one by one (StallAnalysis, whose steps are taken here) and *)
(* then write their three reports over those of an earlier call.           *)
(*                                                                         *)
(* Tree maps the paths under which result directories can be reached to    *)
(* the directories; two paths may lead to one directory (Resolve).  For    *)
(* the comparison a directory also has requested and observed, as in       *)
(* result-metadata.txt, pathVersion and named, the versions in its path    *)
(* and in its name, and per result rccl, conservative, version, validated, *)
(* library and average.  Versions are spelled with a prefix.  job is what  *)
(* the ranks measured and intact whether the files are all that was        *)
(* written of it: the properties use them, the tools do not.               *)
(***************************************************************************)
EXTENDS StallAnalysis, StallRecords

CONSTANTS
  Calls,          \* the calls considered: records [tool, tree, args, override]
  Resolve(_),     \* the directory a path leads to, symbolic links followed
  Missing         \* an argument that is no path

\* The ranks of a job agree on the phases they time, in whole microseconds.
IsJob(job) ==
  /\ job.recorded \in Int
  /\ IsFiniteSet(DOMAIN job.local) /\ DOMAIN job.local \subseteq Nat \X Nat
  /\ \A s \in DOMAIN job.local :
       LET first == job.local[s][1]
       IN /\ IsFiniteSet(DOMAIN first) /\ 0 \in DOMAIN first
          /\ DOMAIN first = 0 .. Cardinality(DOMAIN first) - 1
          /\ DOMAIN first[0] \subseteq ToSet(PhaseColumns)
          /\ job.local[s] \in Seq([DOMAIN first -> [DOMAIN first[0] -> Nat]]) \ {<<>>}

\* Files may be damaged, but iteration-times.csv has no iteration twice.
IsDirectory(d) ==
  /\ IsJob(d.job)
  /\ \A s \in {d.results, d.times, d.phases, d.rows} : s \in Seq(ToSet(s))
  /\ d.threshold \in Int
  /\ \A r \in ToSet(d.results) :
       r.key \in Nat \X Nat /\ r.iterations \in Nat /\ r.average \in Nat
  /\ \A r \in ToSet(d.times) : r.at \in Nat \X Nat \X Nat /\ r.us \in Nat
  /\ \A i, j \in DOMAIN d.times : d.times[i].at = d.times[j].at => i = j
  /\ d.intact =>
       /\ \A k \in Kinds : d.state[k] = "present"
       /\ d.times = TimeRecords(d.job) /\ d.phases = PhaseRecords(d.job)
       /\ d.rows = RankRows(d.job)
       /\ Keys(d) = DOMAIN d.job.local
       /\ \A r \in ToSet(d.results) : r.iterations = Len(d.job.local[r.key])

\* A call is of one of the tools and its paths lead to directories.
CallsAssumption ==
  \A c \in Calls :
    LET given == {i \in DOMAIN c.args : c.args[i] # Missing}
        Reached(paths) ==
          paths \in Seq(ToSet(paths)) /\ \A p \in ToSet(paths) : Resolve(p) \in DOMAIN c.tree.dir
    IN /\ c.tool \in {"stalls", "versions"}
       /\ c.override # NoOverride => c.override \in Int
       /\ c.args \in Seq(ToSet(c.args))
       /\ Reached(c.tree.paths) /\ \A i \in given : Reached(c.args[i])
       /\ \A p \in DOMAIN c.tree.dir : IsDirectory(c.tree.dir[p])

ASSUME CallsAssumption

VARIABLES
  call,       \* the call of this process
  pc,         \* "find", "analyse", "write" or "exited"
  todo,       \* paths still to analyse
  done,       \* what the analysed ones gave, in order
  reports,    \* reports[i]: "old" or "new", the content of the i-th file
  status      \* exit status, 0 until an error

vars == <<caseVars, call, pc, todo, done, reports, status>>

-----------------------------------------------------------------------------
VERSION_ORDER == <<"6.4.2", "7.0.2", "7.2.0">>
EXPECTED_CODES ==
  [version \in {"6.4.2", "7.0.2", "7.2.0"} |->
     CASE version = "6.4.2" -> "22203" [] version = "7.0.2" -> "22606" [] OTHER -> "22707"]

\* A spelled version is <<prefix, number>>, <<"", "">> when there is none.
normalize_rocm(spelled) == spelled[2]

\* The first path of each directory, in order.
unique_paths(paths) ==
  Chosen(paths, {i \in DOMAIN paths : \A j \in 1 .. i - 1 : Resolve(paths[j]) # Resolve(paths[i])})

\* Without arguments: the runs of the matrix, version by version, or those of
\* the category.
discover_result_dirs(c) ==
  LET paths == c.tree.paths
      Of(version) == Chosen(paths, {i \in DOMAIN paths :
        /\ c.tree.dir[Resolve(paths[i])].pathVersion[2] = version
        /\ c.tree.dir[Resolve(paths[i])].named = version})
  IN unique_paths(IF c.tool = "versions"
                  THEN FlattenSeq([v \in DOMAIN VERSION_ORDER |-> Of(VERSION_ORDER[v])])
                  ELSE paths)

\* An argument is the sequence of the result directories found under it.
result_dirs(c) ==
  IF c.args = <<>> THEN discover_result_dirs(c) ELSE unique_paths(FlattenSeq(c.args))

infer_version(d) ==
  LET named == SelectSeq(<<d.requested, d.results[1].version, d.pathVersion>>,
                         LAMBDA v : v[2] # "")
  IN IF named = <<>> THEN "" ELSE normalize_rocm(named[1])

\* Fault: the version of the results themselves is not looked at.
validate_payload_of_first(d, version) ==
  /\ version \in DOMAIN EXPECTED_CODES
  /\ d.observed \in {"", EXPECTED_CODES[version]}
  /\ \A i \in DOMAIN d.results : d.results[i].rccl /\ d.results[i].conservative

\* A result of another backend, mode or version, or a library whose code is
\* not that of the version, is refused; what is not recorded is not.
validate_payload(d, version) ==
  /\ version \in DOMAIN EXPECTED_CODES
  /\ d.observed \in {"", EXPECTED_CODES[version]}
  /\ \A i \in DOMAIN d.results :
       /\ d.results[i].rccl
       /\ normalize_rocm(d.results[i].version) \in {"", version}
       /\ d.results[i].conservative

\* One scan of ascending iterations: <<lengths so far, current, previous>>.
Scan(iterations) ==
  LET scan[n \in 0 .. Len(iterations)] ==
        IF n = 0 THEN <<<<>>, 0, 0>>
        ELSE LET run == scan[n - 1]
                 i == iterations[n]
             IN IF run[2] = 0 \/ i = run[3] + 1 THEN <<run[1], run[2] + 1, i>>
                ELSE <<Append(run[1], run[2]), 1, i>>
  IN scan[Len(iterations)]

\* Fault: the run that reaches the last stall is dropped.
RunsBeforeLast(iterations) == Scan(iterations)[1]

\* The lengths of the runs of consecutive numbers.
Runs(iterations) == Append(Scan(iterations)[1], Scan(iterations)[2])

event_lengths(records) ==
  LET samples == Ordered({SampleOf(records[i]) : i \in DOMAIN records}, Precedes)
      Iterations(s) ==
        Ascending({records[i].at[3] : i \in {j \in DOMAIN records : SampleOf(records[j]) = s}})
  IN FlattenSeq([n \in DOMAIN samples |-> Runs(Iterations(samples[n]))])

\* Twice the median of the averages of the samples without a stall, of all
\* samples when every one has some.
sample_fast_median(d, records) ==
  LET stalled == {SampleOf(records[i]) : i \in DOMAIN records}
      Averages(chosen) == [i \in DOMAIN chosen |-> chosen[i].average]
      fast == Chosen(d.results, {i \in DOMAIN d.results : d.results[i].key \notin stalled})
  IN MedianTwice(Averages(IF fast # <<>> THEN fast ELSE d.results))

summarize_result(path, d, s) ==
  LET version == infer_version(d)
      lengths == event_lengths(s.affected)
  IN [result_dir |-> path,
      version |-> version,
      \* What the report calls the observed code.
      observed |-> IF d.observed # "" THEN d.observed
                   ELSE IF d.results[1].library THEN EXPECTED_CODES[version] ELSE "",
      stalls |-> s.stalls,
      events |-> Len(lengths),
      lengths |-> lengths,
      phaseCounts |-> [name \in {s.breakdown[at].name : at \in DOMAIN s.breakdown} |->
                         Cardinality({at \in DOMAIN s.breakdown : s.breakdown[at].name = name})],
      fastMedian |-> sample_fast_median(d, s.affected),
      validated |-> \A i \in DOMAIN d.results : d.results[i].validated,
      dir |-> d, case |-> s]

-----------------------------------------------------------------------------
ToolsInit ==
  /\ Init
  /\ call \in Calls
  /\ pc = "find" /\ todo = <<>> /\ done = <<>>
  /\ reports = [i \in 1 .. 3 |-> "old"] /\ status = 0

\* Every error is caught in main, printed, and ends the program.
Fail ==
  /\ pc' = "exited" /\ status' = 1
  /\ UNCHANGED <<call, todo, done, reports>>

\* An argument that does not exist ends the call, and so does the absence of
\* directories in the stall report; the comparison finds its versions missing.
Find ==
  /\ pc = "find"
  /\ IF \/ \E i \in DOMAIN call.args : call.args[i] = Missing
        \/ call.tool = "stalls" /\ result_dirs(call) = <<>>
     THEN Fail
     ELSE /\ todo' = result_dirs(call)
          /\ pc' = "analyse"
          /\ UNCHANGED <<call, done, reports, status>>
  /\ UNCHANGED caseVars

\* load_json and validate_payload, which the comparison calls first.
Acceptable(d) == Len(d.results) > 0 /\ validate_payload(d, infer_version(d))

Current == call.tree.dir[Resolve(Head(todo))]

CallAnalyse ==
  /\ pc = "analyse" /\ todo # <<>> /\ step = "idle"
  /\ IF call.tool = "versions" /\ ~Acceptable(Current)
     THEN Fail /\ UNCHANGED caseVars
     ELSE Load(Current, call.override) /\ UNCHANGED <<call, pc, todo, done, reports, status>>

InAnalyse ==
  /\ pc = "analyse"
  /\ Analyse
  /\ UNCHANGED <<call, pc, todo, done, reports, status>>

\* The list comprehension of main goes on with the next directory.
Returned ==
  /\ pc = "analyse" /\ step = "returned"
  /\ done' = Append(done, IF call.tool = "versions"
                          THEN summarize_result(Head(todo), dir, summary)
                          ELSE [result_dir |-> Head(todo), case |-> summary, dir |-> dir])
  /\ todo' = Tail(todo)
  /\ step' = "idle"
  /\ UNCHANGED <<dir, threshold, next, stalls, affected, phasesAt, rowsAt, breakdown,
                 warnings, summary, call, pc, reports, status>>

\* Fault: a directory that cannot be analysed is left out.
RaisedSkipping ==
  /\ pc = "analyse" /\ step = "raised"
  /\ todo' = Tail(todo) /\ step' = "idle"
  /\ UNCHANGED <<dir, threshold, next, stalls, affected, phasesAt, rowsAt, breakdown,
                 warnings, summary, call, pc, done, reports, status>>

Raised ==
  /\ pc = "analyse" /\ step = "raised"
  /\ Fail
  /\ UNCHANGED caseVars

Versions == {done[i].version : i \in DOMAIN done}

\* validate_complete_matrix: one summary of each version, in VERSION_ORDER.
Collected ==
  /\ pc = "analyse" /\ todo = <<>> /\ step = "idle"
  /\ IF call.tool = "stalls"
     THEN pc' = "write" /\ UNCHANGED <<call, todo, done, reports, status>>
     ELSE IF Cardinality(Versions) < Len(done) \/ ~(ToSet(VERSION_ORDER) \subseteq Versions)
     THEN Fail
     ELSE /\ done' = [v \in DOMAIN VERSION_ORDER |->
                       CHOOSE s \in ToSet(done) : s.version = VERSION_ORDER[v]]
          /\ pc' = "write"
          /\ UNCHANGED <<call, todo, reports, status>>
  /\ UNCHANGED caseVars

\* write_outputs: Markdown, CSV and JSON in turn; the file system may refuse.
WriteReport ==
  /\ pc = "write"
  /\ \/ \E i \in DOMAIN reports :
          /\ reports[i] = "old" /\ \A j \in 1 .. i - 1 : reports[j] = "new"
          /\ reports' = [reports EXCEPT ![i] = "new"]
          /\ pc' = IF i = Len(reports) THEN "exited" ELSE "write"
          /\ UNCHANGED <<call, todo, done, status>>
     \/ Fail
  /\ UNCHANGED caseVars

Terminating == pc = "exited" /\ UNCHANGED vars

Next ==
  \/ Find \/ CallAnalyse \/ InAnalyse \/ Returned \/ Raised \/ Collected
  \/ WriteReport \/ Terminating

Spec == ToolsInit /\ [][Next]_vars

-----------------------------------------------------------------------------
(* Properties. *)

Finished == step = "returned" /\ dir.intact

\* The stalls that the job had.
JobStalls(d) ==
  {at \in UNION {{Append(s, i) : i \in DOMAIN d.job.local[s]} : s \in DOMAIN d.job.local} :
     Total(d.job, SubSeq(at, 1, 2), at[3]).us >= threshold}

\* With every file of the job there, and a threshold not below the one the job
\* recorded with, the summary has the job's stalls, each once: the same
\* iterations, an S for the samples that have one, one class per such sample,
\* nearly all slow only with nine stalls in ten and always with ten, and the
\* longest stall-free sequence that there is.
\* (benchmark.cpp filters what is written, analyze_case filters it again.)
StallsAreTheJobs ==
  Finished /\ (dir.job.recorded = 0 \/ threshold >= dir.job.recorded) =>
    LET Of(s) == {at \in JobStalls(dir) : SubSeq(at, 1, 2) = s}
        NearlyAll(tenths) == Cardinality({s \in DOMAIN dir.job.local :
          /\ Cardinality(Of(s)) > 1
          /\ 10 * Cardinality(Of(s)) >= tenths * Len(dir.job.local[s])})
        markers == summary.sequence
        Free(n) == \E i \in 0 .. Len(markers) - n : \A j \in i + 1 .. i + n : markers[j] = "F"
    IN /\ {summary.affected[i].at : i \in DOMAIN summary.affected} = JobStalls(dir)
       /\ summary.stalls = Cardinality(JobStalls(dir))
       /\ \A i \in DOMAIN markers : (markers[i] = "S") <=> Of(Samples(dir.job)[i]) # {}
       /\ summary.isolated + summary.multiple + summary.nearlyAll = summary.withStalls
       /\ NearlyAll(10) <= summary.nearlyAll /\ summary.nearlyAll <= NearlyAll(9)
       /\ summary.longestFree <= Len(markers) /\ Free(summary.longestFree)
       /\ summary.longestFree < Len(markers) => ~Free(summary.longestFree + 1)

\* Of an event reported as local to a node, a row or a column, that place has
\* all the slow ranks and every rank elsewhere was fast; a collective-wide one
\* left at most a fifth of the job's ranks fast (analyze_rank_records).
LocalityIsTheJobs ==
  Finished =>
    \A at \in DOMAIN summary.events :
      LET s == SubSeq(at, 1, 2)
          ranks == DOMAIN dir.job.local[s][at[3]]
          Fast(r) == 10 * LocalTotal(dir.job, s, at[3], r) < 8 * Total(dir.job, s, at[3]).us
          OnlyAt(place) == \E p \in {place[r] : r \in ranks} :
                             \A r \in ranks : Fast(r) \/ place[r] = p
          locality == summary.events[at].locality
      IN /\ locality = "node-localized" => OnlyAt(Host)
         /\ locality = "row-localized" => OnlyAt(Row)
         /\ locality = "column-localized" => OnlyAt(Col)
         /\ locality = "mixed" => ~OnlyAt(Host) /\ ~OnlyAt(Row) /\ ~OnlyAt(Col)
         /\ locality = "collective-wide" <=>
              5 * Cardinality({r \in ranks : Fast(r)}) <= Cardinality(ranks)

\* What the report says of phases is so of the job.  The dominant phase of each
\* stalled iteration is the one whose slowest rank took longest, its local
\* values reach that time on the rank named (the alias table has every phase);
\* the matches are the stalls whose slowest rank is the slowest of that phase
\* too; the cause is the category of more than half of them, if there is one,
\* and no other iteration has a part in it.
PhasesAreTheJobs ==
  Finished =>
    LET ofStall == summary.breakdown
        Local(at) == dir.job.local[SubSeq(at, 1, 2)][at[3]]
        Slowest(at, name) == MaxLoc([r \in DOMAIN Local(at) |-> Local(at)[r][name]])
        SameRank(at) == Total(dir.job, SubSeq(at, 1, 2), at[3]).rank
                          = Slowest(at, ofStall[at].name).rank
        For(c) == {at \in DOMAIN ofStall : phase_category(ofStall[at].name) = c}
        Major(c) == 2 * Cardinality(For(c)) > Cardinality(DOMAIN ofStall)
    IN /\ DOMAIN ofStall \subseteq Affected \cap DOMAIN summary.events
       /\ \A at \in DOMAIN ofStall :
            /\ \A name \in DOMAIN Local(at)[0] : Slowest(at, name).us <= ofStall[at].us
            /\ summary.events[at].local[ofStall[at].rank] = ofStall[at].us
            /\ Major(phase_category(ofStall[at].name)) =>
                 summary.cause = phase_category(ofStall[at].name)
       /\ summary.cause # "mixed/unattributed" => Major(summary.cause)
       /\ summary.matches = Cardinality({at \in DOMAIN ofStall : SameRank(at)})
       /\ summary.mismatches = Cardinality({at \in DOMAIN ofStall : ~SameRank(at)})

\* The events of a version are its stalls in runs of consecutive iterations:
\* every stall is in one, and one begins where the iteration before is no stall.
\* Its fast median is that of the samples without a stall: it lies between the
\* averages of the fastest and the slowest of them, when there is one.
VersionsAreTheJobs ==
  call.tool = "versions" =>
    \A i \in DOMAIN done :
      LET records == ToSet(done[i].case.affected)
          Begins(x) == ~\E y \in records : SampleOf(y) = SampleOf(x) /\ y.at[3] = x.at[3] - 1
          fast == {r \in ToSet(done[i].dir.results) : \A x \in records : SampleOf(x) # r.key}
      IN /\ SumFunction(done[i].lengths) = done[i].stalls
         /\ done[i].events = Cardinality({x \in records : Begins(x)})
         /\ fast # {} => /\ \E r \in fast : 2 * r.average <= done[i].fastMedian
                         /\ \E r \in fast : 2 * r.average >= done[i].fastMedian

\* What is compared is one conservative RCCL run of each version, in the order
\* of the versions whatever that of the arguments, and no result of another
\* version or library is mixed in.
MatrixIsComplete ==
  call.tool = "versions" /\ pc = "write" =>
    /\ [i \in DOMAIN done |-> done[i].version] = VERSION_ORDER
    /\ {done[i].dir : i \in DOMAIN done} = {call.tree.dir[Resolve(p)] : p \in ToSet(result_dirs(call))}
    /\ \A i \in DOMAIN done :
         /\ done[i].dir.observed \in {"", EXPECTED_CODES[VERSION_ORDER[i]]}
         /\ \A r \in ToSet(done[i].dir.results) :
              r.rccl /\ r.conservative /\ r.version[2] \in {"", VERSION_ORDER[i]}

\* A call that succeeds has written all three reports, from every directory it
\* was given, each counted once though two paths or two arguments lead to it;
\* nothing is written before all of them have been analysed.
AllOrNoReport ==
  /\ \A i, j \in DOMAIN done :
       Resolve(done[i].result_dir) = Resolve(done[j].result_dir) => i = j
  /\ (\E i \in DOMAIN reports : reports[i] = "new") =>
       {Resolve(done[i].result_dir) : i \in DOMAIN done} =
         {Resolve(p) : p \in ToSet(result_dirs(call))}
  /\ pc = "exited" /\ status = 0 => \A i \in DOMAIN reports : reports[i] = "new"

=============================================================================
