---------------------------- MODULE StallAnalysis ----------------------------
(***************************************************************************)
(* analyze_case of tools/analyze_iteration_stalls.py: the stall summary of *)
(* one result directory, from ghalo.json, the threshold the run recorded   *)
(* and the three diagnostic files.  The steps are the loops of the code,   *)
(* one record at a time; what they leave in `summary` is what the callers  *)
(* (StallTools) print and compare.                                         *)
(*                                                                         *)
(* A directory is a record: results, the entries of ghalo.json as they     *)
(* stand there (a key <<halo_words, sample_index>> and the iterations of   *)
(* each), threshold, what result-metadata.txt says (0 when it says nothing *)
(* that is a number), and for each diagnostic file of Kinds its state and  *)
(* its rows.  Times are natural numbers.                                   *)
(***************************************************************************)
EXTENDS FiniteSets, Functions, Statistics

CONSTANTS
  NoOverride,    \* --threshold-us is not given
  NoSummary      \* no directory has been summarised

Kinds == {"times", "phases", "rows"}

VARIABLES
  step,       \* "idle", "times", "phases", "rows", "summary", "returned", "raised"
  dir,        \* the directory analysed
  threshold,  \* the threshold in force
  next,       \* index of the next row of the file being read
  stalls,     \* stalls_by_sample: the records at or above the threshold
  affected,   \* affected_indices: the same in file order
  phasesAt,   \* by_iteration of analyze_phase_records
  rowsAt,     \* by_iteration of analyze_rank_records
  breakdown,  \* phase_iteration_breakdown: dominant phase of an iteration
  warnings,
  summary

caseVars == <<step, dir, threshold, next, stalls, affected, phasesAt, rowsAt,
              breakdown, warnings, summary>>

-----------------------------------------------------------------------------
(* The decisions of the analysis. *)

SampleOf(record) == SubSeq(record.at, 1, 2)
Keys(d) == {d.results[i].key : i \in DOMAIN d.results}

SortedSamples(d) == Ordered(ToSet(d.results), LAMBDA x, y : Precedes(x.key, y.key))

classify_sample(count, iterations) ==
  CASE count = 0 -> "none"
    [] count = 1 -> "isolated"
    [] count > 1 /\ iterations > 0 /\ count >= CeilDiv(9 * iterations, 10) -> "nearly_all"
    [] OTHER -> "multiple"

\* The longest run of F, scanned as the code does: <<longest, current>>.
longest_stall_free_sequence(markers) ==
  LET scan[n \in 0 .. Len(markers)] ==
        IF n = 0 THEN <<0, 0>>
        ELSE LET run == scan[n - 1]
             IN IF markers[n] = "F" THEN <<Max({run[1], run[2] + 1}), run[2] + 1>>
                ELSE <<run[1], 0>>
  IN scan[Len(markers)][1]

\* A phase name is the sequence of its words.
phase_category(name) ==
  LET words == ToSet(name)
  IN CASE "sync" \in words -> "synchronization/final sync"
       [] "sync" \notin words /\ words \cap {"copy", "transpose"} # {} -> "copy/transpose"
       [] words \cap {"sync", "copy", "transpose"} = {}
            /\ words \cap {"communication", "enqueue", "mpi"} # {} -> "communication/enqueue"
       [] OTHER -> "mixed/unattributed"

\* The phase columns of stalled-rank-times.csv, in alphabetical order.
PhaseColumns ==
  << <<"east", "west", "communication">>, <<"east", "west", "enqueue">>,
     <<"east", "west", "mpi">>, <<"east", "west", "sync">>,
     <<"final", "stream", "sync">>, <<"input", "device", "copy">>,
     <<"north", "south", "communication">>, <<"north", "south", "enqueue">>,
     <<"north", "south", "mpi">>, <<"north", "south", "sync">>,
     <<"transpose", "copy">>, <<"transpose", "copy", "sync">>,
     <<"transpose", "device", "copy">>, <<"transpose", "enqueue">>,
     <<"transpose", "sync">> >>

local_phase_value(row, name) ==
  IF name \in ToSet(PhaseColumns) /\ name \in DOMAIN row.phase THEN row.phase[name] ELSE 0

\* The key of the max() that picks the dominant phase: longest, then lowest
\* rank, then last name.
Outranks(x, y) ==
  LET Place(name) == CHOOSE i \in DOMAIN PhaseColumns : PhaseColumns[i] = name
  IN Precedes(<<y.us, -y.rank, Place(y.name)>>, <<x.us, -x.rank, Place(x.name)>>)

Dominant(records) ==
  CHOOSE x \in ToSet(records) : \A y \in ToSet(records) : ~Outranks(y, x)

\* The category that explains more than half of the iterations, if any.
Cause(dominant) ==
  LET Count(c) == Cardinality({at \in DOMAIN dominant : phase_category(dominant[at].name) = c})
      categories == {phase_category(dominant[at].name) : at \in DOMAIN dominant}
      leading == CHOOSE c \in categories : \A other \in categories : Count(other) <= Count(c)
  IN IF categories # {} /\ 2 * Count(leading) > Cardinality(DOMAIN dominant)
     THEN leading ELSE "mixed/unattributed"

\* Fault: a rank at exactly 80% is fast.
SlowRowsStrictly(rows) ==
  LET longest == Max({rows[i].max : i \in DOMAIN rows})
  IN {rows[i] : i \in {j \in DOMAIN rows : 10 * rows[j].us > 8 * longest}}

\* The ranks that took at least 80% of the time of the slowest.
SlowRows(rows) ==
  LET longest == Max({rows[i].max : i \in DOMAIN rows})
  IN {rows[i] : i \in {j \in DOMAIN rows : 10 * rows[j].us >= 8 * longest}}

Locality(rows) ==
  LET slow == SlowRows(rows)
  IN IF Cardinality(slow) >= CeilDiv(8 * Len(rows), 10) THEN "collective-wide"
     ELSE IF Cardinality(slow) <= 2 THEN "rank-localized"
     ELSE IF Cardinality({r.host : r \in slow}) = 1 THEN "node-localized"
     ELSE IF Cardinality({r.row : r \in slow}) = 1 THEN "row-localized"
     ELSE IF Cardinality({r.col : r \in slow}) = 1 THEN "column-localized"
     ELSE "mixed"

\* Fault: the rank of the first row instead of the rank it names as slowest.
AgreesWithFirst(phase, row) == phase.rank = row.rank

\* The slowest rank of the dominant phase is the slowest of the iteration.
Agrees(phase, row) == phase.rank = row.maxRank

\* A row of rank_event_breakdown.
RankEvent(at) ==
  LET rows == rowsAt[at]
      first == CHOOSE r \in ToSet(rows) : \A q \in ToSet(rows) : r.rank <= q.rank
      known == at \in DOMAIN breakdown
  IN [locality |-> Locality(rows),
      slow |-> {r.rank : r \in SlowRows(rows)},
      worldSize |-> Len(rows),
      totalRank |-> first.maxRank,
      match |-> IF ~known THEN "unknown"
                ELSE IF Agrees(breakdown[at], first) THEN "match" ELSE "mismatch",
      local |-> IF ~known THEN <<>>
                ELSE [r \in {q.rank : q \in ToSet(rows)} |->
                        local_phase_value(CHOOSE q \in ToSet(rows) : q.rank = r,
                                          breakdown[at].name)]]

-----------------------------------------------------------------------------
Init ==
  /\ step = "idle" /\ dir = NoSummary /\ threshold = 0 /\ next = 1
  /\ stalls = <<>> /\ affected = <<>> /\ phasesAt = <<>> /\ rowsAt = <<>>
  /\ breakdown = <<>> /\ warnings = {} /\ summary = NoSummary

\* load_samples and the three loads.  A second entry of one sample, an empty
\* ghalo.json and a file without its columns are errors, a missing or empty
\* file is a warning.  The threshold is not negative: both programs see to that
\* when they read their options.
Loadable(d) ==
  /\ Len(d.results) > 0
  /\ Cardinality(Keys(d)) = Len(d.results)
  /\ \A k \in Kinds : d.state[k] # "malformed"

Load(d, override) ==
  /\ step = "idle"
  /\ dir' = d
  /\ step' = IF Loadable(d) THEN "times" ELSE "raised"
  /\ threshold' = IF override = NoOverride THEN d.threshold ELSE override
  /\ warnings' = {<<"file", k>> : k \in {j \in Kinds : d.state[j] \in {"missing", "empty"}}}
  /\ next' = 1
  /\ stalls' = <<>> /\ affected' = <<>> /\ phasesAt' = <<>> /\ rowsAt' = <<>>
  /\ breakdown' = <<>> /\ summary' = NoSummary

\* The rows of a diagnostic file, none when it is missing or empty.
File(kind) == IF dir.state[kind] = "present" THEN dir[kind] ELSE <<>>
More(kind) == step = kind /\ next <= Len(File(kind))
AtEnd(kind) == step = kind /\ next > Len(File(kind))

\* values with record at the end of what it has for key.
Extend(values, key, record) ==
  LET old(k) == IF k \in DOMAIN values THEN values[k] ELSE <<>>
  IN [k \in DOMAIN values \cup {key} |-> IF k = key THEN Append(old(k), record) ELSE old(k)]

Known(record) == SampleOf(record) \in Keys(dir)
Affected == {affected[i].at : i \in DOMAIN affected}

\* Fault: a record at the threshold is no stall.
IsStallStrictly(record) == record.us > threshold

IsStall(record) == record.us >= threshold

\* A record of iteration-times.csv; one of an unknown sample counts too.
ReadTime ==
  /\ More("times")
  /\ LET record == dir.times[next]
     IN /\ warnings' = IF Known(record) THEN warnings
                       ELSE warnings \cup {<<"times", SampleOf(record)>>}
        /\ IF IsStall(record)
           THEN /\ stalls' = Extend(stalls, SampleOf(record), record)
                /\ affected' = Append(affected, record)
           ELSE UNCHANGED <<stalls, affected>>
  /\ next' = next + 1
  /\ UNCHANGED <<step, dir, threshold, phasesAt, rowsAt, breakdown, summary>>

TimesRead ==
  /\ AtEnd("times")
  /\ step' = "phases" /\ next' = 1
  /\ UNCHANGED <<dir, threshold, stalls, affected, phasesAt, rowsAt, breakdown,
                 warnings, summary>>

\* A record of iteration-phase-times.csv: kept for a stalled iteration, an
\* error for an unknown sample.
ReadPhase ==
  /\ More("phases")
  /\ LET record == dir.phases[next]
     IN IF ~Known(record)
        THEN step' = "raised" /\ UNCHANGED <<next, phasesAt>>
        ELSE /\ phasesAt' = IF record.at \in Affected
                            THEN Extend(phasesAt, record.at, record) ELSE phasesAt
             /\ next' = next + 1 /\ UNCHANGED step
  /\ UNCHANGED <<dir, threshold, stalls, affected, rowsAt, breakdown, warnings, summary>>

PhasesRead ==
  /\ AtEnd("phases")
  /\ breakdown' = [at \in DOMAIN phasesAt |-> Dominant(phasesAt[at])]
  /\ step' = "rows" /\ next' = 1
  /\ UNCHANGED <<dir, threshold, stalls, affected, phasesAt, rowsAt, warnings, summary>>

\* A row of stalled-rank-times.csv, whatever its iteration took; a second row
\* of a rank is an error.
ReadRow ==
  /\ More("rows")
  /\ LET row == dir.rows[next]
         seen == row.at \in DOMAIN rowsAt /\ \E q \in ToSet(rowsAt[row.at]) : q.rank = row.rank
     IN IF seen
        THEN step' = "raised" /\ UNCHANGED <<next, rowsAt, warnings>>
        ELSE /\ rowsAt' = Extend(rowsAt, row.at, row)
             /\ warnings' = IF Known(row) THEN warnings
                            ELSE warnings \cup {<<"rows", SampleOf(row)>>}
             /\ next' = next + 1 /\ UNCHANGED step
  /\ UNCHANGED <<dir, threshold, stalls, affected, phasesAt, breakdown, summary>>

RowsRead ==
  /\ AtEnd("rows")
  /\ step' = "summary"
  /\ UNCHANGED <<dir, threshold, next, stalls, affected, phasesAt, rowsAt, breakdown,
                 warnings, summary>>

StallsOf(key) == IF key \in DOMAIN stalls THEN Len(stalls[key]) ELSE 0

\* The rest of analyze_case: what the markdown, CSV and JSON reports print.
CaseSummary ==
  LET samples == SortedSamples(dir)
      markers == [i \in DOMAIN samples |->
                    IF samples[i].key \in DOMAIN stalls THEN "S" ELSE "F"]
      Classified(class) ==
        Cardinality({i \in DOMAIN samples :
          classify_sample(StallsOf(samples[i].key), samples[i].iterations) = class})
      events == [at \in DOMAIN rowsAt |-> RankEvent(at)]
  IN [samples |-> Len(samples),
      iterations |-> SumFunction([i \in DOMAIN samples |-> samples[i].iterations]),
      emitted |-> Len(File("times")),
      stalls |-> Len(affected),
      sequence |-> markers,
      withStalls |-> Cardinality({i \in DOMAIN markers : markers[i] = "S"}),
      maxStalls |-> Max({0} \cup {Len(stalls[k]) : k \in DOMAIN stalls}),
      longestFree |-> longest_stall_free_sequence(markers),
      isolated |-> Classified("isolated"), multiple |-> Classified("multiple"),
      nearlyAll |-> Classified("nearly_all"),
      affected |-> affected,
      breakdown |-> breakdown,
      cause |-> Cause(breakdown),
      events |-> events,
      matches |-> Cardinality({at \in DOMAIN events : events[at].match = "match"}),
      mismatches |-> Cardinality({at \in DOMAIN events : events[at].match = "mismatch"}),
      warnings |-> warnings]

Summarize ==
  /\ step = "summary"
  /\ summary' = CaseSummary /\ step' = "returned"
  /\ UNCHANGED <<dir, threshold, next, stalls, affected, phasesAt, rowsAt, breakdown, warnings>>

\* A step of analyze_case once it is called.
Analyse ==
  \/ ReadTime \/ TimesRead \/ ReadPhase \/ PhasesRead \/ ReadRow \/ RowsRead \/ Summarize

=============================================================================
