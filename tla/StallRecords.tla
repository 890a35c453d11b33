---------------------------- MODULE StallRecords ----------------------------
(***************************************************************************)
(* What the benchmark writes about slow iterations: iteration-times.csv,   *)
(* iteration-phase-times.csv and stalled-rank-times.csv.  They are the     *)
(* input of tools/analyze_iteration_stalls.py (StallAnalysis).             *)
(*                                                                         *)
(* A job is what the ranks measured: job.local[s][i][r][p] is the time, in *)
(* microseconds, rank r spent in phase p of iteration i of sample s, and   *)
(* job.recorded the --iteration-stall-threshold-us it ran with.  A sample  *)
(* is a pair <<halo_words, sample_index>>; the phases are taken to account *)
(* for the whole of an iteration.                                          *)
(***************************************************************************)
EXTENDS FiniteSets, Functions, Statistics

CONSTANTS
  Host, Row, Col     \* functions from ranks: host name and grid coordinates

Samples(job) == Ordered(DOMAIN job.local, Precedes)

LocalTotal(job, s, i, r) == SumFunction(job.local[s][i][r])

\* MPI_MAXLOC: the largest value and the lowest rank that has it.
MaxLoc(value) ==
  LET largest == Max({value[r] : r \in DOMAIN value})
  IN [us |-> largest, rank |-> Min({r \in DOMAIN value : value[r] = largest})]

Total(job, s, i) == MaxLoc([r \in DOMAIN job.local[s][i] |-> LocalTotal(job, s, i, r)])

\* Without a threshold every iteration is emitted, otherwise those that reach it.
Emitted(job, s) ==
  {i \in DOMAIN job.local[s] :
     job.recorded <= 0 \/ Total(job, s, i).us >= job.recorded}

TimeRecords(job) ==
  FlattenSeq([n \in DOMAIN Samples(job) |->
    LET s == Samples(job)[n]
        emitted == Ascending(Emitted(job, s))
    IN [k \in DOMAIN emitted |->
         LET total == Total(job, s, emitted[k])
         IN [at |-> Append(s, emitted[k]), us |-> total.us, rank |-> total.rank]]])

\* Phase by phase, one record per emitted iteration.
PhaseRecords(job) ==
  FlattenSeq([n \in DOMAIN Samples(job) |->
    LET s == Samples(job)[n]
        emitted == Ascending(Emitted(job, s))
        schema == SetToSeq(DOMAIN job.local[s][1][0])
    IN FlattenSeq([p \in DOMAIN schema |-> [k \in DOMAIN emitted |->
         LET local == job.local[s][emitted[k]]
             slowest == MaxLoc([r \in DOMAIN local |-> local[r][schema[p]]])
         IN [at |-> Append(s, emitted[k]), name |-> schema[p],
             us |-> slowest.us, rank |-> slowest.rank]]])])

\* Gathered in the order of the ranks: all the records of one, then the next.
RankRows(job) ==
  FlattenSeq([n \in DOMAIN Samples(job) |->
    LET s == Samples(job)[n]
        emitted == Ascending(Emitted(job, s))
        ranks == Ascending(DOMAIN job.local[s][1])
    IN FlattenSeq([r \in DOMAIN ranks |-> [k \in DOMAIN emitted |->
         LET total == Total(job, s, emitted[k])
         IN [at |-> Append(s, emitted[k]), rank |-> ranks[r],
             host |-> Host[ranks[r]], row |-> Row[ranks[r]], col |-> Col[ranks[r]],
             us |-> LocalTotal(job, s, emitted[k], ranks[r]),
             max |-> total.us, maxRank |-> total.rank,
             phase |-> job.local[s][emitted[k]][ranks[r]]]]])])

=============================================================================
