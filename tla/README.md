# gHALO: specification, model checking and proofs

gHALO measures nearest-neighbour ("halo") exchange on a two-dimensional grid of
MPI ranks. A C++ program runs one of three backends (host MPI, GPU-aware MPI
over HIP, RCCL); shell scripts build it, submit it, run it and keep its results;
Python tools read the results. This directory holds TLA+ modules translated from
that code, the TLC configurations that check them, and TLAPS proofs.

`PROJECT.json` ties every definition to the source lines it stands for, every
property to the hazards it watches and to a seeded fault that breaks it.

## 1. Inventory

| Component | State it keeps | Operations | Talks to | What is hard about it | What makes it correct |
|---|---|---|---|---|---|
| Process grid (`halo_compatible_dims`, `initialize_topology`, once per backend) | dims, coordinates, neighbours | choose dims; `MPI_Cart_create`; shifts | every backend | odd, prime and square-divisible job sizes; one-row and two-row grids, where two neighbours are one rank | the grid uses every rank and is nearly square; neighbour relations undo each other |
| CPU MPI backend | four buffers of 3N words | `setup`, `exchange`, `barrier`, `max_time`, `max_time_ranks`, stalled gather | benchmark driver, MPI | no barrier between exchanges, tags reused, eager and rendezvous sends | each segment holds the data of the right rank and exchange; nothing left over; no deadlock |
| RCCL backend | device buffers, a stream, a communicator, phase timers | as above, in two synchronization modes; validation | driver, MPI, HIP, RCCL | asynchronous stream, untagged messages, groups, running ahead | as above, and device work over when `exchange` returns |
| MPI-HIP backend | device buffers, phase timers | as above; start-up probe; validation | driver, GPU-aware MPI, HIP | visibility of device copies to MPI; segments to oneself; a verdict not reduced | as above; failures collective |
| Benchmark driver | iteration counts, timings, results | calibration, samples, iteration and stall records | a backend | all ranks must take the same decisions from local clocks; failures on one rank | same collectives, same exchanges, aligned timing, same results, ends |
| Program entry (`main`) | the MPI environment | parse, make backend, run, write, abort | everything | an exception on one rank | the job ends everywhere |
| Command line | none (a pass over argv) | `parse_cli` | main | combinations of options | contradictory options refused |
| Output writers | open files | CSV, JSON, Markdown, iteration/phase/stall CSV | main, scripts, tools | disk full, partial files | what is written is complete |
| Run workflow (`run.sh`, `common.sh`) | a result directory | choose and make the directory, prepare, launch, record | srun/mpirun, main, suite | runs in parallel, runs killed half-way | one bundle per run, never overwritten |
| Validation suite (with `capture_environment.sh`) | logs, verdicts, the environment of a case's bundle | run cases, capture the environment anew, verify bundles, summarise | run.sh, its bundles | partial bundles, captures that fail half-way, asynchronous `tee` | only complete bundles pass; no bundle but the case's own is touched |
| Submission, batch jobs | job scripts, saved options | `submit.sh`, `batch-job.sh` | Slurm, run.sh | options re-read at another time | the job runs what was submitted |
| Build and system setup | environment, build directory | `build.sh`, `systems/*.sh` | modules, CMake | stacks that do not match | the wrong stack is refused, the right one accepted |
| Campaign scripts | logs | `run_loop.sh`, `slurm/*.sbatch` | run.sh | steps that fail in the middle | every configuration is tried and reported |
| Analysis tools (`analyze_iteration_stalls.py`, `compare_rccl_versions.py`, `ghalo_analyze.py`) | within a call: what it has read; across calls: report files | find and load bundles; stall report; version comparison; summarize, compare, aggregate, scaling, plot, report | result bundles, the files of the diagnostics, earlier reports | missing, damaged, mixed or repeated data; facts in several places that disagree; a report ended half-way; two programs that must mean the same by a path, a phase or a threshold | conclusions true of the job; all inputs or none; like with like; files that say what they are of |
| Result migration (`migrate_results.py`) | the result tree | list bundles, infer a destination, copy | result tree, the analyzer's reading of paths | several at once, killed in a copy, name collisions | nothing lost or overwritten; a copy reads like the original |

The hazards of this code, each at its line, are in `PROJECT.json`; those no
property covers yet carry a note.

## 2. Modules

```
Topology ── NeighborExchange (contract of Backend::exchange)
   │            ▲ refined by the three exchanges below
   ├── SendrecvCalls ── HaloExchange (host MPI) ── HaloExchangeProofs
   │     │        └───── HipExchange (device memory) ── HipExchangeProofs
   │     └── ExchangeTheorems (used by the proofs of all three exchanges)
   ├── RcclExchange (stream, groups) ── MCRcclExchange, RcclExchangeProofs
   └── Benchmark (all ranks' run_benchmark over the contract) ── MCBenchmark
CartDims
ResultBundle ── MCResultBundle
CartDims + ResultBundle + Benchmark ── JobProofs
Statistics ── StatisticsTheorems (used by the proofs about the tools)
   ├── StallRecords (what the benchmark writes) ─┐
   └── StallAnalysis (analyze_case) ─────────────┴── StallTools ── MCStallTools
                                                  └── StallToolsProofs
ResultPaths ── Migration ──────────────┐
   └── RunAnalysis (+ Statistics) ─────┴── AnalysisReport ── MCResultTools
                                              └── ResultToolsProofs
```

**Topology** — ranks as coordinates, `North` … `West` as `MPI_Cart_shift` gives
them on a periodic grid, `Around(r)` (the eight ranks an exchange depends on)
and `Origin(s, i, r)`: the rank whose data is in segment `s` of `r` after `i`
exchanges. Words are abstracted to the two segments, N and 2N words, that the
code sends separately.

**NeighborExchange** — the abstract specification. `Enter(r)` starts the next
exchange; `Leave(r)` completes it, possible only when all ranks around have
entered it, and leaves the data of `Origin` behind. There is no barrier in it.

**SendrecvCalls** — the four calls of an exchange: tag, segment, destination and
source, the same in `MPIBackend::exchange` and in `exchange_north_south` and
`exchange_east_west` of the MPI-HIP backend.

**HaloExchange** — `MPIBackend::exchange` (src/backends/mpi) in the loop of
`time_exchanges`. One action per statement; an `MPI_Sendrecv` is three: `Send`
posts, `Receive` takes the oldest message of the tag from the source, `Return`
leaves the call. `EagerTags` says which messages MPI buffers: an eager send is
complete at once, the others when the receiver has taken the message. The state
is the program counter, the four buffers, and the channel of each sender and tag
(`chan`). A tag has one destination, so sender and tag name a channel.

**HipExchange** — `MPIHIPBackend::perform_exchange`: three synchronizations, two
copies of whole buffers and four segments, each an `MPI_Sendrecv` as above or,
where `use_local_copy_for_exchange_segment` says so, a copy on the device
(`CopySegment`). A segment in device memory carries who wrote it since the last
`hipDeviceSynchronize` (`writer`): the other library may read it or garbage
(`Readable`). `BlockingCopy` says whether MPI sees a copy once `hipMemcpy` has
returned. The document of the design assumes it (GPU_AWARE_MPI_DESIGN.md:149),
the HIP runtime decides. With it the exchange implements the contract.

**RcclExchange** — `RCCLBackend::exchange` in both modes. `Enqueue` and
`Synchronize` are the host; `Copy`, `Launch`, `Transmit`, `Deliver` and
`Complete` are the device executing its stream in order. The four calls of a
group are independent unless they have the same peer and the same direction;
messages have no tag and pair in issue order. `buffered` says whether RCCL
completes a send before it is received; both occur in practice, depending on the
length and the transport. RCCL and the stream are external: their actions are
modelled from how rccl_backend.cpp relies on them.

**Benchmark** — `run_benchmark` on every rank: set-up, warm-up exchange,
barrier, calibration, agreement on the iterations, and per sample a validation,
barrier, timed exchanges and reductions. `Enter`/`Leave` are exchanges under
NeighborExchange's promise; `Join`/`Return…` are collectives: a rank returns once
all have joined as many. The durations of exchanges are arbitrary and differ
between ranks. With `Record`, the iteration records and the gather of stalled
ranks are included; `Verdict` selects how the backend ends a validation;
`Throw` is any call that fails on one rank and `Abort` the `MPI_Abort` in
main's catch. The inside of the gather is one collective here. Its end is the
return of `run_benchmark`: a failure of root while it writes is in ResultBundle.

**CartDims** — `halo_compatible_dims`, a step per iteration of its loop. The
function is the same in the three backends.

**ResultBundle** — the result directories of `run.sh`: the search for a free
name (`Probe`, one test a step), `mkdir -p` (`Make`), the files in the order they
are written, the benchmark that ends well or badly, and `Kill` at any point.
Processes may run concurrently or wait for each other, as a suite's cases do. A
directory probed and made is two steps because it is two commands. `SuiteStep` is
what `run_validation_case` does once the `run.sh` of a case has ended: it gives up
(`GiveUp`) unless that exited with 0 and its log names the directory; otherwise it
has `capture_environment.sh` empty `environment.txt` of the finished bundle
(`BeginCapture`) and write it anew (`EndCapture`, which may leave it half-written:
the suite only warns), or goes without (`SkipCapture`); and then concludes
(`Verify`) what `verify_result_bundle` finds (`Verifiable`). It may be killed in
between (`KillSuite`), and the next case, or the next suite, starts when it is over.
The environment therefore has three writers, told apart in `content`: `By(r)` is
`run.sh`, `Begun(r)` and `Captured(r)` are the second capture, in part and whole.

**Statistics** — the order of tuples, ceilings, medians and percentiles of the
Python tools, scaled to integers.

**StallRecords** — the diagnostic files as operators of a *job*, that is of the
time every rank spent in every phase of every iteration: which iterations are
emitted, the MAXLOC of each, the phase records in their order (phase by phase),
the gathered rank rows. It is the link between the benchmark and the tools: the
properties of StallTools compare a report with the job, not with the files.

**StallAnalysis** — `analyze_case`: `Load`, then one action per record of each
of the three files and per end of a file, then `Summarize`. Its decisions
(`classify_sample`, `Dominant`, `Cause`, `Locality`, `local_phase_value` …) are
operators with the names of the functions. A missing or empty file is a warning,
a malformed one, an unknown sample among the phases or a second row of a rank
ends the analysis.

**StallTools** — `main` of both programs over `analyze_case`: the directories
(paths that lead to one directory are one), the analysis of each in turn, the
check of the matrix of versions, three report files written one after the other
over those of an earlier call. `Fail` may end a call wherever an exception can.

**ResultPaths** — the two layouts of a result path, and what each program reads
from one. A label is a sequence of words, a version is spelled with a prefix.

**Migration** — `migrate_results.py`, any number of processes: `TakeArgument`,
`Visit` (infer and look for a free destination), `MakeDirectory`, `CopyFile` (one
file a step, in any order), `Copied`, `Finish`, and `Kill` at any point. That the
destination is looked for in one step and made in another is where they meet.

**RunAnalysis** — `ghalo_analyze.py` as operators: validation of a bundle, the
properties of a run and the places they are looked for in, the order of runs,
comparison, pairs, aggregates, scaling, phase categories, and the phases each
backend writes (`mpi_hip_phases`, `rccl_phases`, `stream_ordered_phases`). A run
is a record that has the derived properties as fields (`RunAt`).

**AnalysisReport** — the calls of the analyzer, one after the other, on the tree
that migrations are adding to. `Expand` and `Load` are `load_runs`; `PrintRows`
is a command that prints, `WriteOutput` one output of a report, in their order,
each written, skipped or fatal (`RequestOutcome`, `Attend`); `Interrupt` the
user. A file of the output directory is the number of the call that wrote it and
the measurements it shows, so that files of different calls can be told apart.

Definitions headed *Fault* are seeded bugs: the same parameters as the definition
below them, changed as a slip in the code would change it. No specification uses
them; each shows that a property would notice.

## 3. What each run checks

| Run | Instance | What it shows |
|---|---|---|
| `exchange_grid` | 2x2, 2 exchanges, N segments buffered, 2N by rendezvous | transport, contract, one message per tag although ranks run ahead, no deadlock, termination; each rank has one neighbour in both directions of a dimension |
| `cart_dims` | every job of 1 to 1200 ranks | the grid uses every rank; nearly square |
| `rccl_ring` | 3x1, 2 exchanges; conservative and buffered, stream-ordered and unbuffered | issue order pairs N with N where a rank is its own neighbour; at most two groups on a wire; contract and termination |
| `hip_ring` | 3x1, 3 exchanges, blocking copies | contract; what the device copies is settled |
| `hip_claim` | 2x2, 1 exchange, copies that do not block | **violated**: see finding 3 |
| `benchmark_records` | 1x2, two halos, two samples, records, MPI-HIP's validation, int limit 3, failures | same collectives on both sides of the stall threshold, same results, narrowing of the estimate, failures end the job |
| `benchmark_failures` | 5x1, RCCL's validation, corrupted data, failures | same exchanges, aligned timed regions; a failed validation is everyone's; all complete or all abort; no deadlock |
| `benchmark_verdict_claim` | 1x2, MPI-HIP's validation | **violated**: see finding 1 |
| `bundle_sequence` | a case of each of two suites in sequence, of one stem, a batch job beside them, an old bundle; runs, captures and suites fail or are killed | nothing overwritten, but a case's environment by its suite before the verdict; passed means complete, and stays so |
| `bundle_claim` | two runs of one stem in one second | **violated**: see finding 2 |
| `stall_tools` | stall reports of all jobs of three families, damaged directories, matrices of three versions | stalls, classes, phases, causes and localities are the job's; the events of a version are its stalls; the matrix is complete and unmixed; all directories once or no report |
| `result_tools` | migrations at once, killed and beside reports; every command of the analyzer on bundles of which one varies; a second report over a first | copies whole, nothing overwritten, copies read like originals; order, baseline, aggregates, pairs and categories are right; all inputs and outputs are accounted for; files of a report are of one report |

The type invariants of HaloExchange and CartDims, and that no message is left in
flight, are proved for every instance (section 4) and no run repeats them.

**Bounds.** `Iterations`, `Halos`, `Samples`, `MaxRanks` and `MaxSuffix` are the
bounds, and each is a constant. Two exchanges are where a message of one could
meet the other, three let a rank two hops away be two ahead. The grids are ones
`halo_compatible_dims` builds: 1x2 for two ranks, 3x1, 2x2 and 5x1. On 2x2
neighbours coincide in both dimensions, so that this grid cannot show directions
swapped, which the theorems exclude on every grid; 3x1 has distinct ones north and south,
and each rank is its own to the east and west; on 5x1 not all ranks are around
each other. A rank of a grid of one row or column copies its segments of that
dimension on the device and sends the others; the run of the MPI-HIP exchange
has one such grid, and the proofs cover every grid, number of exchanges and
choice of buffered messages. 1200 ranks pass every
combination of the factors 25, 9 and powers of two that the code distinguishes,
and the proof covers the rest. Two durations suffice to put ranks on both sides
of the threshold and to make local decisions differ; an int limit of 3 makes the
estimate wrap; that the narrowed estimate stays a usable count is in `TypeOK` alone,
since ranks agree on it whatever it is. Three suffixes leave a free name for two runs beside an old
bundle.

`stall_tools` takes three families of jobs: every set of stalls in four samples
of 3, 1, 2 and 1 iterations on two ranks (runs that end with a sample, samples
all stalled, of one iteration), recorded with and without a threshold and
analysed with that one and with two higher, one of which only one rank reaches;
every sequence of four iterations of which each is quick or slow in one of three
phases, not on the rank slowest in all; and every set of slow ranks of a 3x3 job
on three hosts that are neither rows nor columns, at exactly 80% of the slowest.
Damaged directories lack, truncate or repeat each file in turn. The matrices
vary everything that names the version of one of the three directories.

`result_tools` has two migrations (two are enough to race, and a third only
repeats what one of them does), of bundles with one destination, of a CPU run, of
a run without a time stamp, and of a copy; a copy of every flat bundle of two
time stamps, two backends and seven labels; every combination of what can say
how many nodes or ranks per node a run had; every pattern of zero and nonzero
phases of the three backends; eighteen variants of a bundle beside one or two
usual ones under each command and option; and two reports into one directory.
Paths, labels and versions are words of a fixed alphabet.

**Fairness.** Weak fairness of each rank's step: ranks are operating-system
processes, and MPI progresses a call whose partner has arrived. For RCCL, weak
fairness of the host and of the device separately: a device executes its stream
whatever its host does. `Throw`, `Kill` and `Interrupt` have none; `Abort` has it as part of
the rank that unwinds. ResultBundle, StallTools and AnalysisReport have no
liveness property and no fairness: they are sequential programs over finite
inputs, and none waits for another.

**Deadlock** is checked in every run but `cart_dims`, where a function returns
and nothing follows: `Terminating` is the only way to stop.

### Findings

1. `MPIHIPBackend::validate_exchange` throws on the rank that sees the wrong
   value (mpi_hip_backend.hip:1036) before the reduction of the verdict
   (1061-1068), which therefore only ever reduces ones, while
   docs/GPU_AWARE_MPI_DESIGN.md:252 and :341 ask for a collective failure.
   `benchmark_records` shows that the job still ends, through `MPI_Abort`.
2. `run.sh` tests a directory name and creates it with `mkdir -p` later: two runs
   of one stem in one second can share a bundle, where docs/BUILD_AND_RUN.md:198
   and :207 promise unique directories and no overwriting. One run after another
   is safe (`bundle_sequence`).
3. The MPI-HIP exchange copies `hoew` to `hins` and sends from `hins` with no
   synchronization between (mpi_hip_backend.hip:418, 429), where
   docs/GPU_AWARE_MPI_DESIGN.md:521 asks for one before MPI consumes a send
   buffer and the same hand-over from `hiew` has it (457-463). It relies on
   `hipMemcpy` blocking: under that assumption the exchange is right (`hip_ring`,
   and a theorem).

### Met while modelling, and not claimed by a run

The modules have these as the code has them, and the properties are claimed for
what is left; the hazards in `PROJECT.json` give the lines.

- `rocm-none`, the directory of CPU runs (docs/BUILD_AND_RUN.md:30), is not what
  `VERSION_RE` matches: migrated CPU runs lose time stamp, backend, label, nodes
  and ranks as far as they are read from the path.
- The number of nodes is never read from what scontrol prints, several tokens a
  line: the first key takes the rest of the line. The test has a line for which
  it works.
- A count that ends a label is hidden by the `_2` of a second copy.
- Rank events are not filtered by `--threshold-us` (docs/ANALYSIS.md:391 calls
  them threshold-matched), and a threshold below the recorded one undercounts.
- Where no library code was recorded the version report prints the expected one
  as observed.
- `aggregate` does not compare systems, and counts a bundle and its migrated copy
  both; a tree with one `ghalo.json` loses the bundles that left only
  `ghalo.csv`; runs with several samples of one halo are refused as duplicates.
- `report.md` lists a `comparison.csv` of an earlier call; a report that fails at
  its baseline leaves new summaries beside the old provenance; only
  `AnalysisError` is caught in `main`.
- A killed migration leaves a partial copy under a final name; a collision of two
  ends one of them with an uncaught `FileExistsError`.
- The suite writes over the `environment.txt` of each case it goes on with, which
  docs/BUILD_AND_RUN.md:207 does not mention: `NeverOverwrites` allows that one
  rewrite, of that file, by that case's suite, before the verdict, and no other. The
  environment `run.sh` recorded is lost, a capture that fails leaves the beginning
  of one, and the verification does not look at the file: a case may pass with it.
- The log of a case is read while the `tee` that writes it may not be done: a good
  case can fail (`GiveUp`).

Left out where no property depends on it: of the configuration two runs are compared
by, the system of the build, the commit and the target time; the errors of an output
directory that is none or not writable; a negative threshold of `analyze_case`, which
both command lines refuse; versions that are spelled with no digits, which no program
here writes; that a category is told from parts of words, where a word stands for all
that contain it.

## 4. Proofs

TLAPS checks these for all values of the constants, under the named assumptions
(`GridAssumption`: a grid has a row and a column; `IterationsAssumption`,
`SettingsAssumption`, `EagerTagsAssumption`, `BlockingCopyAssumption`; `MaxRanksAssumption`;
`BenchmarkAssumption`: counts and durations are positive;
`CommandsAssumption`: a bundle is a function from files to contents;
`WordsAssumption`: paths are made of the words of a finite alphabet, what a word
counts is a number, labels are not empty (`normalize_label` then says `run`), and
`mpi`, `hip`, `rccl` and `unknown` say no count, as a word that does has a digit; `CallsAssumption` of AnalysisReport: what `argparse` lets through, a known command
with at least one input; `CallsAssumption` of StallTools: the paths of a call lead to
directories, the ranks of each sample of a job are numbered from 0 and time the phases
of the schema, all in whole numbers, and a directory whose files are intact has what the
benchmark writes of its job; files that are not may hold anything, but
`iteration-times.csv` has no iteration twice; `TreesAssumption`: a tree is finite, its bundles are the
program's, so that their counts are numbers and their names are of the alphabet, and
where both `ghalo.json` and `ghalo.csv` can be read they have the same measurements,
as output.cpp writes both from the same results with the same precision. A CSV that a
full disk cut at the end of a row is outside this assumption. The phases of a result
are those its backend timed, in whole numbers, and what it made of them, or none. A name
of the flat layout has no suffix (`split_flat_name` takes all that follows the backend
for the label), and a bundle whose label says `stream-ordered` or `conservative` is of
the backend in its name, as the workflow names it for the backend it runs;
`BundleAssumption`: old bundles are among those considered, the cases of suites among
the runs, there is a name, and who wrote a file of a run is told from who wrote an old
one).

**HaloExchangeProofs.** `TypeCorrect`, `Invariant`, `HaloIsTransported`,
`AtMostOneMessage`, `ChannelsDrained`, `Refinement`, on every grid (one row, one
column, a single rank included), any number of exchanges and any choice of eager
tags. None of the properties is inductive. The invariant `IInv` counts:
`Posted(r, t)` and `Received(r, t)` are the calls of tag `t` behind rank `r`.

- `ChannelInv`: a channel is empty and its two ends have counted the same, or it
  holds exactly the one payload its sender's last count says. That the
  difference never grows to two is the heart: before a rank can post tag `t`
  again it must have received the tag that answers `t` from the same
  destination, which that rank posts in the same stage.
- `BufferInv`: what each buffer holds at each statement, as a function of the
  number of exchanges made, so that no buffer is read before it is filled.

`AtMostOneMessage`, `HaloIsTransported` and `ChannelsDrained` follow at once. The
`Refinement` needs in addition that a rank at the end of its last call knows all
eight ranks around it have entered the exchange: the direct neighbours from its
own receives, the diagonal ones because a neighbour posts its east-west call only
after it received north and south.

**HipExchangeProofs.** `TypeCorrect` and `DeviceReadsAreSettled` hold whether or
not copies block, from an invariant of one rank and its memory (`LocalInv`): MPI
writes only `hons` and `hoew`, and each copy of one of them comes right after a
synchronization. `Refinement` assumes `BlockingCopy`. Its invariant has the same
two parts as above, with a segment copied on the device counted as posted and
received at once; that a copied segment is the one expected follows because the
rank is then its own source. When the last segment is a copy the rank has no
message from the west to conclude from, but then it is its own western
neighbour, and what it knows of its own exchange is enough.

**RcclExchangeProofs.** `TypeCorrect`, `HaloIsTransported`, `AheadByOneGroup` and
`Refinement`, in both modes, on every grid, for any number of exchanges and
whether or not a send is buffered. Messages have no tag here, so what pairs them
has to be proved. A *transfer* is a send and the receive meant for it, named by the
tag the MPI backend gives the same segment; `Posted` and `Received` count them.

- `ControlInv`: a stream is what remains of `Operations`, the same four in both
  modes; `Done(r)` says how many of them rank `r`'s device has completed.
- `WireInv`: a wire holds, for every transfer between its two ends, the messages
  posted and not received, and each at the place `Place` computes from the
  counters alone: a message of exchange `e` stands behind those of earlier
  exchanges, and behind those of the same exchange whose transfer comes first. The
  counters of the transfers of one wire are a staircase (`Stairs`): each is as
  large as the next, or one larger. `OrderInv` is why: in a group whose two peers
  are one rank, the second call of a kind waits for the first. So the message at
  the head is that of the receive whose turn it is (`HoldsHead`).
- `HeldBackInv`: where a send waits, all of a rank's messages are of its group.
- `BufferInv`: the contents of the four buffers at each place in the exchange.

`AheadByOneGroup` needs the answer argument of the MPI backend: a rank two
exchanges ahead of a peer in a transfer would have completed a group without the
answer of that peer; where two ranks are neighbours in both dimensions, the second
group answers the first and one exchange ahead is the most. The number of messages
is a sum over transfers, the number of segments a cardinality (`SegmentCount`).
In the `Refinement` a rank enters with its first `Enqueue` and leaves with the last
`Synchronize`; what it sends next is in `hoew` until the device has copied it.

**ExchangeTheorems** holds what the three use: source and destination of a call
undo each other, the answer to a tag comes back from where it was sent, and the
arithmetic modulo the grid's size: neighbours undo each other and `Origin` moves one
step at a time.

**JobProofs: the grid.** `EveryRankHasAPlace`, `GridIsNearlySquare`, `DimsTypeCorrect`.
The invariant is that the product of columns and remaining rows is the number of
ranks, and that the columns were less than four times the remaining rows after
each halving.

**ResultToolsProofs: migrations.** `CopiesStayWhole` and `NothingIsOverwritten`, for
every tree and any number of migrations beside any calls of the analyzer.
`SpecMigrates` first reduces the composition to the migrations. `CopiesAreWhole` is
not inductive; `MigrationInv` adds that

- a copy goes to a path with a version, so that no flat bundle, and so no source
  of a copy the property speaks of, is ever written to (`CopiesAreVersioned`);
- what is copied so far and what is left make up the source (`PartsAreOfSources`);
- no two migrations copy to one path, and none to where a completed copy is
  (`OneCopies`, `CopiesAreLeftAlone`): `MakeDirectory` fails in a directory that
  exists, although `unique_destination` looked for a free name a step earlier.

`CopiesReadAlike` adds `FlatInv`: flat bundles stay as they were, and what is copied of
them goes where `infer_bundle` said, and stays what it says (`MadeOf`). `normalize_label`
removes words of the backend in front and no others (`NormalizeIs`), so the first word
with a count is the same one at another place (`CountStays`), the mode is still said
(`WordStays`), and with equal files and a system that both readings look for in one
place first (`SystemFirst`) every value of `RunAt` agrees. It is a theorem about the
bundles of `TreesAssumption`: where the results name another backend than the one whose
mode the label says, the copy has lost what only its name said.

**ResultToolsProofs: reports.** `TypeCorrect`, `ReportsAreWhole`, `NothingIsLost`,
`PairsAreTheComparable`, `NodesAreNotGuessed` and `OutputIsInOrder`, for every tree
of known bundles, any calls one after the other and any migrations beside them. The
analyzer reads a tree that grows under it: a bundle may be half a copy when it is
listed, more of it when it is loaded, and all of it when a plot loads it again.
`AnalysisInv` is `MigrationInv` and

- `KnownInv`: every bundle of the tree is known, the part of one that has been copied
  so far (`Part`) included. What a partial copy yields when it loads is therefore
  what the whole yields, from either file: a bundle loaded again has the
  measurements it had (`Reloaded`), the step on which the plots depend.
- `LoadInv`: each run was loaded from files its bundle still has, since a tree only
  grows (`Grows`). A property of a run is so a property of one `RunAt`.
- `GivenInv`: the inputs cover what the arguments give, and the runs are those of the
  inputs taken so far.
- `ReportInv`: of the outputs of a report some are behind it, each written or noted as
  skipped, the others are `todo`; the comparison is among them where two runs have the
  same sizes; the four tables show the loaded runs.
- `OutInv`: the files are of calls up to the present one, none of which has written
  before it had loaded everything, and `FilesAreOfOneReport` itself, which is
  inductive only with the three before it: an output that shows other runs than the
  summary of its call is one step away as long as nothing ties the runs to the files.

These three theorems are about what a call concludes of its runs:
`PairsAreTheComparable`, `NodesAreNotGuessed` and `OutputIsInOrder`.
`NodesAreNotGuessed` follows the places in their order: the first that says a number is
its source (`FirstIs`), and a quotient counts only when it is exact (`QuotientIs`).
`OutputIsInOrder` rests on lexicographic order: keys of tuples are strictly ordered
(`TuplesInOrder`), different paths have different keys (`PathsDiffer`), a permutation in
strict order is the only one (`OneOrder`), so that the runs reversed give the same
sequence. `PairsAreTheComparable` counts the positions of a pair of runs in that
sequence. That a sequence built by `FlattenSeq`, `\o` or a filter is one, with the
elements it should have, are the lemmas before them; the filters of a list are
`Chosen` places in their order, because a `SelectSeq` can be evaluated but not
reasoned about.

**ResultToolsProofs: numbers.** `AggregatesAreComplete` and `CategoriesAreComplete`,
for the same trees, calls and migrations.

- Groups are classes of places with equal keys, which cover the places once
  (`GroupsAre`); a group has one row for each size some run of it has (`SizesAre`), and
  its count is the number of those runs (`RowIs`). The counts of one size, summed along
  the rows as the groups put them behind each other (`CountsAdd`), are therefore the
  runs that have it. That a quartile, interpolated between two values, is on its side of
  the median is proved for each remainder of the number of values by four
  (`QuartilesAround`).
- Of each backend's phases the proof says which name of a category each is found under
  (`MpiHipAddsUp`, `RcclAddsUp`, `StreamOrderedAddsUp`): a category takes the generic
  name or the backend's own, never both, also where one of them is zero.

**JobProofs: result bundles.** `BundleTypeCorrect` for whatever runs there are at once;
`BundlesAreUnique`, `NothingIsOverwritten` and `VerifiedBundlesAreWhole` for any
number of runs and suites where the runs of one stem follow each other
(`InSequence`), which is the condition finding 2 lacks. A run that is past its start and not ended is
the only one of its stem (`Alone`), so that the name `Probe` found free is still
free in `Make` (`FoundFree`); from then on the bundle is the run's (`PlacedInv`)
and each of its files is there or not as `Written` says, also after the run was
killed. A file at or after the run's next one is not there, so a run writes nothing
twice. A suite goes on only with a case whose `run.sh` exited with 0 (`OutcomeOf`),
which has then written its last file (`NextFileOf`): its capture meets the bundle of
that case, complete (`CapturedBefore`), and leaves it so but for who wrote the
environment (`Marks`, by how far the suite is; `SuiteWritten`). A case that passed is
one of these, so its bundle is what `Whole` says.

**JobProofs: the benchmark.** `CollectivesMatch`, `ExchangesMatch`, `TimesAreClean`,
`RanksAgree` and `CompletionIsShared` on every grid, for any number of halo
lengths, samples and iterations, any durations and any threshold, with and without
records, failures and corrupted data; `ValidationFailsTogether` for a backend that
does not throw before it reduces its verdict, the condition of finding 1; and
`TypeCorrect`. Ranks run freely between collectives, so an invariant on their places
would be a case for each pair of places. `Core` says of each rank where it is bound
for instead:

- `Upcoming(r)` is its next collective (or the one it is in), with the halo length,
  sample, iterations, stalls and results it will take there and the exchanges it
  will have made by then. No step but the return from a collective changes it.
- `Following(r)` is the collective after the one `r` is inside, as the offers of all
  ranks decide it; that is what `Upcoming(r)` becomes when it returns.
- `JoinedInv`: a rank is ahead of another by one collective at most, and inside it.
  `PlansInv`: ranks that have joined as many have the same plan, and the plan of one
  that is ahead is the next plan of the one behind.
- `OffersInv`: who is inside a collective was offered the same call with as many
  values by all who joined. Two offers a rank are enough, told apart by parity.

The properties are what two equal plans say. An abort never meets a completed rank,
so it kills all; a gather never finds different numbers of records. `LocalInv` has
what is so at each place of one rank, the positive measured time among it, without
which the estimate of the iterations divides by zero. `TypeCorrect` needs `BoundsInv`
beside it: the halo lengths and samples behind a rank bound its results at each place,
a region has one time for each of its iterations, and a stall is one of them.
`FiniteMax`, by well-founded induction on subsets, gives the maximum of the offers.

**StallToolsProofs.** All six properties of StallTools, for every set of calls that
`CallsAssumption` allows, with `EachDirectoryOnce` on the way. `StallInv` has two parts.

- `CaseInv` is about the directory at hand: what is gathered is what the rows read so
  far give (`Gathered`), at every row of the three files, whatever they hold. When the
  files are intact and `analyse` returns, the summary is therefore a function of the
  job alone (`FinishedIs`).
- `CallInv` is about the call: the directories come in turn, each once (`TurnInv`),
  those behind it have the summary `analyse` returned (`DoneInv`), and no report is
  written before all are (`AllDone`). `ReportsOnAllOrNone`, `MatrixIsWhole` and what
  `VersionsHold` needs of each case follow from it.

The rest is what a finished summary says of its job. The three files are sequences of
rows and the properties speak of sets of records, so the `Lists` lemmas carry each file
over (`TimesAre`, `RowsAre`, `PhasesAre`): every record of the job has one row, and a
group of rows is the record it came from (`GroupLists`).

- `LocalityHolds`: the slow ranks of an event are those of its iteration; a place that
  all of them share is found by looking at any one (`OnePlace`).
- `PhasesHold`: the dominant phase is the greatest in the lexicographic order of time,
  rank and name (`DominantIs`), and a category of more than half is unique (`CauseIs`).
- `StallsHold`: samples sorted by key are in one order only (`SortedAreSamples`), so
  markers and classes are those of the job's samples. The longest run without a stall is
  an induction along the markers (`LongestIs`): the scan so far has a run that long, none
  longer, and knows the run it is in.
- `VersionsHold`: the same kind of induction over the sorted iterations of one sample
  gives its runs of consecutive stalls (`RunsAre`); the runs of all samples are put
  behind each other, and so their numbers and lengths add up (`GroupsAdd`). The median
  lies between two values of the sorted sequence (`MedianBetween`).

**StatisticsTheorems** holds what the two analysis tools' proofs use: what `Ordered`,
`Ascending`, `Sorted` and `Chosen` return, maxima and minima, sums over sequences,
recursion along a sequence (`Recursion`), and two arrangements of one set by a strict
order being one (`OneArrangement`).

**Only model-checked:** every liveness property, since fairness and `ENABLED` are
outside the prover.

Recursive definitions would stay with TLC too; the proved modules use none.

## 5. Not modelled, and why

- Floating-point time: durations are small naturals, `llround` is integer rounding.
- The text of metadata, CSV, JSON and reports: formatting without state.
- The behaviour of MPI, HIP, RCCL and Slurm beyond what the code relies on.
- What CMake, modules and compilers do.
- Components with status `not_modelled` in `PROJECT.json`: planned below or pure
  input/output.

## 6. Plan

Order of work; the first six and the last exist.

1. `Topology`, `NeighborExchange`, `HaloExchange` and their proofs.
2. `CartDims` and its proofs.
3. `RcclExchange`: refinement of the same contract, and its proofs.
4. `Benchmark` over the contract, with failures, and its proofs.
5. `ResultBundle` and its proofs.
6. `HipExchange` and its proofs: done. The phase timers of the GPU backends and
   their reductions are left.
7. Start-up of the GPU backends: device selection and oversubscription, the
   unique id of RCCL, the probe of GPU-aware MPI, each with its collective or
   one-sided failure.
8. Widths: `generate_halo_lengths`, the iteration estimate and the counts of a
   segment over a small word, as functions against reference definitions, in one
   run with `CartDims`.
9. The inside of the stalled gather, and of the maximum with its rank.
10. The workflow around a bundle: options through `submit.sh` and the batch job,
    the suite's logs and expectations, the checks of `run.sh`, in one module over
    `ResultBundle`.
11. The decisions of the system setup scripts and of the version matrix.
12. `StallRecords` to `StallTools`, and `ResultPaths` to `AnalysisReport`, with
    their proofs: done.

Runs to come share the configurations above where they ask the same question.

## 7. Running

```
tlc -config ExchangeGrid.cfg MCHaloExchange.tla
tlc -config StallTools.cfg MCStallTools.tla
tlc -config ResultTools.cfg MCResultTools.tla
tlc -config HipRing.cfg HipExchange.tla
tlapm HaloExchangeProofs.tla
tlapm HipExchangeProofs.tla
tlapm RcclExchangeProofs.tla
tlapm ResultToolsProofs.tla
tlapm JobProofs.tla
tlapm StatisticsTheorems.tla
tlapm StallToolsProofs.tla
```
