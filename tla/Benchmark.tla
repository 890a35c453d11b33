----------------------------- MODULE Benchmark -----------------------------
(***************************************************************************)
(* run_benchmark, executed by every rank, and what main does with its      *)
(* exceptions.                                                             *)
(*                                                                         *)
(* For every halo length a rank sets the backend up, makes one exchange to *)
(* warm up, times a calibration, agrees with the other ranks on the number *)
(* of iterations and then, for every sample, validates one exchange and    *)
(* times the iterations.  Ranks meet in collectives (a barrier before each *)
(* timed region, reductions of what they measured) and, between those,     *)
(* only in exchanges with the ranks around them, as NeighborExchange       *)
(* promises.  A rank that throws unwinds to main, which calls MPI_Abort.   *)
(*                                                                         *)
(* Durations are small naturals, halo lengths are numbered from 1.         *)
(***************************************************************************)
EXTENDS Topology, Statistics

CONSTANTS
  Halos,         \* how many halo lengths
  Samples,       \* config.samples_per_halo
  Calibration,   \* config.calibration_iterations
  Target,        \* config.target_seconds
  Durations,     \* what one exchange may take on one rank
  IntLimit,      \* 2^31: the first value an int cannot hold
  Record,        \* config.record_iteration_times (with the rank gather)
  Threshold,     \* config.iteration_stall_threshold_us, 0 to emit all
  Verdict,       \* how the backend ends a validation: "none" (host MPI, or
                 \* --no-validate), "reduce" (RCCL), "throw" (MPI-HIP)
  Corrupt,       \* whether an exchange may deliver wrong data
  Fail           \* whether a call of the backend may throw

ASSUME BenchmarkAssumption ==
  /\ {Halos, Samples, Calibration, Target, IntLimit} \subseteq Nat \ {0}
  /\ Durations \subseteq Nat \ {0} /\ Durations # {}
  /\ Threshold \in Nat
  /\ Verdict \in {"none", "reduce", "throw"}
  /\ {Record, Corrupt, Fail} \subseteq BOOLEAN

VARIABLES
  pc,           \* pc[r]: the kind of step rank r takes next
  stage,        \* stage[r]: the part of the loop body rank r is in
  halo,         \* halo[r]: which halo length
  sample,       \* sample[r]: which sample of it, 0 before the first
  swaps,        \* swaps[r]: exchanges completed since the program started
  inside,       \* inside[r]: whether rank r is inside exchange()
  left,         \* left[r]: exchanges left in the region
  elapsed,      \* elapsed[r]: what the exchanges of the region took so far
  spent,        \* spent[r]: duration of each, if iteration times are recorded
  stalled,      \* stalled[r]: the iterations rank r has records of
  iterations,   \* iterations[r]: timed exchanges per sample
  joined,       \* joined[r]: collectives entered since the program started
  waiting,      \* waiting[r]: whether r is inside the last of them
  offer,        \* offer[r][b]: what r gave to its last collective whose
                \* number has parity b
  ok,           \* ok[r]: whether r found its last validated exchange correct
  results       \* results[r]: the results rank r has pushed

place == <<stage, halo, sample>>
region == <<swaps, inside, left, elapsed, spent, stalled>>
meeting == <<joined, waiting, offer>>
vars == <<pc, place, region, iterations, meeting, ok, results>>

Stage == {"setup", "warm_up", "calibration", "validation", "timed"}

\* The calls in which all ranks meet.  gather stands for the reductions of
\* the phases and the gathering of the stalled ranks' records.
Collective == {"barrier", "max_time", "max_time_ranks", "gather", "verdict"}

\* "invalid" and "thrown" are exceptions on their way to main, of a failed
\* validation and of any other call.
Label ==
  {"setup", "exchange", "invalid", "thrown", "killed", "done"} \cup Collective

Silent == [op |-> "none", values |-> <<>>]

TypeOK ==
  /\ pc \in [Rank -> Label]
  /\ stage \in [Rank -> Stage]
  /\ halo \in [Rank -> 1 .. Halos]
  /\ sample \in [Rank -> 0 .. Samples]
  /\ swaps \in [Rank -> Nat]
  /\ inside \in [Rank -> BOOLEAN]
  /\ left \in [Rank -> Nat]
  /\ elapsed \in [Rank -> Nat]
  /\ spent \in [Rank -> Seq(Durations)]
  /\ \A r \in Rank : stalled[r] \subseteq 1 .. iterations[r]
  /\ iterations \in [Rank -> Nat]
  /\ joined \in [Rank -> Nat]
  /\ waiting \in [Rank -> BOOLEAN]
  /\ ok \in [Rank -> BOOLEAN]
  /\ \A r \in Rank, b \in {0, 1} : offer[r][b].values \in Seq(Nat)
  /\ \A r \in Rank : Len(results[r]) <= Halos * Samples

Init ==
  /\ pc = [r \in Rank |-> "setup"]
  /\ stage = [r \in Rank |-> "setup"]
  /\ halo = [r \in Rank |-> 1]
  /\ sample = [r \in Rank |-> 0]
  /\ swaps = [r \in Rank |-> 0]
  /\ inside = [r \in Rank |-> FALSE]
  /\ left = [r \in Rank |-> 0]
  /\ elapsed = [r \in Rank |-> 0]
  /\ spent = [r \in Rank |-> <<>>]
  /\ stalled = [r \in Rank |-> {}]
  /\ iterations = [r \in Rank |-> 0]
  /\ joined = [r \in Rank |-> 0]
  /\ waiting = [r \in Rank |-> FALSE]
  /\ offer = [r \in Rank |-> [b \in {0, 1} |-> Silent]]
  /\ ok = [r \in Rank |-> TRUE]
  /\ results = [r \in Rank |-> <<>>]

-----------------------------------------------------------------------------
(***************************************************************************)
(* Numbers.                                                                *)
(***************************************************************************)
\* static_cast<int> of a long long.
Narrow(n) == ((n + IntLimit) % (2 * IntLimit)) - IntLimit

\* The target divided by the calibration's average, rounded by llround.
Estimate(max) == (2 * Target * Calibration + max) \div (2 * max)

\* Fault: the calibration's iterations are not the least.
EstimateAlone(max) == Narrow(Estimate(max))
\* At least the calibration's iterations.
IterationsFor(max) == Max({Calibration, Narrow(Estimate(max))})

-----------------------------------------------------------------------------
(***************************************************************************)
(* Exchanges.                                                              *)
(***************************************************************************)
Setup(r) ==
  /\ pc[r] = "setup"
  /\ pc' = [pc EXCEPT ![r] = "exchange"]
  /\ stage' = [stage EXCEPT ![r] = "warm_up"]
  /\ left' = [left EXCEPT ![r] = 1]
  /\ UNCHANGED <<halo, sample, swaps, inside, elapsed, spent, stalled,
                 iterations, meeting, ok, results>>

Enter(r) ==
  /\ pc[r] = "exchange"
  /\ ~inside[r]
  /\ inside' = [inside EXCEPT ![r] = TRUE]
  /\ UNCHANGED <<pc, place, swaps, left, elapsed, spent, stalled, iterations,
                 meeting, ok, results>>

Entered(r) == IF inside[r] THEN swaps[r] + 1 ELSE swaps[r]

\* The measured time of a region, which only two regions have.
TotalSeconds(r, d) ==
  IF stage[r] \in {"calibration", "timed"} THEN elapsed[r] + d ELSE 0

\* exchange() returns, having taken d; what follows the last exchange of a
\* region depends on the region.
Leave(r, d) ==
  /\ inside[r]
  /\ pc[r] = "exchange"
  /\ \A q \in Around(r) : Entered(q) >= Entered(r)
  /\ inside' = [inside EXCEPT ![r] = FALSE]
  /\ swaps' = [swaps EXCEPT ![r] = @ + 1]
  /\ left' = [left EXCEPT ![r] = @ - 1]
  /\ elapsed' = [elapsed EXCEPT ![r] = TotalSeconds(r, d)]
  /\ spent' = [spent EXCEPT ![r] = IF Record /\ stage[r] = "timed"
                                   THEN Append(@, d) ELSE <<>>]
  /\ IF stage[r] = "validation"
     THEN ok' \in {[ok EXCEPT ![r] = v] : v \in IF Corrupt THEN BOOLEAN ELSE {TRUE}}
     ELSE UNCHANGED ok
  /\ stage' = [stage EXCEPT ![r] = IF @ = "warm_up" THEN "calibration" ELSE @]
  /\ pc' = [pc EXCEPT ![r] =
       CASE left[r] > 1 -> "exchange"
         [] left[r] = 1 /\ stage[r] = "warm_up" -> "barrier"
         [] left[r] = 1 /\ stage[r] = "calibration" -> "max_time"
         [] left[r] = 1 /\ stage[r] = "validation" ->
              IF Verdict = "throw" /\ ~ok'[r] THEN "invalid" ELSE "verdict"
         [] left[r] = 1 /\ stage[r] = "timed" ->
              IF Record THEN "max_time_ranks" ELSE "max_time"]
  /\ UNCHANGED <<halo, sample, stalled, iterations, meeting, results>>

-----------------------------------------------------------------------------
(***************************************************************************)
(* Collectives.  A rank enters one with its values and returns from it     *)
(* once every rank has entered as many.                                    *)
(***************************************************************************)
Values(r) ==
  CASE pc[r] = "barrier" -> <<>>
    [] pc[r] = "max_time" -> <<elapsed[r]>>
    [] pc[r] = "max_time_ranks" -> spent[r]
    [] pc[r] = "gather" -> [k \in 1 .. Cardinality(stalled[r]) |->
                              spent[r][Ascending(stalled[r])[k]]]
    [] pc[r] = "verdict" -> IF ok[r] THEN <<0>> ELSE <<1>>

Join(r) ==
  /\ pc[r] \in Collective
  /\ ~waiting[r]
  /\ waiting' = [waiting EXCEPT ![r] = TRUE]
  /\ joined' = [joined EXCEPT ![r] = @ + 1]
  /\ offer' = [offer EXCEPT ![r][(joined[r] + 1) % 2] =
                 [op |-> pc[r], values |-> Values(r)]]
  /\ UNCHANGED <<pc, place, region, iterations, ok, results>>

Offer(q, r) == offer[q][joined[r] % 2]

Reduced(r, i) == Max({Offer(q, r).values[i] : q \in Rank})

\* Faults: barriers do not wait; only root waits for the measured times.
NoBarrier(r) == pc[r] = "barrier" \/ \A q \in Rank : joined[q] >= joined[r]
RootWaits(r) == \/ \A q \in Rank : joined[q] >= joined[r]
                \/ pc[r] = "max_time" /\ stage[r] = "timed" /\ r # Root

Assembled(r) == \A q \in Rank : joined[q] >= joined[r]

Return(r, op) ==
  /\ pc[r] = op
  /\ waiting[r]
  /\ Assembled(r)
  /\ waiting' = [waiting EXCEPT ![r] = FALSE]
  /\ UNCHANGED <<joined, offer>>

ReturnBarrier(r) ==
  /\ Return(r, "barrier")
  /\ pc' = [pc EXCEPT ![r] = "exchange"]
  /\ left' = [left EXCEPT ![r] = IF stage[r] = "calibration" THEN Calibration
                                 ELSE iterations[r]]
  /\ elapsed' = [elapsed EXCEPT ![r] = 0]
  /\ spent' = [spent EXCEPT ![r] = <<>>]
  /\ stalled' = [stalled EXCEPT ![r] = {}]
  /\ UNCHANGED <<place, swaps, inside, iterations, ok, results>>

\* The body of the loop over samples starts with the validation, if any.
StartSample(r, n) ==
  /\ sample' = [sample EXCEPT ![r] = n]
  /\ IF Verdict = "none"
     THEN /\ stage' = [stage EXCEPT ![r] = "timed"]
          /\ pc' = [pc EXCEPT ![r] = "barrier"]
          /\ UNCHANGED left
     ELSE /\ stage' = [stage EXCEPT ![r] = "validation"]
          /\ pc' = [pc EXCEPT ![r] = "exchange"]
          /\ left' = [left EXCEPT ![r] = 1]

\* Fault: a rank uses its own total.
OwnMax(r) == elapsed[r]

AgreedMax(r) == Reduced(r, 1)

ReturnCalibration(r) ==
  /\ stage[r] = "calibration"
  /\ Return(r, "max_time")
  /\ iterations' = [iterations EXCEPT ![r] = IterationsFor(AgreedMax(r))]
  /\ StartSample(r, 1)
  /\ UNCHANGED <<halo, swaps, inside, elapsed, spent, stalled, ok, results>>

\* Fault: a rank goes by its own verdict.
OwnVerdict(r) == ok[r]

AllValid(r) == Reduced(r, 1) = 0

\* A validation ends for every rank as it ended for the worst; a backend that
\* throws before the reduction never gives it a failure to report.
ReturnVerdict(r) ==
  /\ Return(r, "verdict")
  /\ IF AllValid(r)
     THEN /\ pc' = [pc EXCEPT ![r] = "barrier"]
          /\ stage' = [stage EXCEPT ![r] = "timed"]
     ELSE /\ pc' = [pc EXCEPT ![r] = "invalid"]
          /\ UNCHANGED stage
  /\ UNCHANGED <<halo, sample, region, iterations, ok, results>>

\* Fault: a rank goes by its own time.
StalledHere(r, i) == Threshold = 0 \/ spent[r][i] >= Threshold

\* Which iterations stalled is decided on the reduced times.
Stalled(r, i) == Threshold = 0 \/ Reduced(r, i) >= Threshold

ReturnMaxTimeRanks(r) ==
  /\ Return(r, "max_time_ranks")
  /\ stalled' = [stalled EXCEPT ![r] =
       {i \in 1 .. Len(spent[r]) : Stalled(r, i)}]
  /\ pc' = [pc EXCEPT ![r] = "gather"]
  /\ UNCHANGED <<place, swaps, inside, left, elapsed, spent, iterations, ok,
                 results>>

\* Ranks with different numbers of records abort the job.
ReturnGather(r) ==
  /\ Return(r, "gather")
  /\ pc' = IF \A q \in Rank : Len(Offer(q, r).values) = Len(Offer(r, r).values)
           THEN [pc EXCEPT ![r] = "max_time"]
           ELSE [q \in Rank |-> "killed"]
  /\ UNCHANGED <<place, region, iterations, ok, results>>

ReturnMeasured(r) ==
  /\ stage[r] = "timed"
  /\ Return(r, "max_time")
  /\ results' = [results EXCEPT ![r] = Append(@,
       [halo |-> halo[r], sample |-> sample[r], iterations |-> iterations[r],
        seconds |-> AgreedMax(r), stalls |-> stalled[r]])]
  /\ \/ /\ sample[r] < Samples
        /\ StartSample(r, sample[r] + 1)
        /\ UNCHANGED halo
     \/ /\ sample[r] = Samples
        /\ halo[r] < Halos
        /\ halo' = [halo EXCEPT ![r] = @ + 1]
        /\ sample' = [sample EXCEPT ![r] = 0]
        /\ stage' = [stage EXCEPT ![r] = "setup"]
        /\ pc' = [pc EXCEPT ![r] = "setup"]
        /\ UNCHANGED left
     \/ /\ sample[r] = Samples
        /\ halo[r] = Halos
        /\ pc' = [pc EXCEPT ![r] = "done"]
        /\ UNCHANGED <<place, left>>
  /\ UNCHANGED <<swaps, inside, elapsed, spent, stalled, iterations, ok>>

-----------------------------------------------------------------------------
(***************************************************************************)
(* Failures.                                                               *)
(***************************************************************************)
\* A call of the backend throws: an allocation or copy fails on one rank.
Throw(r) ==
  /\ Fail
  /\ pc[r] \in {"setup", "exchange"}
  /\ pc' = [pc EXCEPT ![r] = "thrown"]
  /\ UNCHANGED <<place, region, iterations, meeting, ok, results>>

\* Fault: the rank ends and the others are left waiting.
Exit(r) ==
  /\ pc[r] \in {"invalid", "thrown"}
  /\ pc' = [pc EXCEPT ![r] = "killed"]
  /\ UNCHANGED <<place, region, iterations, meeting, ok, results>>

\* main's catch calls MPI_Abort, which ends every rank still in the program.
Abort(r) ==
  /\ pc[r] \in {"invalid", "thrown"}
  /\ pc' = [q \in Rank |-> IF pc[q] = "done" THEN "done" ELSE "killed"]
  /\ UNCHANGED <<place, region, iterations, meeting, ok, results>>

Step(r) ==
  \/ Setup(r)
  \/ Enter(r)
  \/ \E d \in Durations : Leave(r, d)
  \/ Join(r)
  \/ ReturnBarrier(r)
  \/ ReturnCalibration(r)
  \/ ReturnVerdict(r)
  \/ ReturnMaxTimeRanks(r)
  \/ ReturnGather(r)
  \/ ReturnMeasured(r)
  \/ Abort(r)

Ended == \A r \in Rank : pc[r] \in {"done", "killed"}

Terminating == Ended /\ UNCHANGED vars

Next == (\E r \in Rank : Step(r) \/ Throw(r)) \/ Terminating

Spec == Init /\ [][Next]_vars

\* Ranks are processes and keep running; nothing makes a call throw.
FairSpec == Spec /\ \A r \in Rank : WF_vars(Step(r))

-----------------------------------------------------------------------------
(***************************************************************************)
(* Properties.                                                             *)
(***************************************************************************)

\* Two ranks inside the same collective made the same call with as many
\* values.  What decides the calls (the number of iterations, the stalled
\* iterations, the verdict) comes from reductions, never from a local clock:
\* otherwise MPI would mix one collective's data with another's.
SameCollectives ==
  \A p, r \in Rank :
    waiting[p] /\ waiting[r] /\ joined[p] = joined[r] =>
      LET a == Offer(p, p)
          b == Offer(r, r)
      IN  a.op = b.op /\ Len(a.values) = Len(b.values)

\* Two ranks inside the same exchange are in the same one: of the same halo
\* length, for the same purpose, with as many to go.  A rank that iterated
\* once more or validated alone would trade its messages with a neighbour's
\* other exchange.
SameExchanges ==
  \A p, r \in Rank :
    inside[p] /\ inside[r] /\ swaps[p] = swaps[r] =>
      /\ stage[p] = stage[r] /\ left[p] = left[r]
      /\ halo[p] = halo[r] /\ sample[p] = sample[r]

\* While the clock of one rank runs, every rank is in the same region or
\* about to enter or leave it: setup, warm-up and validation of a rank are
\* in nobody's measurement.
TimedRegionsAligned ==
  \A p, r \in Rank :
    pc[r] = "exchange" /\ stage[r] \in {"calibration", "timed"} =>
      stage[p] = stage[r] /\ halo[p] = halo[r] /\ sample[p] = sample[r]

\* Every rank pushes the same results: the same iterations, the same stalled
\* iterations and the same reduced time, so that what root writes is what
\* every rank's later decisions were made from.
ResultsAgree ==
  \A p, r \in Rank :
    \A k \in 1 .. Min({Len(results[p]), Len(results[r])}) :
      results[p][k] = results[r][k]

\* When a rank completes, every rank has measured everything: none is left
\* that could still fail and kill the job after root has its results.
AllOrNothing ==
  (\E r \in Rank : pc[r] = "done") =>
    \A p \in Rank :
      /\ pc[p] \notin {"invalid", "thrown", "killed"}
      /\ joined[p] = Max({joined[q] : q \in Rank})

\* A validation that fails, fails on all ranks: a rank leaves it by an
\* exception only when every rank has entered the reduction of its verdict.
FailsCollectively ==
  \A r \in Rank : pc[r] = "invalid" =>
    \A p \in Rank : pc[p] = "invalid" \/ (pc[p] = "verdict" /\ waiting[p])

\* Nobody waits for ever: every rank completes, or the job is aborted, even
\* when one rank throws while the others wait for it in an exchange or a
\* collective.
Concluded == <>Ended

=============================================================================
