---------------------------- MODULE MCStallTools ----------------------------
(***************************************************************************)
(* Model-checking instances of StallTools: jobs whose files are reported   *)
(* on alone, damaged directories, and matrices of three versions.          *)
(***************************************************************************)
EXTENDS StallTools

\* Nine ranks, 3x3; the hosts have the ranks 0, 1, 3 and 4, 7, 8 and 2, 5, 6.
Nine == 0 .. 8
NineHosts == [r \in Nine |-> CASE r \in {0, 1, 3} -> "a" [] r \in {4, 7, 8} -> "b" [] OTHER -> "c"]
NineRows == [r \in Nine |-> r \div 3]
NineCols == [r \in Nine |-> r % 3]

Copy == <<"transpose", "copy">>
Sync == <<"final", "stream", "sync">>
Comm == <<"east", "west", "communication">>

AllPresent == [k \in Kinds |-> "present"]
None == <<"", "">>

Entry(s, iterations) ==
  [key |-> s, iterations |-> iterations, rccl |-> TRUE, conservative |-> TRUE,
   version |-> None, validated |-> TRUE, library |-> TRUE, average |-> 3 + s[2]]

\* The directory a job leaves.  The entries stand in the reverse of their order.
Dir(job, version) ==
  [job |-> job, intact |-> TRUE, state |-> AllPresent, threshold |-> job.recorded,
   results |-> [i \in DOMAIN Samples(job) |->
     LET s == Samples(job)[Len(Samples(job)) + 1 - i] IN Entry(s, Len(job.local[s]))],
   times |-> TimeRecords(job), phases |-> PhaseRecords(job), rows |-> RankRows(job),
   requested |-> <<"rocm/", version>>, pathVersion |-> <<"rocm-", version>>,
   named |-> version, observed |-> EXPECTED_CODES[version]]

\* Samples of lens[n] iterations on two ranks; slow says which stall.
Job(lens, slow, recorded) ==
  [recorded |-> recorded,
   local |-> [s \in {<<8, n>> : n \in DOMAIN lens} |->
     [i \in 1 .. lens[s[2]] |-> [r \in 0 .. 1 |->
       [p \in {Copy} |-> IF <<s[2], i>> \in slow THEN 6 + r ELSE 3 - r]]]]]

Spots(lens) == {<<n, i>> \in (DOMAIN lens) \X (1 .. 3) : i <= lens[n]}

Lens == <<3, 1, 2, 1>>
StallJobs == {Job(Lens, slow, recorded) : slow \in SUBSET Spots(Lens), recorded \in {0, 5}}

\* Four iterations, each quick or slow in one phase, not on the slowest rank.
PhaseJobs ==
  {[recorded |-> 5, local |-> (<<8, 1>> :> [i \in 1 .. 4 |-> [r \in 0 .. 1 |->
      [p \in {Copy, Sync, Comm} |->
         IF kind[i] = <<"quick">> THEN 1 ELSE IF p = kind[i] THEN 7 - r ELSE 1 + r]]])]
    : kind \in [1 .. 4 -> {Copy, Sync, Comm, <<"quick">>}]}

\* One iteration on nine ranks: the lowest of slow takes 10, the others of slow
\* exactly 80% of it, the rest less.
RankJobs ==
  {[recorded |-> 5, local |-> (<<8, 1>> :> <<[r \in Nine |->
      CASE r = Min(slow) -> Copy :> 6 @@ Sync :> 4
        [] r \in slow /\ r # Min(slow) -> Copy :> 7 @@ Sync :> 1
        [] OTHER -> Copy :> 2 @@ Sync :> 5]>>)]
    : slow \in SUBSET Nine \ {{}}}

\* Paths: a directory and a link to it, then other directories.
Resolved(path) == IF path = "link" THEN "d1" ELSE path

OneCall(d, override) ==
  [tool |-> "stalls", override |-> override, args |-> <<<<"d1">>>>,
   tree |-> [paths |-> <<"d1">>, dir |-> "d1" :> d]]

Base == Dir(Job(<<3, 1>>, {<<1, 2>>, <<1, 3>>}, 0), "6.4.2")
Damaged ==
  {[Base EXCEPT !.state[k] = s, !.intact = FALSE] : k \in Kinds, s \in {"missing", "empty", "malformed"}}
  \cup {[Base EXCEPT !.results = r, !.intact = FALSE] :
          r \in {<<>>, <<Head(Base.results)>>, Base.results \o Base.results}}
  \cup {[Base EXCEPT !.results = <<Base.results[2]>>, !.state["phases"] = "missing", !.intact = FALSE]}
  \cup {[Base EXCEPT !.rows = Append(@, Head(@)), !.intact = FALSE],
        [Base EXCEPT !.rows = Tail(@), !.intact = FALSE]}

DamagedCalls ==
  {[tool |-> "stalls", override |-> NoOverride, args |-> args,
    tree |-> [paths |-> <<"d1", "d2">>, dir |-> "d1" :> Base @@ "d2" :> d]]
     : d \in Damaged, args \in {<<>>, <<<<"d1">>, <<"link", "d2">>>>, <<<<"d2">>, Missing>>}}
  \cup {[tool |-> "stalls", override |-> NoOverride, args |-> <<>>,
         tree |-> [paths |-> <<>>, dir |-> "d1" :> Base]]}

\* Three directories, one per version; what the one of 7.0.2 holds varies.
MatrixLens == <<3, 2, 1>>
Usual(version) == Dir(Job(MatrixLens, {<<1, 1>>}, 5), version)
Varied ==
  {Dir(Job(MatrixLens, slow, 5), "7.0.2") : slow \in SUBSET Spots(MatrixLens)}
  \cup {[Usual("7.0.2") EXCEPT !.observed = ""],
        [Usual("7.0.2") EXCEPT !.observed = EXPECTED_CODES["6.4.2"]],
        [Usual("7.0.2") EXCEPT !.requested = None, !.results[1].version = <<"", "7.0.2">>],
        [Usual("7.0.2") EXCEPT !.requested = None],
        [Usual("7.0.2") EXCEPT !.requested = <<"", "6.4.2">>, !.observed = EXPECTED_CODES["6.4.2"]],
        [Usual("7.0.2") EXCEPT !.requested = <<"", "9.9">>],
        [Usual("7.0.2") EXCEPT !.results[2].version = <<"rocm-", "7.2.0">>],
        [Usual("7.0.2") EXCEPT !.results[2].rccl = FALSE],
        [Usual("7.0.2") EXCEPT !.results[2].conservative = FALSE],
        [Usual("7.0.2") EXCEPT !.results[2].validated = FALSE],
        [Usual("7.0.2") EXCEPT !.results = <<>>, !.intact = FALSE]}
MatrixCalls ==
  {[tool |-> "versions", override |-> NoOverride, args |-> args,
    tree |-> [paths |-> <<"d3", "d1", "d2">>,
              dir |-> "d1" :> Usual("6.4.2") @@ "d2" :> d @@ "d3" :> Usual("7.2.0")]]
     : d \in Varied,
       args \in {<<>>, <<<<"d3", "d1">>, <<"link">>, <<"d2">>>>, <<<<"d1">>, <<"d2">>>>}}

AllCalls ==
  {OneCall(Dir(job, "6.4.2"), o) : job \in StallJobs, o \in {NoOverride, 6, 7}}
  \cup {OneCall(Dir(job, "6.4.2"), NoOverride) : job \in PhaseJobs \cup RankJobs}
  \cup DamagedCalls \cup MatrixCalls

=============================================================================
