------------------------------ MODULE JobProofs ------------------------------
(***************************************************************************)
(* What is so of one job, whatever its size and its settings: the grid it  *)
(* chooses, the bundle its run.sh makes, and the benchmark its ranks run.  *)
(* The three parts share neither state nor lemmas.                         *)
(***************************************************************************)
EXTENDS CartDims, ResultBundle, Benchmark, FiniteSetTheorems, TLAPS

-----------------------------------------------------------------------------
(***************************************************************************)
(* halo_compatible_dims is correct for every number of ranks.  Throughout  *)
(* the loop the columns times the remaining rows make the ranks, and the   *)
(* columns squared stay below four times the ranks: a doubling happens     *)
(* only while they are below the ranks.                                    *)
(***************************************************************************)
FactorInv ==
  IF phase = "start"
  THEN cols = 1 /\ remaining = ranks
  ELSE cols * remaining = ranks /\ cols * cols < 4 * ranks

ResultInv == phase = "done" => rows = remaining /\ ~TooFewColumns

DimsInv == DimsTypeOK /\ FactorInv /\ ResultInv

-----------------------------------------------------------------------------
\* Facts of arithmetic that the provers need one at a time.
LEMMA ExactQuotient ==
  ASSUME NEW a \in Nat \ {0}, NEW b \in Nat
  PROVE  (a * b) \div a = b
<1> DEFINE q == (a * b) \div a
           m == (a * b) % a
<1>1. /\ a * b \in Int
      /\ q \in Int
      /\ m \in 0 .. (a - 1)
      /\ a * b = (a * q) + m
  BY SMT
<1> HIDE DEF q, m
<1>2. a * (b - q) = m
  BY <1>1, SMT
<1>3. b - q < 1
  <2>1. SUFFICES ASSUME b - q >= 1 PROVE FALSE
    BY <1>1, SMT
  <2>2. a * (b - q) >= a * 1
    BY <2>1, <1>1, SMT
  <2> QED BY <2>2, <1>1, <1>2, SMT
<1>4. b - q > -1
  <2>1. SUFFICES ASSUME q - b >= 1 PROVE FALSE
    BY <1>1, SMT
  <2>2. a * (q - b) >= a * 1
    BY <2>1, <1>1, SMT
  <2>3. a * (q - b) = -m
    BY <1>1, <1>2, SMT
  <2> QED BY <2>2, <2>3, <1>1, SMT
<1>5. q = b
  BY <1>1, <1>3, <1>4, SMT
<1> QED BY <1>5 DEF q

LEMMA Quotient ==
  ASSUME NEW n \in Nat \ {0}, NEW f \in Nat \ {0}, n % f = 0
  PROVE  n \div f \in Nat \ {0} /\ f * (n \div f) = n
<1> DEFINE q == n \div f
<1>1. q \in Int /\ n = (f * q) + (n % f)
  BY SMT
<1> HIDE DEF q
<1>2. f * q = n
  BY <1>1, SMT
<1>3. q > 0
  <2>1. SUFFICES ASSUME q <= 0 PROVE FALSE
    BY <1>1, SMT
  <2>2. f * q <= 0
    BY <2>1, <1>1, SMT
  <2> QED BY <2>2, <1>2, SMT
<1> QED BY <1>1, <1>2, <1>3 DEF q

LEMMA Doubling ==
  ASSUME NEW c \in Nat, NEW k \in Nat
  PROVE  /\ (c * 2) * k = c * (2 * k)
         /\ (c * 2) * (c * 2) = 4 * (c * c)
BY SMT

-----------------------------------------------------------------------------
LEMMA InitDims == DimsInit => DimsInv
BY MaxRanksAssumption DEF DimsInit, DimsInv, DimsTypeOK, FactorInv, ResultInv

LEMMA TakeFactorKeeps ==
  ASSUME DimsInv, TakeFactor
  PROVE  DimsInv'
<1> DEFINE factor == IF ranks % 25 = 0 THEN 5 ELSE IF ranks % 9 = 0 THEN 3 ELSE 1
<1>1. ranks \in Nat \ {0} /\ rows = 0
  BY MaxRanksAssumption DEF DimsInv, DimsTypeOK, TakeFactor
<1>2. factor \in {1, 3, 5} /\ ranks % factor = 0 /\ factor * factor <= ranks
  BY <1>1, SMT
<1>3. /\ ranks \div factor \in Nat \ {0}
      /\ factor * (ranks \div factor) = ranks
  BY <1>1, <1>2, Quotient
<1>4. /\ cols' = factor
      /\ remaining' = ranks \div factor
      /\ phase' = "loop"
      /\ ranks' = ranks
      /\ rows' = rows
  BY DEF TakeFactor
<1> HIDE DEF factor
<1>5. factor \in Nat \ {0} /\ factor * factor < 4 * ranks
  BY <1>1, <1>2, SMT
<1>6. DimsTypeOK'
  BY <1>1, <1>3, <1>4, <1>5 DEF DimsInv, DimsTypeOK
<1>7. FactorInv'
  BY <1>3, <1>4, <1>5 DEF FactorInv
<1>8. ResultInv'
  BY <1>4 DEF ResultInv
<1> QED BY <1>6, <1>7, <1>8 DEF DimsInv

LEMMA HalveKeeps ==
  ASSUME DimsInv, Halve
  PROVE  DimsInv'
<1>1. /\ phase = "loop" /\ phase' = phase
      /\ ranks' = ranks /\ rows' = rows
      /\ remaining' = remaining \div 2
      /\ cols' = cols * 2
      /\ remaining % 2 = 0 /\ cols * cols < ranks
  BY DEF Halve, TooFewColumns
<1>2. /\ ranks \in Nat \ {0} /\ cols \in Nat \ {0} /\ remaining \in Nat \ {0}
      /\ cols * remaining = ranks
      /\ ranks \in 1 .. MaxRanks /\ rows = 0
  BY <1>1, MaxRanksAssumption DEF DimsInv, DimsTypeOK, FactorInv
<1>3. /\ remaining' \in Nat \ {0}
      /\ 2 * remaining' = remaining
  BY <1>1, <1>2, Quotient
<1>4. cols' * remaining' = ranks
  BY <1>1, <1>2, <1>3, Doubling
<1>5. cols' * cols' < 4 * ranks
  <2>1. cols' * cols' = 4 * (cols * cols)
    BY <1>1, <1>2, Doubling
  <2>2. cols * cols \in Nat
    BY <1>2, SMT
  <2> QED BY <2>1, <2>2, <1>1, <1>2, SMT
<1>6. DimsTypeOK'
  BY <1>1, <1>2, <1>3 DEF DimsTypeOK
<1>7. FactorInv' /\ ResultInv'
  BY <1>1, <1>4, <1>5 DEF FactorInv, ResultInv
<1> QED BY <1>6, <1>7 DEF DimsInv

LEMMA DivideKeeps ==
  ASSUME DimsInv, Divide
  PROVE  DimsInv'
<1>1. /\ phase = "loop" /\ phase' = "done" /\ ~TooFewColumns
      /\ rows' = ranks \div cols
      /\ ranks' = ranks /\ cols' = cols /\ remaining' = remaining
  BY DEF Divide
<1>2. /\ cols \in Nat \ {0} /\ remaining \in Nat \ {0}
      /\ cols * remaining = ranks
  BY <1>1 DEF DimsInv, DimsTypeOK, FactorInv
<1>3. rows' = remaining
  BY <1>1, <1>2, ExactQuotient
<1>4. DimsTypeOK'
  BY <1>1, <1>2, <1>3 DEF DimsInv, DimsTypeOK
<1>5. FactorInv' /\ ResultInv'
  BY <1>1, <1>3 DEF DimsInv, FactorInv, ResultInv, TooFewColumns
<1> QED BY <1>4, <1>5 DEF DimsInv

\* The columns and the remaining rows multiply to the ranks in every state of
\* halo_compatible_dims.
THEOREM DimsInvariant == DimsSpec => []DimsInv
<1>1. DimsInv /\ [DimsNext]_dimsVars => DimsInv'
  <2> SUFFICES ASSUME DimsInv, [DimsNext]_dimsVars PROVE DimsInv'
    OBVIOUS
  <2>1. CASE TakeFactor
    BY <2>1, TakeFactorKeeps
  <2>2. CASE Halve
    BY <2>2, HalveKeeps
  <2>3. CASE Divide
    BY <2>3, DivideKeeps
  <2>4. CASE UNCHANGED dimsVars
    BY <2>4 DEF dimsVars, DimsInv, DimsTypeOK, FactorInv, ResultInv, TooFewColumns
  <2> QED BY <2>1, <2>2, <2>3, <2>4 DEF DimsNext
<1> QED BY InitDims, <1>1, PTL DEF DimsSpec

\* The loop of halo_compatible_dims never divides by zero or leaves the
\* positive numbers.
THEOREM DimsTypeCorrect == DimsSpec => []DimsTypeOK
<1>1. DimsInv => DimsTypeOK
  BY DEF DimsInv
<1> QED BY DimsInvariant, <1>1, PTL

\* The grid given to MPI_Cart_create has as many places as there are ranks.
THEOREM EveryRankHasAPlace == DimsSpec => []GridUsesEveryRank
<1>1. DimsInv => GridUsesEveryRank
  <2> SUFFICES ASSUME DimsInv, phase = "done" PROVE rows * cols = ranks
    BY DEF GridUsesEveryRank
  <2>1. cols * rows = ranks /\ cols \in Nat /\ rows \in Nat
    BY DEF DimsInv, DimsTypeOK, FactorInv, ResultInv
  <2> QED BY <2>1, SMT
<1> QED BY DimsInvariant, <1>1, PTL

\* The grid is never four times wider than high, and is higher than wide only
\* when halo_compatible_dims could not move another factor of two.
THEOREM GridIsNearlySquare == DimsSpec => []NearlySquare
<1>1. DimsInv => NearlySquare
  <2> SUFFICES ASSUME DimsInv, phase = "done"
               PROVE  cols < 4 * rows /\ (cols < rows => rows % 2 = 1)
    BY DEF NearlySquare
  <2>1. /\ cols \in Nat \ {0} /\ rows \in Nat \ {0}
        /\ cols * rows = ranks /\ cols * cols < 4 * ranks
        /\ rows = remaining /\ ~TooFewColumns
    BY DEF DimsInv, DimsTypeOK, FactorInv, ResultInv
  <2>2. cols < 4 * rows
    <3>1. SUFFICES ASSUME cols >= 4 * rows PROVE FALSE
      BY <2>1, SMT
    <3>2. cols * cols >= cols * (4 * rows)
      BY <2>1, <3>1, SMT
    <3>3. cols * (4 * rows) = 4 * (cols * rows)
      BY <2>1, SMT
    <3> QED BY <2>1, <3>2, <3>3, SMT
  <2>3. ASSUME cols < rows PROVE rows % 2 = 1
    <3>1. cols * cols < cols * rows
      BY <2>1, <2>3, SMT
    <3>2. rows % 2 # 0 \/ rows = 1
      BY <2>1, <3>1 DEF TooFewColumns
    <3> QED BY <2>1, <3>2, SMT
  <2> QED BY <2>2, <2>3
<1> QED BY DimsInvariant, <1>1, PTL

-----------------------------------------------------------------------------
(***************************************************************************)
(* That runs of one stem that follow each other have bundles of their own, *)
(* in which nothing is overwritten but the environment of a suite's case,  *)
(* and which are complete if the case passes, for any number of runs and   *)
(* suites, killed at any point.                                            *)
(*                                                                         *)
(* The argument: a run of a stem that is neither waiting nor ended is the  *)
(* only one, so a name that Probe found free is free in Make.  From there  *)
(* on the bundle is the run's, its files are what Written says, and a      *)
(* suite touches them only when their run has written the last of them.    *)
(***************************************************************************)
\* Runs with the same stem never overlap.
InSequence ==
  \A p, r \in Run :
    p # r /\ StemOf[p] = StemOf[r] => p \in Before[r] \/ r \in Before[p]

\* Run r has a bundle; a killed run counts from its first file on.
Placed(r) == Holds(r) \/ next[r] > 1

\* The suite goes on only with a case whose run.sh exited with 0.
OutcomeOf(r) ==
  /\ script[r] \notin RunEnded => outcome[r] = "open"
  /\ outcome[r] \in {"capture", "verify", "passed"} =>
       r \in Suite /\ script[r] = "exited" /\ status[r] = 0

\* Those who write in the bundle of run r, and the one of the file i.
Of(r) == {By(r), Begun(r), Captured(r)}

Marks(r, i) ==
  IF i # 4 \/ outcome[r] = "open" THEN {By(r)}
  ELSE IF outcome[r] = "capture" THEN {Begun(r)}
  ELSE Of(r)

\* The files of a run with a bundle.  The benchmark writes files 5 and 6: they
\* may be missing once it has ended with a status other than 0.
Written(r) ==
  \A i \in 1 .. 8 :
    LET writer == content[Mine(r)][Files[i]] IN
    /\ i >= next[r] => writer = Nobody
    /\ i < next[r] => writer \in Marks(r, i) \cup {Nobody}
    /\ i < next[r] /\ (i \in {5, 6} /\ next[r] > 6 => status[r] = 0)
         => writer \in Marks(r, i)

NextFileOf(r) ==
  /\ script[r] \in {"waiting", "probe", "make"} => next[r] = 1
  /\ script[r] = "prepare" => next[r] \in 1 .. 4
  /\ script[r] = "launch" => next[r] = 5
  /\ script[r] = "measure" => next[r] \in 5 .. 6
  /\ script[r] = "finish" => next[r] \in 7 .. 8
  /\ script[r] = "exited" => next[r] = 9
  /\ status[r] = 0 => next[r] > 6

NextFileInv == \A r \in Run : NextFileOf(r) /\ OutcomeOf(r)

\* A run that has started was preceded by what it waits for.
PredecessorsEnded ==
  \A r \in Run :
    script[r] \notin {"waiting", "killed"} => \A p \in Before[r] : script[p] \in RunEnded

FoundFree == \A r \in Run : script[r] = "make" => Mine(r) \notin exists

PlacedInv ==
  \A p, r \in Run :
    /\ Placed(r) => Mine(r) \in exists
    /\ Placed(p) /\ Placed(r) /\ Mine(p) = Mine(r) => p = r

FilesInv ==
  /\ \A b \in Bundle, f \in File :
       /\ content[b][f] # Nobody => b \in exists
       /\ \A r \in Run : content[b][f] \in Of(r) => b = Mine(r) /\ next[r] > 1
  /\ \A r \in Run : Placed(r) => Written(r)

BundleInv ==
  BundleTypeOK /\ NextFileInv /\ PredecessorsEnded /\ FoundFree /\ PlacedInv /\ FilesInv

-----------------------------------------------------------------------------
LEMMA FilesAre ==
  /\ Len(Files) = 8
  /\ Files[1] = "command.txt" /\ Files[2] = "system-resolution.txt"
  /\ Files[3] = "result-metadata.txt" /\ Files[4] = "environment.txt"
  /\ Files[5] = "ghalo.csv" /\ Files[6] = "ghalo.json"
  /\ Files[7] = "exit-status.txt" /\ Files[8] = "summary"
BY DEF Files

LEMMA FilesDiffer ==
  /\ \A i \in 1 .. 8 : Files[i] \in File
  /\ \A i, j \in 1 .. 8 : Files[i] = Files[j] => i = j
BY FilesAre DEF File

LEMMA EnvironmentIs ==
  /\ "environment.txt" \in File
  /\ \A i \in 1 .. 8 : Files[i] = "environment.txt" <=> i = 4
BY FilesAre, FilesDiffer

\* A file tells which run it is of, and which of the three wrote it.
LEMMA AuthorsDiffer ==
  ASSUME NEW p \in Run
  PROVE  /\ By(p) \in Author /\ Begun(p) \in Author /\ Captured(p) \in Author
         /\ By(p) \in Of(p) /\ Begun(p) \in Of(p) /\ Captured(p) \in Of(p)
         /\ Begun(p) # Captured(p) /\ By(p) # Captured(p) /\ By(p) # Begun(p)
         /\ Nobody \notin Of(p) /\ Earlier \notin Of(p)
         /\ \A w, r : w \in Of(p) /\ w \in Of(r) => p = r
<1>1. By(p) \in Author /\ Begun(p) \in Author /\ Captured(p) \in Author
  BY DEF By, Begun, Captured, Author
<1>2. By(p) # Begun(p) /\ Begun(p) # Captured(p) /\ By(p) # Captured(p)
  BY DEF By, Begun, Captured
<1>3. ASSUME NEW w, NEW r, w \in Of(p), w \in Of(r) PROVE p = r
  <2>1. w[1] = p /\ w[1] = r
    BY <1>3 DEF Of, By, Begun, Captured
  <2> QED BY <2>1
<1>4. Of(p) \subseteq Author
  BY <1>1 DEF Of
<1> QED BY <1>1, <1>2, <1>3, <1>4, BundleAssumption DEF Of

LEMMA MarksOf ==
  ASSUME NEW r \in Run, NEW i \in 1 .. 8
  PROVE  Marks(r, i) \subseteq Of(r) /\ Nobody \notin Marks(r, i)
BY AuthorsDiffer DEF Marks, Of

LEMMA MineType == ASSUME BundleTypeOK, NEW r \in Run PROVE Mine(r) \in Bundle
BY DEF BundleTypeOK, Mine, Bundle

LEMMA InitBundle == BundleInit => BundleInv
<1> SUFFICES ASSUME BundleInit PROVE BundleInv
  OBVIOUS
<1>1. BundleTypeOK
  <2>1. content \in [Bundle -> [File -> Author \cup {Nobody, Earlier}]]
    BY DEF BundleInit
  <2> QED BY <2>1, FilesAre, BundleAssumption DEF BundleInit, BundleTypeOK, Holds, RunEnded
<1>2. NextFileInv /\ PredecessorsEnded /\ FoundFree
  BY DEF BundleInit, NextFileInv, NextFileOf, OutcomeOf, PredecessorsEnded, FoundFree
<1>3. \A r \in Run : ~Placed(r)
  BY DEF BundleInit, Placed, Holds
<1>4. \A b \in Bundle, f \in File :
        content[b][f] = IF b \in Old THEN Earlier ELSE Nobody
  BY DEF BundleInit
<1>5. PlacedInv
  BY <1>3 DEF PlacedInv
<1>6. FilesInv
  BY <1>3, <1>4, AuthorsDiffer DEF BundleInit, FilesInv
<1> QED BY <1>1, <1>2, <1>5, <1>6 DEF BundleInv

-----------------------------------------------------------------------------
(***************************************************************************)
(* One run.                                                                *)
(***************************************************************************)
Writes(p) == Prepare(p) \/ Measure(p) \/ Finish(p)

LEMMA WriteIndex ==
  ASSUME BundleTypeOK, NextFileInv, NEW p \in Run, Writes(p)
  PROVE  /\ Write(p) /\ Holds(p) /\ Mine(p) \in exists
         /\ next[p] \in 1 .. 8 /\ next' = [next EXCEPT ![p] = @ + 1]
         /\ UNCHANGED <<suffix, exists>>
BY DEF BundleTypeOK, NextFileInv, NextFileOf, Writes, Prepare, Measure, Finish, Write, Holds

\* What a write changes.
LEMMA WriteContent ==
  ASSUME BundleTypeOK, NextFileInv, NEW p \in Run, Writes(p)
  PROVE  /\ content' \in [Bundle -> [File -> Author \cup {Nobody, Earlier}]]
         /\ \A b \in Bundle, f \in File :
              content'[b][f] = IF b = Mine(p) /\ f = Files[next[p]]
                               THEN By(p) ELSE content[b][f]
<1>1. Mine(p) \in Bundle /\ Files[next[p]] \in File
  BY WriteIndex, MineType, FilesDiffer
<1>2. content' = [content EXCEPT ![Mine(p)][Files[next[p]]] = By(p)]
  BY WriteIndex DEF Write
<1>3. content \in [Bundle -> [File -> Author \cup {Nobody, Earlier}]] /\ By(p) \in Author
  BY AuthorsDiffer DEF BundleTypeOK
<1> HIDE DEF Bundle, File, Author
<1> QED BY <1>1, <1>2, <1>3

\* A step of a run leaves the others alone.
LEMMA OthersStay ==
  ASSUME BundleTypeOK, NEW p \in Run, RunStep(p) \/ Kill(p),
         NEW r \in Run, r # p
  PROVE  /\ script'[r] = script[r] /\ suffix'[r] = suffix[r]
         /\ next'[r] = next[r] /\ status'[r] = status[r]
BY DEF BundleTypeOK, RunStep, Start, Probe, Make, Prepare, Launch, Measure, MeasureFails,
       Finish, Kill, Write

\* The steps that write no file.
LEMMA QuietRunStep ==
  ASSUME NEW p \in Run, RunStep(p) \/ Kill(p), ~Writes(p)
  PROVE  content' = content
BY DEF RunStep, Start, Probe, Make, Launch, MeasureFails, Kill, Writes

\* The suite has not yet taken up a run that is under way.
LEMMA RunIsActive ==
  ASSUME NextFileInv, NEW p \in Run, RunStep(p) \/ Kill(p)
  PROVE  script[p] \notin RunEnded /\ outcome' = outcome /\ outcome[p] = "open"
BY DEF RunStep, Start, Probe, Make, Prepare, Launch, Measure, MeasureFails, Finish, Kill,
       RunEnded, NextFileInv, OutcomeOf

LEMMA StepNext ==
  ASSUME BundleTypeOK, NextFileInv, NEW p \in Run, RunStep(p) \/ Kill(p)
  PROVE  NextFileInv' /\ next'[p] >= next[p]
<1>1. NextFileOf(p)' /\ next'[p] >= next[p]
  <2> USE FilesAre DEF BundleTypeOK, NextFileInv, NextFileOf, LastPrepared, LastMeasured
  <2>1. CASE Start(p) \/ Probe(p) \/ Make(p) \/ Kill(p)
    BY <2>1 DEF Start, Probe, Make, Kill
  <2>2. CASE Prepare(p)
    BY <2>2 DEF Prepare, Write
  <2>3. CASE Launch(p) \/ MeasureFails(p)
    BY <2>3 DEF Launch, MeasureFails
  <2>4. CASE Measure(p)
    BY <2>4 DEF Measure, Write
  <2>5. CASE Finish(p)
    BY <2>5 DEF Finish, Write
  <2> QED BY <2>1, <2>2, <2>3, <2>4, <2>5 DEF RunStep
<1>2. OutcomeOf(p)'
  BY OthersStay, RunIsActive DEF OutcomeOf
<1>3. ASSUME NEW r \in Run, r # p PROVE NextFileOf(r)' /\ OutcomeOf(r)'
  BY <1>3, OthersStay, RunIsActive DEF NextFileInv, NextFileOf, OutcomeOf
<1> QED BY <1>1, <1>2, <1>3 DEF NextFileInv

LEMMA StepType ==
  ASSUME BundleTypeOK, NextFileInv, NEW p \in Run, RunStep(p) \/ Kill(p)
  PROVE  BundleTypeOK'
<1>1. content' \in [Bundle -> [File -> Author \cup {Nobody, Earlier}]]
  BY WriteContent, QuietRunStep DEF BundleTypeOK
<1>2. /\ script' \in [Run -> {"waiting", "probe", "make", "prepare", "launch",
                      "measure", "finish"} \cup RunEnded]
      /\ suffix' \in [Run -> 1 .. MaxSuffix]
      /\ status' \in [Run -> {0, 1}]
  <2> USE BundleAssumption DEF BundleTypeOK, RunEnded
  <2>1. CASE Start(p) \/ Make(p) \/ Kill(p)
    BY <2>1 DEF Start, Make, Kill
  <2>2. CASE Probe(p)
    <3>1. CASE Free(p)
      BY <2>2, <3>1 DEF Probe
    <3>2. CASE ~Free(p)
      <4>1. suffix[p] + 1 \in 1 .. MaxSuffix
        BY <2>2, <3>2 DEF Probe
      <4> QED BY <2>2, <3>2, <4>1 DEF Probe
    <3> QED BY <3>1, <3>2
  <2>3. CASE Prepare(p) \/ Finish(p)
    BY <2>3 DEF Prepare, Finish
  <2>4. CASE Measure(p)
    <3>1. CASE next[p] = LastMeasured
      BY <2>4, <3>1 DEF Measure
    <3>2. CASE next[p] # LastMeasured
      BY <2>4, <3>2 DEF Measure
    <3> QED BY <3>1, <3>2
  <2>5. CASE Launch(p)
    BY <2>5 DEF Launch
  <2>6. CASE MeasureFails(p)
    BY <2>6 DEF MeasureFails
  <2> QED BY <2>1, <2>2, <2>3, <2>4, <2>5, <2>6 DEF RunStep
<1>3. next' \in [Run -> 1 .. Len(Files) + 1]
  <2>1. CASE Writes(p)
    BY <2>1, WriteIndex, FilesAre DEF BundleTypeOK
  <2>2. CASE ~Writes(p)
    BY <2>2, FilesAre DEF BundleTypeOK, RunStep, Start, Probe, Make, Launch, MeasureFails,
       Kill, Writes, LastMeasured
  <2> QED BY <2>1, <2>2
<1>4. exists' \subseteq Bundle /\ exists \subseteq exists'
  BY MineType DEF BundleTypeOK, RunStep, Start, Probe, Make, Prepare, Launch,
     Measure, MeasureFails, Finish, Kill, Write
<1>5. \A r \in Run : Holds(r)' => Mine(r)' \in exists'
  <2>1. ASSUME NEW r \in Run, r # p, Holds(r)' PROVE Mine(r)' \in exists'
    BY <2>1, <1>4, OthersStay DEF BundleTypeOK, Holds, Mine
  <2>2. CASE Make(p)
    <3>1. Mine(p)' = Mine(p) /\ Mine(p) \in exists'
      BY <2>2 DEF Make, Mine
    <3> QED BY <2>1, <3>1
  <2>3. CASE ~Make(p)
    <3>1. Holds(p)' => Holds(p) /\ suffix'[p] = suffix[p]
      BY <2>3 DEF BundleTypeOK, RunStep, Start, Probe, Prepare, Launch, Measure,
         MeasureFails, Finish, Kill, Write, Holds
    <3>2. Holds(p)' => Mine(p)' = Mine(p)
      BY <3>1 DEF Mine
    <3> QED BY <2>1, <3>1, <3>2, <1>4 DEF BundleTypeOK
  <2> QED BY <2>2, <2>3
<1> QED BY <1>1, <1>2, <1>3, <1>4, <1>5, RunIsActive DEF BundleTypeOK

-----------------------------------------------------------------------------
(***************************************************************************)
(* The suite.                                                              *)
(***************************************************************************)
\* Its steps leave the runs as they are and the other cases where they are.
LEMMA SuiteStays ==
  ASSUME BundleTypeOK, NextFileInv, NEW p \in Run, SuiteStep(p)
  PROVE  /\ UNCHANGED runVars
         /\ outcome' \in [Run -> {"open", "capture", "verify"} \cup CaseEnded]
         /\ \A r \in Run : r # p => outcome'[r] = outcome[r]
         /\ script[p] \in RunEnded
         /\ OutcomeOf(p)'
<1> USE DEF Goto, CaseEnded
<1> SUFFICES /\ UNCHANGED runVars
             /\ \E to \in {"capture", "verify"} \cup CaseEnded :
                  /\ outcome' = [outcome EXCEPT ![p] = to]
                  /\ script[p] \in RunEnded
                  /\ to \in {"capture", "verify", "passed"} =>
                       p \in Suite /\ script[p] = "exited" /\ status[p] = 0
  BY DEF BundleTypeOK, OutcomeOf, runVars
<1>1. CASE GiveUp(p) \/ KillSuite(p)
  BY <1>1 DEF GiveUp, KillSuite, Ending
<1>2. CASE BeginCapture(p) \/ SkipCapture(p)
  BY <1>2 DEF BeginCapture, SkipCapture, Ending, ExitedWithZero
<1>3. CASE EndCapture(p) \/ Verify(p)
  <2>1. p \in Suite /\ script[p] = "exited" /\ status[p] = 0
    BY <1>3 DEF EndCapture, Verify, NextFileInv, OutcomeOf
  <2> QED BY <1>3, <2>1 DEF EndCapture, Verify, RunEnded
<1> QED BY <1>1, <1>2, <1>3 DEF SuiteStep

\* capture_environment.sh writes w over the environment of the case p.
Captures(p, w) ==
  /\ p \in Suite /\ script[p] = "exited" /\ status[p] = 0
  /\ \/ outcome[p] = "open" /\ outcome'[p] = "capture" /\ w = Begun(p)
     \/ outcome[p] = "capture" /\ outcome'[p] = "verify" /\ w = Captured(p)
  /\ content' = [content EXCEPT ![Mine(p)]["environment.txt"] = w]

LEMMA SuiteContent ==
  ASSUME BundleTypeOK, NextFileInv, NEW p \in Run, SuiteStep(p)
  PROVE  \/ content' = content /\ outcome'[p] \notin {"open", "capture"}
         \/ \E w \in {Begun(p), Captured(p)} : Captures(p, w)
<1> USE DEF Goto, CaseEnded
<1>1. CASE GiveUp(p) \/ KillSuite(p) \/ SkipCapture(p) \/ Verify(p)
  BY <1>1 DEF GiveUp, KillSuite, SkipCapture, Verify, BundleTypeOK
<1>2. CASE BeginCapture(p)
  BY <1>2 DEF BeginCapture, Ending, ExitedWithZero, Captures, BundleTypeOK
<1>3. CASE EndCapture(p)
  <2>1. p \in Suite /\ script[p] = "exited" /\ status[p] = 0
    BY <1>3 DEF EndCapture, NextFileInv, OutcomeOf
  <2> QED BY <1>3, <2>1 DEF EndCapture, Captures, BundleTypeOK
<1> QED BY <1>1, <1>2, <1>3 DEF SuiteStep

\* What a capture changes.
LEMMA CaptureContent ==
  ASSUME BundleTypeOK, NEW p \in Run, NEW w \in Of(p), Captures(p, w)
  PROVE  /\ content' \in [Bundle -> [File -> Author \cup {Nobody, Earlier}]]
         /\ \A b \in Bundle, f \in File :
              content'[b][f] = IF b = Mine(p) /\ f = "environment.txt"
                               THEN w ELSE content[b][f]
<1>1. Mine(p) \in Bundle /\ "environment.txt" \in File
  BY MineType, EnvironmentIs
<1>2. content' = [content EXCEPT ![Mine(p)]["environment.txt"] = w]
  BY DEF Captures
<1>3. content \in [Bundle -> [File -> Author \cup {Nobody, Earlier}]] /\ w \in Author
  BY AuthorsDiffer DEF BundleTypeOK, Of
<1> HIDE DEF Bundle, File, Author
<1> QED BY <1>1, <1>2, <1>3

LEMMA SuiteType ==
  ASSUME BundleTypeOK, NextFileInv, NEW p \in Run, SuiteStep(p)
  PROVE  BundleTypeOK' /\ NextFileInv'
<1>1. content' \in [Bundle -> [File -> Author \cup {Nobody, Earlier}]]
  <2>1. CASE content' = content
    BY <2>1 DEF BundleTypeOK
  <2> QED BY <2>1, SuiteContent, CaptureContent, AuthorsDiffer
<1>2. UNCHANGED runVars
  BY SuiteStays
<1>3. BundleTypeOK'
  BY <1>1, <1>2, SuiteStays DEF BundleTypeOK, runVars, Holds, Mine
<1>4. ASSUME NEW r \in Run PROVE NextFileOf(r)' /\ OutcomeOf(r)'
  <2>1. NextFileOf(r)'
    BY <1>2 DEF runVars, NextFileInv, NextFileOf
  <2>2. OutcomeOf(r)'
    <3>1. CASE r = p
      BY <3>1, SuiteStays
    <3>2. CASE r # p
      BY <1>2, <3>2, SuiteStays DEF runVars, NextFileInv, OutcomeOf
    <3> QED BY <3>1, <3>2
  <2> QED BY <2>1, <2>2
<1> QED BY <1>3, <1>4 DEF NextFileInv

\* The state has its types, whichever runs and suites there are at once.
THEOREM BundleTypeCorrect == BundleSpec => []BundleTypeOK
<1>1. BundleInit => BundleTypeOK /\ NextFileInv
  BY InitBundle DEF BundleInv
<1>2. /\ BundleTypeOK /\ NextFileInv /\ [BundleNext]_bundleVars
      => (BundleTypeOK /\ NextFileInv)'
  <2> SUFFICES ASSUME BundleTypeOK, NextFileInv, [BundleNext]_bundleVars
               PROVE  (BundleTypeOK /\ NextFileInv)'
    OBVIOUS
  <2>1. CASE \E p \in Run : RunStep(p) \/ Kill(p)
    BY <2>1, StepType, StepNext
  <2>2. CASE \E p \in Run : SuiteStep(p)
    BY <2>2, SuiteType
  <2>3. CASE UNCHANGED bundleVars
    BY <2>3 DEF bundleVars, BundleTypeOK, NextFileInv, NextFileOf, OutcomeOf, Holds, Mine
  <2> QED BY <2>1, <2>2, <2>3 DEF BundleNext, AllEnded
<1> QED BY <1>1, <1>2, PTL DEF BundleSpec

-----------------------------------------------------------------------------
(***************************************************************************)
(* The runs of a stem.                                                     *)
(***************************************************************************)
LEMMA StepPredecessors ==
  ASSUME BundleTypeOK, PredecessorsEnded, NEW p \in Run, RunStep(p) \/ Kill(p)
  PROVE  PredecessorsEnded'
<1> SUFFICES ASSUME NEW r \in Run, script'[r] \notin {"waiting", "killed"},
                    NEW q \in Before[r]
             PROVE  script'[q] \in RunEnded
  BY DEF PredecessorsEnded, RunEnded
<1>1. script[p] \notin RunEnded
  BY DEF RunStep, Start, Probe, Make, Prepare, Launch, Measure, MeasureFails,
         Finish, Kill, RunEnded
<1>2. q \in Run
  BY BundleAssumption
<1>3. CASE r # p
  <2>1. script[q] \in RunEnded
    BY <1>3, OthersStay DEF PredecessorsEnded
  <2> QED BY <1>1, <1>2, <2>1, OthersStay
<1>4. CASE r = p
  <2>1. ~Kill(p)
    BY <1>4 DEF Kill, BundleTypeOK
  <2>2. script[q] \in RunEnded
    <3>1. CASE Start(p)
      BY <1>4, <3>1 DEF Start, Over
    <3>2. CASE ~Start(p)
      <4>1. script[p] \notin {"waiting", "killed"}
        BY <2>1, <3>2, <1>1 DEF RunStep, Probe, Make, Prepare, Launch, Measure,
           MeasureFails, Finish, RunEnded
      <4> QED BY <1>4, <4>1 DEF PredecessorsEnded
    <3> QED BY <3>1, <3>2
  <2> QED BY <1>1, <1>2, <2>2, OthersStay
<1> QED BY <1>3, <1>4

\* Two runs of one stem are never in the middle of their work at once.
LEMMA Alone ==
  ASSUME InSequence, PredecessorsEnded, NEW p \in Run, NEW r \in Run,
         StemOf[p] = StemOf[r],
         script[p] \notin RunEnded \cup {"waiting"},
         script[r] \notin RunEnded \cup {"waiting"}
  PROVE  p = r
BY DEF InSequence, PredecessorsEnded, RunEnded

LEMMA StepFoundFree ==
  ASSUME InSequence, BundleInv, NEW p \in Run, RunStep(p) \/ Kill(p)
  PROVE  FoundFree'
<1> SUFFICES ASSUME NEW r \in Run, script'[r] = "make" PROVE Mine(r)' \notin exists'
  BY DEF FoundFree
<1>1. CASE r = p
  <2>1. Probe(p) /\ Free(p) /\ UNCHANGED <<suffix, exists>>
    BY <1>1 DEF BundleInv, BundleTypeOK, RunStep, Start, Probe, Make, Prepare, Launch,
       Measure, MeasureFails, Finish, Kill
  <2> QED BY <1>1, <2>1 DEF Free, Mine
<1>2. CASE r # p
  <2>1. Mine(r)' = Mine(r) /\ script[r] = "make" /\ Mine(r) \notin exists
    BY <1>2, OthersStay DEF BundleInv, FoundFree, Mine
  <2>2. CASE Make(p)
    <3>1. StemOf[p] # StemOf[r]
      BY <1>2, <2>1, <2>2, Alone DEF BundleInv, Make, RunEnded
    <3>2. Mine(p) # Mine(r)
      BY <3>1 DEF Mine
    <3> QED BY <2>1, <2>2, <3>2 DEF Make
  <2>3. CASE ~Make(p)
    <3>1. exists' = exists
      BY <2>3 DEF RunStep, Start, Probe, Prepare, Launch, Measure, MeasureFails,
         Finish, Kill
    <3> QED BY <2>1, <3>1
  <2> QED BY <2>2, <2>3
<1> QED BY <1>1, <1>2

\* Only Make gives a run a bundle, and a run keeps the one it has.
LEMMA PlacedBefore ==
  ASSUME BundleTypeOK, NextFileInv, NEW p \in Run, RunStep(p) \/ Kill(p), NEW r \in Run,
         Placed(r)', ~(Make(p) /\ r = p)
  PROVE  Placed(r) /\ Mine(r)' = Mine(r)
<1>1. CASE r # p
  BY <1>1, OthersStay DEF Placed, Holds, Mine
<1>2. CASE r = p
  <2>1. CASE Start(p) \/ Probe(p)
    BY <1>2, <2>1 DEF BundleTypeOK, NextFileInv, NextFileOf, Start, Probe, Placed, Holds
  <2>2. CASE Kill(p)
    BY <1>2, <2>2 DEF BundleTypeOK, Kill, Placed, Holds, Mine
  <2>3. CASE Prepare(p) \/ Launch(p) \/ Measure(p) \/ MeasureFails(p) \/ Finish(p)
    BY <1>2, <2>3 DEF Prepare, Launch, Measure, MeasureFails, Finish, Placed,
       Holds, Mine
  <2> QED BY <1>2, <2>1, <2>2, <2>3 DEF RunStep
<1> QED BY <1>1, <1>2

LEMMA StepPlaced ==
  ASSUME BundleInv, NEW p \in Run, RunStep(p) \/ Kill(p)
  PROVE  PlacedInv'
<1>1. exists \subseteq exists'
  BY DEF RunStep, Start, Probe, Make, Prepare, Launch, Measure, MeasureFails,
     Finish, Kill
<1>2. CASE Make(p)
  <2>1. Mine(p) \notin exists /\ Mine(p)' = Mine(p) /\ Mine(p) \in exists'
    BY <1>2 DEF BundleInv, FoundFree, Make, Mine
  <2>2. \A r \in Run : r # p /\ Placed(r)' =>
          Placed(r) /\ Mine(r)' = Mine(r) /\ Mine(r) \in exists
    BY PlacedBefore DEF BundleInv, PlacedInv
  <2>3. \A r \in Run : Placed(r)' => Mine(r)' \in exists'
    BY <1>1, <2>1, <2>2
  <2>4. \A q, r \in Run : Placed(q)' /\ Placed(r)' /\ Mine(q)' = Mine(r)' => q = r
    BY <2>1, <2>2 DEF BundleInv, PlacedInv
  <2> QED BY <2>3, <2>4 DEF PlacedInv
<1>3. CASE ~Make(p)
  <2>1. \A r \in Run : Placed(r)' => Placed(r) /\ Mine(r)' = Mine(r)
    BY <1>3, PlacedBefore DEF BundleInv
  <2> QED BY <1>1, <2>1 DEF BundleInv, PlacedInv
<1> QED BY <1>2, <1>3

-----------------------------------------------------------------------------
(***************************************************************************)
(* The files of a bundle.                                                  *)
(***************************************************************************)
\* Where a run writes next, nothing is.
LEMMA NextIsFree ==
  ASSUME BundleInv, NEW p \in Run, Writes(p)
  PROVE  content[Mine(p)][Files[next[p]]] = Nobody
BY WriteIndex DEF BundleInv, FilesInv, Written, Placed

\* What a run has written is in its bundle, and it keeps its bundle.
LEMMA WritersStay ==
  ASSUME BundleInv, NEW p \in Run, RunStep(p) \/ Kill(p), NEW r \in Run, next[r] > 1
  PROVE  next'[r] > 1 /\ Mine(r)' = Mine(r)
<1>1. next'[r] > 1
  <2>1. CASE r = p
    <3>1. next'[p] >= next[p] /\ BundleTypeOK'
      BY StepNext, StepType DEF BundleInv
    <3> QED BY <2>1, <3>1, FilesAre DEF BundleInv, BundleTypeOK
  <2>2. CASE r # p
    BY <2>2, OthersStay DEF BundleInv
  <2> QED BY <2>1, <2>2
<1>2. ~(Make(p) /\ r = p)
  BY DEF BundleInv, NextFileInv, NextFileOf, Make
<1> QED BY <1>1, <1>2, PlacedBefore DEF BundleInv, Placed

LEMMA StepWriters ==
  ASSUME BundleInv, NEW p \in Run, RunStep(p) \/ Kill(p),
         NEW b \in Bundle, NEW f \in File
  PROVE  /\ content'[b][f] # Nobody => b \in exists'
         /\ \A r \in Run : content'[b][f] \in Of(r) => b = Mine(r)' /\ next'[r] > 1
<1>1. exists \subseteq exists'
  BY DEF RunStep, Start, Probe, Make, Prepare, Launch, Measure, MeasureFails,
     Finish, Kill
<1>2. CASE content'[b][f] = content[b][f]
  <2>1. \A r \in Run : content[b][f] \in Of(r) => b = Mine(r) /\ next[r] > 1
    BY DEF BundleInv, FilesInv
  <2>2. \A r \in Run : content[b][f] \in Of(r) => b = Mine(r)' /\ next'[r] > 1
    BY <2>1, WritersStay
  <2>3. content[b][f] # Nobody => b \in exists
    BY DEF BundleInv, FilesInv
  <2> QED BY <1>1, <1>2, <2>2, <2>3
<1>3. CASE content'[b][f] # content[b][f]
  <2>1. Writes(p)
    BY <1>3, QuietRunStep
  <2>2. b = Mine(p) /\ content'[b][f] = By(p)
    BY <1>3, <2>1, WriteContent DEF BundleInv
  <2>3. Mine(p) \in exists' /\ Mine(p)' = Mine(p) /\ next'[p] > 1
    BY <2>1, WriteIndex DEF BundleInv, BundleTypeOK, Mine
  <2> QED BY <2>2, <2>3, AuthorsDiffer
<1> QED BY <1>2, <1>3

\* A run that writes adds its next file and leaves the earlier ones.
LEMMA WriterWritten ==
  ASSUME BundleInv, NEW p \in Run, Writes(p)
  PROVE  Written(p)'
<1>1. /\ next[p] \in 1 .. 8 /\ next'[p] = next[p] + 1 /\ Mine(p)' = Mine(p)
      /\ Mine(p) \in Bundle /\ Written(p)
  BY WriteIndex, MineType DEF BundleInv, BundleTypeOK, FilesInv, Placed, Mine
<1>2. \A i \in 1 .. 8 : content'[Mine(p)][Files[i]] =
        IF i = next[p] THEN By(p) ELSE content[Mine(p)][Files[i]]
  BY <1>1, WriteContent, FilesDiffer DEF BundleInv
<1>3. status'[p] = 0 /\ next[p] > 6 => status[p] = 0
  BY DEF Writes, Prepare, Measure, Finish, BundleInv, NextFileInv, NextFileOf
<1>4. next'[p] > 6 /\ next[p] <= 6 => status'[p] = 0
  BY <1>1 DEF Writes, Prepare, Measure, Finish, BundleInv, BundleTypeOK, NextFileInv,
     NextFileOf, LastMeasured
<1>7. \A i \in 1 .. 8 : Marks(p, i) = {By(p)} /\ Marks(p, i)' = {By(p)}
  BY RunIsActive DEF BundleInv, Marks, Writes, RunStep
<1> SUFFICES ASSUME NEW i \in 1 .. 8
             PROVE  LET writer == content'[Mine(p)'][Files[i]] IN
                    /\ i >= next'[p] => writer = Nobody
                    /\ i < next'[p] => writer \in {By(p), Nobody}
                    /\ i < next'[p] /\ (i \in {5, 6} /\ next'[p] > 6
                                          => status'[p] = 0)
                         => writer \in {By(p)}
  BY <1>7 DEF Written
<1>5. CASE i = next[p]
  BY <1>1, <1>2, <1>5
<1>6. CASE i # next[p]
  BY <1>1, <1>2, <1>3, <1>4, <1>6, <1>7 DEF Written
<1> QED BY <1>5, <1>6

LEMMA StepWritten ==
  ASSUME BundleInv, NEW p \in Run, RunStep(p) \/ Kill(p), NEW r \in Run, Placed(r)'
  PROVE  Written(r)'
<1>0. \A i \in 1 .. 8 : Marks(r, i)' = Marks(r, i)
  BY RunIsActive DEF BundleInv, Marks
<1>1. CASE r # p
  <2>1. Placed(r) /\ Mine(r)' = Mine(r) /\ Written(r) /\ Mine(r) \in Bundle
    BY <1>1, PlacedBefore, MineType DEF BundleInv, FilesInv
  <2>2. \A i \in 1 .. 8 : content'[Mine(r)][Files[i]] = content[Mine(r)][Files[i]]
    <3>1. CASE Writes(p)
      <4>1. Mine(p) # Mine(r)
        BY <1>1, <2>1, <3>1, WriteIndex DEF BundleInv, PlacedInv, Placed
      <4> QED BY <2>1, <3>1, <4>1, WriteContent, FilesDiffer DEF BundleInv
    <3> QED BY <3>1, QuietRunStep
  <2>3. next'[r] = next[r] /\ status'[r] = status[r]
    BY <1>1, OthersStay DEF BundleInv
  <2> QED BY <1>0, <2>1, <2>2, <2>3 DEF Written
<1>2. CASE r = p /\ Writes(p)
  BY <1>2, WriterWritten
<1>3. CASE r = p /\ Make(p)
  <2>1. next'[p] = 1 /\ content' = content /\ Mine(p)' = Mine(p) /\ Mine(p) \notin exists
    BY <1>3 DEF Make, BundleInv, NextFileInv, NextFileOf, FoundFree, Mine
  <2>2. \A i \in 1 .. 8 : content[Mine(p)][Files[i]] = Nobody
    BY <2>1, MineType, FilesDiffer DEF BundleInv, FilesInv
  <2> QED BY <1>3, <2>1, <2>2 DEF Written
<1>4. CASE r = p /\ ~Writes(p) /\ ~Make(p)
  <2>1. Placed(p) /\ Mine(p)' = Mine(p) /\ Written(p) /\ content' = content
    BY <1>4, PlacedBefore, QuietRunStep DEF BundleInv, FilesInv
  <2>2. status'[p] = status[p]
    BY <1>4 DEF RunStep, Start, Probe, Launch, MeasureFails, Kill, Writes
  <2>3. \/ next'[p] = next[p]
        \/ next'[p] = 7 /\ next[p] \in {5, 6} /\ status[p] # 0
    BY <1>4 DEF RunStep, Start, Probe, Launch, MeasureFails, Kill, Writes,
       BundleInv, BundleTypeOK, NextFileInv, NextFileOf, LastMeasured
  <2>4. CASE next'[p] = next[p]
    BY <1>0, <1>4, <2>1, <2>2, <2>4 DEF Written
  <2>5. CASE next'[p] = 7 /\ next[p] \in {5, 6} /\ status[p] # 0
    BY <1>0, <1>4, <2>1, <2>2, <2>5 DEF Written
  <2> QED BY <2>3, <2>4, <2>5
<1> QED BY <1>1, <1>2, <1>3, <1>4

-----------------------------------------------------------------------------
\* A suite captures in the bundle of its own case, where run.sh has written
\* all there is; and it captures once.
LEMMA CapturedBefore ==
  ASSUME BundleInv, NEW p \in Run, NEW w, Captures(p, w)
  PROVE  /\ Placed(p) /\ next[p] = 9 /\ Written(p)
         /\ Mine(p) \in Bundle /\ Mine(p) \in exists
         /\ content[Mine(p)]["environment.txt"] \in
              IF outcome[p] = "open" THEN {By(p)} ELSE {Begun(p)}
<1>1. Placed(p) /\ next[p] = 9
  BY DEF BundleInv, NextFileInv, NextFileOf, Captures, Placed, Holds
<1>2. Written(p) /\ Mine(p) \in Bundle /\ Mine(p) \in exists
  BY <1>1, MineType DEF BundleInv, FilesInv, PlacedInv
<1>3. content[Mine(p)][Files[4]] \in Marks(p, 4)
  BY <1>1, <1>2 DEF Written
<1>4. Marks(p, 4) = IF outcome[p] = "open" THEN {By(p)} ELSE {Begun(p)}
  BY DEF Marks, Captures
<1> QED BY <1>1, <1>2, <1>3, <1>4, FilesAre

\* Of what a run has in its bundle a suite changes the environment alone.
LEMMA SuiteWritten ==
  ASSUME BundleInv, NEW p \in Run, SuiteStep(p), NEW r \in Run, Placed(r)
  PROVE  Written(r)'
<1>1. /\ Mine(r)' = Mine(r) /\ next' = next /\ status' = status
      /\ Written(r) /\ Mine(r) \in Bundle
  BY SuiteStays, MineType DEF BundleInv, FilesInv, runVars, Mine
<1>2. \A i \in 1 .. 8 : r # p \/ i # 4 => Marks(r, i)' = Marks(r, i)
  BY SuiteStays DEF BundleInv, Marks
<1>3. CASE content' = content /\ outcome'[p] \notin {"open", "capture"}
  <2>1. Marks(p, 4)' = Of(p)
    BY <1>3 DEF Marks
  <2>2. \A i \in 1 .. 8 : Marks(r, i) \subseteq Marks(r, i)'
    BY <1>2, <2>1, MarksOf
  <2> QED BY <1>1, <1>3, <2>2 DEF Written
<1>4. ASSUME NEW w \in {Begun(p), Captured(p)}, Captures(p, w) PROVE Written(r)'
  <2>1. \A i \in 1 .. 8 : content'[Mine(r)][Files[i]] =
          IF Mine(r) = Mine(p) /\ i = 4 THEN w ELSE content[Mine(r)][Files[i]]
    BY <1>1, <1>4, CaptureContent, AuthorsDiffer, FilesDiffer, EnvironmentIs DEF BundleInv
  <2>2. CASE r # p
    <3>1. Mine(r) # Mine(p)
      BY <1>4, <2>2, CapturedBefore DEF BundleInv, PlacedInv
    <3> QED BY <1>1, <1>2, <2>1, <2>2, <3>1 DEF Written
  <2>3. CASE r = p
    <3>1. next[p] = 9
      BY <1>4, CapturedBefore
    <3>2. w \in Marks(p, 4)'
      BY <1>4, AuthorsDiffer DEF Captures, Marks
    <3> QED BY <1>1, <1>2, <2>1, <2>3, <3>1, <3>2 DEF Written
  <2> QED BY <2>2, <2>3
<1> QED BY <1>3, <1>4, SuiteContent DEF BundleInv

LEMMA SuiteFiles ==
  ASSUME BundleInv, NEW p \in Run, SuiteStep(p)
  PROVE  FilesInv'
<1>1. \A r \in Run : Mine(r)' = Mine(r) /\ Placed(r)' = Placed(r)
  BY SuiteStays DEF BundleInv, runVars, Mine, Placed, Holds
<1>2. exists' = exists /\ next' = next
  BY SuiteStays DEF BundleInv, runVars
<1>3. ASSUME NEW b \in Bundle, NEW f \in File
      PROVE  /\ content'[b][f] # Nobody => b \in exists
             /\ \A r \in Run : content'[b][f] \in Of(r) => b = Mine(r) /\ next[r] > 1
  <2>1. CASE content'[b][f] = content[b][f]
    BY <2>1 DEF BundleInv, FilesInv
  <2>2. CASE content'[b][f] # content[b][f]
    <3>1. PICK w \in {Begun(p), Captured(p)} : Captures(p, w)
      BY <2>2, SuiteContent DEF BundleInv
    <3>2. w \in Of(p) /\ w # Nobody
      BY AuthorsDiffer
    <3>3. b = Mine(p) /\ content'[b][f] = w
      BY <2>2, <3>1, <3>2, CaptureContent DEF BundleInv
    <3>4. Mine(p) \in exists /\ next[p] = 9
      BY <3>1, CapturedBefore, Zenon
    <3> QED BY <3>2, <3>3, <3>4, AuthorsDiffer
  <2> QED BY <2>1, <2>2
<1> QED BY <1>1, <1>2, <1>3, SuiteWritten DEF FilesInv

LEMMA NextBundle ==
  ASSUME InSequence, BundleInv, [BundleNext]_bundleVars
  PROVE  BundleInv'
<1>1. CASE \E p \in Run : RunStep(p) \/ Kill(p)
  <2> PICK p \in Run : RunStep(p) \/ Kill(p)
    BY <1>1
  <2>1. BundleTypeOK' /\ NextFileInv' /\ PredecessorsEnded'
    BY StepType, StepNext, StepPredecessors DEF BundleInv
  <2>2. FoundFree' /\ PlacedInv'
    BY StepFoundFree, StepPlaced
  <2>3. FilesInv'
    BY StepWriters, StepWritten DEF FilesInv
  <2> QED BY <2>1, <2>2, <2>3 DEF BundleInv
<1>2. CASE \E p \in Run : SuiteStep(p)
  <2> PICK p \in Run : SuiteStep(p)
    BY <1>2
  <2>1. BundleTypeOK' /\ NextFileInv'
    BY SuiteType DEF BundleInv
  <2>2. UNCHANGED runVars
    BY SuiteStays DEF BundleInv
  <2>3. PredecessorsEnded' /\ FoundFree'
    BY <2>2 DEF runVars, BundleInv, PredecessorsEnded, FoundFree, Mine
  <2>4. PlacedInv'
    BY <2>2 DEF runVars, BundleInv, PlacedInv, Placed, Holds, Mine
  <2> QED BY <2>1, <2>3, <2>4, SuiteFiles DEF BundleInv
<1>3. CASE UNCHANGED bundleVars
  <2>1. \A r \in Run : Mine(r)' = Mine(r) /\ Placed(r)' = Placed(r)
    BY <1>3 DEF bundleVars, Mine, Placed, Holds
  <2>2. BundleTypeOK' /\ NextFileInv' /\ PredecessorsEnded'
    BY <1>3 DEF bundleVars, BundleInv, BundleTypeOK, Holds, Mine, NextFileInv, NextFileOf,
       OutcomeOf, PredecessorsEnded
  <2>3. FoundFree' /\ PlacedInv'
    BY <1>3, <2>1 DEF bundleVars, BundleInv, FoundFree, PlacedInv
  <2>4. FilesInv'
    <3>1. \A r \in Run : Written(r)' = Written(r)
      BY <1>3 DEF bundleVars, Written, Marks, Mine
    <3> QED BY <1>3, <2>1, <3>1 DEF bundleVars, BundleInv, FilesInv
  <2> QED BY <2>2, <2>3, <2>4 DEF BundleInv
<1> QED BY <1>1, <1>2, <1>3 DEF BundleNext, AllEnded

-----------------------------------------------------------------------------
\* Runs of one stem that follow each other never share a bundle, however many
\* are killed: what docs/BUILD_AND_RUN.md says of all runs.
THEOREM BundlesAreUnique == InSequence => (BundleSpec => []UniqueBundle)
<1> SUFFICES ASSUME InSequence PROVE BundleSpec => []UniqueBundle
  OBVIOUS
<1>1. BundleInv => UniqueBundle
  BY DEF BundleInv, PlacedInv, Placed, UniqueBundle
<1> QED BY InitBundle, NextBundle, <1>1, PTL DEF BundleSpec

\* Nor is a file overwritten, their own or that of an old bundle, but by the
\* suite of a case: that one captures the environment anew, when run.sh has
\* exited with 0 and before it verifies the bundle.
THEOREM NothingIsOverwritten == InSequence => (BundleSpec => NeverOverwrites)
<1> SUFFICES ASSUME InSequence PROVE BundleSpec => NeverOverwrites
  OBVIOUS
<1>1. BundleInv /\ [BundleNext]_bundleVars =>
        [\A b \in Bundle, f \in File :
           content[b][f] # Nobody /\ content'[b][f] # content[b][f] =>
             \E r \in Suite : Recaptures(r, b, f)]_bundleVars
  <2> SUFFICES ASSUME BundleInv, BundleNext, NEW b \in Bundle, NEW f \in File,
                      content[b][f] # Nobody, content'[b][f] # content[b][f]
               PROVE  \E r \in Suite : Recaptures(r, b, f)
    OBVIOUS
  <2>1. ASSUME NEW p \in Run, RunStep(p) \/ Kill(p) PROVE FALSE
    <3>1. CASE Writes(p)
      BY <3>1, WriteContent, NextIsFree DEF BundleInv
    <3> QED BY <2>1, <3>1, QuietRunStep
  <2>2. ASSUME NEW p \in Run, SuiteStep(p) PROVE \E r \in Suite : Recaptures(r, b, f)
    <3>1. PICK w \in {Begun(p), Captured(p)} : Captures(p, w)
      BY <2>2, SuiteContent DEF BundleInv
    <3>2. b = Mine(p) /\ f = "environment.txt" /\ content'[b][f] = w
      BY <3>1, CaptureContent, AuthorsDiffer DEF BundleInv
    <3>3. content[b][f] \in {By(p), Begun(p)}
      BY <3>1, <3>2, CapturedBefore
    <3>4. Recaptures(p, b, f)
      BY <3>1, <3>2, <3>3 DEF Captures, Recaptures
    <3> QED BY <3>1, <3>4 DEF Captures
  <2>3. ~AllEnded
    BY DEF AllEnded, bundleVars
  <2> QED BY <2>1, <2>2, <2>3 DEF BundleNext
<1> QED BY InitBundle, NextBundle, <1>1, PTL DEF BundleSpec, NeverOverwrites

\* A case that passes has a complete bundle, all of it of its own run, which
\* ended with 0; and it keeps it whatever other runs and suites do.
THEOREM VerifiedBundlesAreWhole == InSequence => (BundleSpec => []VerifiedIsWhole)
<1> SUFFICES ASSUME InSequence PROVE BundleSpec => []VerifiedIsWhole
  OBVIOUS
<1>1. BundleInv => VerifiedIsWhole
  <2> SUFFICES ASSUME BundleInv, NEW r \in Run, outcome[r] = "passed" PROVE Whole(r)
    BY DEF VerifiedIsWhole
  <2>1. status[r] = 0 /\ next[r] = 9
    BY DEF BundleInv, NextFileInv, OutcomeOf, NextFileOf
  <2>2. \A i \in 1 .. 8 : content[Mine(r)][Files[i]] \in Marks(r, i)
    BY <2>1 DEF BundleInv, FilesInv, Placed, Written
  <2>3. \A i \in 1 .. 8 : i # 4 => content[Mine(r)][Files[i]] = By(r)
    BY <2>2 DEF Marks
  <2>4. content[Mine(r)]["environment.txt"] \in {By(r), Begun(r), Captured(r)}
    BY <2>2, FilesAre DEF Marks, Of
  <2>5. \A f \in File \ {"environment.txt"} : content[Mine(r)][f] = By(r)
    BY <2>3, FilesAre, EnvironmentIs DEF File
  <2> QED BY <2>1, <2>4, <2>5 DEF Whole
<1> QED BY InitBundle, NextBundle, <1>1, PTL DEF BundleSpec

-----------------------------------------------------------------------------
(***************************************************************************)
(* That ranks stay in step through run_benchmark, on every grid and for    *)
(* every number of halo lengths, samples and iterations.                   *)
(*                                                                         *)
(* Between two collectives ranks run freely.  The invariant therefore says *)
(* of each rank what its next collective will be, with everything a rank   *)
(* carries into it: Upcoming(r), and Following(r) for a rank that is still *)
(* inside a collective, which it will leave with the decision the offers   *)
(* of all ranks make.  Ranks that have joined as many collectives have the *)
(* same next one, and one that is ahead is inside the other's next one.    *)
(***************************************************************************)
Running == \A q \in Rank : pc[q] # "killed"

Result == [halo : Nat, sample : Nat, iterations : Nat, seconds : Nat,
           stalls : SUBSET Nat]

Typed ==
  /\ pc \in [Rank -> Label]
  /\ stage \in [Rank -> Stage]
  /\ halo \in [Rank -> Nat] /\ sample \in [Rank -> Nat]
  /\ swaps \in [Rank -> Nat] /\ left \in [Rank -> Nat]
  /\ inside \in [Rank -> BOOLEAN]
  /\ elapsed \in [Rank -> Nat] /\ spent \in [Rank -> Seq(Nat)]
  /\ stalled \in [Rank -> SUBSET Nat]
  /\ iterations \in [Rank -> Nat]
  /\ joined \in [Rank -> Nat] /\ waiting \in [Rank -> BOOLEAN]
  /\ offer = [r \in Rank |-> [b \in {0, 1} |-> offer[r][b]]]
  /\ ok \in [Rank -> BOOLEAN]
  /\ results \in [Rank -> Seq(Result)]

\* MPI_Abort ends every rank.
KilledInv == Running \/ \A q \in Rank : pc[q] = "killed"

\* What is so at each place of the program, of one rank.
ExchangeOf(r) ==
  /\ pc[r] = "setup" => stage[r] = "setup"
  /\ pc[r] = "exchange" =>
       /\ stage[r] # "setup" /\ left[r] > 0
       /\ stage[r] \in {"warm_up", "validation"} => left[r] = 1
       /\ Record /\ stage[r] = "timed" => Len(spent[r]) + left[r] = iterations[r]
  /\ inside[r] => pc[r] \in {"exchange", "thrown"} /\ stage[r] # "setup"
  /\ stage[r] \in {"validation", "timed"} => iterations[r] > 0

CollectiveOf(r) ==
  /\ pc[r] \in {"barrier", "max_time"} => stage[r] \in {"calibration", "timed"}
  /\ pc[r] \in {"max_time_ranks", "gather", "done"} => stage[r] = "timed"
  /\ pc[r] \in {"max_time", "max_time_ranks", "gather"} => elapsed[r] > 0
  /\ pc[r] = "max_time_ranks" => Len(spent[r]) = iterations[r]
  /\ pc[r] \in {"verdict", "invalid"} => stage[r] = "validation"
  /\ pc[r] = "verdict" /\ Verdict = "throw" => ok[r]
  /\ IsFiniteSet(stalled[r])
  /\ waiting[r] =>
       /\ pc[r] \in Collective
       /\ Offer(r, r) = [op |-> pc[r], values |-> Values(r)]

LocalInv == \A r \in Rank : ExchangeOf(r) /\ CollectiveOf(r)

SameCall(a, b) == a.op = b.op /\ Len(a.values) = Len(b.values)

OffersInv ==
  /\ \A q \in Rank, b \in {0, 1} :
       /\ offer[q][b].op = "max_time" => offer[q][b].values[1] \in Nat \ {0}
       /\ Verdict = "throw" /\ offer[q][b].op = "verdict" => offer[q][b].values[1] = 0
  /\ \A q, r \in Rank :
       waiting[r] /\ joined[q] >= joined[r] => SameCall(Offer(q, r), Offer(r, r))

\* A rank is ahead of another by one collective at most, and inside it.
JoinedInv ==
  \A p, r \in Rank :
    /\ joined[p] <= joined[r] + 1
    /\ joined[p] = joined[r] + 1 => waiting[p]

-----------------------------------------------------------------------------
\* A collective, what a rank carries into it and how many exchanges it has
\* made by then.
Plan(op, st, h, s, it, sl, rs, goal) == <<op, st, h, s, it, sl, rs, goal>>

Measurement == IF Record THEN "max_time_ranks" ELSE "max_time"

StageCall(st) ==
  IF st = "calibration" THEN "max_time"
  ELSE IF st = "validation" THEN "verdict"
  ELSE IF st = "timed" THEN Measurement
  ELSE "barrier"

\* The next collective of rank r, or the one it is in.
NextCall(r) ==
  IF pc[r] \in {"setup", "exchange", "thrown"} THEN StageCall(stage[r])
  ELSE IF pc[r] = "invalid" /\ Verdict = "throw" THEN "verdict"
  ELSE pc[r]

NextStage(r) ==
  IF stage[r] \in {"setup", "warm_up"} THEN "calibration" ELSE stage[r]

Remaining(r) ==
  IF pc[r] \in {"setup", "exchange", "thrown"}
  THEN IF stage[r] = "setup" THEN 1 ELSE left[r]
  ELSE 0

Upcoming(r) ==
  Plan(NextCall(r), NextStage(r), halo[r], sample[r], iterations[r],
       stalled[r], results[r], swaps[r] + Remaining(r))

Extended(r) ==
  Append(results[r],
         [halo |-> halo[r], sample |-> sample[r], iterations |-> iterations[r],
          seconds |-> AgreedMax(r), stalls |-> stalled[r]])

\* The collective after the one a rank starts a sample from.
Sampling(r, h, n, it, rs) ==
  IF Verdict = "none"
  THEN Plan("barrier", "timed", h, n, it, stalled[r], rs, swaps[r])
  ELSE Plan("verdict", "validation", h, n, it, stalled[r], rs, swaps[r] + 1)

\* The collective after the one rank r is inside of.
AfterBarrier(r) ==
  Plan(StageCall(stage[r]), stage[r], halo[r], sample[r], iterations[r], {},
       results[r],
       swaps[r] + IF stage[r] = "calibration" THEN Calibration ELSE iterations[r])

AfterCalibration(r) ==
  Sampling(r, halo[r], 1, IterationsFor(AgreedMax(r)), results[r])

AfterMeasured(r) ==
  IF sample[r] < Samples
  THEN Sampling(r, halo[r], sample[r] + 1, iterations[r], Extended(r))
  ELSE IF halo[r] < Halos
  THEN Plan("barrier", "calibration", halo[r] + 1, 0, iterations[r], stalled[r],
            Extended(r), swaps[r] + 1)
  ELSE Plan("done", "timed", halo[r], sample[r], iterations[r], stalled[r],
            Extended(r), swaps[r])

AfterMaxTimeRanks(r) ==
  Plan("gather", "timed", halo[r], sample[r], iterations[r],
       {i \in 1 .. iterations[r] : Stalled(r, i)}, results[r], swaps[r])

AfterGather(r) ==
  Plan("max_time", "timed", halo[r], sample[r], iterations[r], stalled[r],
       results[r], swaps[r])

AfterVerdict(r) ==
  IF AllValid(r)
  THEN Plan("barrier", "timed", halo[r], sample[r], iterations[r], stalled[r],
            results[r], swaps[r])
  ELSE Plan("invalid", "validation", halo[r], sample[r], iterations[r],
            stalled[r], results[r], swaps[r])

Following(r) ==
  IF pc[r] = "barrier" THEN AfterBarrier(r)
  ELSE IF pc[r] = "max_time" /\ stage[r] = "calibration" THEN AfterCalibration(r)
  ELSE IF pc[r] = "max_time" THEN AfterMeasured(r)
  ELSE IF pc[r] = "max_time_ranks" THEN AfterMaxTimeRanks(r)
  ELSE IF pc[r] = "gather" THEN AfterGather(r)
  ELSE AfterVerdict(r)

Coming(r) == IF waiting[r] THEN Following(r) ELSE Upcoming(r)

PlansInv ==
  \A p, r \in Rank :
    /\ joined[p] = joined[r] => IF waiting[p] /\ waiting[r]
                                THEN Upcoming(p) = Upcoming(r)
                                ELSE Coming(p) = Coming(r)
    /\ joined[p] = joined[r] + 1 => Upcoming(p) = Coming(r)

Core == LocalInv /\ OffersInv /\ JoinedInv /\ PlansInv

Inv ==
  /\ Typed /\ KilledInv
  /\ SameCollectives /\ SameExchanges /\ ResultsAgree
  /\ Running => Core

-----------------------------------------------------------------------------
(***************************************************************************)
(* Numbers.                                                                *)
(***************************************************************************)
\* A finite set of numbers has a greatest: else take a least such set without
\* one, and remove an element.
LEMMA FiniteMax ==
  ASSUME NEW S, S \subseteq Nat, IsFiniteSet(S), S # {}
  PROVE  Max(S) \in S /\ \A y \in S : Max(S) >= y
<1> DEFINE HasMax(X) == \E m \in X : \A y \in X : m >= y
           T == {X \in FiniteSubsetsOf(Nat) : X # {} /\ ~HasMax(X)}
<1>1. HasMax(S)
  <2> SUFFICES ASSUME ~HasMax(S) PROVE FALSE
    OBVIOUS
  <2>1. S \in T /\ T \subseteq FiniteSubsetsOf(Nat)
    BY DEF FiniteSubsetsOf
  <2>2. PICK X \in T : \A Y \in T : ~(<<Y, X>> \in StrictSubsetOrdering(Nat))
    <3>1. IsWellFoundedOn(StrictSubsetOrdering(Nat), FiniteSubsetsOf(Nat))
      BY FS_StrictSubsetOrderingWellFounded
    <3> HIDE DEF T
    <3> QED BY <2>1, <3>1, WFMin
  <2>3. PICK x \in X : TRUE
    OBVIOUS
  <2> DEFINE Y == X \ {x}
  <2>4. X \subseteq Nat /\ IsFiniteSet(X)
    BY DEF FiniteSubsetsOf
  <2>5. Y \in FiniteSubsetsOf(Nat)
    BY <2>4, FS_RemoveElement DEF FiniteSubsetsOf
  <2>6. <<Y, X>> \in StrictSubsetOrdering(Nat)
    BY <2>3, <2>4 DEF StrictSubsetOrdering
  <2>7. Y = {} \/ HasMax(Y)
    BY <2>2, <2>5, <2>6
  <2>8. HasMax(X)
    <3>1. CASE Y = {}
      BY <2>3, <2>4, <3>1
    <3>2. CASE HasMax(Y)
      <4>1. PICK m \in Y : \A y \in Y : m >= y
        BY <3>2
      <4>2. m \in Nat /\ x \in Nat
        BY <2>3, <2>4
      <4>3. CASE m >= x
        BY <2>3, <4>1, <4>2, <4>3
      <4>4. CASE x >= m
        <5>1. \A y \in X : x >= y
          BY <2>3, <2>4, <4>1, <4>2, <4>4
        <5> QED BY <2>3, <5>1
      <4> QED BY <4>2, <4>3, <4>4
    <3> QED BY <2>7, <3>1, <3>2
  <2> QED BY <2>8
<1> QED BY <1>1 DEF Max

\* A finite set of numbers in order has each element in its place: else take a
\* least such set of which this is not so, and remove its greatest element.
LEMMA AscendingType ==
  ASSUME NEW S, S \subseteq Nat, IsFiniteSet(S), NEW k \in 1 .. Cardinality(S)
  PROVE  Ascending(S)[k] \in S
<1> DEFINE Below(X, x) == {y \in X : y < x}
           Nth(X, i) == \E x \in X : Cardinality(Below(X, x)) = i - 1
           InPlace(X) == \A i \in 1 .. Cardinality(X) : Nth(X, i)
           T == {X \in FiniteSubsetsOf(Nat) : ~InPlace(X)}
<1>1. InPlace(S)
  <2> SUFFICES ASSUME ~InPlace(S) PROVE FALSE
    OBVIOUS
  <2>1. S \in T /\ T \subseteq FiniteSubsetsOf(Nat)
    BY DEF FiniteSubsetsOf
  <2>2. PICK X \in T : \A Y \in T : ~(<<Y, X>> \in StrictSubsetOrdering(Nat))
    <3>1. IsWellFoundedOn(StrictSubsetOrdering(Nat), FiniteSubsetsOf(Nat))
      BY FS_StrictSubsetOrderingWellFounded
    <3> HIDE DEF T
    <3> QED BY <2>1, <3>1, WFMin
  <2>3. X \subseteq Nat /\ IsFiniteSet(X) /\ ~InPlace(X)
    BY DEF FiniteSubsetsOf
  <2>4. X # {}
    <3> SUFFICES ASSUME X = {} PROVE FALSE
      OBVIOUS
    <3>1. Cardinality(X) = 0
      BY FS_EmptySet
    <3> HIDE DEF Nth
    <3> QED BY <2>3, <3>1
  <2> DEFINE m == Max(X)
             Y == X \ {m}
  <2>5. m \in X /\ \A y \in X : m >= y
    BY <2>3, <2>4, FiniteMax
  <2> HIDE DEF m
  <2>6. IsFiniteSet(Y) /\ Cardinality(Y) = Cardinality(X) - 1 /\ Cardinality(X) \in Nat
    BY <2>3, <2>5, FS_RemoveElement, FS_CardinalityType
  <2>7. InPlace(Y)
    <3>1. Y \in FiniteSubsetsOf(Nat)
      BY <2>3, <2>6 DEF FiniteSubsetsOf
    <3>2. <<Y, X>> \in StrictSubsetOrdering(Nat)
      BY <2>3, <2>5 DEF StrictSubsetOrdering
    <3> HIDE DEF Y, InPlace
    <3> QED BY <2>2, <3>1, <3>2
  <2>8. ASSUME NEW i \in 1 .. Cardinality(X) PROVE Nth(X, i)
    <3>1. CASE i <= Cardinality(X) - 1
      <4>1. PICK x \in Y : Cardinality(Below(Y, x)) = i - 1
        <5>1. i \in 1 .. Cardinality(Y)
          BY <2>6, <3>1
        <5> QED BY <2>7, <5>1
      <4>2. Below(X, x) = Below(Y, x)
        BY <2>3, <2>5
      <4> QED BY <4>1, <4>2
    <3>2. CASE i = Cardinality(X)
      <4>1. Below(X, m) = Y
        <5>1. \A y \in X : y < m <=> y # m
          BY <2>3, <2>5
        <5> QED BY <5>1
      <4> QED BY <2>5, <2>6, <3>2, <4>1
    <3> QED BY <2>6, <3>1, <3>2
  <2> QED BY <2>3, <2>8
<1>2. Cardinality(S) \in Nat
  BY FS_CardinalityType
<1>3. Nth(S, k)
  BY <1>1
<1>4. Ascending(S)[k] = CHOOSE x \in S : Cardinality(Below(S, x)) = k - 1
  BY DEF Ascending, Ordered
<1> QED BY <1>3, <1>4

\* What an MPI_Allreduce of numbers returns.
LEMMA ReducedType ==
  ASSUME GridAssumption, NEW r \in Rank, \A q \in Rank : Offer(q, r).values[1] \in Nat \ {0}
  PROVE  Reduced(r, 1) \in Nat \ {0}
<1>1. IsFiniteSet(Rank)
  <2>0. 0 \in Int /\ Rows - 1 \in Int /\ Cols - 1 \in Int
    BY GridAssumption
  <2>1. IsFiniteSet(0 .. Rows - 1) /\ IsFiniteSet(0 .. Cols - 1)
    BY <2>0, FS_Interval
  <2> QED BY <2>1, FS_Product DEF Rank
<1> DEFINE f == [q \in Rank |-> Offer(q, r).values[1]]
           S == {Offer(q, r).values[1] : q \in Rank}
<1>2. IsFiniteSet(S)
  <2>1. f \in Surjection(Rank, S)
    BY DEF Surjection
  <2> QED BY <1>1, <2>1, FS_Surjection
<1>3. S \subseteq Nat \ {0} /\ S # {}
  OBVIOUS
<1> HIDE DEF S
<1>4. Max(S) \in S
  BY <1>2, <1>3, FiniteMax
<1> QED BY <1>3, <1>4 DEF S, Reduced

LEMMA IterationsAreCounted ==
  ASSUME NEW max \in Nat \ {0}
  PROVE  IterationsFor(max) \in Nat \ {0}
<1>1. 2 * Target * Calibration + max \in Nat /\ 2 * max \in Nat \ {0}
  BY BenchmarkAssumption
<1>2. Estimate(max) \in Int
  BY <1>1 DEF Estimate
<1>3. Narrow(Estimate(max)) \in Int
  BY <1>2, BenchmarkAssumption DEF Narrow
<1> DEFINE n == Narrow(Estimate(max))
<1> HIDE DEF n
<1>4. n \in Int /\ Calibration \in Nat \ {0}
  BY <1>3, BenchmarkAssumption DEF n
<1>5. \E x \in {Calibration, n} : \A y \in {Calibration, n} : x >= y
  BY <1>4
<1>6. Max({Calibration, n}) \in {Calibration, n} /\ Max({Calibration, n}) >= Calibration
  BY <1>5 DEF Max
<1> QED BY <1>4, <1>6 DEF IterationsFor, n

\* An offer is not written over by the one after it.
LEMMA Parity ==
  ASSUME NEW n \in Nat
  PROVE  n % 2 \in {0, 1} /\ (n + 1) % 2 \in {0, 1} /\ (n + 1) % 2 # n % 2
OBVIOUS

LEMMA SameInterval ==
  ASSUME NEW a \in Nat, NEW b \in Nat, 1 .. a = 1 .. b
  PROVE  a = b
<1>1. (a \in 1 .. a \/ a = 0) /\ (b \in 1 .. b \/ b = 0)
  OBVIOUS
<1>2. (a \in 1 .. b \/ a = 0) /\ (b \in 1 .. a \/ b = 0)
  BY <1>1
<1>3. a <= b /\ b <= a
  BY <1>2
<1> QED BY <1>3

-----------------------------------------------------------------------------
(***************************************************************************)
(* The plans.                                                              *)
(***************************************************************************)
\* What two ranks are told that leave one collective.
LEMMA ReducedSame ==
  ASSUME NEW p \in Rank, NEW r \in Rank, joined[p] = joined[r]
  PROVE  /\ \A i : Reduced(p, i) = Reduced(r, i)
         /\ AgreedMax(p) = AgreedMax(r) /\ AllValid(p) = AllValid(r)
         /\ \A i : Stalled(p, i) <=> Stalled(r, i)
<1>1. ASSUME NEW i PROVE Reduced(p, i) = Reduced(r, i)
  <2>1. \A q \in Rank : Offer(q, p) = Offer(q, r)
    BY DEF Offer
  <2>2. {Offer(q, p).values[i] : q \in Rank} = {Offer(q, r).values[i] : q \in Rank}
    BY <2>1
  <2> QED BY <2>2 DEF Reduced
<1> QED BY <1>1 DEF AgreedMax, AllValid, Stalled

LEMMA ReducedKept ==
  ASSUME NEW r \in Rank, \A q \in Rank : Offer(q, r)' = Offer(q, r),
         spent'[r] = spent[r]
  PROVE  /\ \A i : Reduced(r, i)' = Reduced(r, i)
         /\ AgreedMax(r)' = AgreedMax(r) /\ AllValid(r)' = AllValid(r)
         /\ \A i : Stalled(r, i)' <=> Stalled(r, i)
<1>1. ASSUME NEW i PROVE Reduced(r, i)' = Reduced(r, i)
  <2>1. {Offer(q, r)'.values[i] : q \in Rank} = {Offer(q, r).values[i] : q \in Rank}
    OBVIOUS
  <2> QED BY <2>1 DEF Reduced
<1> QED BY <1>1 DEF AgreedMax, AllValid, Stalled

\* In a collective the rank's next collective is this one.
LEMMA InCollective ==
  ASSUME NEW r \in Rank, pc[r] \in Collective, CollectiveOf(r)
  PROVE  Upcoming(r) = Plan(pc[r], stage[r], halo[r], sample[r], iterations[r],
                            stalled[r], results[r], swaps[r] + 0)
<1>1. NextCall(r) = pc[r] /\ Remaining(r) = 0
  BY DEF NextCall, Remaining, Collective
<1>2. NextStage(r) = stage[r]
  BY DEF NextStage, CollectiveOf, Collective
<1> QED BY <1>1, <1>2 DEF Upcoming

\* Ranks in one collective with one plan leave it with one plan.
LEMMA FollowingSame ==
  ASSUME Typed, NEW p \in Rank, NEW r \in Rank, joined[p] = joined[r],
         pc[p] \in Collective, pc[r] \in Collective,
         CollectiveOf(p), CollectiveOf(r), Upcoming(p) = Upcoming(r)
  PROVE  Following(p) = Following(r)
<1>1. /\ pc[p] = pc[r] /\ stage[p] = stage[r] /\ halo[p] = halo[r]
      /\ sample[p] = sample[r] /\ iterations[p] = iterations[r]
      /\ stalled[p] = stalled[r] /\ results[p] = results[r] /\ swaps[p] = swaps[r]
  BY InCollective DEF Plan, Typed
<1>2. /\ AgreedMax(p) = AgreedMax(r) /\ AllValid(p) = AllValid(r)
      /\ \A i : Stalled(p, i) <=> Stalled(r, i)
  BY ReducedSame
<1>3. Extended(p) = Extended(r)
  BY <1>1, <1>2 DEF Extended
<1>4. {i \in 1 .. iterations[p] : Stalled(p, i)} = {i \in 1 .. iterations[r] : Stalled(r, i)}
  BY <1>1, <1>2
<1>5. \A h, n, it, rs : Sampling(p, h, n, it, rs) = Sampling(r, h, n, it, rs)
  BY <1>1 DEF Sampling
<1>6. /\ AfterBarrier(p) = AfterBarrier(r) /\ AfterGather(p) = AfterGather(r)
      /\ AfterMaxTimeRanks(p) = AfterMaxTimeRanks(r)
      /\ AfterVerdict(p) = AfterVerdict(r)
  BY <1>1, <1>2, <1>4
  DEF AfterBarrier, AfterGather, AfterMaxTimeRanks, AfterVerdict
<1>7. /\ AfterCalibration(p) = AfterCalibration(r)
      /\ AfterMeasured(p) = AfterMeasured(r)
  BY <1>1, <1>2, <1>3, <1>5 DEF AfterCalibration, AfterMeasured
<1> QED BY <1>1, <1>6, <1>7 DEF Following

\* The variables of a rank.
Same(r) ==
  /\ pc'[r] = pc[r] /\ stage'[r] = stage[r] /\ halo'[r] = halo[r]
  /\ sample'[r] = sample[r] /\ swaps'[r] = swaps[r] /\ inside'[r] = inside[r]
  /\ left'[r] = left[r] /\ elapsed'[r] = elapsed[r] /\ spent'[r] = spent[r]
  /\ stalled'[r] = stalled[r] /\ iterations'[r] = iterations[r]
  /\ joined'[r] = joined[r] /\ waiting'[r] = waiting[r] /\ offer'[r] = offer[r]
  /\ ok'[r] = ok[r] /\ results'[r] = results[r]

LEMMA SameRank ==
  ASSUME NEW r \in Rank, Same(r)
  PROVE  /\ ExchangeOf(r) => ExchangeOf(r)'
         /\ CollectiveOf(r) => CollectiveOf(r)'
         /\ Upcoming(r)' = Upcoming(r)
<1>1. ExchangeOf(r) => ExchangeOf(r)'
  BY DEF Same, ExchangeOf
<1>2. CollectiveOf(r) => CollectiveOf(r)'
  <2>1. Values(r)' = Values(r) /\ Offer(r, r)' = Offer(r, r)
    BY DEF Same, Values, Offer
  <2> QED BY <2>1 DEF Same, CollectiveOf
<1>3. Upcoming(r)' = Upcoming(r)
  BY DEF Same, Upcoming, NextCall, NextStage, Remaining
<1> QED BY <1>1, <1>2, <1>3

LEMMA FollowingKept ==
  ASSUME NEW r \in Rank, Same(r), \A q \in Rank : Offer(q, r)' = Offer(q, r)
  PROVE  Following(r)' = Following(r)
<1>1. /\ AgreedMax(r)' = AgreedMax(r) /\ AllValid(r)' = AllValid(r)
      /\ \A i : Stalled(r, i)' <=> Stalled(r, i)
  BY ReducedKept DEF Same
<1>2. Extended(r)' = Extended(r)
  BY <1>1 DEF Same, Extended
<1>3. {i \in 1 .. iterations'[r] : Stalled(r, i)'} = {i \in 1 .. iterations[r] : Stalled(r, i)}
  BY <1>1 DEF Same
<1>4. /\ pc'[r] = pc[r] /\ stage'[r] = stage[r] /\ halo'[r] = halo[r]
      /\ sample'[r] = sample[r] /\ iterations'[r] = iterations[r]
      /\ stalled'[r] = stalled[r] /\ results'[r] = results[r] /\ swaps'[r] = swaps[r]
  BY DEF Same
<1>5. /\ AfterBarrier(r)' = AfterBarrier(r) /\ AfterGather(r)' = AfterGather(r)
      /\ AfterMaxTimeRanks(r)' = AfterMaxTimeRanks(r)
      /\ AfterVerdict(r)' = AfterVerdict(r)
  BY <1>1, <1>3, <1>4
  DEF AfterBarrier, AfterGather, AfterMaxTimeRanks, AfterVerdict
<1>6. /\ AfterCalibration(r)' = AfterCalibration(r)
      /\ AfterMeasured(r)' = AfterMeasured(r)
  BY <1>1, <1>2, <1>4 DEF AfterCalibration, AfterMeasured, Sampling
<1> QED BY <1>4, <1>5, <1>6 DEF Following

-----------------------------------------------------------------------------
(***************************************************************************)
(* Steps between collectives.                                              *)
(***************************************************************************)
Quiet(x) == Setup(x) \/ Enter(x) \/ (\E d \in Durations : Leave(x, d)) \/ Throw(x)

\* What every step of rank x has shown, once its variables are known.
Steps(x) ==
  /\ Typed'
  /\ ExchangeOf(x)' /\ CollectiveOf(x)'
  /\ \A r \in Rank \ {x} : Same(r)

LEMMA SetupStep ==
  ASSUME Typed, LocalInv, NEW x \in Rank, Setup(x)
  PROVE  Steps(x) /\ Upcoming(x)' = Upcoming(x)
<1> USE DEF Setup, meeting
<1>1. Typed'
  BY DEF Typed, Label, Stage, Collective
<1>2. \A r \in Rank \ {x} : Same(r)
  BY DEF Typed, Same
<1>3. /\ stage[x] = "setup" /\ pc[x] = "setup" /\ ~inside[x] /\ ~waiting[x]
      /\ IsFiniteSet(stalled[x])
  BY DEF LocalInv, ExchangeOf, CollectiveOf, Collective, Typed
<1>4. pc'[x] = "exchange" /\ stage'[x] = "warm_up" /\ left'[x] = 1
  BY DEF Typed
<1>5. ExchangeOf(x)' /\ CollectiveOf(x)'
  BY <1>3, <1>4 DEF ExchangeOf, CollectiveOf
<1>6. Upcoming(x)' = Upcoming(x)
  <2>1. NextCall(x)' = NextCall(x) /\ NextStage(x)' = NextStage(x)
    BY <1>3, <1>4 DEF NextCall, StageCall, NextStage
  <2>2. Remaining(x)' = Remaining(x)
    BY <1>3, <1>4 DEF Remaining
  <2> QED BY <2>1, <2>2 DEF Upcoming
<1> QED BY <1>1, <1>2, <1>5, <1>6 DEF Steps

LEMMA EnterStep ==
  ASSUME Typed, LocalInv, NEW x \in Rank, Enter(x)
  PROVE  Steps(x) /\ Upcoming(x)' = Upcoming(x)
<1> USE DEF Enter, place, meeting
<1>1. Typed'
  BY DEF Typed
<1>2. \A r \in Rank \ {x} : Same(r)
  BY DEF Typed, Same
<1>3. pc[x] = "exchange" /\ ExchangeOf(x) /\ CollectiveOf(x)
  BY DEF LocalInv
<1>4. ~waiting[x]
  BY <1>3 DEF CollectiveOf, Collective
<1>5. ExchangeOf(x)' /\ CollectiveOf(x)'
  BY <1>3, <1>4 DEF ExchangeOf, CollectiveOf
<1>6. Upcoming(x)' = Upcoming(x)
  BY <1>3 DEF Upcoming, NextCall, NextStage, Remaining
<1> QED BY <1>1, <1>2, <1>5, <1>6 DEF Steps

LEMMA ThrowStep ==
  ASSUME Typed, LocalInv, NEW x \in Rank, Throw(x)
  PROVE  Steps(x) /\ Upcoming(x)' = Upcoming(x)
<1> USE DEF Throw, place, region, meeting
<1>1. Typed'
  BY DEF Typed, Label
<1>2. \A r \in Rank \ {x} : Same(r)
  BY DEF Typed, Same
<1>3. /\ pc[x] \in {"setup", "exchange"} /\ pc'[x] = "thrown"
      /\ ExchangeOf(x) /\ CollectiveOf(x)
  BY DEF LocalInv, Typed
<1>4. ~waiting[x]
  BY <1>3 DEF CollectiveOf, Collective
<1>5. ExchangeOf(x)' /\ CollectiveOf(x)'
  BY <1>3, <1>4 DEF ExchangeOf, CollectiveOf
<1>6. Upcoming(x)' = Upcoming(x)
  <2>1. NextCall(x)' = NextCall(x) /\ NextStage(x)' = NextStage(x)
    BY <1>3 DEF NextCall, NextStage
  <2>2. Remaining(x)' = Remaining(x)
    BY <1>3 DEF Remaining
  <2> QED BY <2>1, <2>2 DEF Upcoming
<1> QED BY <1>1, <1>2, <1>5, <1>6 DEF Steps

LEMMA LeaveStep ==
  ASSUME Typed, LocalInv, NEW x \in Rank, NEW d \in Durations, Leave(x, d)
  PROVE  Steps(x) /\ Upcoming(x)' = Upcoming(x)
<1>1. /\ pc[x] = "exchange" /\ inside[x] /\ ExchangeOf(x) /\ CollectiveOf(x)
      /\ left[x] \in Nat \ {0} /\ d \in Nat \ {0}
      /\ stage[x] \in {"warm_up", "calibration", "validation", "timed"}
  <2>1. pc[x] = "exchange" /\ inside[x] /\ ExchangeOf(x) /\ CollectiveOf(x)
    BY DEF Leave, LocalInv
  <2>2. left[x] \in Nat /\ stage[x] \in Stage /\ d \in Nat \ {0}
    BY BenchmarkAssumption DEF Typed
  <2> QED BY <2>1, <2>2 DEF ExchangeOf, Stage
<1>2. ~waiting[x] /\ IsFiniteSet(stalled[x])
  BY <1>1 DEF CollectiveOf, Collective
<1> DEFINE target ==
       CASE left[x] > 1 -> "exchange"
         [] left[x] = 1 /\ stage[x] = "warm_up" -> "barrier"
         [] left[x] = 1 /\ stage[x] = "calibration" -> "max_time"
         [] left[x] = 1 /\ stage[x] = "validation" ->
              IF Verdict = "throw" /\ ~ok'[x] THEN "invalid" ELSE "verdict"
         [] left[x] = 1 /\ stage[x] = "timed" ->
              IF Record THEN "max_time_ranks" ELSE "max_time"
<1>3. /\ pc' = [pc EXCEPT ![x] = target]
      /\ stage' = [stage EXCEPT ![x] = IF @ = "warm_up" THEN "calibration" ELSE @]
      /\ inside' = [inside EXCEPT ![x] = FALSE]
      /\ swaps' = [swaps EXCEPT ![x] = @ + 1]
      /\ left' = [left EXCEPT ![x] = @ - 1]
      /\ elapsed' = [elapsed EXCEPT ![x] =
                      IF stage[x] \in {"calibration", "timed"} THEN @ + d ELSE 0]
      /\ spent' = [spent EXCEPT ![x] = IF Record /\ stage[x] = "timed"
                                      THEN Append(@, d) ELSE <<>>]
      /\ UNCHANGED <<halo, sample, stalled, iterations, joined, waiting, offer, results>>
  BY DEF Leave, meeting, TotalSeconds
<1>4. ok' \in [Rank -> BOOLEAN] /\ \A r \in Rank \ {x} : ok'[r] = ok[r]
  <2>1. ok \in [Rank -> BOOLEAN]
    BY DEF Typed
  <2>2. CASE stage[x] = "validation"
    <3>1. PICK v \in BOOLEAN : ok' = [ok EXCEPT ![x] = v]
      BY <2>2 DEF Leave
    <3> QED BY <2>1, <3>1
  <2>3. CASE stage[x] # "validation"
    BY <2>1, <2>3 DEF Leave
  <2> QED BY <2>2, <2>3
<1>5. target \in Label
  BY <1>1 DEF Label, Collective
<1>6. /\ left[x] > 1 => target = "exchange"
      /\ left[x] = 1 /\ stage[x] = "warm_up" => target = "barrier"
      /\ left[x] = 1 /\ stage[x] = "calibration" => target = "max_time"
      /\ left[x] = 1 /\ stage[x] = "validation" =>
           target = IF Verdict = "throw" /\ ~ok'[x] THEN "invalid" ELSE "verdict"
      /\ left[x] = 1 /\ stage[x] = "timed" => target = Measurement
  BY <1>1 DEF Measurement
<1> HIDE DEF target
<1>7. Typed'
  <2>1. spent' \in [Rank -> Seq(Nat)]
    BY <1>1, <1>3 DEF Typed
  <2>2. elapsed' \in [Rank -> Nat] /\ left' \in [Rank -> Nat] /\ swaps' \in [Rank -> Nat]
    <3>1. \A r \in Rank : elapsed[r] \in Nat /\ left[r] \in Nat /\ swaps[r] \in Nat
      BY DEF Typed
    <3>2. elapsed[x] + d \in Nat /\ left[x] - 1 \in Nat /\ swaps[x] + 1 \in Nat
      BY <1>1, <3>1
    <3> QED BY <1>3, <3>1, <3>2 DEF Typed
  <2>3. /\ pc' \in [Rank -> Label] /\ stage' \in [Rank -> Stage]
        /\ inside' \in [Rank -> BOOLEAN]
    BY <1>1, <1>3, <1>5 DEF Typed, Stage
  <2>4. /\ halo' \in [Rank -> Nat] /\ sample' \in [Rank -> Nat]
        /\ stalled' \in [Rank -> SUBSET Nat] /\ iterations' \in [Rank -> Nat]
        /\ joined' \in [Rank -> Nat] /\ waiting' \in [Rank -> BOOLEAN]
        /\ results' \in [Rank -> Seq(Result)]
        /\ offer' = [r \in Rank |-> [b \in {0, 1} |-> offer'[r][b]]]
    BY <1>3 DEF Typed
  <2> QED BY <1>4, <2>1, <2>2, <2>3, <2>4 DEF Typed
<1>8. \A r \in Rank \ {x} : Same(r)
  BY <1>3, <1>4 DEF Typed, Same
<1>9. /\ pc'[x] = target /\ swaps'[x] = swaps[x] + 1 /\ left'[x] = left[x] - 1
      /\ stage'[x] = IF stage[x] = "warm_up" THEN "calibration" ELSE stage[x]
      /\ ~inside'[x]
      /\ stage[x] \in {"calibration", "timed"} => elapsed'[x] = elapsed[x] + d
      /\ Record /\ stage[x] = "timed" => Len(spent'[x]) = Len(spent[x]) + 1
      /\ swaps[x] \in Nat /\ elapsed[x] \in Nat /\ Len(spent[x]) \in Nat
      /\ iterations[x] \in Nat
  BY <1>1, <1>3 DEF Typed
<1>10. ExchangeOf(x)'
  BY <1>1, <1>3, <1>6, <1>9 DEF ExchangeOf, Measurement
<1>11. CollectiveOf(x)'
  BY <1>1, <1>2, <1>3, <1>6, <1>9 DEF CollectiveOf, ExchangeOf, Measurement
<1>12. Upcoming(x)' = Upcoming(x)
  <2>1. NextStage(x)' = NextStage(x)
    BY <1>1, <1>9 DEF NextStage
  <2>2. swaps'[x] + Remaining(x)' = swaps[x] + Remaining(x)
    BY <1>1, <1>6, <1>9 DEF Remaining, Measurement, ExchangeOf
  <2>3. NextCall(x)' = NextCall(x)
    BY <1>1, <1>6, <1>9 DEF NextCall, StageCall, Measurement, Collective, ExchangeOf
  <2> QED BY <2>1, <2>2, <2>3, <1>3 DEF Upcoming
<1> QED BY <1>7, <1>8, <1>10, <1>11, <1>12 DEF Steps

LEMMA QuietStep ==
  ASSUME Typed, LocalInv, NEW x \in Rank, Quiet(x)
  PROVE  /\ Steps(x) /\ Upcoming(x)' = Upcoming(x) /\ ~waiting[x]
         /\ UNCHANGED <<joined, waiting, offer>>
<1>1. Steps(x) /\ Upcoming(x)' = Upcoming(x)
  BY SetupStep, EnterStep, LeaveStep, ThrowStep DEF Quiet
<1>2. UNCHANGED <<joined, waiting, offer>>
  BY DEF Quiet, Setup, Enter, Leave, Throw, meeting
<1>3. pc[x] \in {"setup", "exchange"}
  BY DEF Quiet, Setup, Enter, Leave, Throw
<1> QED BY <1>1, <1>2, <1>3 DEF LocalInv, CollectiveOf, Collective

-----------------------------------------------------------------------------
(***************************************************************************)
(* Collectives.                                                            *)
(***************************************************************************)
LEMMA JoinStep ==
  ASSUME Typed, LocalInv, NEW x \in Rank, Join(x)
  PROVE  /\ Steps(x) /\ Upcoming(x)' = Upcoming(x)
         /\ pc[x] \in Collective /\ pc' = pc /\ ~waiting[x] /\ waiting'[x]
         /\ joined'[x] = joined[x] + 1
         /\ offer'[x][joined[x] % 2] = offer[x][joined[x] % 2]
         /\ Offer(x, x)' = [op |-> pc[x], values |-> Values(x)]
         /\ \A b \in {0, 1} : \/ offer'[x][b] = offer[x][b]
                             \/ offer'[x][b] = [op |-> pc[x], values |-> Values(x)]
<1> DEFINE n == joined[x]
           call == [op |-> pc[x], values |-> Values(x)]
<1>1. /\ n \in Nat /\ n % 2 \in {0, 1} /\ (n + 1) % 2 \in {0, 1} /\ (n + 1) % 2 # n % 2
      /\ pc[x] \in Collective /\ ~waiting[x] /\ ExchangeOf(x) /\ CollectiveOf(x)
  BY Parity DEF Typed, Join, LocalInv
<1>2. /\ waiting' = [waiting EXCEPT ![x] = TRUE]
      /\ joined' = [joined EXCEPT ![x] = n + 1]
      /\ offer' = [offer EXCEPT ![x][(n + 1) % 2] = call]
      /\ UNCHANGED <<pc, stage, halo, sample, swaps, inside, left, elapsed, spent,
                     stalled, iterations, ok, results>>
  BY DEF Join, place, region
<1> HIDE DEF call
<1>3. /\ waiting'[x] /\ joined'[x] = n + 1
      /\ offer'[x] = [offer[x] EXCEPT ![(n + 1) % 2] = call]
      /\ \A r \in Rank \ {x} : offer'[r] = offer[r]
  BY <1>2 DEF Typed
<1>4. DOMAIN offer[x] = {0, 1}
  BY DEF Typed
<1>5. offer'[x][(n + 1) % 2] = call /\ offer'[x][n % 2] = offer[x][n % 2]
  BY <1>1, <1>3, <1>4
<1>6. \A b \in {0, 1} : offer'[x][b] = offer[x][b] \/ offer'[x][b] = call
  BY <1>3, <1>4
<1>7. Typed'
  <2>1. offer' = [r \in Rank |-> [b \in {0, 1} |-> offer'[r][b]]]
    <3>1. ASSUME NEW r \in Rank PROVE offer'[r] = [b \in {0, 1} |-> offer'[r][b]]
      <4>1. offer[r] = [b \in {0, 1} |-> offer[r][b]]
        BY DEF Typed
      <4>2. CASE r = x
        BY <1>3, <4>1, <4>2
      <4>3. CASE r # x
        BY <1>3, <4>1, <4>3
      <4> QED BY <4>2, <4>3
    <3>2. offer' = [r \in Rank |-> offer'[r]]
      BY <1>2 DEF Typed
    <3> QED BY <3>1, <3>2
  <2>2. joined' \in [Rank -> Nat] /\ waiting' \in [Rank -> BOOLEAN]
    BY <1>1, <1>2 DEF Typed
  <2> QED BY <1>2, <2>1, <2>2 DEF Typed
<1>8. \A r \in Rank \ {x} : Same(r)
  BY <1>2, <1>3 DEF Same, Typed
<1>9. Values(x)' = Values(x)
  BY <1>2 DEF Values
<1>10. Offer(x, x)' = call
  BY <1>3, <1>5 DEF Offer
<1>11. ExchangeOf(x)' /\ CollectiveOf(x)'
  BY <1>1, <1>2, <1>9, <1>10 DEF ExchangeOf, CollectiveOf, call
<1>12. Upcoming(x)' = Upcoming(x)
  BY <1>2 DEF Upcoming, NextCall, NextStage, Remaining
<1> QED BY <1>1, <1>2, <1>3, <1>5, <1>6, <1>7, <1>8, <1>10, <1>11, <1>12 DEF Steps, call

\* The maximum of measured times is a time.
LEMMA AgreedMaxType ==
  ASSUME Typed, LocalInv, OffersInv, NEW x \in Rank, Return(x, "max_time")
  PROVE  AgreedMax(x) \in Nat \ {0}
<1>1. Offer(x, x).op = "max_time"
  BY DEF Return, LocalInv, CollectiveOf
<1>2. ASSUME NEW q \in Rank PROVE Offer(q, x).values[1] \in Nat \ {0}
  <2>1. joined[q] >= joined[x]
    BY DEF Return, Assembled
  <2>2. Offer(q, x).op = "max_time"
    BY <1>1, <2>1 DEF Return, OffersInv, SameCall
  <2>3. joined[x] % 2 \in {0, 1}
    BY Parity DEF Typed
  <2> QED BY <2>2, <2>3 DEF OffersInv, Offer
<1> QED BY <1>2, GridAssumption, ReducedType DEF AgreedMax

\* What a return leaves alone.
LEMMA ReturnFrame ==
  ASSUME Typed, LocalInv, NEW x \in Rank, NEW op \in Collective, Return(x, op)
  PROVE  /\ waiting[x] /\ ~waiting'[x] /\ waiting' \in [Rank -> BOOLEAN]
         /\ \A r \in Rank \ {x} : waiting'[r] = waiting[r]
         /\ joined' = joined /\ offer' = offer
         /\ pc[x] = op /\ ~inside[x] /\ Assembled(x) /\ IsFiniteSet(stalled[x])
         /\ ExchangeOf(x) /\ CollectiveOf(x)
<1>1. ExchangeOf(x) /\ CollectiveOf(x) /\ pc[x] = op
  BY DEF LocalInv, Return
<1>2. ~inside[x]
  BY <1>1 DEF ExchangeOf, Collective
<1> QED BY <1>1, <1>2 DEF Return, Typed, CollectiveOf

LEMMA ReturnBarrierStep ==
  ASSUME Typed, LocalInv, OffersInv, NEW x \in Rank, ReturnBarrier(x)
  PROVE  Steps(x) /\ Upcoming(x)' = Following(x)
<1>1. /\ waiting[x] /\ ~waiting'[x] /\ waiting' \in [Rank -> BOOLEAN]
      /\ \A r \in Rank \ {x} : waiting'[r] = waiting[r]
      /\ joined' = joined /\ offer' = offer
      /\ pc[x] = "barrier" /\ ~inside[x] /\ ExchangeOf(x) /\ CollectiveOf(x)
  BY ReturnFrame DEF ReturnBarrier, Collective
<1>2. stage[x] \in {"calibration", "timed"} /\ (stage[x] = "timed" => iterations[x] > 0)
  BY <1>1 DEF ExchangeOf, CollectiveOf
<1> DEFINE todo == IF stage[x] = "calibration" THEN Calibration ELSE iterations[x]
<1>3. /\ pc' = [pc EXCEPT ![x] = "exchange"]
      /\ left' = [left EXCEPT ![x] = todo]
      /\ elapsed' = [elapsed EXCEPT ![x] = 0]
      /\ spent' = [spent EXCEPT ![x] = <<>>]
      /\ stalled' = [stalled EXCEPT ![x] = {}]
      /\ UNCHANGED <<stage, halo, sample, swaps, inside, iterations, ok, results>>
  BY DEF ReturnBarrier, place
<1>4. iterations[x] \in Nat
  BY DEF Typed
<1>5. todo \in Nat \ {0}
  BY <1>2, <1>4, BenchmarkAssumption
<1>6. Typed'
  <2>1. pc' \in [Rank -> Label] /\ left' \in [Rank -> Nat]
    BY <1>3, <1>5 DEF Typed, Label
  <2>2. /\ elapsed' \in [Rank -> Nat] /\ spent' \in [Rank -> Seq(Nat)]
        /\ stalled' \in [Rank -> SUBSET Nat]
    BY <1>3 DEF Typed
  <2>3. /\ joined' \in [Rank -> Nat]
        /\ offer' = [r \in Rank |-> [b \in {0, 1} |-> offer'[r][b]]]
    BY <1>1 DEF Typed
  <2>4. /\ stage' \in [Rank -> Stage] /\ halo' \in [Rank -> Nat]
        /\ sample' \in [Rank -> Nat] /\ swaps' \in [Rank -> Nat]
        /\ inside' \in [Rank -> BOOLEAN] /\ iterations' \in [Rank -> Nat]
        /\ ok' \in [Rank -> BOOLEAN] /\ results' \in [Rank -> Seq(Result)]
    BY <1>3 DEF Typed
  <2> QED BY <1>1, <2>1, <2>2, <2>3, <2>4 DEF Typed
<1>7. \A r \in Rank \ {x} : Same(r)
  BY <1>1, <1>3 DEF Typed, Same
<1>8. /\ pc'[x] = "exchange" /\ left'[x] = todo /\ spent'[x] = <<>> /\ stalled'[x] = {}
  BY <1>3 DEF Typed
<1>9. IsFiniteSet({}) /\ Len(<<>>) = 0
  BY FS_EmptySet
<1>10. ExchangeOf(x)' /\ CollectiveOf(x)'
  BY <1>1, <1>2, <1>3, <1>4, <1>5, <1>8, <1>9 DEF ExchangeOf, CollectiveOf
<1>11. /\ NextCall(x)' = StageCall(stage[x]) /\ NextStage(x)' = stage[x]
       /\ Remaining(x)' = todo
  BY <1>2, <1>3, <1>8 DEF NextCall, NextStage, Remaining
<1>12. Upcoming(x)' = Following(x)
  <2>1. Following(x) = AfterBarrier(x)
    BY <1>1 DEF Following
  <2>2. Upcoming(x)' = AfterBarrier(x)
    BY <1>3, <1>8, <1>11 DEF Upcoming, AfterBarrier
  <2> QED BY <2>1, <2>2
<1> QED BY <1>6, <1>7, <1>10, <1>12 DEF Steps

LEMMA ReturnVerdictStep ==
  ASSUME Typed, LocalInv, OffersInv, NEW x \in Rank, ReturnVerdict(x)
  PROVE  Steps(x) /\ Upcoming(x)' = Following(x)
<1>1. /\ waiting[x] /\ ~waiting'[x] /\ waiting' \in [Rank -> BOOLEAN]
      /\ \A r \in Rank \ {x} : waiting'[r] = waiting[r]
      /\ joined' = joined /\ offer' = offer
      /\ pc[x] = "verdict" /\ ~inside[x] /\ ExchangeOf(x) /\ CollectiveOf(x)
      /\ Assembled(x)
  BY ReturnFrame DEF ReturnVerdict, Collective
<1>2. stage[x] = "validation" /\ iterations[x] > 0
  BY <1>1 DEF ExchangeOf, CollectiveOf
<1>3. /\ AllValid(x) => /\ pc' = [pc EXCEPT ![x] = "barrier"]
                        /\ stage' = [stage EXCEPT ![x] = "timed"]
      /\ ~AllValid(x) => pc' = [pc EXCEPT ![x] = "invalid"] /\ stage' = stage
      /\ UNCHANGED <<halo, sample, swaps, inside, left, elapsed, spent, stalled,
                     iterations, ok, results>>
  BY DEF ReturnVerdict, region
<1>4. Typed'
  <2>1. pc' \in [Rank -> Label] /\ stage' \in [Rank -> Stage]
    <3>1. "barrier" \in Label /\ "invalid" \in Label /\ "timed" \in Stage
      BY DEF Label, Collective, Stage
    <3>2. pc \in [Rank -> Label] /\ stage \in [Rank -> Stage]
      BY DEF Typed
    <3>3. CASE AllValid(x)
      <4>1. pc' = [pc EXCEPT ![x] = "barrier"] /\ stage' = [stage EXCEPT ![x] = "timed"]
        BY <1>3, <3>3
      <4> QED BY <3>1, <3>2, <4>1
    <3>4. CASE ~AllValid(x)
      <4>1. pc' = [pc EXCEPT ![x] = "invalid"] /\ stage' = stage
        BY <1>3, <3>4
      <4> QED BY <3>1, <3>2, <4>1
    <3> QED BY <3>3, <3>4
  <2>2. /\ halo' \in [Rank -> Nat] /\ sample' \in [Rank -> Nat]
        /\ swaps' \in [Rank -> Nat] /\ left' \in [Rank -> Nat]
        /\ inside' \in [Rank -> BOOLEAN] /\ elapsed' \in [Rank -> Nat]
        /\ spent' \in [Rank -> Seq(Nat)] /\ stalled' \in [Rank -> SUBSET Nat]
        /\ iterations' \in [Rank -> Nat] /\ ok' \in [Rank -> BOOLEAN]
        /\ results' \in [Rank -> Seq(Result)]
    BY <1>3 DEF Typed
  <2>3. /\ joined' \in [Rank -> Nat]
        /\ offer' = [r \in Rank |-> [b \in {0, 1} |-> offer'[r][b]]]
    BY <1>1 DEF Typed
  <2> QED BY <1>1, <2>1, <2>2, <2>3 DEF Typed
<1>5. \A r \in Rank \ {x} : Same(r)
  BY <1>1, <1>3 DEF Typed, Same
<1>6. /\ AllValid(x) => pc'[x] = "barrier" /\ stage'[x] = "timed"
      /\ ~AllValid(x) => pc'[x] = "invalid" /\ stage'[x] = "validation"
  BY <1>2, <1>3 DEF Typed
<1>7. ExchangeOf(x)' /\ CollectiveOf(x)'
  BY <1>1, <1>2, <1>3, <1>6 DEF ExchangeOf, CollectiveOf
<1>8. Verdict = "throw" => AllValid(x)
  <2> SUFFICES ASSUME Verdict = "throw" PROVE AllValid(x)
    OBVIOUS
  <2>1. Offer(x, x).op = "verdict" /\ joined[x] % 2 \in {0, 1}
    BY <1>1, Parity DEF CollectiveOf, Typed
  <2>2. \A q \in Rank : Offer(q, x).op = "verdict"
    BY <1>1, <2>1 DEF Assembled, OffersInv, SameCall
  <2>3. \A q \in Rank : Offer(q, x).values[1] = 0
    BY <2>1, <2>2 DEF OffersInv, Offer
  <2>4. {Offer(q, x).values[1] : q \in Rank} = {0}
    BY <2>3
  <2>5. Max({0}) = 0
    BY DEF Max
  <2> QED BY <2>4, <2>5 DEF AllValid, Reduced
<1>9. /\ NextCall(x)' = pc'[x] /\ NextStage(x)' = stage'[x] /\ Remaining(x)' = 0
  BY <1>6, <1>8 DEF NextCall, NextStage, Remaining
<1>10. Upcoming(x)' = Following(x)
  <2>1. swaps[x] + 0 = swaps[x]
    BY DEF Typed
  <2>2. Following(x) = AfterVerdict(x)
    BY <1>1 DEF Following
  <2>3. Upcoming(x)' = AfterVerdict(x)
    BY <1>3, <1>6, <1>9, <2>1 DEF Upcoming, AfterVerdict
  <2> QED BY <2>2, <2>3
<1> QED BY <1>4, <1>5, <1>7, <1>10 DEF Steps

\* The start of a sample.
LEMMA SampleStep ==
  ASSUME Typed, NEW x \in Rank, NEW n \in Nat, StartSample(x, n)
  PROVE  /\ pc' \in [Rank -> Label] /\ stage' \in [Rank -> Stage]
         /\ left' \in [Rank -> Nat] /\ sample' \in [Rank -> Nat]
         /\ \A r \in Rank \ {x} : /\ pc'[r] = pc[r] /\ stage'[r] = stage[r]
                                 /\ left'[r] = left[r] /\ sample'[r] = sample[r]
         /\ sample'[x] = n
         /\ IF Verdict = "none"
            THEN pc'[x] = "barrier" /\ stage'[x] = "timed"
            ELSE pc'[x] = "exchange" /\ stage'[x] = "validation" /\ left'[x] = 1
<1>1. /\ "barrier" \in Label /\ "exchange" \in Label
      /\ "timed" \in Stage /\ "validation" \in Stage
  BY DEF Label, Collective, Stage
<1>2. /\ pc \in [Rank -> Label] /\ stage \in [Rank -> Stage]
      /\ left \in [Rank -> Nat] /\ sample \in [Rank -> Nat]
  BY DEF Typed
<1>3. CASE Verdict = "none"
  BY <1>1, <1>2, <1>3 DEF StartSample
<1>4. CASE Verdict # "none"
  BY <1>1, <1>2, <1>4 DEF StartSample
<1> QED BY <1>3, <1>4

LEMMA SamplePlan ==
  ASSUME Typed, NEW x \in Rank, NEW n \in Nat, StartSample(x, n),
         halo'[x] = halo[x], stalled'[x] = stalled[x], swaps'[x] = swaps[x],
         ~inside'[x], ~waiting'[x], iterations'[x] > 0, IsFiniteSet(stalled[x])
  PROVE  /\ ExchangeOf(x)' /\ CollectiveOf(x)'
         /\ Upcoming(x)' = Sampling(x, halo[x], n, iterations'[x], results'[x])
<1>1. /\ sample'[x] = n
      /\ IF Verdict = "none"
         THEN pc'[x] = "barrier" /\ stage'[x] = "timed"
         ELSE pc'[x] = "exchange" /\ stage'[x] = "validation" /\ left'[x] = 1
  BY SampleStep
<1>2. ExchangeOf(x)' /\ CollectiveOf(x)'
  BY <1>1 DEF ExchangeOf, CollectiveOf
<1>3. swaps[x] + 0 = swaps[x]
  BY DEF Typed
<1>4. CASE Verdict = "none"
  <2>1. NextCall(x)' = "barrier" /\ NextStage(x)' = "timed" /\ Remaining(x)' = 0
    BY <1>1, <1>4 DEF NextCall, NextStage, Remaining
  <2> QED BY <1>1, <1>2, <1>3, <1>4, <2>1 DEF Upcoming, Sampling
<1>5. CASE Verdict # "none"
  <2>1. NextCall(x)' = "verdict" /\ NextStage(x)' = "validation" /\ Remaining(x)' = 1
    BY <1>1, <1>5 DEF NextCall, StageCall, NextStage, Remaining
  <2> QED BY <1>1, <1>2, <1>5, <2>1 DEF Upcoming, Sampling
<1> QED BY <1>4, <1>5

LEMMA ReturnCalibrationStep ==
  ASSUME Typed, LocalInv, OffersInv, NEW x \in Rank, ReturnCalibration(x)
  PROVE  Steps(x) /\ Upcoming(x)' = Following(x)
<1>1. /\ waiting[x] /\ ~waiting'[x] /\ waiting' \in [Rank -> BOOLEAN]
      /\ \A r \in Rank \ {x} : waiting'[r] = waiting[r]
      /\ joined' = joined /\ offer' = offer
      /\ pc[x] = "max_time" /\ ~inside[x] /\ IsFiniteSet(stalled[x])
  BY ReturnFrame DEF ReturnCalibration, Collective
<1>2. /\ stage[x] = "calibration" /\ StartSample(x, 1)
      /\ iterations' = [iterations EXCEPT ![x] = IterationsFor(AgreedMax(x))]
      /\ UNCHANGED <<halo, swaps, inside, elapsed, spent, stalled, ok, results>>
  BY DEF ReturnCalibration
<1>3. IterationsFor(AgreedMax(x)) \in Nat \ {0}
  BY AgreedMaxType, IterationsAreCounted DEF ReturnCalibration
<1>4. /\ iterations'[x] = IterationsFor(AgreedMax(x)) /\ iterations'[x] > 0
      /\ iterations' \in [Rank -> Nat]
      /\ \A r \in Rank \ {x} : iterations'[r] = iterations[r]
  BY <1>2, <1>3 DEF Typed
<1>5. /\ pc' \in [Rank -> Label] /\ stage' \in [Rank -> Stage]
      /\ left' \in [Rank -> Nat] /\ sample' \in [Rank -> Nat]
      /\ \A r \in Rank \ {x} : /\ pc'[r] = pc[r] /\ stage'[r] = stage[r]
                              /\ left'[r] = left[r] /\ sample'[r] = sample[r]
  BY <1>2, SampleStep
<1>6. Typed'
  BY <1>1, <1>2, <1>4, <1>5 DEF Typed
<1>7. \A r \in Rank \ {x} : Same(r)
  BY <1>1, <1>2, <1>4, <1>5 DEF Same
<1>8. /\ ExchangeOf(x)' /\ CollectiveOf(x)'
      /\ Upcoming(x)' = Sampling(x, halo[x], 1, iterations'[x], results'[x])
  BY <1>1, <1>2, <1>4, SamplePlan
<1>9. Following(x) = AfterCalibration(x)
  BY <1>1, <1>2 DEF Following
<1>10. Upcoming(x)' = AfterCalibration(x)
  BY <1>2, <1>4, <1>8 DEF AfterCalibration
<1> QED BY <1>6, <1>7, <1>8, <1>9, <1>10 DEF Steps

LEMMA ReturnMaxTimeRanksStep ==
  ASSUME Typed, LocalInv, OffersInv, NEW x \in Rank, ReturnMaxTimeRanks(x)
  PROVE  Steps(x) /\ Upcoming(x)' = Following(x)
<1>1. /\ waiting[x] /\ ~waiting'[x] /\ waiting' \in [Rank -> BOOLEAN]
      /\ \A r \in Rank \ {x} : waiting'[r] = waiting[r]
      /\ joined' = joined /\ offer' = offer
      /\ pc[x] = "max_time_ranks" /\ ~inside[x] /\ ExchangeOf(x) /\ CollectiveOf(x)
  BY ReturnFrame DEF ReturnMaxTimeRanks, Collective
<1>2. /\ stage[x] = "timed" /\ elapsed[x] > 0 /\ Len(spent[x]) = iterations[x]
      /\ iterations[x] > 0
  BY <1>1 DEF ExchangeOf, CollectiveOf
<1> DEFINE S == {i \in 1 .. iterations[x] : Stalled(x, i)}
<1>3. /\ pc' = [pc EXCEPT ![x] = "gather"]
      /\ stalled' = [stalled EXCEPT ![x] = S]
      /\ UNCHANGED <<stage, halo, sample, swaps, inside, left, elapsed, spent,
                     iterations, ok, results>>
  BY <1>2 DEF ReturnMaxTimeRanks, place
<1>4. IsFiniteSet(S) /\ S \in SUBSET Nat
  <2>1. iterations[x] \in Int /\ S \subseteq 1 .. iterations[x]
    BY DEF Typed
  <2>2. IsFiniteSet(1 .. iterations[x])
    BY <2>1, FS_Interval
  <2>3. 1 .. iterations[x] \subseteq Nat
    BY <2>1
  <2> HIDE DEF S
  <2> QED BY <2>1, <2>2, <2>3, FS_Subset
<1>5. Following(x) = AfterMaxTimeRanks(x)
  BY <1>1 DEF Following
<1>6. AfterMaxTimeRanks(x) = Plan("gather", "timed", halo[x], sample[x],
                                  iterations[x], S, results[x], swaps[x])
  BY DEF AfterMaxTimeRanks
<1> HIDE DEF S
<1>7. Typed'
  BY <1>1, <1>3, <1>4 DEF Typed, Label, Collective
<1>8. \A r \in Rank \ {x} : Same(r)
  BY <1>1, <1>3 DEF Typed, Same
<1>9. pc'[x] = "gather" /\ stalled'[x] = S /\ stage'[x] = "timed"
  BY <1>2, <1>3 DEF Typed
<1>10. ExchangeOf(x)' /\ CollectiveOf(x)'
  BY <1>1, <1>2, <1>3, <1>4, <1>9 DEF ExchangeOf, CollectiveOf
<1>11. Upcoming(x)' = Following(x)
  <2>1. NextCall(x)' = "gather" /\ NextStage(x)' = "timed" /\ Remaining(x)' = 0
    BY <1>9 DEF NextCall, NextStage, Remaining
  <2>2. swaps[x] + 0 = swaps[x]
    BY DEF Typed
  <2> QED BY <1>3, <1>5, <1>6, <1>9, <2>1, <2>2 DEF Upcoming
<1> QED BY <1>7, <1>8, <1>10, <1>11 DEF Steps

\* The ranks have as many records: nobody aborts in the gather.
LEMMA ReturnGatherStep ==
  ASSUME Typed, LocalInv, OffersInv, NEW x \in Rank, ReturnGather(x)
  PROVE  Steps(x) /\ Upcoming(x)' = Following(x)
<1>1. /\ waiting[x] /\ ~waiting'[x] /\ waiting' \in [Rank -> BOOLEAN]
      /\ \A r \in Rank \ {x} : waiting'[r] = waiting[r]
      /\ joined' = joined /\ offer' = offer
      /\ pc[x] = "gather" /\ ~inside[x] /\ ExchangeOf(x) /\ CollectiveOf(x)
      /\ Assembled(x)
  BY ReturnFrame DEF ReturnGather, Collective
<1>2. stage[x] = "timed" /\ elapsed[x] > 0 /\ iterations[x] > 0 /\ IsFiniteSet(stalled[x])
  BY <1>1 DEF ExchangeOf, CollectiveOf
<1>3. \A q \in Rank : Len(Offer(q, x).values) = Len(Offer(x, x).values)
  BY <1>1 DEF Assembled, OffersInv, SameCall
<1>4. /\ pc' = [pc EXCEPT ![x] = "max_time"]
      /\ UNCHANGED <<stage, halo, sample, swaps, inside, left, elapsed, spent,
                     stalled, iterations, ok, results>>
  BY <1>3 DEF ReturnGather, place, region
<1>5. Typed'
  BY <1>1, <1>4 DEF Typed, Label, Collective
<1>6. \A r \in Rank \ {x} : Same(r)
  BY <1>1, <1>4 DEF Typed, Same
<1>7. pc'[x] = "max_time" /\ stage'[x] = "timed"
  BY <1>2, <1>4 DEF Typed
<1>8. ExchangeOf(x)' /\ CollectiveOf(x)'
  BY <1>1, <1>2, <1>4, <1>7 DEF ExchangeOf, CollectiveOf
<1>9. Upcoming(x)' = Following(x)
  <2>1. NextCall(x)' = "max_time" /\ NextStage(x)' = "timed" /\ Remaining(x)' = 0
    BY <1>7 DEF NextCall, NextStage, Remaining
  <2>2. swaps[x] + 0 = swaps[x]
    BY DEF Typed
  <2>3. Following(x) = AfterGather(x)
    BY <1>1 DEF Following
  <2> QED BY <1>4, <2>1, <2>2, <2>3 DEF Upcoming, AfterGather
<1> QED BY <1>5, <1>6, <1>8, <1>9 DEF Steps

LEMMA ReturnMeasuredStep ==
  ASSUME Typed, LocalInv, OffersInv, NEW x \in Rank, ReturnMeasured(x)
  PROVE  Steps(x) /\ Upcoming(x)' = Following(x)
<1>1. /\ waiting[x] /\ ~waiting'[x] /\ waiting' \in [Rank -> BOOLEAN]
      /\ \A r \in Rank \ {x} : waiting'[r] = waiting[r]
      /\ joined' = joined /\ offer' = offer
      /\ pc[x] = "max_time" /\ ~inside[x] /\ ExchangeOf(x) /\ CollectiveOf(x)
  BY ReturnFrame DEF ReturnMeasured, Collective
<1>2. /\ stage[x] = "timed" /\ iterations[x] > 0 /\ IsFiniteSet(stalled[x])
      /\ UNCHANGED <<swaps, inside, elapsed, spent, stalled, iterations, ok>>
  BY <1>1 DEF ReturnMeasured, ExchangeOf, CollectiveOf
<1>3. /\ halo[x] \in Nat /\ sample[x] \in Nat /\ iterations[x] \in Nat
      /\ swaps[x] \in Nat /\ stalled[x] \in SUBSET Nat /\ Samples \in Nat /\ Halos \in Nat
  BY BenchmarkAssumption DEF Typed
<1>4. /\ results'[x] = Extended(x) /\ results' \in [Rank -> Seq(Result)]
      /\ \A r \in Rank \ {x} : results'[r] = results[r]
  <2> DEFINE new == [halo |-> halo[x], sample |-> sample[x],
                     iterations |-> iterations[x], seconds |-> AgreedMax(x),
                     stalls |-> stalled[x]]
  <2>1. new \in Result
    <3>1. AgreedMax(x) \in Nat
      BY AgreedMaxType DEF ReturnMeasured
    <3> QED BY <1>3, <3>1 DEF Result
  <2>2. results' = [results EXCEPT ![x] = Append(@, new)]
    BY DEF ReturnMeasured
  <2>3. Extended(x) = Append(results[x], new)
    BY DEF Extended
  <2> HIDE DEF new
  <2>4. results \in [Rank -> Seq(Result)] /\ Append(results[x], new) \in Seq(Result)
    BY <2>1 DEF Typed
  <2> QED BY <2>2, <2>3, <2>4
<1>5. Following(x) = AfterMeasured(x)
  BY <1>1, <1>2 DEF Following
<1>6. CASE sample[x] < Samples /\ StartSample(x, sample[x] + 1) /\ halo' = halo
  <2>1. /\ pc' \in [Rank -> Label] /\ stage' \in [Rank -> Stage]
        /\ left' \in [Rank -> Nat] /\ sample' \in [Rank -> Nat]
        /\ \A r \in Rank \ {x} : /\ pc'[r] = pc[r] /\ stage'[r] = stage[r]
                                /\ left'[r] = left[r] /\ sample'[r] = sample[r]
    BY <1>3, <1>6, SampleStep
  <2>2. Typed'
    BY <1>1, <1>2, <1>4, <1>6, <2>1 DEF Typed
  <2>3. \A r \in Rank \ {x} : Same(r)
    BY <1>1, <1>2, <1>4, <1>6, <2>1 DEF Same
  <2>4. /\ ExchangeOf(x)' /\ CollectiveOf(x)'
        /\ Upcoming(x)' = Sampling(x, halo[x], sample[x] + 1, iterations'[x], results'[x])
    BY <1>1, <1>2, <1>3, <1>6, SamplePlan
  <2>5. Upcoming(x)' = AfterMeasured(x)
    BY <1>2, <1>4, <1>6, <2>4 DEF AfterMeasured
  <2> QED BY <1>5, <2>2, <2>3, <2>4, <2>5 DEF Steps
<1>7. CASE /\ sample[x] = Samples /\ halo[x] < Halos
           /\ halo' = [halo EXCEPT ![x] = @ + 1]
           /\ sample' = [sample EXCEPT ![x] = 0]
           /\ stage' = [stage EXCEPT ![x] = "setup"]
           /\ pc' = [pc EXCEPT ![x] = "setup"]
           /\ left' = left
  <2>1. Typed'
    <3>1. halo' \in [Rank -> Nat] /\ sample' \in [Rank -> Nat] /\ left' \in [Rank -> Nat]
      BY <1>3, <1>7 DEF Typed
    <3>2. pc' \in [Rank -> Label] /\ stage' \in [Rank -> Stage]
      BY <1>7 DEF Typed, Label, Stage
    <3>3. /\ swaps' \in [Rank -> Nat] /\ inside' \in [Rank -> BOOLEAN]
          /\ elapsed' \in [Rank -> Nat] /\ spent' \in [Rank -> Seq(Nat)]
          /\ stalled' \in [Rank -> SUBSET Nat] /\ iterations' \in [Rank -> Nat]
          /\ ok' \in [Rank -> BOOLEAN]
      BY <1>2 DEF Typed
    <3>4. /\ joined' \in [Rank -> Nat] /\ waiting' \in [Rank -> BOOLEAN]
          /\ offer' = [r \in Rank |-> [b \in {0, 1} |-> offer'[r][b]]]
      BY <1>1 DEF Typed
    <3> QED BY <1>4, <3>1, <3>2, <3>3, <3>4 DEF Typed
  <2>2. \A r \in Rank \ {x} : Same(r)
    BY <1>1, <1>2, <1>4, <1>7 DEF Typed, Same
  <2>3. /\ pc'[x] = "setup" /\ stage'[x] = "setup" /\ sample'[x] = 0
        /\ halo'[x] = halo[x] + 1
    BY <1>7 DEF Typed
  <2>4. ExchangeOf(x)' /\ CollectiveOf(x)'
    BY <1>1, <1>2, <2>3 DEF ExchangeOf, CollectiveOf
  <2>5. NextCall(x)' = "barrier" /\ NextStage(x)' = "calibration" /\ Remaining(x)' = 1
    BY <2>3 DEF NextCall, StageCall, NextStage, Remaining
  <2>6. AfterMeasured(x) = Plan("barrier", "calibration", halo[x] + 1, 0,
                                iterations[x], stalled[x], Extended(x), swaps[x] + 1)
    <3>1. ~(sample[x] < Samples)
      BY <1>3, <1>7
    <3> QED BY <1>7, <3>1 DEF AfterMeasured
  <2>7. Upcoming(x)' = AfterMeasured(x)
    BY <1>2, <1>4, <2>3, <2>5, <2>6 DEF Upcoming
  <2> QED BY <1>5, <2>1, <2>2, <2>4, <2>7 DEF Steps
<1>8. CASE /\ sample[x] = Samples /\ halo[x] = Halos
           /\ pc' = [pc EXCEPT ![x] = "done"]
           /\ UNCHANGED <<place, left>>
  <2>1. Typed'
    BY <1>1, <1>2, <1>4, <1>8 DEF Typed, Label, place
  <2>2. \A r \in Rank \ {x} : Same(r)
    BY <1>1, <1>2, <1>4, <1>8 DEF Typed, Same, place
  <2>3. pc'[x] = "done" /\ stage'[x] = "timed"
    BY <1>2, <1>8 DEF Typed, place
  <2>4. ExchangeOf(x)' /\ CollectiveOf(x)'
    BY <1>1, <1>2, <2>3 DEF ExchangeOf, CollectiveOf
  <2>5. NextCall(x)' = "done" /\ NextStage(x)' = "timed" /\ Remaining(x)' = 0
    BY <2>3 DEF NextCall, NextStage, Remaining
  <2>6. AfterMeasured(x) = Plan("done", "timed", halo[x], sample[x], iterations[x],
                                stalled[x], Extended(x), swaps[x])
    <3>1. ~(sample[x] < Samples) /\ ~(halo[x] < Halos)
      BY <1>3, <1>8
    <3> QED BY <3>1 DEF AfterMeasured
  <2>7. Upcoming(x)' = AfterMeasured(x)
    <3>1. swaps[x] + 0 = swaps[x]
      BY <1>3
    <3> QED BY <1>2, <1>4, <1>8, <2>3, <2>5, <2>6, <3>1 DEF Upcoming, place
  <2> QED BY <1>5, <2>1, <2>2, <2>4, <2>7 DEF Steps
<1> QED
  <2>1. \/ sample[x] < Samples /\ StartSample(x, sample[x] + 1) /\ halo' = halo
        \/ /\ sample[x] = Samples /\ halo[x] < Halos
           /\ halo' = [halo EXCEPT ![x] = @ + 1]
           /\ sample' = [sample EXCEPT ![x] = 0]
           /\ stage' = [stage EXCEPT ![x] = "setup"]
           /\ pc' = [pc EXCEPT ![x] = "setup"]
           /\ left' = left
        \/ /\ sample[x] = Samples /\ halo[x] = Halos
           /\ pc' = [pc EXCEPT ![x] = "done"]
           /\ UNCHANGED <<place, left>>
    BY DEF ReturnMeasured
  <2> QED BY <1>6, <1>7, <1>8, <2>1

\* Whatever collective a rank returns from, it goes where the offers send it.
Leaving(x) ==
  \/ ReturnBarrier(x) \/ ReturnCalibration(x) \/ ReturnVerdict(x)
  \/ ReturnMaxTimeRanks(x) \/ ReturnGather(x) \/ ReturnMeasured(x)

LEMMA ReturnStep ==
  ASSUME Typed, LocalInv, OffersInv, NEW x \in Rank, Leaving(x)
  PROVE  /\ Steps(x) /\ Upcoming(x)' = Following(x)
         /\ waiting[x] /\ ~waiting'[x] /\ Assembled(x)
         /\ \A r \in Rank \ {x} : waiting'[r] = waiting[r]
         /\ UNCHANGED <<joined, offer>>
<1>1. Steps(x) /\ Upcoming(x)' = Following(x)
  BY ReturnBarrierStep, ReturnCalibrationStep, ReturnVerdictStep,
     ReturnMaxTimeRanksStep, ReturnGatherStep, ReturnMeasuredStep DEF Leaving
<1>2. \E op \in Collective : Return(x, op)
  <2>1. /\ "barrier" \in Collective /\ "max_time" \in Collective
        /\ "verdict" \in Collective /\ "max_time_ranks" \in Collective
        /\ "gather" \in Collective
    BY DEF Collective
  <2>2. \/ Return(x, "barrier") \/ Return(x, "max_time") \/ Return(x, "verdict")
        \/ Return(x, "max_time_ranks") \/ Return(x, "gather")
    BY DEF Leaving, ReturnBarrier, ReturnCalibration, ReturnVerdict,
           ReturnMaxTimeRanks, ReturnGather, ReturnMeasured
  <2> QED BY <2>1, <2>2
<1>3. PICK op \in Collective : Return(x, op)
  BY <1>2
<1>4. /\ waiting[x] /\ ~waiting'[x] /\ Assembled(x)
      /\ \A r \in Rank \ {x} : waiting'[r] = waiting[r]
      /\ joined' = joined /\ offer' = offer
  BY <1>3, ReturnFrame
<1> QED BY <1>1, <1>4

-----------------------------------------------------------------------------
(***************************************************************************)
(* The invariant is kept.                                                  *)
(***************************************************************************)
LEMMA StepsKeep ==
  ASSUME LocalInv, NEW x \in Rank, Steps(x)
  PROVE  /\ LocalInv'
         /\ \A r \in Rank \ {x} : Upcoming(r)' = Upcoming(r)
<1>1. ASSUME NEW r \in Rank PROVE ExchangeOf(r)' /\ CollectiveOf(r)'
  <2>1. CASE r = x
    BY <2>1 DEF Steps
  <2>2. CASE r # x
    BY <2>2, SameRank DEF Steps, LocalInv
  <2> QED BY <2>1, <2>2
<1>2. \A r \in Rank \ {x} : Upcoming(r)' = Upcoming(r)
  BY SameRank DEF Steps
<1> QED BY <1>1, <1>2 DEF LocalInv

LEMMA QuietKeeps ==
  ASSUME Typed, Core, NEW x \in Rank, Quiet(x)
  PROVE  Typed' /\ Core'
<1> USE DEF Core
<1>1. /\ Steps(x) /\ Upcoming(x)' = Upcoming(x) /\ ~waiting[x]
      /\ joined' = joined /\ waiting' = waiting /\ offer' = offer
  BY QuietStep
<1>2. LocalInv' /\ \A r \in Rank : Upcoming(r)' = Upcoming(r)
  BY <1>1, StepsKeep
<1>3. \A q, r \in Rank : Offer(q, r)' = Offer(q, r)
  BY <1>1 DEF Offer
<1>4. ASSUME NEW r \in Rank PROVE Coming(r)' = Coming(r)
  <2>1. CASE waiting[r]
    <3>1. Same(r)
      BY <1>1, <2>1 DEF Steps
    <3>2. Following(r)' = Following(r)
      BY <1>3, <3>1, FollowingKept
    <3> QED BY <1>1, <2>1, <3>2 DEF Coming
  <2>2. CASE ~waiting[r]
    BY <1>1, <1>2, <2>2 DEF Coming
  <2> QED BY <2>1, <2>2
<1>5. OffersInv'
  BY <1>1, <1>3 DEF OffersInv, SameCall
<1>6. JoinedInv'
  BY <1>1 DEF JoinedInv
<1>7. PlansInv'
  BY <1>1, <1>2, <1>4 DEF PlansInv
<1> QED BY <1>1, <1>2, <1>5, <1>6, <1>7 DEF Steps

LEMMA LeavingKeeps ==
  ASSUME Typed, Core, NEW x \in Rank, Leaving(x)
  PROVE  Typed' /\ Core'
<1> USE DEF Core
<1>1. /\ Steps(x) /\ Upcoming(x)' = Following(x)
      /\ waiting[x] /\ ~waiting'[x]
      /\ \A r \in Rank \ {x} : waiting'[r] = waiting[r]
      /\ joined' = joined /\ offer' = offer
  BY ReturnStep
<1>2. \A r \in Rank : joined[r] >= joined[x]
  BY ReturnStep DEF Assembled
<1>3. LocalInv' /\ \A r \in Rank \ {x} : Upcoming(r)' = Upcoming(r)
  BY <1>1, StepsKeep
<1>4. \A q, r \in Rank : Offer(q, r)' = Offer(q, r)
  BY <1>1 DEF Offer
<1>5. ASSUME NEW r \in Rank PROVE Coming(r)' = Coming(r)
  <2>1. CASE r = x
    BY <1>1, <2>1 DEF Coming
  <2>2. CASE r # x /\ waiting[r]
    <3>1. Following(r)' = Following(r)
      BY <1>1, <1>4, <2>2, FollowingKept DEF Steps
    <3> QED BY <1>1, <2>2, <3>1 DEF Coming
  <2>3. CASE r # x /\ ~waiting[r]
    BY <1>1, <1>3, <2>3 DEF Coming
  <2> QED BY <2>1, <2>2, <2>3
<1>6. OffersInv'
  <2>1. \A r \in Rank : waiting'[r] => waiting[r]
    BY <1>1
  <2> QED BY <1>1, <1>4, <2>1 DEF OffersInv, SameCall
<1>7. \A r \in Rank : joined[r] \in Nat
  BY DEF Typed
<1>8. JoinedInv'
  <2> SUFFICES ASSUME NEW p \in Rank, NEW r \in Rank
               PROVE  /\ joined'[p] <= joined'[r] + 1
                      /\ joined'[p] = joined'[r] + 1 => waiting'[p]
    BY DEF JoinedInv
  <2>1. p = x => joined[p] # joined[r] + 1
    BY <1>2, <1>7
  <2> QED BY <1>1, <2>1 DEF JoinedInv
<1>9. ASSUME NEW p \in Rank, NEW r \in Rank, joined[p] = joined[r]
      PROVE  IF waiting'[p] /\ waiting'[r] THEN Upcoming(p)' = Upcoming(r)'
             ELSE Coming(p)' = Coming(r)'
  <2>1. CASE waiting'[p] /\ waiting'[r]
    <3>1. p # x /\ r # x
      BY <1>1, <2>1
    <3>2. Upcoming(p) = Upcoming(r)
      BY <1>1, <1>9, <2>1, <3>1 DEF PlansInv
    <3> QED BY <1>3, <2>1, <3>1, <3>2
  <2>2. CASE ~(waiting'[p] /\ waiting'[r])
    <3>1. CASE waiting[p] /\ waiting[r]
      <4>1. Upcoming(p) = Upcoming(r)
        BY <1>9, <3>1 DEF PlansInv
      <4>2. /\ pc[p] \in Collective /\ pc[r] \in Collective
            /\ CollectiveOf(p) /\ CollectiveOf(r)
        BY <3>1 DEF LocalInv, CollectiveOf
      <4>3. Following(p) = Following(r)
        BY <1>9, <4>1, <4>2, FollowingSame
      <4> QED BY <1>5, <2>2, <3>1, <4>3 DEF Coming
    <3>2. CASE ~(waiting[p] /\ waiting[r])
      BY <1>5, <1>9, <2>2, <3>2 DEF PlansInv
    <3> QED BY <3>1, <3>2
  <2> QED BY <2>1, <2>2
<1>10. ASSUME NEW p \in Rank, NEW r \in Rank, joined[p] = joined[r] + 1
       PROVE  Upcoming(p)' = Coming(r)'
  <2>1. p # x
    BY <1>2, <1>7, <1>10
  <2>2. Upcoming(p) = Coming(r)
    BY <1>10 DEF PlansInv
  <2> QED BY <1>3, <1>5, <2>1, <2>2
<1>11. PlansInv'
  BY <1>1, <1>9, <1>10 DEF PlansInv
<1> QED BY <1>1, <1>3, <1>6, <1>8, <1>11 DEF Steps

\* Ranks with one plan make one call, with as many values.
LEMMA SameValues ==
  ASSUME Typed, NEW p \in Rank, NEW r \in Rank,
         pc[p] \in Collective, pc[r] \in Collective,
         CollectiveOf(p), CollectiveOf(r), Upcoming(p) = Upcoming(r)
  PROVE  SameCall([op |-> pc[p], values |-> Values(p)],
                  [op |-> pc[r], values |-> Values(r)])
<1>1. pc[p] = pc[r] /\ iterations[p] = iterations[r] /\ stalled[p] = stalled[r]
  BY InCollective DEF Plan
<1>2. Len(Values(p)) = Len(Values(r))
  <2>1. CASE pc[r] = "barrier"
    BY <1>1, <2>1 DEF Values
  <2>2. CASE pc[r] = "max_time"
    BY <1>1, <2>2 DEF Values
  <2>3. CASE pc[r] = "max_time_ranks"
    BY <1>1, <2>3 DEF Values, CollectiveOf
  <2>4. CASE pc[r] = "verdict"
    BY <1>1, <2>4 DEF Values
  <2>5. CASE pc[r] = "gather"
    <3> DEFINE n == Cardinality(stalled[r])
    <3>1. n \in Nat
      BY FS_CardinalityType DEF CollectiveOf
    <3>2. /\ Values(p) = [k \in 1 .. n |-> spent[p][Ascending(stalled[p])[k]]]
          /\ Values(r) = [k \in 1 .. n |-> spent[r][Ascending(stalled[r])[k]]]
      BY <1>1, <2>5 DEF Values
    <3> HIDE DEF n
    <3>3. /\ Values(p) = [k \in 1 .. n |-> Values(p)[k]]
          /\ Values(r) = [k \in 1 .. n |-> Values(r)[k]]
      BY <3>2
    <3>4. ASSUME NEW v, v = [k \in 1 .. n |-> v[k]] PROVE Len(v) = n
      <4>1. v \in Seq({v[k] : k \in 1 .. n})
        BY <3>1, <3>4
      <4>2. DOMAIN v = 1 .. Len(v) /\ Len(v) \in Nat
        BY <4>1
      <4>3. DOMAIN v = 1 .. n
        BY <3>4
      <4>4. 1 .. n = 1 .. Len(v)
        BY <4>2, <4>3
      <4> QED BY <3>1, <4>2, <4>4, SameInterval
    <3> QED BY <3>3, <3>4
  <2> QED BY <2>1, <2>2, <2>3, <2>4, <2>5 DEF Collective
<1> QED BY <1>1, <1>2 DEF SameCall

LEMMA JoinKeeps ==
  ASSUME Typed, Core, NEW x \in Rank, Join(x)
  PROVE  Typed' /\ Core'
<1> USE DEF Core
<1> DEFINE n == joined[x]
           call == [op |-> pc[x], values |-> Values(x)]
<1>1. /\ Steps(x) /\ Upcoming(x)' = Upcoming(x)
      /\ pc[x] \in Collective /\ pc' = pc /\ ~waiting[x] /\ waiting'[x]
      /\ joined'[x] = n + 1 /\ offer'[x][n % 2] = offer[x][n % 2]
      /\ Offer(x, x)' = call
      /\ \A b \in {0, 1} : offer'[x][b] = offer[x][b] \/ offer'[x][b] = call
  BY JoinStep
<1>2. /\ LocalInv'
      /\ \A r \in Rank : Upcoming(r)' = Upcoming(r)
  BY <1>1, StepsKeep
<1>3. /\ \A r \in Rank : joined[r] \in Nat /\ joined'[r] \in Nat
      /\ \A r \in Rank : joined[r] % 2 \in {0, 1} /\ joined'[r] % 2 \in {0, 1}
      /\ n \in Nat /\ (n + 1) % 2 # n % 2
  BY <1>1, Parity DEF Typed, Steps
<1>4. \A r \in Rank \ {x} : /\ Same(r) /\ joined'[r] = joined[r]
                           /\ waiting'[r] = waiting[r] /\ offer'[r] = offer[r]
  BY <1>1 DEF Steps, Same
\* The others are where x was or inside the collective x enters.
<1>5. \A r \in Rank : joined[r] = n \/ (joined[r] = n + 1 /\ waiting[r] /\ r # x)
  <2> SUFFICES ASSUME NEW r \in Rank
               PROVE  joined[r] = n \/ (joined[r] = n + 1 /\ waiting[r] /\ r # x)
    OBVIOUS
  <2>1. joined[r] <= n + 1 /\ n <= joined[r] + 1
    BY DEF JoinedInv
  <2>2. n # joined[r] + 1
    BY <1>1 DEF JoinedInv
  <2>3. joined[r] = n + 1 => waiting[r] /\ r # x
    BY <1>3 DEF JoinedInv
  <2>4. joined[r] \in Nat /\ n \in Nat
    BY <1>3
  <2> HIDE DEF n
  <2>5. joined[r] = n \/ joined[r] = n + 1
    BY <2>1, <2>2, <2>4
  <2> QED BY <2>3, <2>5
<1>6. CollectiveOf(x) /\ ExchangeOf(x)
  BY DEF LocalInv
<1>7. ASSUME NEW r \in Rank, joined[r] = n + 1
      PROVE  /\ Upcoming(r) = Upcoming(x) /\ pc[r] \in Collective /\ CollectiveOf(r)
             /\ Offer(r, r) = [op |-> pc[r], values |-> Values(r)]
             /\ SameCall(Offer(r, r), call) /\ SameCall(call, Offer(r, r))
  <2>1. Upcoming(r) = Upcoming(x)
    BY <1>1, <1>7 DEF PlansInv, Coming
  <2>2. /\ pc[r] \in Collective /\ CollectiveOf(r)
        /\ Offer(r, r) = [op |-> pc[r], values |-> Values(r)]
    BY <1>5, <1>7, <1>3 DEF LocalInv, CollectiveOf
  <2>3. SameCall(Offer(r, r), call)
    BY <1>1, <1>6, <2>1, <2>2, SameValues
  <2> QED BY <2>1, <2>2, <2>3 DEF SameCall
<1> HIDE DEF call
<1>8. JoinedInv'
  <2> SUFFICES ASSUME NEW p \in Rank, NEW r \in Rank
               PROVE  /\ joined'[p] <= joined'[r] + 1
                      /\ joined'[p] = joined'[r] + 1 => waiting'[p]
    BY DEF JoinedInv
  <2>1. CASE p = x
    BY <1>1, <1>3, <1>4, <1>5, <2>1
  <2>2. CASE p # x /\ r = x
    BY <1>1, <1>3, <1>4, <1>5, <2>2
  <2>3. CASE p # x /\ r # x
    BY <1>4, <2>3 DEF JoinedInv
  <2> QED BY <2>1, <2>2, <2>3
\* Who offered what.
<1>9. /\ \A q \in Rank \ {x}, r \in Rank \ {x} : Offer(q, r)' = Offer(q, r)
      /\ \A r \in Rank \ {x} : joined[r] = n => Offer(x, r)' = Offer(x, r)
      /\ \A r \in Rank \ {x} : joined[r] = n + 1 => Offer(x, r)' = call
      /\ \A q \in Rank \ {x} : joined[q] = n + 1 => Offer(q, x)' = Offer(q, q)
  <2>1. offer'[x][(n + 1) % 2] = call
    BY <1>1 DEF Offer
  <2> QED BY <1>1, <1>4, <2>1 DEF Offer
<1>10. OffersInv'
  <2>1. ASSUME NEW q \in Rank, NEW b \in {0, 1}
        PROVE  /\ offer'[q][b].op = "max_time" => offer'[q][b].values[1] \in Nat \ {0}
               /\ Verdict = "throw" /\ offer'[q][b].op = "verdict" =>
                    offer'[q][b].values[1] = 0
    <3>1. CASE offer'[q][b] = offer[q][b]
      BY <3>1 DEF OffersInv
    <3>2. CASE q = x /\ offer'[x][b] = call
      <4>1. call.op = pc[x] /\ call.values = Values(x)
        BY DEF call
      <4>2. CASE pc[x] = "max_time"
        <5>1. Values(x) = <<elapsed[x]>>
          BY <4>2 DEF Values
        <5>2. elapsed[x] \in Nat \ {0}
          BY <1>6, <4>2 DEF CollectiveOf, Typed
        <5> QED BY <3>2, <4>1, <4>2, <5>1, <5>2
      <4>3. CASE pc[x] = "verdict"
        <5>1. Verdict = "throw" => Values(x) = <<0>>
          BY <1>6, <4>3 DEF Values, CollectiveOf
        <5> QED BY <3>2, <4>1, <4>3, <5>1
      <4>4. CASE pc[x] \notin {"max_time", "verdict"}
        BY <3>2, <4>1, <4>4
      <4> QED BY <4>2, <4>3, <4>4
    <3> QED BY <1>1, <1>4, <3>1, <3>2
  <2>2. ASSUME NEW q \in Rank, NEW r \in Rank, waiting'[r], joined'[q] >= joined'[r]
        PROVE  SameCall(Offer(q, r)', Offer(r, r)')
    <3>1. CASE q = r
      BY <3>1 DEF SameCall
    <3>2. CASE q # r /\ r = x
      <4>1. joined[q] = n + 1
        BY <1>1, <1>3, <1>4, <1>5, <2>2, <3>2
      <4> QED BY <1>1, <1>7, <1>9, <3>2, <4>1
    <3>3. CASE q # r /\ q = x
      <4>1. CASE joined[r] = n
        <5>1. SameCall(Offer(q, r), Offer(r, r))
          BY <1>3, <1>4, <2>2, <3>3, <4>1 DEF OffersInv
        <5> QED BY <1>9, <3>3, <4>1, <5>1
      <4>2. CASE joined[r] = n + 1
        BY <1>7, <1>9, <3>3, <4>2
      <4> QED BY <1>5, <4>1, <4>2
    <3>4. CASE q # x /\ r # x
      <4>1. SameCall(Offer(q, r), Offer(r, r))
        BY <1>4, <2>2, <3>4 DEF OffersInv
      <4> QED BY <1>9, <3>4, <4>1
    <3> QED BY <3>1, <3>2, <3>3, <3>4
  <2>3. \A q, r \in Rank :
          waiting'[r] /\ joined'[q] >= joined'[r] => SameCall(Offer(q, r)', Offer(r, r)')
    BY <2>2
  <2> QED BY <2>1, <2>3 DEF OffersInv, SameCall
<1>11. ASSUME NEW r \in Rank \ {x}, joined[r] = n
       PROVE  Coming(r)' = Coming(r)
  <2>1. \A q \in Rank : Offer(q, r)' = Offer(q, r)
    BY <1>9, <1>11
  <2>2. Following(r)' = Following(r)
    BY <1>4, <2>1, FollowingKept
  <2> QED BY <1>2, <1>4, <2>2 DEF Coming
<1>12. PlansInv'
  <2>1. ASSUME NEW p \in Rank, NEW r \in Rank, joined'[p] = joined'[r]
        PROVE  IF waiting'[p] /\ waiting'[r] THEN Upcoming(p)' = Upcoming(r)'
               ELSE Coming(p)' = Coming(r)'
    <3>1. CASE p = r
      BY <3>1
    <3>2. CASE p # r /\ p = x
      <4>1. joined[r] = n + 1 /\ waiting[r]
        BY <1>1, <1>3, <1>4, <1>5, <2>1, <3>2
      <4> QED BY <1>1, <1>2, <1>4, <1>7, <3>2, <4>1
    <3>3. CASE p # r /\ r = x
      <4>1. joined[p] = n + 1 /\ waiting[p]
        BY <1>1, <1>3, <1>4, <1>5, <2>1, <3>3
      <4> QED BY <1>1, <1>2, <1>4, <1>7, <3>3, <4>1
    <3>4. CASE p # x /\ r # x /\ joined[r] = n
      <4>1. joined[p] = joined[r]
        BY <1>4, <2>1, <3>4
      <4>2. Coming(p)' = Coming(p) /\ Coming(r)' = Coming(r)
        BY <1>11, <3>4, <4>1
      <4> QED BY <1>2, <1>4, <3>4, <4>1, <4>2 DEF PlansInv
    <3>5. CASE p # x /\ r # x /\ joined[r] = n + 1
      <4>1. joined[p] = n + 1
        BY <1>4, <2>1, <3>5
      <4>2. waiting'[p] /\ waiting'[r]
        BY <1>3, <1>4, <1>5, <3>5, <4>1
      <4> QED BY <1>2, <1>7, <3>5, <4>1, <4>2
    <3> QED BY <1>5, <3>1, <3>2, <3>3, <3>4, <3>5
  <2>2. ASSUME NEW p \in Rank, NEW r \in Rank, joined'[p] = joined'[r] + 1
        PROVE  Upcoming(p)' = Coming(r)'
    <3>1. r # x /\ joined[r] = n
      BY <1>1, <1>3, <1>4, <1>5, <2>2
    <3>2. CASE p = x
      <4>1. Coming(x) = Upcoming(x)
        BY <1>1 DEF Coming
      <4>2. Coming(x) = Coming(r)
        BY <1>1, <3>1 DEF PlansInv
      <4> QED BY <1>2, <1>11, <3>1, <3>2, <4>1, <4>2
    <3>3. CASE p # x
      <4>1. Upcoming(p) = Coming(r)
        BY <1>4, <2>2, <3>1, <3>3 DEF PlansInv
      <4> QED BY <1>2, <1>11, <3>1, <4>1
    <3> QED BY <3>2, <3>3
  <2> QED BY <2>1, <2>2 DEF PlansInv
<1> QED BY <1>1, <1>2, <1>8, <1>10, <1>12 DEF Steps

-----------------------------------------------------------------------------
(***************************************************************************)
(* What the invariant says of two ranks.                                   *)
(***************************************************************************)
\* A rank that is done is not waited for and waits for nobody: every rank has
\* joined as many collectives and no exception is on its way.
LEMMA NoneFails ==
  ASSUME Typed, Core, Running, NEW r \in Rank, pc[r] = "done"
  PROVE  \A p \in Rank : /\ joined[p] = joined[r]
                         /\ pc[p] \notin {"invalid", "thrown", "killed"}
<1> USE DEF Core
<1>1. ~waiting[r]
  BY DEF LocalInv, CollectiveOf, Collective
<1>2. Upcoming(r)[1] = "done"
  BY DEF Upcoming, Plan, NextCall
<1> TAKE p \in Rank
<1>3. joined[p] \in Nat /\ joined[r] \in Nat
  BY DEF Typed
<1>4. joined[p] = joined[r]
  <2>1. joined[r] # joined[p] + 1
    BY <1>1 DEF JoinedInv
  <2>2. joined[p] # joined[r] + 1
    <3> SUFFICES ASSUME joined[p] = joined[r] + 1 PROVE FALSE
      OBVIOUS
    <3>1. waiting[p] /\ Upcoming(p) = Upcoming(r)
      BY <1>1 DEF JoinedInv, PlansInv, Coming
    <3>2. pc[p] \in Collective /\ CollectiveOf(p)
      BY <3>1 DEF LocalInv, CollectiveOf
    <3>3. Upcoming(p)[1] = pc[p]
      BY <3>2, InCollective DEF Plan
    <3> QED BY <1>2, <3>1, <3>2, <3>3 DEF Collective
  <2>3. joined[p] <= joined[r] + 1 /\ joined[r] <= joined[p] + 1
    BY DEF JoinedInv
  <2> QED BY <1>3, <2>1, <2>2, <2>3
<1>5. ASSUME pc[p] \in {"invalid", "thrown"} PROVE FALSE
  <2>1. ~waiting[p]
    BY <1>5 DEF LocalInv, CollectiveOf, Collective
  <2>2. Upcoming(p) = Upcoming(r)
    BY <1>1, <1>4, <2>1 DEF PlansInv, Coming
  <2>3. NextCall(p) = "done"
    BY <1>2, <2>2 DEF Upcoming, Plan
  <2> QED BY <1>5, <2>3 DEF NextCall, StageCall, Measurement
<1>6. pc[p] # "killed"
  BY DEF Running
<1> QED BY <1>4, <1>5, <1>6

LEMMA CoreSameCollectives ==
  ASSUME Typed, Core
  PROVE  SameCollectives
<1> SUFFICES ASSUME NEW p \in Rank, NEW r \in Rank,
                    waiting[p], waiting[r], joined[p] = joined[r]
             PROVE  SameCall(Offer(p, p), Offer(r, r))
  BY DEF SameCollectives, SameCall
<1>1. joined[p] >= joined[r]
  BY DEF Typed
<1>2. SameCall(Offer(p, r), Offer(r, r))
  BY <1>1 DEF Core, OffersInv
<1> QED BY <1>2 DEF Offer

LEMMA CoreSameExchanges ==
  ASSUME Typed, Core
  PROVE  SameExchanges
<1> USE DEF Core
<1> SUFFICES ASSUME NEW p \in Rank, NEW r \in Rank,
                    inside[p], inside[r], swaps[p] = swaps[r]
             PROVE  /\ stage[p] = stage[r] /\ left[p] = left[r]
                    /\ halo[p] = halo[r] /\ sample[p] = sample[r]
  BY DEF SameExchanges
<1>1. ASSUME NEW q \in Rank, inside[q]
      PROVE  /\ pc[q] \in {"exchange", "thrown"} /\ ~waiting[q]
             /\ stage[q] \in {"warm_up", "calibration", "validation", "timed"}
             /\ Coming(q) = Plan(StageCall(stage[q]), NextStage(q), halo[q], sample[q],
                                 iterations[q], stalled[q], results[q],
                                 swaps[q] + left[q])
  <2>1. /\ pc[q] \in {"exchange", "thrown"} /\ stage[q] # "setup" /\ stage[q] \in Stage
    BY <1>1 DEF LocalInv, ExchangeOf, Typed
  <2>2. ~waiting[q]
    BY <2>1 DEF LocalInv, CollectiveOf, Collective
  <2>3. NextCall(q) = StageCall(stage[q]) /\ Remaining(q) = left[q]
    BY <2>1 DEF NextCall, Remaining
  <2> QED BY <2>1, <2>2, <2>3 DEF Stage, Coming, Upcoming
<1>2. joined[p] = joined[r]
  <2>1. joined[p] \in Nat /\ joined[r] \in Nat
    BY DEF Typed
  <2>2. joined[p] # joined[r] + 1 /\ joined[r] # joined[p] + 1
    BY <1>1 DEF JoinedInv
  <2>3. joined[p] <= joined[r] + 1 /\ joined[r] <= joined[p] + 1
    BY DEF JoinedInv
  <2> QED BY <2>1, <2>2, <2>3
<1>3. Coming(p) = Coming(r)
  BY <1>1, <1>2 DEF PlansInv
<1>4. /\ StageCall(stage[p]) = StageCall(stage[r]) /\ NextStage(p) = NextStage(r)
      /\ halo[p] = halo[r] /\ sample[p] = sample[r]
      /\ swaps[p] + left[p] = swaps[r] + left[r]
  BY <1>1, <1>3 DEF Plan
<1>5. stage[p] = stage[r]
  BY <1>1, <1>4 DEF StageCall, NextStage, Measurement
<1>6. left[p] = left[r]
  <2>1. /\ left[p] \in Nat /\ left[r] \in Nat /\ swaps[p] \in Nat
    BY DEF Typed
  <2> QED BY <1>4, <2>1
<1> QED BY <1>4, <1>5, <1>6

\* The results of two ranks are the same but for one that only one has pushed.
LEMMA CoreResults ==
  ASSUME Typed, Core, NEW p \in Rank, NEW r \in Rank
  PROVE  \/ results[p] = results[r]
         \/ \E x : results[p] = Append(results[r], x)
         \/ \E x : results[r] = Append(results[p], x)
<1> USE DEF Core
<1>1. ASSUME NEW q \in Rank
      PROVE  /\ Upcoming(q)[7] = results[q]
             /\ \/ Coming(q)[7] = results[q]
                \/ \E x : Coming(q)[7] = Append(results[q], x)
  <2>1. Upcoming(q)[7] = results[q]
    BY DEF Upcoming, Plan
  <2>2. Following(q)[7] = results[q] \/ Following(q)[7] = Extended(q)
    <3>1. /\ AfterBarrier(q)[7] = results[q] /\ AfterGather(q)[7] = results[q]
          /\ AfterMaxTimeRanks(q)[7] = results[q] /\ AfterVerdict(q)[7] = results[q]
      BY DEF AfterBarrier, AfterGather, AfterMaxTimeRanks, AfterVerdict, Plan
    <3>2. /\ AfterCalibration(q)[7] = results[q] /\ AfterMeasured(q)[7] = Extended(q)
      BY DEF AfterCalibration, AfterMeasured, Sampling, Plan
    <3> QED BY <3>1, <3>2 DEF Following
  <2>3. \E x : Extended(q) = Append(results[q], x)
    BY DEF Extended
  <2> QED BY <2>1, <2>2, <2>3 DEF Coming
<1>2. CASE joined[p] = joined[r]
  <2>1. CASE waiting[p] /\ waiting[r]
    BY <1>1, <1>2, <2>1 DEF PlansInv
  <2>2. CASE ~(waiting[p] /\ waiting[r])
    <3>1. Coming(p) = Coming(r)
      BY <1>2, <2>2 DEF PlansInv
    <3>2. Coming(p) = Upcoming(p) \/ Coming(r) = Upcoming(r)
      BY <2>2 DEF Coming
    <3>3. CASE Coming(p) = Upcoming(p)
      <4>1. Coming(r)[7] = results[p]
        BY <1>1, <3>1, <3>3
      <4> QED BY <1>1, <4>1
    <3>4. CASE Coming(r) = Upcoming(r)
      <4>1. Coming(p)[7] = results[r]
        BY <1>1, <3>1, <3>4
      <4> QED BY <1>1, <4>1
    <3> QED BY <3>2, <3>3, <3>4
  <2> QED BY <2>1, <2>2
<1>3. CASE joined[p] = joined[r] + 1
  <2>1. Upcoming(p) = Coming(r)
    BY <1>3 DEF PlansInv
  <2> QED BY <1>1, <2>1
<1>4. CASE joined[r] = joined[p] + 1
  <2>1. Upcoming(r) = Coming(p)
    BY <1>4 DEF PlansInv
  <2> QED BY <1>1, <2>1
<1>5. \/ joined[p] = joined[r] \/ joined[p] = joined[r] + 1
      \/ joined[r] = joined[p] + 1
  <2>1. joined[p] \in Nat /\ joined[r] \in Nat
    BY DEF Typed
  <2>2. joined[p] <= joined[r] + 1 /\ joined[r] <= joined[p] + 1
    BY DEF JoinedInv
  <2> QED BY <2>1, <2>2
<1> QED BY <1>2, <1>3, <1>4, <1>5

LEMMA CoreResultsAgree ==
  ASSUME Typed, Core
  PROVE  ResultsAgree
<1> SUFFICES ASSUME NEW p \in Rank, NEW r \in Rank,
                    NEW k \in 1 .. Min({Len(results[p]), Len(results[r])})
             PROVE  results[p][k] = results[r][k]
  BY DEF ResultsAgree
<1> DEFINE a == results[p]
           b == results[r]
<1>1. /\ a \in Seq(Result) /\ b \in Seq(Result)
      /\ a = b \/ (\E x : a = Append(b, x)) \/ (\E x : b = Append(a, x))
  BY CoreResults DEF Typed
<1> HIDE DEF a, b
<1>2. Len(a) \in Nat /\ Len(b) \in Nat
  BY <1>1
<1>3. k <= Len(a) /\ k <= Len(b) /\ k \in Nat \ {0}
  <2>1. \E x \in {Len(a), Len(b)} : \A y \in {Len(a), Len(b)} : x <= y
    BY <1>2
  <2>2. /\ Min({Len(a), Len(b)}) \in {Len(a), Len(b)}
        /\ \A y \in {Len(a), Len(b)} : Min({Len(a), Len(b)}) <= y
    BY <2>1 DEF Min
  <2>3. k \in 1 .. Min({Len(a), Len(b)})
    BY DEF a, b
  <2> QED BY <1>2, <2>2, <2>3
<1>4. ASSUME NEW s \in Seq(Result), NEW x, NEW i \in Nat \ {0}, i <= Len(s)
      PROVE  Append(s, x)[i] = s[i]
  BY <1>4
<1>5. a[k] = b[k]
  BY <1>1, <1>3, <1>4
<1> QED BY <1>5 DEF a, b

-----------------------------------------------------------------------------
(***************************************************************************)
(* The invariant holds.                                                    *)
(***************************************************************************)
LEMMA InitInv == Init => Inv
<1> SUFFICES ASSUME Init PROVE Inv
  OBVIOUS
<1> USE DEF Init
<1>1. Typed
  <2>1. /\ pc \in [Rank -> Label] /\ stage \in [Rank -> Stage]
    BY DEF Label, Stage
  <2>2. offer = [r \in Rank |-> [b \in {0, 1} |-> offer[r][b]]]
    OBVIOUS
  <2> QED BY <2>1, <2>2 DEF Typed
<1>2. Running
  BY DEF Running
<1>3. LocalInv
  <2>1. IsFiniteSet({})
    BY FS_EmptySet
  <2> QED BY <2>1 DEF LocalInv, ExchangeOf, CollectiveOf
<1>4. OffersInv
  BY DEF OffersInv, Silent
<1>5. JoinedInv
  BY DEF JoinedInv
<1>6. PlansInv
  <2>1. \A p, r \in Rank : Upcoming(p) = Upcoming(r)
    BY DEF Upcoming, NextCall, NextStage, Remaining
  <2>2. \A p \in Rank : ~waiting[p] /\ joined[p] = 0
    OBVIOUS
  <2>3. \A p \in Rank : Coming(p) = Upcoming(p)
    BY <2>2 DEF Coming
  <2> QED BY <2>1, <2>2, <2>3 DEF PlansInv
<1> QED BY <1>1, <1>2, <1>3, <1>4, <1>5, <1>6, CoreSameCollectives,
           CoreSameExchanges, CoreResultsAgree DEF Inv, KilledInv, Core

\* The three properties of the last section, before and after a step.
LEMMA CoreNow == Typed /\ Core => SameCollectives /\ SameExchanges /\ ResultsAgree
BY CoreSameCollectives, CoreSameExchanges, CoreResultsAgree

LEMMA CoreNext ==
  Typed' /\ Core' => SameCollectives' /\ SameExchanges' /\ ResultsAgree'
BY CoreNow, PTL

\* Nothing but MPI_Abort kills a rank: no plan leads there.
LEMMA StillRunning ==
  ASSUME Typed, Core, Running, NEW x \in Rank, Quiet(x) \/ Join(x) \/ Leaving(x)
  PROVE  Running'
<1>1. Steps(x) /\ (Upcoming(x)' = Upcoming(x) \/ Upcoming(x)' = Following(x))
  BY QuietStep, JoinStep, ReturnStep DEF Core
<1>2. pc'[x] # "killed"
  <2> SUFFICES ASSUME pc'[x] = "killed" PROVE FALSE
    OBVIOUS
  <2>1. Upcoming(x)'[1] = "killed"
    BY DEF Upcoming, NextCall, Plan
  <2>2. Upcoming(x)[1] # "killed"
    BY DEF Running, Upcoming, NextCall, StageCall, Measurement, Plan
  <2>3. Following(x)[1] # "killed"
    <3>1. /\ AfterBarrier(x)[1] # "killed" /\ AfterGather(x)[1] # "killed"
          /\ AfterMaxTimeRanks(x)[1] # "killed" /\ AfterVerdict(x)[1] # "killed"
      BY DEF AfterBarrier, AfterGather, AfterMaxTimeRanks, AfterVerdict,
             StageCall, Measurement, Plan
    <3>2. AfterCalibration(x)[1] # "killed" /\ AfterMeasured(x)[1] # "killed"
      BY DEF AfterCalibration, AfterMeasured, Sampling, Plan
    <3> QED BY <3>1, <3>2 DEF Following
  <2> QED BY <1>1, <2>1, <2>2, <2>3
<1> QED BY <1>1, <1>2 DEF Running, Steps, Same

\* The abort ends every rank.
LEMMA AbortStep ==
  ASSUME Inv, Running, NEW x \in Rank, Abort(x)
  PROVE  Inv'
<1>1. /\ Typed /\ Core /\ SameCollectives /\ SameExchanges /\ ResultsAgree
  BY DEF Inv
<1>2. /\ pc[x] \in {"invalid", "thrown"}
      /\ pc' = [q \in Rank |-> IF pc[q] = "done" THEN "done" ELSE "killed"]
      /\ UNCHANGED <<stage, halo, sample, swaps, inside, left, elapsed, spent,
                     stalled, iterations, joined, waiting, offer, ok, results>>
  BY DEF Abort, place, region, meeting
<1>3. \A q \in Rank : pc[q] # "done"
  BY <1>1, <1>2, NoneFails
<1>4. pc' = [q \in Rank |-> "killed"]
  BY <1>2, <1>3
<1>5. Typed'
  BY <1>1, <1>2, <1>4 DEF Typed, Label
<1>6. KilledInv' /\ ~Running'
  BY <1>4 DEF KilledInv, Running
<1>7. SameCollectives' /\ SameExchanges' /\ ResultsAgree'
  <2>1. SameCollectives'
    BY <1>1, <1>2 DEF SameCollectives, Offer
  <2>2. SameExchanges'
    BY <1>1, <1>2 DEF SameExchanges
  <2>3. ResultsAgree'
    BY <1>1, <1>2 DEF ResultsAgree
  <2> QED BY <2>1, <2>2, <2>3
<1> QED BY <1>5, <1>6, <1>7 DEF Inv

LEMMA NextInv == Inv /\ [Next]_vars => Inv'
<1> SUFFICES ASSUME Inv, [Next]_vars PROVE Inv'
  OBVIOUS
<1>1. CASE UNCHANGED vars
  <2>1. /\ pc' = pc /\ stage' = stage /\ halo' = halo /\ sample' = sample
        /\ swaps' = swaps /\ inside' = inside /\ left' = left /\ elapsed' = elapsed
        /\ spent' = spent /\ stalled' = stalled /\ iterations' = iterations
        /\ joined' = joined /\ waiting' = waiting /\ offer' = offer /\ ok' = ok
        /\ results' = results
    BY <1>1 DEF vars, place, region, meeting
  <2>2. Typed' /\ KilledInv' /\ (Running' <=> Running)
    BY <2>1 DEF Inv, Typed, KilledInv, Running
  <2>3. SameCollectives' /\ SameExchanges' /\ ResultsAgree'
    <3>1. SameCollectives'
      BY <2>1 DEF Inv, SameCollectives, Offer
    <3>2. SameExchanges'
      BY <2>1 DEF Inv, SameExchanges
    <3>3. ResultsAgree'
      BY <2>1 DEF Inv, ResultsAgree
    <3> QED BY <3>1, <3>2, <3>3
  <2>4. ASSUME Core PROVE Core'
    <3>1. \A r \in Rank : Same(r)
      BY <2>1 DEF Same
    <3>2. LocalInv' /\ \A r \in Rank : Upcoming(r)' = Upcoming(r)
      BY <2>4, <3>1, SameRank DEF Core, LocalInv
    <3>3. \A q, r \in Rank : Offer(q, r)' = Offer(q, r)
      BY <2>1 DEF Offer
    <3>4. \A r \in Rank : Coming(r)' = Coming(r)
      BY <2>1, <3>1, <3>2, <3>3, FollowingKept DEF Coming
    <3>5. OffersInv' /\ JoinedInv'
      BY <2>1, <2>4, <3>3 DEF Core, OffersInv, JoinedInv, SameCall
    <3>6. PlansInv'
      BY <2>1, <2>4, <3>2, <3>4 DEF Core, PlansInv
    <3> QED BY <3>2, <3>5, <3>6 DEF Core
  <2> QED BY <2>2, <2>3, <2>4 DEF Inv
<1>2. ASSUME NEW x \in Rank, Step(x) \/ Throw(x) PROVE Inv'
  <2>1. Typed /\ (Running => Core)
    BY DEF Inv
  \* Nobody takes a step once the job is aborted.
  <2>2. Running
    <3> SUFFICES ASSUME pc[x] = "killed" PROVE FALSE
      BY DEF Inv, KilledInv
    <3> QED BY <1>2 DEF Step, Setup, Enter, Leave, Join, ReturnBarrier,
            ReturnCalibration, ReturnVerdict, ReturnMaxTimeRanks, ReturnGather,
            ReturnMeasured, Return, Abort, Throw, Collective
  <2>3. CASE Abort(x)
    BY <2>2, <2>3, AbortStep
  <2>4. CASE Quiet(x) \/ Join(x) \/ Leaving(x)
    <3>1. Typed' /\ Core'
      BY <2>1, <2>2, <2>4, QuietKeeps, JoinKeeps, LeavingKeeps
    <3>2. SameCollectives' /\ SameExchanges' /\ ResultsAgree'
      BY <3>1, CoreNext
    <3>3. KilledInv'
      BY <2>1, <2>2, <2>4, StillRunning DEF KilledInv
    <3> QED BY <3>1, <3>2, <3>3 DEF Inv
  <2> QED BY <1>2, <2>3, <2>4 DEF Step, Quiet, Leaving
<1> QED BY <1>1, <1>2 DEF Next, Terminating

LEMMA Invariant == Spec => []Inv
<1> QED BY InitInv, NextInv, PTL DEF Spec

-----------------------------------------------------------------------------
\* What the invariant says that its own conjuncts do not.
LEMMA TimedFromInv == Inv => TimedRegionsAligned
<1> SUFFICES ASSUME Inv, NEW p \in Rank, NEW r \in Rank,
                    pc[r] = "exchange", stage[r] \in {"calibration", "timed"}
             PROVE  stage[p] = stage[r] /\ halo[p] = halo[r] /\ sample[p] = sample[r]
  BY DEF TimedRegionsAligned
<1>1. Typed /\ Running /\ Core
  BY DEF Inv, KilledInv
<1> USE <1>1 DEF Core
<1>2. ~waiting[r]
  BY DEF LocalInv, CollectiveOf, Collective
<1>3. /\ Coming(r)[1] = StageCall(stage[r]) /\ Coming(r)[2] = stage[r]
      /\ Coming(r)[3] = halo[r] /\ Coming(r)[4] = sample[r]
  <2>1. NextCall(r) = StageCall(stage[r]) /\ NextStage(r) = stage[r]
    BY DEF NextCall, NextStage
  <2> QED BY <1>2, <2>1 DEF Coming, Upcoming, Plan
<1>4. \/ joined[p] = joined[r] \/ joined[p] = joined[r] + 1
  <2>1. joined[p] \in Nat /\ joined[r] \in Nat
    BY DEF Typed
  <2>2. joined[p] <= joined[r] + 1 /\ joined[r] <= joined[p] + 1
    BY DEF JoinedInv
  <2>3. joined[r] # joined[p] + 1
    BY <1>2 DEF JoinedInv
  <2> QED BY <2>1, <2>2, <2>3
<1>5. CASE waiting[p]
  <2>1. pc[p] \in Collective /\ CollectiveOf(p)
    BY <1>5 DEF LocalInv, CollectiveOf
  <2>2. CASE joined[p] = joined[r] + 1
    <3>1. Upcoming(p) = Coming(r)
      BY <2>2 DEF PlansInv
    <3> QED BY <1>3, <2>1, <3>1, InCollective DEF Plan
  <2>3. CASE joined[p] = joined[r]
    <3>1. Following(p) = Coming(r)
      BY <1>2, <1>5, <2>3 DEF PlansInv, Coming
    <3>2. CASE pc[p] = "barrier"
      <4>1. Following(p) = AfterBarrier(p)
        BY <3>2 DEF Following
      <4> QED BY <1>3, <3>1, <4>1 DEF AfterBarrier, Plan
    <3>3. CASE pc[p] = "max_time" /\ stage[p] = "calibration"
      <4>1. Following(p) = AfterCalibration(p)
        BY <3>3 DEF Following
      <4> QED BY <1>3, <3>1, <4>1
          DEF AfterCalibration, Sampling, Plan, StageCall, Measurement
    <3>4. CASE pc[p] = "max_time" /\ stage[p] # "calibration"
      <4>1. Following(p) = AfterMeasured(p)
        BY <3>4 DEF Following
      <4> QED BY <1>3, <3>1, <4>1
          DEF AfterMeasured, Sampling, Plan, StageCall, Measurement
    <3>5. CASE pc[p] = "max_time_ranks"
      <4>1. Following(p) = AfterMaxTimeRanks(p) /\ stage[p] = "timed"
        BY <2>1, <3>5 DEF Following, CollectiveOf
      <4> QED BY <1>3, <3>1, <4>1 DEF AfterMaxTimeRanks, Plan
    <3>6. CASE pc[p] = "gather"
      <4>1. Following(p) = AfterGather(p) /\ stage[p] = "timed"
        BY <2>1, <3>6 DEF Following, CollectiveOf
      <4> QED BY <1>3, <3>1, <4>1 DEF AfterGather, Plan
    <3>7. CASE pc[p] = "verdict"
      <4>1. Following(p) = AfterVerdict(p)
        BY <3>7 DEF Following
      <4> QED BY <1>3, <3>1, <4>1 DEF AfterVerdict, Plan, StageCall, Measurement
    <3> QED BY <2>1, <3>2, <3>3, <3>4, <3>5, <3>6, <3>7 DEF Collective
  <2> QED BY <1>4, <2>2, <2>3
<1>6. CASE ~waiting[p]
  <2>1. joined[p] = joined[r]
    BY <1>4, <1>6 DEF JoinedInv
  <2>2. Upcoming(p) = Coming(r)
    BY <1>2, <1>6, <2>1 DEF PlansInv, Coming
  <2>3. /\ NextCall(p) = StageCall(stage[r]) /\ NextStage(p) = stage[r]
        /\ halo[p] = halo[r] /\ sample[p] = sample[r]
    BY <1>3, <2>2 DEF Upcoming, Plan
  <2>4. stage[p] \in {"setup", "warm_up"} => pc[p] \in {"setup", "exchange", "thrown"}
    <3>1. pc[p] \in Label /\ pc[p] # "killed" /\ ExchangeOf(p) /\ CollectiveOf(p)
      BY DEF Typed, Running, LocalInv
    <3> QED BY <3>1 DEF Label, Collective, CollectiveOf
  <2>5. stage[p] = stage[r]
    BY <2>3, <2>4 DEF NextCall, StageCall, NextStage, Measurement
  <2> QED BY <2>3, <2>5
<1> QED BY <1>5, <1>6

LEMMA NoneFromInv == Inv => AllOrNothing
<1> SUFFICES ASSUME Inv, NEW r \in Rank, pc[r] = "done", NEW p \in Rank
             PROVE  /\ pc[p] \notin {"invalid", "thrown", "killed"}
                    /\ joined[p] = Max({joined[q] : q \in Rank})
  BY DEF AllOrNothing
<1>1. Typed /\ Running /\ Core
  BY DEF Inv, KilledInv
<1>2. \A q \in Rank : joined[q] = joined[r] /\ pc[q] \notin {"invalid", "thrown", "killed"}
  BY <1>1, NoneFails
<1>3. {joined[q] : q \in Rank} = {joined[r]} /\ joined[r] \in Nat
  BY <1>1, <1>2 DEF Typed
<1>4. Max({joined[r]}) = joined[r]
  BY <1>3 DEF Max
<1> QED BY <1>2, <1>3, <1>4

LEMMA FailsFromInv ==
  ASSUME Verdict # "throw"
  PROVE  Inv => FailsCollectively
<1> SUFFICES ASSUME Inv, NEW r \in Rank, pc[r] = "invalid", NEW p \in Rank
             PROVE  pc[p] = "invalid" \/ (pc[p] = "verdict" /\ waiting[p])
  BY DEF FailsCollectively
<1>1. Typed /\ Running /\ Core
  BY DEF Inv, KilledInv
<1> USE <1>1 DEF Core
<1>2. ~waiting[r] /\ Coming(r)[1] = "invalid"
  <2>1. ~waiting[r]
    BY DEF LocalInv, CollectiveOf, Collective
  <2>2. NextCall(r) = "invalid"
    BY DEF NextCall
  <2> QED BY <2>1, <2>2 DEF Coming, Upcoming, Plan
<1>3. \/ joined[p] = joined[r] \/ joined[p] = joined[r] + 1
  <2>1. joined[p] \in Nat /\ joined[r] \in Nat
    BY DEF Typed
  <2>2. joined[p] <= joined[r] + 1 /\ joined[r] <= joined[p] + 1
    BY DEF JoinedInv
  <2>3. joined[r] # joined[p] + 1
    BY <1>2 DEF JoinedInv
  <2> QED BY <2>1, <2>2, <2>3
<1>4. CASE ~waiting[p]
  <2>1. joined[p] = joined[r]
    BY <1>3, <1>4 DEF JoinedInv
  <2>2. Upcoming(p) = Coming(r)
    BY <1>2, <1>4, <2>1 DEF PlansInv, Coming
  <2>3. NextCall(p) = "invalid"
    BY <1>2, <2>2 DEF Upcoming, Plan
  <2> QED BY <2>3 DEF NextCall, StageCall, Measurement
<1>5. CASE waiting[p]
  <2>1. pc[p] \in Collective /\ CollectiveOf(p)
    BY <1>5 DEF LocalInv, CollectiveOf
  <2>2. joined[p] = joined[r]
    <3> SUFFICES ASSUME joined[p] = joined[r] + 1 PROVE FALSE
      BY <1>3
    <3>1. Upcoming(p)[1] = pc[p]
      BY <2>1, InCollective DEF Plan
    <3>2. Upcoming(p) = Coming(r)
      BY DEF PlansInv
    <3> QED BY <1>2, <2>1, <3>1, <3>2 DEF Collective
  <2>3. Following(p)[1] = "invalid"
    BY <1>2, <1>5, <2>2 DEF PlansInv, Coming
  <2>4. /\ AfterBarrier(p)[1] # "invalid" /\ AfterGather(p)[1] # "invalid"
        /\ AfterMaxTimeRanks(p)[1] # "invalid"
    BY DEF AfterBarrier, AfterGather, AfterMaxTimeRanks, StageCall, Measurement, Plan
  <2>5. AfterCalibration(p)[1] # "invalid" /\ AfterMeasured(p)[1] # "invalid"
    BY DEF AfterCalibration, AfterMeasured, Sampling, Plan
  <2>6. pc[p] = "verdict"
    BY <2>1, <2>3, <2>4, <2>5 DEF Following, Collective
  <2> QED BY <1>5, <2>6
<1> QED BY <1>4, <1>5

-----------------------------------------------------------------------------
(***************************************************************************)
(* Within the bounds of the loops.                                         *)
(***************************************************************************)
\* What rank r counts, and how many results it has by then.
BoundsOf(r) ==
  /\ halo[r] \in 1 .. Halos /\ sample[r] \in 0 .. Samples
  /\ spent[r] \in Seq(Durations)
  /\ stalled[r] \subseteq 1 .. iterations[r]
  /\ \A b \in {0, 1} : offer[r][b].values \in Seq(Nat)
  /\ stage[r] = "calibration" /\ pc[r] \in {"exchange", "max_time"} => stalled[r] = {}
  /\ pc[r] = "gather" => Len(spent[r]) = iterations[r]
  /\ stage[r] \in {"setup", "warm_up", "calibration"} => sample[r] = 0
  /\ Len(results[r]) <= (halo[r] - 1) * Samples + sample[r]
  /\ stage[r] \in {"validation", "timed"} /\ pc[r] \notin {"done", "killed"} =>
       sample[r] > 0 /\ Len(results[r]) < (halo[r] - 1) * Samples + sample[r]

BoundsInv == \A r \in Rank : BoundsOf(r)

LEMMA InitBounds == Init => BoundsInv
<1> SUFFICES ASSUME Init, NEW r \in Rank PROVE BoundsOf(r)
  BY DEF BoundsInv
<1>1. 1 \in 1 .. Halos /\ 0 \in 0 .. Samples /\ Samples \in Nat
  BY BenchmarkAssumption
<1>2. /\ halo[r] = 1 /\ sample[r] = 0 /\ spent[r] = <<>> /\ stalled[r] = {}
      /\ pc[r] = "setup" /\ stage[r] = "setup" /\ results[r] = <<>>
      /\ \A b \in {0, 1} : offer[r][b].values = <<>>
  BY DEF Init, Silent
<1>3. Len(results[r]) <= (halo[r] - 1) * Samples + sample[r]
  BY <1>1, <1>2
<1>4. <<>> \in Seq(Durations) /\ <<>> \in Seq(Nat)
  OBVIOUS
<1> QED BY <1>1, <1>2, <1>3, <1>4 DEF BoundsOf

\* Being aborted keeps a rank within its bounds.
LEMMA BoundsKept ==
  ASSUME NEW r \in Rank, BoundsOf(r), pc'[r] = pc[r] \/ pc'[r] = "killed",
         stage'[r] = stage[r], halo'[r] = halo[r], sample'[r] = sample[r],
         spent'[r] = spent[r], stalled'[r] = stalled[r], iterations'[r] = iterations[r],
         offer'[r] = offer[r], results'[r] = results[r]
  PROVE  BoundsOf(r)'
<1>1. pc'[r] \in {"exchange", "max_time", "gather"} => pc'[r] = pc[r]
  OBVIOUS
<1>2. pc'[r] \notin {"done", "killed"} => pc[r] \notin {"done", "killed"}
  OBVIOUS
<1> QED BY <1>1, <1>2 DEF BoundsOf

LEMMA QuietBounds ==
  ASSUME Typed, LocalInv, NEW x \in Rank, Quiet(x), BoundsOf(x)
  PROVE  BoundsOf(x)'
<1>1. /\ UNCHANGED <<halo, sample, stalled, iterations, offer, results>>
      /\ ExchangeOf(x) /\ stage[x] \in Stage /\ left[x] \in Nat
  BY DEF Quiet, Setup, Enter, Leave, Throw, place, region, meeting, LocalInv, Typed
<1>2. spent'[x] \in Seq(Durations)
  <2>1. CASE \E d \in Durations : Leave(x, d)
    <3>1. PICK d \in Durations : Leave(x, d)
      BY <2>1
    <3>2. spent'[x] = IF Record /\ stage[x] = "timed" THEN Append(spent[x], d) ELSE <<>>
      BY <3>1 DEF Leave, Typed
    <3> QED BY <3>2 DEF BoundsOf
  <2>2. CASE ~\E d \in Durations : Leave(x, d)
    <3>1. spent' = spent
      BY <2>2 DEF Quiet, Setup, Enter, Throw, region
    <3> QED BY <3>1 DEF BoundsOf
  <2> QED BY <2>1, <2>2
<1>3. /\ stage'[x] = IF pc[x] = "setup" /\ pc'[x] # "thrown" THEN "warm_up"
                     ELSE IF stage[x] = "warm_up" /\ inside[x] /\ ~inside'[x]
                     THEN "calibration" ELSE stage[x]
      /\ pc[x] \in {"setup", "exchange"} /\ (pc[x] = "setup" => stage[x] = "setup")
      /\ stage[x] = "warm_up" /\ inside[x] /\ ~inside'[x] => pc'[x] = "barrier"
      /\ pc'[x] # "gather" /\ pc'[x] \notin {"done", "killed"}
      /\ pc'[x] \in {"exchange", "max_time"} => pc[x] = "exchange" \/ stage'[x] = "warm_up"
  <2>1. CASE Setup(x)
    BY <1>1, <2>1 DEF Setup, Typed, ExchangeOf
  <2>2. CASE Enter(x)
    BY <1>1, <2>2 DEF Enter, Typed, place
  <2>3. CASE Throw(x)
    BY <1>1, <2>3 DEF Throw, Typed, place, region, ExchangeOf
  <2>4. ASSUME NEW d \in Durations, Leave(x, d)
        PROVE  /\ stage'[x] = IF stage[x] = "warm_up" THEN "calibration" ELSE stage[x]
               /\ pc[x] = "exchange" /\ inside[x] /\ ~inside'[x]
               /\ stage[x] = "warm_up" => pc'[x] = "barrier"
               /\ pc'[x] # "gather" /\ pc'[x] \notin {"done", "killed"}
    <3>1. /\ pc[x] = "exchange" /\ inside[x] /\ ~inside'[x]
          /\ stage'[x] = IF stage[x] = "warm_up" THEN "calibration" ELSE stage[x]
      BY <2>4 DEF Leave, Typed
    <3>2. /\ left[x] = 1 \/ left[x] > 1
          /\ stage[x] \in {"warm_up", "calibration", "validation", "timed"}
          /\ stage[x] = "warm_up" => left[x] = 1
      BY <1>1, <3>1 DEF ExchangeOf, Stage
    <3>3. pc'[x] =
            CASE left[x] > 1 -> "exchange"
              [] left[x] = 1 /\ stage[x] = "warm_up" -> "barrier"
              [] left[x] = 1 /\ stage[x] = "calibration" -> "max_time"
              [] left[x] = 1 /\ stage[x] = "validation" ->
                   IF Verdict = "throw" /\ ~ok'[x] THEN "invalid" ELSE "verdict"
              [] left[x] = 1 /\ stage[x] = "timed" ->
                   IF Record THEN "max_time_ranks" ELSE "max_time"
      BY <2>4 DEF Leave, Typed
    <3> QED BY <3>1, <3>2, <3>3
  <2> QED BY <2>1, <2>2, <2>3, <2>4 DEF Quiet
<1> QED BY <1>1, <1>2, <1>3 DEF BoundsOf

LEMMA JoinBounds ==
  ASSUME Typed, LocalInv, NEW x \in Rank, Join(x), BoundsOf(x)
  PROVE  BoundsOf(x)'
<1>1. /\ UNCHANGED <<pc, stage, halo, sample, spent, stalled, iterations, results>>
      /\ CollectiveOf(x) /\ pc[x] \in Collective
  BY DEF Join, place, region, LocalInv
<1>2. Values(x) \in Seq(Nat)
  <2>1. spent[x] \in Seq(Nat) /\ elapsed[x] \in Nat
    BY DEF Typed
  <2>2. CASE pc[x] = "gather"
    <3> DEFINE n == Cardinality(stalled[x])
    <3>1. n \in Nat /\ stalled[x] \subseteq Nat /\ IsFiniteSet(stalled[x])
      BY <1>1, FS_CardinalityType DEF CollectiveOf, Typed
    <3>2. ASSUME NEW k \in 1 .. n PROVE spent[x][Ascending(stalled[x])[k]] \in Nat
      <4>1. Ascending(stalled[x])[k] \in 1 .. Len(spent[x])
        BY <2>2, <3>1, AscendingType DEF BoundsOf
      <4> QED BY <2>1, <4>1
    <3>3. Values(x) = [k \in 1 .. n |-> spent[x][Ascending(stalled[x])[k]]]
      BY <2>2 DEF Values
    <3> HIDE DEF n
    <3> QED BY <3>1, <3>2, <3>3
  <2>3. CASE pc[x] # "gather"
    BY <1>1, <2>1, <2>3 DEF Values, Collective
  <2> QED BY <2>2, <2>3
<1>3. \A b \in {0, 1} : offer'[x][b].values \in Seq(Nat)
  <2> DEFINE made == [op |-> pc[x], values |-> Values(x)]
  <2>1. \A b \in {0, 1} : offer'[x][b] = offer[x][b] \/ offer'[x][b] = made
    BY JoinStep
  <2>2. made.values \in Seq(Nat)
    BY <1>2
  <2> HIDE DEF made
  <2> QED BY <2>1, <2>2 DEF BoundsOf
<1> QED BY <1>1, <1>3 DEF BoundsOf

LEMMA ReturnBounds ==
  ASSUME Typed, LocalInv, OffersInv, NEW x \in Rank, Leaving(x), BoundsOf(x)
  PROVE  BoundsOf(x)'
<1>1. /\ \A r \in Rank \ {x} : Same(r)
      /\ offer' = offer
  BY ReturnStep DEF Steps
<1>2. /\ halo[x] \in Nat /\ sample[x] \in Nat /\ Samples \in Nat \ {0} /\ Halos \in Nat \ {0}
      /\ iterations[x] \in Nat /\ Len(results[x]) \in Nat /\ stage[x] \in Stage
      /\ CollectiveOf(x)
  BY BenchmarkAssumption DEF Typed, LocalInv
<1>3. CASE ReturnBarrier(x)
  <2>1. /\ spent'[x] = <<>> /\ stalled'[x] = {} /\ pc'[x] = "exchange" /\ pc[x] = "barrier"
        /\ UNCHANGED <<stage, halo, sample, iterations, results>>
    BY <1>3 DEF ReturnBarrier, Return, place, Typed
  <2>2. <<>> \in Seq(Durations)
    OBVIOUS
  <2> QED BY <1>1, <2>1, <2>2 DEF BoundsOf
<1>4. CASE ReturnCalibration(x)
  <2>1. /\ sample'[x] = 1 /\ stage[x] = "calibration" /\ pc[x] = "max_time"
        /\ stage'[x] \in {"timed", "validation"} /\ pc'[x] \in {"barrier", "exchange"}
        /\ UNCHANGED <<halo, spent, stalled, results>>
    BY <1>4 DEF ReturnCalibration, Return, StartSample, Typed
  <2>2. /\ stalled[x] = {} /\ sample[x] = 0
        /\ Len(results[x]) <= (halo[x] - 1) * Samples + sample[x]
    BY <2>1 DEF BoundsOf
  <2>3. Len(results[x]) < (halo[x] - 1) * Samples + sample'[x]
    BY <1>2, <2>1, <2>2
  <2>4. Len(results[x]) <= (halo[x] - 1) * Samples + sample'[x] /\ sample'[x] \in 0 .. Samples
    BY <1>2, <2>1, <2>3
  <2> QED BY <1>1, <2>1, <2>2, <2>3, <2>4 DEF BoundsOf
<1>5. CASE ReturnVerdict(x)
  <2>1. /\ pc[x] = "verdict" /\ pc'[x] \in {"barrier", "invalid"}
        /\ stage'[x] \in {stage[x], "timed"}
        /\ UNCHANGED <<halo, sample, spent, stalled, iterations, results>>
    BY <1>5 DEF ReturnVerdict, Return, region, Typed
  <2>2. stage[x] = "validation"
    BY <1>2, <2>1 DEF CollectiveOf
  <2> QED BY <1>1, <2>1, <2>2 DEF BoundsOf
<1>6. CASE ReturnMaxTimeRanks(x)
  <2>1. /\ pc[x] = "max_time_ranks" /\ pc'[x] = "gather"
        /\ stalled'[x] \subseteq 1 .. Len(spent[x])
        /\ UNCHANGED <<stage, halo, sample, spent, iterations, results>>
    BY <1>6 DEF ReturnMaxTimeRanks, Return, place, Typed
  <2>2. stage[x] = "timed" /\ Len(spent[x]) = iterations[x]
    BY <1>2, <2>1 DEF CollectiveOf
  <2> QED BY <1>1, <2>1, <2>2 DEF BoundsOf
<1>7. CASE ReturnGather(x)
  <2>1. /\ pc[x] = "gather"
        /\ UNCHANGED <<stage, halo, sample, spent, stalled, iterations, results>>
    BY <1>7 DEF ReturnGather, Return, place, region
  <2>2. stage[x] = "timed"
    BY <1>2, <2>1 DEF CollectiveOf
  <2>3. pc'[x] \in {"max_time", "killed"}
    BY <1>7 DEF ReturnGather, Typed
  <2> QED BY <1>1, <2>1, <2>2, <2>3 DEF BoundsOf
<1>8. CASE ReturnMeasured(x)
  <2>1. /\ stage[x] = "timed" /\ pc[x] = "max_time"
        /\ UNCHANGED <<spent, stalled, iterations>>
    BY <1>8 DEF ReturnMeasured, Return
  <2>2. sample[x] > 0 /\ Len(results[x]) < (halo[x] - 1) * Samples + sample[x]
    BY <2>1 DEF BoundsOf
  <2>3. Len(results'[x]) = Len(results[x]) + 1
    BY <1>8, <1>2 DEF ReturnMeasured, Typed
  <2>4. (halo[x] - 1) * Samples \in Nat
    <3>1. halo[x] - 1 \in Nat
      BY <1>2 DEF BoundsOf
    <3> QED BY <1>2, <3>1
  <2>5. CASE sample[x] < Samples /\ StartSample(x, sample[x] + 1) /\ halo' = halo
    <3>1. /\ sample'[x] = sample[x] + 1 /\ stage'[x] \in {"timed", "validation"}
          /\ pc'[x] \in {"barrier", "exchange"}
      BY <2>5 DEF StartSample, Typed
    <3>2. sample'[x] \in 0 .. Samples
      BY <1>2, <2>5, <3>1
    <3>3. /\ sample'[x] > 0 /\ Len(results'[x]) < (halo[x] - 1) * Samples + sample'[x]
          /\ Len(results'[x]) <= (halo[x] - 1) * Samples + sample'[x]
      <4>1. PICK base \in Nat : base = (halo[x] - 1) * Samples
        BY <2>4
      <4>2. Len(results[x]) < base + sample[x]
        BY <2>2, <4>1
      <4>3. sample'[x] > 0 /\ Len(results'[x]) < base + sample'[x]
        BY <1>2, <2>2, <2>3, <3>1, <4>2
      <4>4. Len(results'[x]) <= base + sample'[x]
        BY <1>2, <2>3, <3>1, <4>3
      <4> QED BY <4>1, <4>3, <4>4
    <3> QED BY <1>1, <2>1, <2>5, <3>1, <3>2, <3>3 DEF BoundsOf
  <2>6. CASE /\ sample[x] = Samples /\ halo[x] < Halos
             /\ halo' = [halo EXCEPT ![x] = @ + 1]
             /\ sample' = [sample EXCEPT ![x] = 0]
             /\ stage' = [stage EXCEPT ![x] = "setup"]
             /\ pc' = [pc EXCEPT ![x] = "setup"]
    <3>1. /\ halo'[x] = halo[x] + 1 /\ sample'[x] = 0
          /\ stage'[x] = "setup" /\ pc'[x] = "setup"
      BY <2>6 DEF Typed
    <3>2. halo'[x] \in 1 .. Halos /\ 0 \in 0 .. Samples
      BY <1>2, <2>6, <3>1
    <3>3. (halo'[x] - 1) * Samples = (halo[x] - 1) * Samples + Samples
      <4>1. halo'[x] - 1 = (halo[x] - 1) + 1
        BY <1>2, <3>1
      <4> QED BY <1>2, <4>1
    <3>4. Len(results'[x]) <= (halo'[x] - 1) * Samples + sample'[x]
      BY <1>2, <2>2, <2>3, <2>4, <2>6, <3>1, <3>3
    <3> QED BY <1>1, <2>1, <3>1, <3>2, <3>4 DEF BoundsOf
  <2>7. CASE pc' = [pc EXCEPT ![x] = "done"] /\ UNCHANGED place
    <3>1. pc'[x] = "done" /\ UNCHANGED <<stage, halo, sample>>
      BY <2>7 DEF place, Typed
    <3>2. Len(results'[x]) <= (halo[x] - 1) * Samples + sample[x]
      BY <1>2, <2>2, <2>3, <2>4
    <3> QED BY <1>1, <2>1, <3>1, <3>2 DEF BoundsOf
  <2> QED BY <1>8, <2>5, <2>6, <2>7 DEF ReturnMeasured, place
<1> QED BY <1>3, <1>4, <1>5, <1>6, <1>7, <1>8 DEF Leaving

LEMMA NextBounds == Inv /\ BoundsInv /\ [Next]_vars => BoundsInv'
<1> SUFFICES ASSUME Inv, BoundsInv, [Next]_vars, NEW r \in Rank PROVE BoundsOf(r)'
  BY DEF BoundsInv
<1>1. Typed /\ BoundsOf(r)
  BY DEF Inv, BoundsInv
<1>2. CASE UNCHANGED vars
  <2>1. UNCHANGED <<pc, stage, halo, sample, spent, stalled, iterations, offer, results>>
    BY <1>2 DEF vars, place, region, meeting
  <2> QED BY <1>1, <2>1, BoundsKept
<1>3. ASSUME NEW x \in Rank, Step(x) \/ Throw(x) PROVE BoundsOf(r)'
  <2>1. Running
    <3> SUFFICES ASSUME pc[x] = "killed" PROVE FALSE
      BY DEF Inv, KilledInv
    <3> QED BY <1>3 DEF Step, Setup, Enter, Leave, Join, ReturnBarrier,
            ReturnCalibration, ReturnVerdict, ReturnMaxTimeRanks, ReturnGather,
            ReturnMeasured, Return, Abort, Throw, Collective
  <2>2. LocalInv /\ OffersInv
    BY <2>1 DEF Inv, Core
  <2>3. CASE Abort(x)
    <3>1. /\ UNCHANGED <<stage, halo, sample, spent, stalled, iterations, offer, results>>
          /\ pc'[r] = pc[r] \/ pc'[r] = "killed"
      BY <2>3 DEF Abort, place, region, meeting
    <3> QED BY <1>1, <3>1, BoundsKept
  <2>4. CASE Quiet(x) \/ Join(x) \/ Leaving(x)
    <3>1. CASE r = x
      BY <1>1, <2>2, <2>4, <3>1, QuietBounds, JoinBounds, ReturnBounds
    <3>2. CASE r # x
      <4>1. Steps(x)
        BY <1>1, <2>2, <2>4, QuietStep, JoinStep, ReturnStep
      <4>2. Same(r)
        BY <3>2, <4>1 DEF Steps
      <4> QED BY <1>1, <4>2, BoundsKept DEF Same
    <3> QED BY <3>1, <3>2
  <2> QED BY <1>3, <2>3, <2>4 DEF Step, Quiet, Leaving
<1> QED BY <1>2, <1>3 DEF Next, Terminating

LEMMA TypeFromBounds == Inv /\ BoundsInv => TypeOK
<1> SUFFICES ASSUME Inv, BoundsInv PROVE TypeOK
  OBVIOUS
<1>1. Typed /\ \A r \in Rank : BoundsOf(r)
  BY DEF Inv, BoundsInv
<1>2. /\ halo \in [Rank -> 1 .. Halos] /\ sample \in [Rank -> 0 .. Samples]
      /\ spent \in [Rank -> Seq(Durations)]
  BY <1>1 DEF Typed, BoundsOf
<1>3. ASSUME NEW r \in Rank PROVE Len(results[r]) <= Halos * Samples
  <2>1. /\ halo[r] \in 1 .. Halos /\ sample[r] \in 0 .. Samples
        /\ Len(results[r]) <= (halo[r] - 1) * Samples + sample[r]
    BY <1>1 DEF BoundsOf
  <2>2. Halos \in Nat /\ Samples \in Nat /\ Len(results[r]) \in Nat
    BY <1>1, BenchmarkAssumption DEF Typed
  <2>3. PICK k \in Nat : Halos = halo[r] + k
    <3>1. Halos - halo[r] \in Nat /\ Halos = halo[r] + (Halos - halo[r])
      BY <2>1, <2>2
    <3> QED BY <3>1
  <2>4. PICK h \in Nat : halo[r] = h + 1
    <3>1. halo[r] - 1 \in Nat /\ halo[r] = (halo[r] - 1) + 1
      BY <2>1, <2>2
    <3> QED BY <3>1
  <2>5. PICK a \in Nat, b \in Nat : a = h * Samples /\ b = k * Samples
    BY <2>2
  <2>6. Halos * Samples = a + Samples + b
    BY <2>2, <2>3, <2>4, <2>5
  <2>7. Len(results[r]) <= a + sample[r]
    BY <2>1, <2>4, <2>5
  <2>8. Len(results[r]) <= a + Samples + b
    BY <2>1, <2>2, <2>7
  <2> QED BY <2>6, <2>8
<1>4. /\ \A r \in Rank : stalled[r] \subseteq 1 .. iterations[r]
      /\ \A r \in Rank, b \in {0, 1} : offer[r][b].values \in Seq(Nat)
  BY <1>1 DEF BoundsOf
<1> QED BY <1>1, <1>2, <1>3, <1>4 DEF Typed, TypeOK

-----------------------------------------------------------------------------
\* Ranks that meet in a collective of run_benchmark made the same call with as
\* many values, for every grid, calibration and threshold.
THEOREM CollectivesMatch == Spec => []SameCollectives
<1>1. Inv => SameCollectives
  BY DEF Inv
<1> QED BY <1>1, Invariant, PTL

\* Ranks that meet in an exchange are in the same one: of the same region,
\* with as many to go.
THEOREM ExchangesMatch == Spec => []SameExchanges
<1>1. Inv => SameExchanges
  BY DEF Inv
<1> QED BY <1>1, Invariant, PTL

\* While one rank's clock runs, no rank sets up, warms up or validates.
THEOREM TimesAreClean == Spec => []TimedRegionsAligned
<1> QED BY TimedFromInv, Invariant, PTL

\* Every rank pushes the same results, in the same order.
THEOREM RanksAgree == Spec => []ResultsAgree
<1>1. Inv => ResultsAgree
  BY DEF Inv
<1> QED BY <1>1, Invariant, PTL

\* Once one rank has completed, none fails, whatever calls of the backend may
\* throw and whatever data may be wrong.
THEOREM CompletionIsShared == Spec => []AllOrNothing
<1> QED BY NoneFromInv, Invariant, PTL

\* Every rank counts within the bounds of its loops: no more halo lengths,
\* samples and results than there are, and no stall of an iteration that is not
\* one of the region (run_benchmark).
THEOREM TypeCorrect == Spec => []TypeOK
<1>1. Spec => []BoundsInv
  BY InitBounds, NextBounds, Invariant, PTL DEF Spec
<1> QED BY <1>1, TypeFromBounds, Invariant, PTL

\* A validation fails on every rank or on none, unless the backend throws on
\* the rank that found the wrong data, as the MPI-HIP backend does.
THEOREM ValidationFailsTogether == Verdict # "throw" => (Spec => []FailsCollectively)
<1> SUFFICES ASSUME Verdict # "throw" PROVE Spec => []FailsCollectively
  OBVIOUS
<1>1. Inv => FailsCollectively
  BY FailsFromInv
<1> QED BY <1>1, Invariant, PTL

=============================================================================
