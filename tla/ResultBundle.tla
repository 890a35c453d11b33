---------------------------- MODULE ResultBundle ----------------------------
(***************************************************************************)
(* The result bundles of scripts/run.sh: a directory per run, chosen by    *)
(* ghalo_unique_result_dir, into which the script and the benchmark it     *)
(* launches write their files one after the other.                         *)
(*                                                                         *)
(* Several run.sh processes may be active: batch jobs start independently, *)
(* while a regression loop or a validation suite runs its cases one after  *)
(* the other.  A process may be killed at any point (scancel, time limit). *)
(* A validation suite goes over the bundle of each case that ended well    *)
(* once more: it captures the environment again, and verifies the bundle.  *)
(* A stem is what timestamp (in seconds), backend and label make, under    *)
(* one results directory; the suffix 1 stands for a name without suffix.   *)
(***************************************************************************)
EXTENDS Naturals, Sequences, FiniteSets

CONSTANTS
  Run,           \* the run.sh processes
  StemOf,        \* StemOf[r]: the stem run r computes
  Suite,         \* the runs that are cases of run_validation_suite.sh
  Before,        \* Before[r]: the runs whose end r waits for to start
  Old,           \* bundles <<stem, suffix>> that are there from earlier
  MaxSuffix,     \* largest suffix considered (bound of the model)
  Nobody,        \* the writer of a file that is not there
  Earlier        \* the writer of the files of the old bundles

Bundle == {StemOf[r] : r \in Run} \X (1 .. MaxSuffix)

\* Who wrote a file: run.sh or the benchmark of run r; or, for the environment
\* of a case, capture_environment.sh, which empties the file first.
By(r) == <<r, "run">>
Begun(r) == <<r, "begun">>
Captured(r) == <<r, "captured">>

Author == Run \X {"run", "begun", "captured"}

ASSUME BundleAssumption ==
  /\ Nobody \notin Author /\ Earlier \notin Author /\ Earlier # Nobody
  /\ Suite \subseteq Run
  /\ Before \in [Run -> SUBSET Run]
  /\ MaxSuffix \in Nat \ {0}
  /\ Old \subseteq Bundle

\* The files of a bundle in the order in which they are written.  summary is
\* what run.sh appends to result-metadata.txt at the end.
Files == <<"command.txt", "system-resolution.txt", "result-metadata.txt",
           "environment.txt", "ghalo.csv", "ghalo.json", "exit-status.txt",
           "summary">>

\* The indices of the last file before the launch and of the last that the
\* benchmark writes.
LastPrepared == 4
LastMeasured == 6

File == {Files[i] : i \in 1 .. Len(Files)}

VARIABLES
  script,    \* script[r]: "waiting", "probe", "make", "prepare", "launch",
             \* "measure", "finish", "exited" or "killed"
  suffix,    \* suffix[r]: suffix of the candidate name
  exists,    \* bundles whose directory exists
  next,      \* next[r]: index in Files of the file r writes next
  status,    \* status[r]: exit status of r's benchmark, 1 until it ends
  content,   \* content[b][f]: who wrote the file f of bundle b
  outcome    \* outcome[r]: "open", "capture", "verify", "passed", "failed" or
             \* "killed", what the suite has made of its case r

bundleVars == <<script, suffix, exists, next, status, content, outcome>>

RunEnded == {"exited", "killed"}
CaseEnded == {"passed", "failed", "killed"}

\* The bundle of a run that has chosen one.
Mine(r) == <<StemOf[r], suffix[r]>>

Holds(r) == script[r] \in {"prepare", "launch", "measure", "finish", "exited"}

BundleTypeOK ==
  /\ script \in [Run -> {"waiting", "probe", "make", "prepare", "launch",
                         "measure", "finish"} \cup RunEnded]
  /\ suffix \in [Run -> 1 .. MaxSuffix]
  /\ exists \subseteq Bundle
  /\ next \in [Run -> 1 .. Len(Files) + 1]
  /\ status \in [Run -> {0, 1}]
  /\ content \in [Bundle -> [File -> Author \cup {Nobody, Earlier}]]
  /\ outcome \in [Run -> {"open", "capture", "verify"} \cup CaseEnded]
  /\ \A r \in Run : Holds(r) => Mine(r) \in exists

BundleInit ==
  /\ script = [r \in Run |-> "waiting"]
  /\ suffix = [r \in Run |-> 1]
  /\ exists = Old
  /\ next = [r \in Run |-> 1]
  /\ status = [r \in Run |-> 1]
  /\ content = [b \in Bundle |-> [f \in File |-> IF b \in Old THEN Earlier ELSE Nobody]]
  /\ outcome = [r \in Run |-> "open"]

-----------------------------------------------------------------------------
\* A run has ended and, if it is a case, so has what the suite does with it.
Over(p) == script[p] \in RunEnded /\ (p \in Suite => outcome[p] \in CaseEnded)

Start(r) ==
  /\ script[r] = "waiting"
  /\ \A p \in Before[r] : Over(p)
  /\ script' = [script EXCEPT ![r] = "probe"]
  /\ UNCHANGED <<suffix, exists, next, status, content, outcome>>

\* Fault: the first name is taken as it is.
Untried(r) == TRUE

Free(r) == Mine(r) \notin exists

\* One test of the loop of ghalo_unique_result_dir.
Probe(r) ==
  /\ script[r] = "probe"
  /\ IF Free(r)
     THEN script' = [script EXCEPT ![r] = "make"] /\ UNCHANGED suffix
     ELSE /\ suffix[r] < MaxSuffix
          /\ suffix' = [suffix EXCEPT ![r] = @ + 1]
          /\ UNCHANGED script
  /\ UNCHANGED <<exists, next, status, content, outcome>>

\* Fault: the directory is left to the first file to make.
MakeNothing(r) ==
  /\ script[r] = "make"
  /\ script' = [script EXCEPT ![r] = "prepare"]
  /\ UNCHANGED <<suffix, exists, next, status, content, outcome>>

\* mkdir -p succeeds whether or not the directory exists.
Make(r) ==
  /\ script[r] = "make"
  /\ exists' = exists \cup {Mine(r)}
  /\ script' = [script EXCEPT ![r] = "prepare"]
  /\ UNCHANGED <<suffix, next, status, content, outcome>>

Write(r) ==
  /\ content' = [content EXCEPT ![Mine(r)][Files[next[r]]] = By(r)]
  /\ next' = [next EXCEPT ![r] = @ + 1]

Prepare(r) ==
  /\ script[r] = "prepare"
  /\ Write(r)
  /\ script' = [script EXCEPT ![r] = IF next[r] = LastPrepared THEN "launch" ELSE @]
  /\ UNCHANGED <<suffix, exists, status, outcome>>

\* The benchmark runs, or fails before it has results.  A preparation that
\* fails ends the script, which Kill covers.
Launch(r) ==
  /\ script[r] = "launch"
  /\ \/ /\ script' = [script EXCEPT ![r] = "measure"]
        /\ UNCHANGED next
     \/ /\ script' = [script EXCEPT ![r] = "finish"]
        /\ next' = [next EXCEPT ![r] = LastMeasured + 1]
  /\ UNCHANGED <<suffix, exists, status, content, outcome>>

\* Root writes a result file; after the last one the benchmark exits with 0.
Measure(r) ==
  /\ script[r] = "measure"
  /\ Write(r)
  /\ IF next[r] = LastMeasured
     THEN /\ script' = [script EXCEPT ![r] = "finish"]
          /\ status' = [status EXCEPT ![r] = 0]
     ELSE UNCHANGED <<script, status>>
  /\ UNCHANGED <<suffix, exists, outcome>>

\* Root cannot open a result file, and the job is aborted.
MeasureFails(r) ==
  /\ script[r] = "measure"
  /\ script' = [script EXCEPT ![r] = "finish"]
  /\ next' = [next EXCEPT ![r] = LastMeasured + 1]
  /\ UNCHANGED <<suffix, exists, status, content, outcome>>

\* run.sh records the status and then appends the summary.
Finish(r) ==
  /\ script[r] = "finish"
  /\ Write(r)
  /\ script' = [script EXCEPT ![r] = IF next[r] = Len(Files) THEN "exited" ELSE @]
  /\ UNCHANGED <<suffix, exists, status, outcome>>

Kill(r) ==
  /\ script[r] \notin RunEnded
  /\ script' = [script EXCEPT ![r] = "killed"]
  /\ UNCHANGED <<suffix, exists, next, status, content, outcome>>

RunStep(r) ==
  \/ Start(r)
  \/ Probe(r)
  \/ Make(r)
  \/ Prepare(r)
  \/ Launch(r)
  \/ Measure(r)
  \/ MeasureFails(r)
  \/ Finish(r)

-----------------------------------------------------------------------------
(***************************************************************************)
(* What run_validation_case does when the run.sh of its case has ended.    *)
(***************************************************************************)
runVars == <<script, suffix, exists, next, status>>

Goto(r, place) == outcome' = [outcome EXCEPT ![r] = place]

Ending(r) == r \in Suite /\ outcome[r] = "open" /\ script[r] \in RunEnded

\* Fault: a run that fails is captured and verified all the same.
ExitedAnyhow(r) == script[r] \in RunEnded

\* The exit status of run.sh is 0.
ExitedWithZero(r) == script[r] = "exited" /\ status[r] = 0

\* The case fails with its run; or because the tee that nobody waits for has
\* not yet written the line of the log that names the result directory.
GiveUp(r) ==
  /\ Ending(r)
  /\ Goto(r, "failed")
  /\ UNCHANGED <<runVars, content>>

\* capture_environment.sh empties the file before it writes to it.
BeginCapture(r) ==
  /\ Ending(r) /\ ExitedWithZero(r)
  /\ Goto(r, "capture")
  /\ content' = [content EXCEPT ![Mine(r)]["environment.txt"] = Begun(r)]
  /\ UNCHANGED runVars

\* The script is not executable, or fails before it comes to the file.
SkipCapture(r) ==
  /\ Ending(r) /\ ExitedWithZero(r)
  /\ Goto(r, "verify")
  /\ UNCHANGED <<runVars, content>>

\* It is done; or it fails on the way, which the suite only warns of.
EndCapture(r) ==
  /\ outcome[r] = "capture"
  /\ Goto(r, "verify")
  /\ \/ content' = [content EXCEPT ![Mine(r)]["environment.txt"] = Captured(r)]
     \/ UNCHANGED content
  /\ UNCHANGED runVars

\* The files that verify_result_bundle requires, the status it reads and what
\* run.sh appended.  It does not look at the environment.
Verifiable(b) ==
  /\ \E q \in Run : content[b]["exit-status.txt"] = By(q) /\ status[q] = 0
  /\ \A f \in {"ghalo.json", "system-resolution.txt", "result-metadata.txt",
               "summary"} : content[b][f] # Nobody

\* What the files say, of ranks, nodes, versions, may fail any bundle.
Verify(r) ==
  /\ outcome[r] = "verify"
  /\ \/ Verifiable(Mine(r)) /\ Goto(r, "passed")
     \/ Goto(r, "failed")
  /\ UNCHANGED <<runVars, content>>

\* The suite is killed, after its run.sh if not with it.
KillSuite(r) ==
  /\ r \in Suite /\ script[r] \in RunEnded /\ outcome[r] \notin CaseEnded
  /\ Goto(r, "killed")
  /\ UNCHANGED <<runVars, content>>

SuiteStep(r) ==
  \/ GiveUp(r)
  \/ BeginCapture(r)
  \/ SkipCapture(r)
  \/ EndCapture(r)
  \/ Verify(r)
  \/ KillSuite(r)

AllEnded == (\A r \in Run : Over(r)) /\ UNCHANGED bundleVars

BundleNext == (\E r \in Run : RunStep(r) \/ Kill(r) \/ SuiteStep(r)) \/ AllEnded

BundleSpec == BundleInit /\ [][BundleNext]_bundleVars

-----------------------------------------------------------------------------
(***************************************************************************)
(* Properties.                                                             *)
(***************************************************************************)

\* "writes each run to a unique directory": no two runs have the same bundle.
UniqueBundle ==
  \A p, r \in Run : p # r /\ Holds(p) /\ Holds(r) => Mine(p) # Mine(r)

\* "the workflow appends a numeric suffix rather than overwriting it": a file
\* that is there is never written again, neither by another run nor by its own,
\* but for the environment of a case, which its own suite captures anew when
\* run.sh has ended with 0 and before the case has its verdict.
Recaptures(r, b, f) ==
  /\ script[r] = "exited" /\ status[r] = 0 /\ outcome[r] \in {"open", "capture"}
  /\ b = Mine(r) /\ f = "environment.txt"
  /\ content[b][f] \in {By(r), Begun(r)}
  /\ content'[b][f] \in {Begun(r), Captured(r)}

NeverOverwrites ==
  [][\A b \in Bundle, f \in File :
       content[b][f] # Nobody /\ content'[b][f] # content[b][f] =>
         \E r \in Suite : Recaptures(r, b, f)]_bundleVars

\* The files that a case that ended well has of run r and of no other.  Its
\* environment is run.sh's, or what capture_environment.sh made of it, the
\* beginning of that where it failed.
Whole(r) ==
  /\ status[r] = 0
  /\ \A f \in File \ {"environment.txt"} : content[Mine(r)][f] = By(r)
  /\ content[Mine(r)]["environment.txt"] \in {By(r), Begun(r), Captured(r)}

\* A case that run_validation_suite.sh lists as passed has a bundle that is
\* complete and of that case's run alone, and stays so: however many runs and
\* captures were killed or failed, before it or since, and whatever they left.
VerifiedIsWhole == \A r \in Run : outcome[r] = "passed" => Whole(r)

=============================================================================
