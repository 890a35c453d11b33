-------------------------- MODULE StallToolsProofs --------------------------
(***************************************************************************)
(* What the two programs of StallTools report, for every job, every        *)
(* directory that may be damaged, and every call of CallsAssumption.       *)
(*                                                                         *)
(* StallInv says of the analysis of one directory that what it has         *)
(* gathered is what the rows read so far give: the records at or above the *)
(* threshold, and the phase records and the rows of each iteration.  It    *)
(* says of the call that its directories are analysed in turn, each once.  *)
(***************************************************************************)
EXTENDS StallTools, StatisticsTheorems

-----------------------------------------------------------------------------
(* The inductive invariant. *)

\* g has, under each key, what s has at the places with that key.
Grouped(g, s, key, places) ==
  g = [k \in {key[i] : i \in places} |-> Chosen(s, {i \in places : key[i] = k})]

SampleKeys(s) == [i \in DOMAIN s |-> SampleOf(s[i])]
IterationKeys(s) == [i \in DOMAIN s |-> s[i].at]

Reading == {"times", "phases", "rows", "summary", "returned"}

\* The number of rows read of each file.
TimesSoFar == IF step = "times" THEN next - 1 ELSE Len(File("times"))
PhasesSoFar ==
  IF step = "times" THEN 0 ELSE IF step = "phases" THEN next - 1 ELSE Len(File("phases"))
RowsSoFar ==
  IF step \in {"times", "phases"} THEN 0 ELSE IF step = "rows" THEN next - 1 ELSE Len(File("rows"))

StallPlaces == {i \in 1 .. TimesSoFar : IsStall(dir.times[i])}
PhasePlaces == {i \in 1 .. PhasesSoFar : dir.phases[i].at \in Affected}

Gathered ==
  /\ IsDirectory(dir) /\ Loadable(dir) /\ threshold \in Int
  /\ next \in Nat \ {0} /\ \A kind \in Kinds : step = kind => next <= Len(File(kind)) + 1
  /\ affected = Chosen(dir.times, StallPlaces)
  /\ Grouped(stalls, dir.times, SampleKeys(dir.times), StallPlaces)
  /\ Grouped(phasesAt, dir.phases, IterationKeys(dir.phases), PhasePlaces)
  /\ Grouped(rowsAt, dir.rows, IterationKeys(dir.rows), 1 .. RowsSoFar)

\* One directory.
CaseInv ==
  step \in Reading =>
    /\ Gathered
    /\ step \in {"rows", "summary", "returned"} =>
         breakdown = [at \in DOMAIN phasesAt |-> Dominant(phasesAt[at])]
    /\ step = "returned" => summary = CaseSummary

\* What was analysed: a directory of the call, with the stalls of its file.
Analysed(report) ==
  /\ report.result_dir \in ToSet(result_dirs(call))
  /\ report.dir = call.tree.dir[Resolve(report.result_dir)]
  /\ call.tool = "versions" =>
       /\ Acceptable(report.dir) /\ report.version = infer_version(report.dir)
       /\ \E places \in SUBSET DOMAIN report.dir.times :
            report.case.affected = Chosen(report.dir.times, places)
       /\ report.stalls = Len(report.case.affected)
       /\ report.lengths = event_lengths(report.case.affected)
       /\ report.events = Len(report.lengths)
       /\ report.fastMedian = sample_fast_median(report.dir, report.case.affected)

DoneInv ==
  /\ IsSequence(done)
  /\ \A i \in DOMAIN done : Analysed(done[i])
  /\ \A i, j \in DOMAIN done : Resolve(done[i].result_dir) = Resolve(done[j].result_dir) => i = j

NoneMissing == \A i \in DOMAIN call.args : call.args[i] # Missing

\* The directories in turn: what is done, and what there is still to do.
TurnInv ==
  /\ NoneMissing
  /\ IsSequence(todo) /\ Len(done) + Len(todo) = Len(result_dirs(call))
  /\ \A i \in DOMAIN done : done[i].result_dir = result_dirs(call)[i]
  /\ \A i \in DOMAIN todo : todo[i] = result_dirs(call)[Len(done) + i]
  /\ step # "idle" => /\ todo # <<>> /\ dir = Current
                      /\ call.tool = "versions" => Acceptable(dir)

AllDone ==
  {Resolve(done[i].result_dir) : i \in DOMAIN done} = {Resolve(p) : p \in ToSet(result_dirs(call))}

CallInv ==
  /\ call \in Calls /\ pc \in {"find", "analyse", "write", "exited"}
  /\ reports \in [1 .. 3 -> {"old", "new"}]
  /\ pc = "find" => done = <<>> /\ step = "idle"
  /\ pc \in {"find", "analyse"} => \A i \in 1 .. 3 : reports[i] = "old"
  /\ pc # "find" => done = <<>> \/ NoneMissing
  /\ DoneInv
  /\ pc = "analyse" => TurnInv
  /\ pc = "write" => AllDone
  /\ (\E i \in 1 .. 3 : reports[i] = "new") => AllDone
  /\ pc = "write" /\ call.tool = "versions" => [i \in DOMAIN done |-> done[i].version] = VERSION_ORDER
  /\ pc # "exited" => status = 0
  /\ pc = "exited" /\ status = 0 => \A i \in 1 .. 3 : reports[i] = "new"

StallInv == CaseInv /\ CallInv

-----------------------------------------------------------------------------
(* The analysis of one directory. *)

\* Extend adds the next record to those of its key, after them.
LEMMA GroupGrows ==
  ASSUME NEW n \in Nat, NEW s, NEW key, NEW g, NEW places, places \subseteq 1 .. n,
         Grouped(g, s, key, places)
  PROVE  Grouped(Extend(g, key[n + 1], s[n + 1]), s, key, places \cup {n + 1})
<1> DEFINE Q == places \cup {n + 1}
           Before(k) == {i \in places : key[i] = k}
           After(k) == {i \in Q : key[i] = k}
           new == key[n + 1]
           old(k) == IF k \in DOMAIN g THEN g[k] ELSE <<>>
           G == [k \in {key[i] : i \in Q} |-> Chosen(s, After(k))]
<1>1. DOMAIN g = {key[i] : i \in places} /\ \A k \in DOMAIN g : g[k] = Chosen(s, Before(k))
  BY DEF Grouped
<1>2. {key[i] : i \in Q} = DOMAIN g \cup {new}
  BY <1>1
<1>3. ASSUME NEW k \in DOMAIN g \cup {new}
      PROVE  Chosen(s, After(k)) = IF k = new THEN Append(old(k), s[n + 1]) ELSE old(k)
  <2>1. CASE k # new
    <3>1. After(k) = Before(k) /\ k \in DOMAIN g
      BY <2>1
    <3> QED BY <2>1, <3>1, <1>1
  <2>2. CASE k = new
    <3>1. After(k) = Before(k) \cup {n + 1} /\ Before(k) \subseteq 1 .. n
      BY <2>2
    <3>2. old(k) = Chosen(s, Before(k))
      <4>1. CASE k \in DOMAIN g
        BY <4>1, <1>1
      <4>2. CASE k \notin DOMAIN g
        <5>1. Before(k) = {}
          BY <4>2, <1>1
        <5> QED BY <5>1, <4>2, ChosenNone
      <4> QED BY <4>1, <4>2
    <3> HIDE DEF Before, After, old
    <3>3. Chosen(s, Before(k) \cup {n + 1}) = Append(Chosen(s, Before(k)), s[n + 1])
      BY <3>1, ChosenGrows
    <3> QED BY <2>2, <3>1, <3>2, <3>3
  <2> QED BY <2>1, <2>2
<1>4. Extend(g, new, s[n + 1]) =
        [k \in DOMAIN g \cup {new} |-> IF k = new THEN Append(old(k), s[n + 1]) ELSE old(k)]
  BY DEF Extend
<1> HIDE DEF After, old, new
<1>5. Extend(g, new, s[n + 1]) = [k \in DOMAIN g \cup {new} |-> Chosen(s, After(k))]
  BY <1>3, <1>4
<1>6. Extend(g, new, s[n + 1]) = G
  BY <1>5, <1>2
<1> QED BY <1>6 DEF Grouped, After, new

\* No place, no group.
LEMMA GroupsOfNone ==
  ASSUME NEW s, NEW key
  PROVE  Grouped(<<>>, s, key, {})
<1>1. \A g, S : S = {} /\ g = [k \in S |-> Chosen(s, {i \in {} : key[i] = k})] => g = <<>>
  BY SMT
<1> QED BY <1>1, {key[i] : i \in {}} = {} DEF Grouped

\* The files of a directory are sequences.
LEMMA FilesAre ==
  ASSUME NEW d, IsDirectory(d)
  PROVE  /\ IsSequence(d.results) /\ IsSequence(d.times) /\ IsSequence(d.phases)
         /\ IsSequence(d.rows)
BY DEF IsDirectory, IsSequence

\* What is read of a file is in it.
LEMMA FileIs ==
  ASSUME IsDirectory(dir)
  PROVE  /\ IsSequence(File("times")) /\ IsSequence(File("phases")) /\ IsSequence(File("rows"))
         /\ Len(File("times")) \in 0 .. Len(dir.times)
         /\ Len(File("phases")) \in 0 .. Len(dir.phases)
         /\ Len(File("rows")) \in 0 .. Len(dir.rows)
<1>1. /\ File("times") \in {dir.times, <<>>} /\ File("phases") \in {dir.phases, <<>>}
      /\ File("rows") \in {dir.rows, <<>>}
  BY DEF File
<1>2. Len(<<>>) = 0 /\ IsSequence(<<>>)
  BY EmptyIsSequence
<1>3. /\ Len(dir.times) \in Nat /\ Len(dir.phases) \in Nat /\ Len(dir.rows) \in Nat
      /\ IsSequence(dir.times) /\ IsSequence(dir.phases) /\ IsSequence(dir.rows)
  BY FilesAre, SequenceIs
<1> QED BY <1>1, <1>2, <1>3

\* load_samples and the loads: nothing has been read.
LEMMA LoadKeeps ==
  ASSUME NEW d, IsDirectory(d), NEW override, override # NoOverride => override \in Int,
         Load(d, override)
  PROVE  CaseInv' /\ dir' = d /\ step' # "idle"
<1>1. dir' = d /\ step' \in {"times", "raised"}
  BY DEF Load
<1>2. ASSUME step' = "times" PROVE Gathered'
  <2>1. IsDirectory(dir)' /\ Loadable(dir)' /\ threshold' \in Int
    BY <1>1, <1>2 DEF Load, IsDirectory
  <2>2. next' = 1 /\ affected' = <<>> /\ stalls' = <<>> /\ phasesAt' = <<>> /\ rowsAt' = <<>>
    BY DEF Load
  <2>3. TimesSoFar' = 0 /\ PhasesSoFar' = 0 /\ RowsSoFar' = 0
    BY <1>2, <2>2 DEF TimesSoFar, PhasesSoFar, RowsSoFar
  <2>4. StallPlaces' = {} /\ PhasePlaces' = {} /\ (1 .. RowsSoFar)' = {}
    BY <2>3 DEF StallPlaces, PhasePlaces
  <2>5. (\A kind \in Kinds : step = kind => next <= Len(File(kind)) + 1)'
    <3>1. File("times")' \in {d.times, <<>>}
      BY <1>1 DEF File
    <3>2. Len(d.times) \in Nat /\ Len(<<>>) = 0
      BY FilesAre, SequenceIs
    <3> QED BY <1>2, <2>2, <3>1, <3>2
  <2>6. (affected = Chosen(dir.times, StallPlaces))'
    BY <2>2, <2>4, ChosenNone
  <2>7. /\ Grouped(stalls, dir.times, SampleKeys(dir.times), StallPlaces)'
        /\ Grouped(phasesAt, dir.phases, IterationKeys(dir.phases), PhasePlaces)'
        /\ Grouped(rowsAt, dir.rows, IterationKeys(dir.rows), 1 .. RowsSoFar)'
    BY <2>2, <2>4, GroupsOfNone
  <2> QED BY <2>1, <2>2, <2>5, <2>6, <2>7 DEF Gathered
<1> QED BY <1>1, <1>2 DEF CaseInv, Reading

\* A record of iteration-times.csv goes to its sample, if it is a stall.
LEMMA ReadTimeKeeps ==
  ASSUME CaseInv, ReadTime
  PROVE  CaseInv'
<1> DEFINE record == dir.times[next]
           key == SampleKeys(dir.times)
<1>1. step = "times" /\ step' = "times" /\ next <= Len(File("times")) /\ next' = next + 1
  BY DEF ReadTime, More
<1>2. /\ dir' = dir /\ threshold' = threshold /\ phasesAt' = phasesAt /\ rowsAt' = rowsAt
  BY DEF ReadTime
<1>3. Gathered
  BY <1>1 DEF CaseInv, Reading
<1>4. /\ next \in 1 .. Len(dir.times) /\ next \in Nat /\ DOMAIN dir.times = 1 .. Len(dir.times)
      /\ Len(File("times")) \in Nat
  BY <1>1, <1>3, FileIs, FilesAre, SequenceIs DEF Gathered
<1>5. /\ TimesSoFar = next - 1 /\ TimesSoFar' = next
      /\ PhasesSoFar = 0 /\ PhasesSoFar' = 0 /\ RowsSoFar = 0 /\ RowsSoFar' = 0
  BY <1>1, <1>4 DEF TimesSoFar, PhasesSoFar, RowsSoFar
<1>6. StallPlaces \subseteq 1 .. next - 1
  BY <1>5 DEF StallPlaces
<1>7. StallPlaces' = IF IsStall(record) THEN StallPlaces \cup {next} ELSE StallPlaces
  BY <1>2, <1>4, <1>5 DEF StallPlaces, IsStall
<1>8. key[next] = SampleOf(record)
  BY <1>4 DEF SampleKeys
<1>9. next - 1 \in Nat /\ (next - 1) + 1 = next
  BY <1>4
<1>10. (affected = Chosen(dir.times, StallPlaces))'
  <2>1. CASE IsStall(record)
    <3>1. affected' = Append(affected, record)
      BY <2>1 DEF ReadTime
    <3>2. Chosen(dir.times, StallPlaces \cup {next}) = Append(Chosen(dir.times, StallPlaces), record)
      BY <1>6, <1>9, ChosenGrows
    <3> QED BY <1>2, <1>3, <1>7, <2>1, <3>1, <3>2 DEF Gathered
  <2>2. CASE ~IsStall(record)
    BY <1>2, <1>3, <1>7, <2>2 DEF Gathered, ReadTime
  <2> QED BY <2>1, <2>2
<1>11. Grouped(stalls, dir.times, key, StallPlaces)'
  <2>1. Grouped(stalls, dir.times, key, StallPlaces)
    BY <1>3 DEF Gathered
  <2>2. CASE IsStall(record)
    <3>1. stalls' = Extend(stalls, key[next], record)
      BY <1>8, <2>2 DEF ReadTime
    <3> HIDE DEF key
    <3>2. Grouped(Extend(stalls, key[next], record), dir.times, key, StallPlaces \cup {next})
      BY <1>6, <1>9, <2>1, GroupGrows
    <3>3. Grouped(stalls', dir.times, key, StallPlaces')
      BY <1>7, <2>2, <3>1, <3>2
    <3> QED BY <1>2, <3>3 DEF key
  <2>3. CASE ~IsStall(record)
    <3>1. stalls' = stalls
      BY <2>3 DEF ReadTime
    <3> QED BY <1>2, <1>7, <2>1, <2>3, <3>1
  <2> QED BY <2>2, <2>3
<1>12. /\ Grouped(phasesAt, dir.phases, IterationKeys(dir.phases), PhasePlaces)'
       /\ Grouped(rowsAt, dir.rows, IterationKeys(dir.rows), 1 .. RowsSoFar)'
  <2>1. PhasePlaces = {} /\ PhasePlaces' = {} /\ 1 .. RowsSoFar = {} /\ (1 .. RowsSoFar)' = {}
    BY <1>5 DEF PhasePlaces
  <2> QED BY <1>2, <1>3, <2>1 DEF Gathered
<1>13. Gathered'
  <2>1. /\ IsDirectory(dir)' /\ Loadable(dir)' /\ threshold' \in Int
    BY <1>2, <1>3 DEF Gathered
  <2>2. next' \in Nat \ {0} /\ (\A kind \in Kinds : step = kind => next <= Len(File(kind)) + 1)'
    BY <1>1, <1>2, <1>4 DEF File
  <2> QED BY <2>1, <2>2, <1>10, <1>11, <1>12 DEF Gathered
<1> QED BY <1>1, <1>13 DEF CaseInv

\* At the end of iteration-times.csv the phases are read, with nothing of them yet.
LEMMA TimesReadKeeps ==
  ASSUME CaseInv, TimesRead
  PROVE  CaseInv'
<1>1. step = "times" /\ step' = "phases" /\ next > Len(File("times")) /\ next' = 1
  BY DEF TimesRead, AtEnd
<1>2. /\ dir' = dir /\ threshold' = threshold /\ stalls' = stalls /\ affected' = affected
      /\ phasesAt' = phasesAt /\ rowsAt' = rowsAt
  BY DEF TimesRead
<1>3. Gathered
  BY <1>1 DEF CaseInv, Reading
<1>4. /\ next \in Nat /\ next <= Len(File("times")) + 1
      /\ Len(File("times")) \in Nat /\ Len(File("phases")) \in Nat
  BY <1>1, <1>3, FileIs DEF Gathered, Kinds
<1>5. File("times")' = File("times") /\ File("phases")' = File("phases")
  BY <1>2 DEF File
<1>6. /\ TimesSoFar = Len(File("times")) /\ TimesSoFar' = Len(File("times"))
      /\ PhasesSoFar = 0 /\ PhasesSoFar' = 0 /\ RowsSoFar = 0 /\ RowsSoFar' = 0
  BY <1>1, <1>4, <1>5 DEF TimesSoFar, PhasesSoFar, RowsSoFar
<1>7. /\ StallPlaces' = StallPlaces /\ PhasePlaces' = PhasePlaces
      /\ (1 .. RowsSoFar)' = 1 .. RowsSoFar
  BY <1>2, <1>6 DEF StallPlaces, PhasePlaces, IsStall
<1>8. next' \in Nat \ {0} /\ (\A kind \in Kinds : step = kind => next <= Len(File(kind)) + 1)'
  BY <1>1, <1>4, <1>5
<1>9. Gathered'
  BY <1>2, <1>3, <1>7, <1>8 DEF Gathered
<1> QED BY <1>1, <1>9 DEF CaseInv

\* A phase record goes to its iteration, if that stalled.
LEMMA ReadPhaseKeeps ==
  ASSUME CaseInv, ReadPhase
  PROVE  CaseInv'
<1> DEFINE record == dir.phases[next]
           key == IterationKeys(dir.phases)
           places == {i \in 1 .. next : dir.phases[i].at \in Affected}
<1>1. CASE ~Known(record)
  <2>1. step' = "raised"
    BY <1>1 DEF ReadPhase
  <2> QED BY <2>1 DEF CaseInv, Reading
<1>2. CASE Known(record)
  <2>1. step = "phases" /\ step' = "phases" /\ next <= Len(File("phases")) /\ next' = next + 1
    BY <1>2 DEF ReadPhase, More
  <2>2. /\ dir' = dir /\ threshold' = threshold /\ stalls' = stalls /\ affected' = affected
        /\ rowsAt' = rowsAt
    BY DEF ReadPhase
  <2>3. Gathered
    BY <2>1 DEF CaseInv, Reading
  <2>4. /\ next \in 1 .. Len(dir.phases) /\ next \in Nat
        /\ DOMAIN dir.phases = 1 .. Len(dir.phases) /\ Len(File("phases")) \in Nat
    BY <2>1, <2>3, FileIs, FilesAre, SequenceIs DEF Gathered
  <2>5. File("times")' = File("times") /\ File("phases")' = File("phases")
    BY <2>2 DEF File
  <2>6. /\ TimesSoFar' = TimesSoFar /\ RowsSoFar = 0 /\ RowsSoFar' = 0
        /\ PhasesSoFar = next - 1 /\ PhasesSoFar' = next
    BY <2>1, <2>4, <2>5 DEF TimesSoFar, PhasesSoFar, RowsSoFar
  <2>7. StallPlaces' = StallPlaces /\ Affected' = Affected /\ (1 .. RowsSoFar)' = 1 .. RowsSoFar
    BY <2>2, <2>6 DEF StallPlaces, Affected, IsStall
  <2>8. PhasePlaces' = IF record.at \in Affected THEN PhasePlaces \cup {next} ELSE PhasePlaces
    BY <2>2, <2>4, <2>6, <2>7 DEF PhasePlaces
  <2>9. PhasePlaces \subseteq 1 .. next - 1 /\ next - 1 \in Nat /\ (next - 1) + 1 = next
    BY <2>4, <2>6 DEF PhasePlaces
  <2>10. Grouped(phasesAt, dir.phases, key, PhasePlaces)'
    <3>1. Grouped(phasesAt, dir.phases, key, PhasePlaces)
      BY <2>3 DEF Gathered
    <3>2. CASE record.at \in Affected
      <4>1. key[next] = record.at
        BY <2>4 DEF IterationKeys
      <4>2. phasesAt' = Extend(phasesAt, key[next], record)
        BY <1>2, <3>2, <4>1 DEF ReadPhase
      <4> HIDE DEF key
      <4>3. Grouped(Extend(phasesAt, key[next], record), dir.phases, key, PhasePlaces \cup {next})
        BY <2>9, <3>1, GroupGrows
      <4>4. Grouped(phasesAt', dir.phases, key, PhasePlaces')
        BY <2>8, <3>2, <4>2, <4>3
      <4> QED BY <2>2, <4>4 DEF key
    <3>3. CASE record.at \notin Affected
      <4>1. phasesAt' = phasesAt
        BY <1>2, <3>3 DEF ReadPhase
      <4> QED BY <2>2, <2>8, <3>1, <3>3, <4>1
    <3> QED BY <3>2, <3>3
  <2>11. next' \in Nat \ {0} /\ (\A kind \in Kinds : step = kind => next <= Len(File(kind)) + 1)'
    BY <2>1, <2>4, <2>5
  <2>12. Gathered'
    BY <2>2, <2>3, <2>7, <2>10, <2>11 DEF Gathered
  <2> QED BY <2>1, <2>12 DEF CaseInv
<1> QED BY <1>1, <1>2

\* The dominant phases are those of the phase records gathered.
LEMMA PhasesReadKeeps ==
  ASSUME CaseInv, PhasesRead
  PROVE  CaseInv'
<1>1. step = "phases" /\ step' = "rows" /\ next > Len(File("phases")) /\ next' = 1
  BY DEF PhasesRead, AtEnd
<1>2. /\ dir' = dir /\ threshold' = threshold /\ stalls' = stalls /\ affected' = affected
      /\ phasesAt' = phasesAt /\ rowsAt' = rowsAt
      /\ breakdown' = [at \in DOMAIN phasesAt |-> Dominant(phasesAt[at])]
  BY DEF PhasesRead
<1>3. Gathered
  BY <1>1 DEF CaseInv, Reading
<1>4. /\ next \in Nat /\ next <= Len(File("phases")) + 1
      /\ Len(File("phases")) \in Nat /\ Len(File("rows")) \in Nat
  BY <1>1, <1>3, FileIs DEF Gathered, Kinds
<1>5. /\ File("times")' = File("times") /\ File("phases")' = File("phases")
      /\ File("rows")' = File("rows")
  BY <1>2 DEF File
<1>6. /\ TimesSoFar' = TimesSoFar /\ RowsSoFar = 0 /\ RowsSoFar' = 0
      /\ PhasesSoFar = Len(File("phases")) /\ PhasesSoFar' = Len(File("phases"))
  BY <1>1, <1>4, <1>5 DEF TimesSoFar, PhasesSoFar, RowsSoFar
<1>7. /\ StallPlaces' = StallPlaces /\ PhasePlaces' = PhasePlaces
      /\ (1 .. RowsSoFar)' = 1 .. RowsSoFar
  BY <1>2, <1>6 DEF StallPlaces, PhasePlaces, IsStall, Affected
<1>8. next' \in Nat \ {0} /\ (\A kind \in Kinds : step = kind => next <= Len(File(kind)) + 1)'
  BY <1>1, <1>4, <1>5
<1>9. Gathered'
  BY <1>2, <1>3, <1>7, <1>8 DEF Gathered
<1> QED BY <1>1, <1>2, <1>9 DEF CaseInv

\* A row goes to its iteration.
LEMMA ReadRowKeeps ==
  ASSUME CaseInv, ReadRow
  PROVE  CaseInv'
<1> DEFINE row == dir.rows[next]
           key == IterationKeys(dir.rows)
<1>1. step = "rows" /\ next <= Len(File("rows")) /\ step' \in {"rows", "raised"}
  BY DEF ReadRow, More
<1>2. CASE step' = "raised"
  BY <1>2 DEF CaseInv, Reading
<1>3. CASE step' = "rows"
  <2>1. next' = next + 1 /\ rowsAt' = Extend(rowsAt, row.at, row)
    BY <1>3 DEF ReadRow
  <2>2. /\ dir' = dir /\ threshold' = threshold /\ stalls' = stalls /\ affected' = affected
        /\ phasesAt' = phasesAt /\ breakdown' = breakdown
    BY DEF ReadRow
  <2>3. Gathered /\ breakdown = [at \in DOMAIN phasesAt |-> Dominant(phasesAt[at])]
    BY <1>1 DEF CaseInv, Reading
  <2>4. /\ next \in 1 .. Len(dir.rows) /\ next \in Nat
        /\ DOMAIN dir.rows = 1 .. Len(dir.rows) /\ Len(File("rows")) \in Nat
    BY <1>1, <2>3, FileIs, FilesAre, SequenceIs DEF Gathered
  <2>5. /\ File("times")' = File("times") /\ File("phases")' = File("phases")
        /\ File("rows")' = File("rows")
    BY <2>2 DEF File
  <2>6. /\ TimesSoFar' = TimesSoFar /\ PhasesSoFar' = PhasesSoFar
        /\ RowsSoFar = next - 1 /\ RowsSoFar' = next
    BY <1>1, <1>3, <2>1, <2>4, <2>5 DEF TimesSoFar, PhasesSoFar, RowsSoFar
  <2>7. /\ StallPlaces' = StallPlaces /\ PhasePlaces' = PhasePlaces
        /\ (1 .. RowsSoFar)' = (1 .. next - 1) \cup {next}
        /\ next - 1 \in Nat /\ (next - 1) + 1 = next
    BY <2>2, <2>4, <2>6 DEF StallPlaces, PhasePlaces, IsStall, Affected
  <2>8. Grouped(rowsAt, dir.rows, key, 1 .. RowsSoFar)'
    <3>1. Grouped(rowsAt, dir.rows, key, 1 .. next - 1)
      BY <2>3, <2>6 DEF Gathered
    <3>2. key[next] = row.at
      BY <2>4 DEF IterationKeys
    <3>3. rowsAt' = Extend(rowsAt, key[next], row)
      BY <2>1, <3>2
    <3> HIDE DEF key
    <3>4. Grouped(Extend(rowsAt, key[next], row), dir.rows, key, (1 .. next - 1) \cup {next})
      BY <2>7, <3>1, GroupGrows
    <3>5. Grouped(rowsAt', dir.rows, key, (1 .. RowsSoFar)')
      BY <2>7, <3>3, <3>4
    <3> QED BY <2>2, <3>5 DEF key
  <2>9. next' \in Nat \ {0} /\ (\A kind \in Kinds : step = kind => next <= Len(File(kind)) + 1)'
    BY <1>1, <1>3, <2>1, <2>4, <2>5
  <2>10. Gathered'
    BY <2>2, <2>3, <2>7, <2>8, <2>9 DEF Gathered
  <2> QED BY <1>3, <2>2, <2>3, <2>10 DEF CaseInv
<1> QED BY <1>1, <1>2, <1>3

\* All that the summary depends on is left alone.
LEMMA RestKeeps ==
  ASSUME CaseInv,
         \/ RowsRead
         \/ Summarize
         \/ UNCHANGED caseVars
  PROVE  CaseInv'
<1>1. /\ dir' = dir /\ threshold' = threshold /\ next' = next /\ stalls' = stalls
      /\ affected' = affected /\ phasesAt' = phasesAt /\ rowsAt' = rowsAt
      /\ breakdown' = breakdown /\ warnings' = warnings
  BY DEF RowsRead, Summarize, caseVars
<1>2. \A kind \in Kinds : File(kind)' = File(kind)
  BY <1>1 DEF File
<1>3. ASSUME step \in Reading, step' \in Reading,
             \/ step = "rows" /\ next > Len(File("rows")) /\ step' = "summary"
             \/ step = "summary" /\ step' = "returned"
             \/ step' = step
      PROVE  Gathered'
  <2>1. Gathered
    BY <1>3 DEF CaseInv
  <2>2. /\ next \in Nat /\ Len(File("rows")) \in Nat
        /\ step = "rows" => next <= Len(File("rows")) + 1
    BY <2>1, FileIs DEF Gathered, Kinds
  <2>3. /\ File("times")' = File("times") /\ File("phases")' = File("phases")
        /\ File("rows")' = File("rows")
    BY <1>2 DEF Kinds
  <2>4. TimesSoFar' = TimesSoFar /\ PhasesSoFar' = PhasesSoFar /\ RowsSoFar' = RowsSoFar
    BY <1>1, <1>3, <2>2, <2>3 DEF TimesSoFar, PhasesSoFar, RowsSoFar
  <2>5. /\ StallPlaces' = StallPlaces /\ PhasePlaces' = PhasePlaces
        /\ (1 .. RowsSoFar)' = 1 .. RowsSoFar
    BY <1>1, <2>4 DEF StallPlaces, PhasePlaces, IsStall, Affected
  <2>6. (\A kind \in Kinds : step = kind => next <= Len(File(kind)) + 1)'
    BY <1>1, <1>2, <1>3, <2>1 DEF Gathered, Kinds
  <2> QED BY <1>1, <2>1, <2>5, <2>6 DEF Gathered
<1>4. CaseSummary' = CaseSummary
  <2>1. File("times")' = File("times")
    BY <1>2 DEF Kinds
  <2>2. \A at : RankEvent(at)' = RankEvent(at)
    BY <1>1 DEF RankEvent
  <2>3. \A key : StallsOf(key)' = StallsOf(key)
    BY <1>1 DEF StallsOf
  <2> QED BY <1>1, <2>1, <2>2, <2>3, ZenonT(60) DEF CaseSummary
<1>5. CASE RowsRead
  <2>1. step = "rows" /\ next > Len(File("rows")) /\ step' = "summary"
    BY <1>5 DEF RowsRead, AtEnd
  <2> QED BY <1>1, <1>3, <2>1 DEF CaseInv, Reading
<1>6. CASE Summarize
  <2>1. step = "summary" /\ step' = "returned" /\ summary' = CaseSummary
    BY <1>6 DEF Summarize
  <2> QED BY <1>1, <1>3, <1>4, <2>1 DEF CaseInv, Reading
<1>7. CASE UNCHANGED caseVars
  <2>1. step' = step /\ summary' = summary
    BY <1>7 DEF caseVars
  <2> QED BY <1>1, <1>3, <1>4, <2>1 DEF CaseInv, Reading
<1> QED BY <1>5, <1>6, <1>7

\* No step of analyze_case disturbs what has been gathered, nor looks at another
\* directory.
LEMMA AnalyseKeeps ==
  ASSUME CaseInv, Analyse
  PROVE  CaseInv' /\ dir' = dir /\ step # "idle" /\ step' # "idle"
<1>1. CaseInv'
  BY ReadTimeKeeps, TimesReadKeeps, ReadPhaseKeeps, PhasesReadKeeps, ReadRowKeeps, RestKeeps
     DEF Analyse
<1>2. dir' = dir /\ step # "idle" /\ step' # "idle"
  BY DEF Analyse, ReadTime, TimesRead, ReadPhase, PhasesRead, ReadRow, RowsRead, Summarize,
     More, AtEnd
<1> QED BY <1>1, <1>2

-----------------------------------------------------------------------------
(* The directories of a call. *)

\* Both tools report each directory once, whatever paths and links lead to it,
\* and all that they find or are given (unique_paths).
THEOREM EachDirectoryOnce ==
  ASSUME NEW paths, IsSequence(paths)
  PROVE  /\ IsSequence(unique_paths(paths))
         /\ ToSet(unique_paths(paths)) \subseteq ToSet(paths)
         /\ \A i, j \in DOMAIN unique_paths(paths) :
              Resolve(unique_paths(paths)[i]) = Resolve(unique_paths(paths)[j]) => i = j
         /\ \A p \in ToSet(paths) : \E q \in ToSet(unique_paths(paths)) : Resolve(q) = Resolve(p)
<1> DEFINE n == Len(paths)
           First(i) == \A j \in 1 .. i - 1 : Resolve(paths[j]) # Resolve(paths[i])
           P == {i \in DOMAIN paths : First(i)}
           asc == Ascending(P)
           c == Cardinality(P)
           u == unique_paths(paths)
<1>1. /\ n \in Nat /\ DOMAIN paths = 1 .. n /\ P \subseteq 1 .. n /\ P \subseteq DOMAIN paths
      /\ \A x \in P : x \in Nat /\ x > 0
  BY SequenceIs
<1>2. u = [k \in 1 .. c |-> paths[asc[k]]]
  BY DEF unique_paths, Chosen
<1>3. IsSequence(u) /\ ToSet(u) = {paths[i] : i \in P}
  <2>1. u = Chosen(paths, P)
    BY DEF unique_paths
  <2> HIDE DEF P, u, asc, c, n
  <2> QED BY <1>1, <2>1, ChosenIs
<1> HIDE DEF P, u, asc, c, n
<1>4. /\ c \in Nat /\ asc \in [1 .. c -> P]
      /\ \A i, j \in 1 .. c : asc[i] < asc[j] <=> i < j
  BY <1>1, PlacesInOrder DEF c, asc
<1>5. ToSet(u) \subseteq ToSet(paths)
  BY <1>1, <1>3 DEF ToSet
<1>6. ASSUME NEW i \in DOMAIN u, NEW j \in DOMAIN u, Resolve(u[i]) = Resolve(u[j])
      PROVE  i = j
  <2>1. i \in 1 .. c /\ j \in 1 .. c /\ u[i] = paths[asc[i]] /\ u[j] = paths[asc[j]]
    BY <1>2, <1>6
  <2>2. asc[i] \in P /\ asc[j] \in P
    BY <1>4, <2>1
  <2>3. asc[i] \in Nat /\ asc[j] \in Nat /\ asc[i] > 0 /\ asc[j] > 0
    BY <1>1, <2>2
  <2>4. ~(asc[i] < asc[j]) /\ ~(asc[j] < asc[i])
    BY <1>6, <2>1, <2>2, <2>3 DEF P
  <2> QED BY <1>4, <2>1, <2>4
<1>7. ASSUME NEW p \in ToSet(paths)
      PROVE  \E q \in ToSet(u) : Resolve(q) = Resolve(p)
  <2> DEFINE same == {i \in DOMAIN paths : Resolve(paths[i]) = Resolve(p)}
  <2>1. same \subseteq Nat /\ same # {}
    BY <1>1 DEF ToSet
  <2>2. PICK m \in same : \A x \in same : m <= x
    BY <2>1, LeastOf
  <2>3. m \in P
    BY <1>1, <2>2 DEF P
  <2> QED BY <1>3, <2>2, <2>3
<1> QED BY <1>3, <1>5, <1>6, <1>7 DEF u

\* The directories of a call can be read, and are distinct.
LEMMA CallIs ==
  ASSUME NEW c \in Calls, \A i \in DOMAIN c.args : c.args[i] # Missing
  PROVE  /\ IsSequence(result_dirs(c))
         /\ \A p \in ToSet(result_dirs(c)) :
              Resolve(p) \in DOMAIN c.tree.dir /\ IsDirectory(c.tree.dir[Resolve(p)])
         /\ \A i, j \in DOMAIN result_dirs(c) :
              Resolve(result_dirs(c)[i]) = Resolve(result_dirs(c)[j]) => i = j
         /\ c.tool \in {"stalls", "versions"}
         /\ c.override # NoOverride => c.override \in Int
<1> DEFINE Reached(paths) ==
             paths \in Seq(ToSet(paths)) /\ \A p \in ToSet(paths) : Resolve(p) \in DOMAIN c.tree.dir
<1>1. /\ c.tool \in {"stalls", "versions"}
      /\ c.override # NoOverride => c.override \in Int
      /\ c.args \in Seq(ToSet(c.args)) /\ Reached(c.tree.paths)
      /\ \A i \in DOMAIN c.args : Reached(c.args[i])
      /\ \A p \in DOMAIN c.tree.dir : IsDirectory(c.tree.dir[p])
  BY CallsAssumption DEF CallsAssumption
<1>2. PICK paths : result_dirs(c) = unique_paths(paths) /\ Reached(paths)
  <2> DEFINE all == c.tree.paths
             places(version) == {i \in DOMAIN all :
               /\ c.tree.dir[Resolve(all[i])].pathVersion[2] = version
               /\ c.tree.dir[Resolve(all[i])].named = version}
             chosen == [v \in DOMAIN VERSION_ORDER |-> Chosen(all, places(VERSION_ORDER[v]))]
  <2>1. IsSequence(all) /\ \A p \in ToSet(all) : Resolve(p) \in DOMAIN c.tree.dir
    BY <1>1 DEF IsSequence
  <2>2. CASE c.args # <<>>
    <3>1. result_dirs(c) = unique_paths(FlattenSeq(c.args))
      BY <2>2 DEF result_dirs
    <3>2. IsSequence(c.args) /\ \A i \in DOMAIN c.args : IsSequence(c.args[i])
      BY <1>1 DEF IsSequence
    <3>3. /\ IsSequence(FlattenSeq(c.args))
          /\ ToSet(FlattenSeq(c.args)) = UNION {ToSet(c.args[i]) : i \in DOMAIN c.args}
      BY <3>2, FlattenIsSequence
    <3>4. \A p \in ToSet(FlattenSeq(c.args)) : Resolve(p) \in DOMAIN c.tree.dir
      BY <1>1, <3>3
    <3> QED BY <3>1, <3>3, <3>4 DEF IsSequence
  <2>3. CASE c.args = <<>> /\ c.tool # "versions"
    <3>1. result_dirs(c) = unique_paths(all)
      BY <2>3 DEF result_dirs, discover_result_dirs
    <3> QED BY <1>1, <3>1
  <2>4. CASE c.args = <<>> /\ c.tool = "versions"
    <3>1. result_dirs(c) = unique_paths(FlattenSeq(chosen))
      BY <2>4 DEF result_dirs, discover_result_dirs
    <3>2. IsSequence(chosen)
      <4>1. DOMAIN VERSION_ORDER = 1 .. 3
        BY DEF VERSION_ORDER
      <4>2. chosen = [v \in 1 .. 3 |-> chosen[v]]
        BY <4>1
      <4> HIDE DEF chosen
      <4> QED BY <4>2, FunctionIsSequence
    <3>3. \A v \in DOMAIN chosen :
            IsSequence(chosen[v]) /\ \A p \in ToSet(chosen[v]) : Resolve(p) \in DOMAIN c.tree.dir
      <4> SUFFICES ASSUME NEW v \in DOMAIN chosen
                   PROVE  /\ IsSequence(chosen[v])
                          /\ \A p \in ToSet(chosen[v]) : Resolve(p) \in DOMAIN c.tree.dir
        OBVIOUS
      <4> DEFINE P == places(VERSION_ORDER[v])
      <4>1. P \subseteq 1 .. Len(all) /\ Len(all) \in Nat /\ P \subseteq DOMAIN all
        BY <2>1, SequenceIs
      <4>2. chosen[v] = Chosen(all, P)
        OBVIOUS
      <4> HIDE DEF P, chosen
      <4>3. IsSequence(chosen[v]) /\ ToSet(chosen[v]) = {all[i] : i \in P}
        BY <4>1, <4>2, ChosenIs
      <4>4. ToSet(chosen[v]) \subseteq ToSet(all)
        BY <4>1, <4>3 DEF ToSet
      <4> QED BY <2>1, <4>3, <4>4
    <3> HIDE DEF chosen
    <3>4. /\ IsSequence(FlattenSeq(chosen))
          /\ ToSet(FlattenSeq(chosen)) = UNION {ToSet(chosen[v]) : v \in DOMAIN chosen}
      BY <3>2, <3>3, FlattenIsSequence
    <3>5. \A p \in ToSet(FlattenSeq(chosen)) : Resolve(p) \in DOMAIN c.tree.dir
      BY <3>3, <3>4
    <3> QED BY <3>1, <3>4, <3>5 DEF IsSequence
  <2> QED BY <2>2, <2>3, <2>4
<1>3. IsSequence(paths)
  BY <1>2 DEF IsSequence
<1>4. /\ IsSequence(unique_paths(paths)) /\ ToSet(unique_paths(paths)) \subseteq ToSet(paths)
      /\ \A i, j \in DOMAIN unique_paths(paths) :
           Resolve(unique_paths(paths)[i]) = Resolve(unique_paths(paths)[j]) => i = j
  BY <1>3, EachDirectoryOnce
<1>5. \A p \in ToSet(result_dirs(c)) :
        Resolve(p) \in DOMAIN c.tree.dir /\ IsDirectory(c.tree.dir[Resolve(p)])
  <2>1. \A p \in ToSet(paths) : Resolve(p) \in DOMAIN c.tree.dir
    BY <1>2
  <2>2. ToSet(result_dirs(c)) \subseteq ToSet(paths)
    BY <1>2, <1>4
  <2> QED BY <1>1, <2>1, <2>2
<1>6. /\ IsSequence(result_dirs(c))
      /\ \A i, j \in DOMAIN result_dirs(c) :
           Resolve(result_dirs(c)[i]) = Resolve(result_dirs(c)[j]) => i = j
  BY <1>2, <1>4
<1>7. c.tool \in {"stalls", "versions"} /\ (c.override # NoOverride => c.override \in Int)
  BY <1>1
<1> HIDE DEF Reached
<1> QED BY <1>5, <1>6, <1>7

-----------------------------------------------------------------------------
(* The call. *)

\* What is done stays what it is, if the call does.
LEMMA SameCall ==
  ASSUME call' = call
  PROVE  /\ result_dirs(call)' = result_dirs(call)
         /\ NoneMissing' <=> NoneMissing
         /\ \A report : Analysed(report)' <=> Analysed(report)
         /\ done' = done => (DoneInv' <=> DoneInv) /\ (AllDone' <=> AllDone)
<1>1. result_dirs(call)' = result_dirs(call)
  OBVIOUS
<1>2. NoneMissing' <=> NoneMissing
  BY DEF NoneMissing
<1>3. \A report : Analysed(report)' <=> Analysed(report)
  BY <1>1 DEF Analysed
<1>4. done' = done => (DoneInv' <=> DoneInv) /\ (AllDone' <=> AllDone)
  BY <1>1, <1>3 DEF DoneInv, AllDone
<1> QED BY <1>1, <1>2, <1>3, <1>4

\* The end of the call, by an error, leaves what is done and what is written.
LEMMA FailKeeps ==
  ASSUME CallInv, Fail
  PROVE  CallInv'
<1>1. /\ pc' = "exited" /\ status' = 1 /\ call' = call /\ todo' = todo /\ done' = done
      /\ reports' = reports
  BY DEF Fail
<1>2. done = <<>> \/ NoneMissing
  BY DEF CallInv
<1>3. /\ (done = <<>> \/ NoneMissing)'
      /\ DoneInv' /\ ((\E i \in 1 .. 3 : reports[i] = "new") => AllDone)'
  BY <1>1, <1>2, SameCall DEF CallInv
<1> QED BY <1>1, <1>3 DEF CallInv

\* The directories found are those of the call, all still to be analysed.
LEMMA FindKeeps ==
  ASSUME CallInv, Find
  PROVE  CallInv' /\ UNCHANGED caseVars
<1>1. pc = "find" /\ UNCHANGED caseVars /\ done = <<>> /\ step = "idle" /\ step' = "idle"
  BY DEF Find, CallInv, caseVars
<1>2. CASE Fail
  BY <1>1, <1>2, FailKeeps
<1>3. CASE ~Fail
  <2>1. /\ todo' = result_dirs(call) /\ pc' = "analyse" /\ call' = call /\ done' = done
        /\ reports' = reports /\ status' = status
        /\ NoneMissing
    BY <1>3 DEF Find, NoneMissing
  <2>2. NoneMissing' /\ DoneInv' /\ result_dirs(call)' = result_dirs(call)
    BY <2>1, SameCall DEF CallInv
  <2>3. IsSequence(result_dirs(call))
    BY <2>1, CallIs DEF CallInv, NoneMissing
  <2>4. Len(result_dirs(call)) \in Nat /\ Len(<<>>) = 0 /\ DOMAIN done = {}
    BY <1>1, <2>3, SequenceIs, EmptyIsSequence
  <2>5. TurnInv'
    <3>1. (Len(done) + Len(todo) = Len(result_dirs(call)))'
      BY <1>1, <2>1, <2>2, <2>4
    <3>2. (\A i \in DOMAIN todo : todo[i] = result_dirs(call)[Len(done) + i])'
      <4>1. DOMAIN todo' = 1 .. Len(result_dirs(call)) /\ Len(done)' = 0
        BY <1>1, <2>1, <2>3, <2>4, SequenceIs
      <4>2. \A i \in 1 .. Len(result_dirs(call)) : 0 + i = i
        BY <2>4
      <4> QED BY <2>1, <2>2, <4>1, <4>2
    <3> QED BY <1>1, <2>1, <2>2, <2>3, <2>4, <3>1, <3>2 DEF TurnInv
  <2>6. \A i \in 1 .. 3 : reports'[i] = "old"
    BY <1>1, <2>1 DEF CallInv
  <2>7. call' \in Calls /\ reports' \in [1 .. 3 -> {"old", "new"}] /\ status' = 0
    BY <1>1, <2>1 DEF CallInv
  <2>8. ~\E i \in 1 .. 3 : reports'[i] = "new"
    BY <2>6
  <2>9. UNCHANGED caseVars
    BY <1>1
  <2>10. CallInv'
    BY <2>1, <2>2, <2>5, <2>6, <2>7, <2>8, Zenon DEF CallInv
  <2> QED BY <2>9, <2>10
<1> QED BY <1>1, <1>2, <1>3

\* The conjuncts that do not depend on where the call is.
LEMMA StillAnalysing ==
  ASSUME CallInv, pc = "analyse", UNCHANGED <<call, pc, done, reports, status>>, TurnInv'
  PROVE  CallInv'
<1>1. NoneMissing' /\ DoneInv'
  BY SameCall DEF CallInv, TurnInv
<1> QED BY <1>1 DEF CallInv

\* The analysis of a directory begins with nothing gathered.
LEMMA CallAnalyseKeeps ==
  ASSUME CallInv, CaseInv, CallAnalyse
  PROVE  CallInv' /\ CaseInv'
<1>1. /\ pc = "analyse" /\ todo # <<>> /\ step = "idle" /\ TurnInv /\ call \in Calls
      /\ NoneMissing
  BY DEF CallAnalyse, CallInv, TurnInv
<1>2. CASE call.tool = "versions" /\ ~Acceptable(Current)
  <2>1. Fail /\ UNCHANGED caseVars
    BY <1>2 DEF CallAnalyse
  <2> QED BY <2>1, FailKeeps, RestKeeps
<1>3. CASE ~(call.tool = "versions" /\ ~Acceptable(Current))
  <2>1. Load(Current, call.override) /\ UNCHANGED <<call, pc, todo, done, reports, status>>
    BY <1>3 DEF CallAnalyse
  <2>2. /\ IsSequence(result_dirs(call))
        /\ \A p \in ToSet(result_dirs(call)) : IsDirectory(call.tree.dir[Resolve(p)])
        /\ call.override # NoOverride => call.override \in Int
    BY <1>1, CallIs DEF NoneMissing
  <2>3. Head(todo) \in ToSet(result_dirs(call))
    <3>1. /\ IsSequence(todo) /\ IsSequence(done)
          /\ Len(done) + Len(todo) = Len(result_dirs(call))
          /\ \A i \in DOMAIN todo : todo[i] = result_dirs(call)[Len(done) + i]
      BY <1>1 DEF TurnInv, CallInv, DoneInv
    <3>2. /\ Len(todo) \in Nat /\ Len(todo) # 0 /\ Len(done) \in Nat /\ Head(todo) = todo[1]
          /\ DOMAIN todo = 1 .. Len(todo)
          /\ DOMAIN result_dirs(call) = 1 .. Len(result_dirs(call))
      BY <1>1, <2>2, <3>1, SequenceIs, TailIsSequence
    <3>3. Head(todo) = result_dirs(call)[Len(done) + 1] /\ Len(done) + 1 \in DOMAIN result_dirs(call)
      BY <3>1, <3>2
    <3> QED BY <3>3 DEF ToSet
  <2>4. IsDirectory(Current)
    BY <2>2, <2>3 DEF Current
  <2>5. CaseInv' /\ dir' = Current /\ step' # "idle"
    BY <2>1, <2>2, <2>4, LoadKeeps
  <2>6. TurnInv'
    <3>1. Current' = Current /\ (NoneMissing' <=> NoneMissing)
      BY <2>1, SameCall DEF Current
    <3>2. (dir = Current /\ (call.tool = "versions" => Acceptable(dir)))'
      BY <1>3, <2>1, <2>5, <3>1 DEF Acceptable
    <3> QED BY <1>1, <2>1, <2>5, <3>1, <3>2 DEF TurnInv
  <2> QED BY <1>1, <2>1, <2>5, <2>6, StillAnalysing
<1> QED BY <1>2, <1>3

\* What is done and to do is not touched while a directory is analysed.
LEMMA InAnalyseKeeps ==
  ASSUME CallInv, CaseInv, InAnalyse
  PROVE  CallInv' /\ CaseInv'
<1>1. /\ pc = "analyse" /\ Analyse /\ UNCHANGED <<call, pc, todo, done, reports, status>>
      /\ TurnInv
  BY DEF InAnalyse, CallInv
<1>2. CaseInv' /\ dir' = dir /\ step # "idle" /\ step' # "idle"
  BY <1>1, AnalyseKeeps
<1>3. TurnInv'
  <2>1. Current' = Current /\ (NoneMissing' <=> NoneMissing)
    BY <1>1, SameCall DEF Current
  <2> QED BY <1>1, <1>2, <2>1 DEF TurnInv, Acceptable
<1> QED BY <1>1, <1>2, <1>3, StillAnalysing

\* What the summary of a case says of its stalls.
LEMMA StallsOfSummary ==
  ASSUME CaseInv, step = "returned"
  PROVE  /\ summary.affected = affected /\ summary.stalls = Len(affected)
         /\ affected = Chosen(dir.times, StallPlaces) /\ StallPlaces \in SUBSET DOMAIN dir.times
<1>1. Gathered /\ summary = CaseSummary
  BY DEF CaseInv, Reading
<1>2. CaseSummary.affected = affected /\ CaseSummary.stalls = Len(affected)
  BY DEF CaseSummary
<1>3. StallPlaces \in SUBSET DOMAIN dir.times
  <2>1. /\ TimesSoFar = Len(File("times")) /\ TimesSoFar \in 0 .. Len(dir.times)
        /\ DOMAIN dir.times = 1 .. Len(dir.times) /\ Len(dir.times) \in Nat
    BY <1>1, FileIs, FilesAre, SequenceIs DEF TimesSoFar, Gathered
  <2> QED BY <2>1 DEF StallPlaces
<1> QED BY <1>1, <1>2, <1>3 DEF Gathered

\* The report of a directory is on the first of those still to do.
LEMMA ReturnedKeeps ==
  ASSUME CallInv, CaseInv, Returned
  PROVE  CallInv' /\ CaseInv'
<1> DEFINE R == result_dirs(call)
           first == Head(todo)
           report == IF call.tool = "versions" THEN summarize_result(first, dir, summary)
                     ELSE [result_dir |-> first, case |-> summary, dir |-> dir]
           k == Len(done)
           h == Len(todo)
           m == Len(R)
<1>1. /\ pc = "analyse" /\ step = "returned" /\ step' = "idle"
      /\ done' = Append(done, report) /\ todo' = Tail(todo)
      /\ call' = call /\ pc' = pc /\ reports' = reports /\ status' = status
  BY DEF Returned
<1>2. TurnInv /\ DoneInv /\ call \in Calls /\ NoneMissing
  BY <1>1 DEF CallInv, TurnInv
<1>3. /\ todo # <<>> /\ dir = Current /\ IsSequence(todo) /\ IsSequence(done)
      /\ call.tool = "versions" => Acceptable(dir)
  BY <1>1, <1>2 DEF TurnInv, DoneInv
<1>4. /\ IsSequence(R)
      /\ \A i, j \in DOMAIN R : Resolve(R[i]) = Resolve(R[j]) => i = j
  BY <1>2, CallIs DEF NoneMissing
<1>5. /\ k \in Nat /\ DOMAIN done = 1 .. k
      /\ h \in Nat /\ h # 0 /\ DOMAIN todo = 1 .. h
      /\ m \in Nat /\ DOMAIN R = 1 .. m /\ k + h = m
  BY <1>2, <1>3, <1>4, SequenceIs DEF TurnInv
<1>6. first = todo[1] /\ first = R[k + 1] /\ k + 1 \in DOMAIN R
  <2>1. first = todo[1]
    BY <1>3, TailIsSequence
  <2> QED BY <1>2, <1>5, <2>1 DEF TurnInv
<1>7. /\ report.result_dir = first /\ report.dir = dir /\ report.case = summary
      /\ call.tool = "versions" =>
           /\ report.version = infer_version(dir) /\ report.stalls = summary.stalls
           /\ report.lengths = event_lengths(summary.affected)
           /\ report.events = Len(report.lengths)
           /\ report.fastMedian = sample_fast_median(dir, summary.affected)
  BY DEF summarize_result
<1> HIDE DEF report
<1>8. Analysed(report)
  <2>1. report.result_dir \in ToSet(R)
    BY <1>6, <1>7 DEF ToSet
  <2>2. report.dir = call.tree.dir[Resolve(report.result_dir)]
    BY <1>3, <1>7 DEF Current
  <2>3. ASSUME call.tool = "versions"
        PROVE  \E places \in SUBSET DOMAIN report.dir.times :
                 report.case.affected = Chosen(report.dir.times, places)
    BY <1>1, <1>7, StallsOfSummary
  <2>4. report.case.affected = summary.affected /\ summary.stalls = Len(summary.affected)
    BY <1>1, <1>7, StallsOfSummary
  <2> QED BY <1>3, <1>7, <2>1, <2>2, <2>3, <2>4 DEF Analysed
<1>9. /\ IsSequence(done') /\ Len(done') = k + 1 /\ DOMAIN done' = 1 .. k + 1
      /\ \A i \in 1 .. k : done'[i] = done[i]
      /\ done'[k + 1] = report
  BY <1>1, <1>3, AppendIsSequence, SequenceIs
<1>10. /\ IsSequence(todo') /\ Len(todo') = h - 1 /\ DOMAIN todo' = 1 .. h - 1
       /\ \A i \in 1 .. h - 1 : todo'[i] = todo[i + 1]
  BY <1>1, <1>3, TailIsSequence, SequenceIs
<1>11. R' = R /\ (NoneMissing' <=> NoneMissing) /\ \A r : Analysed(r)' <=> Analysed(r)
  BY <1>1, SameCall
<1> HIDE DEF R, k, h, m, first
<1>12. \A i \in 1 .. k + 1 : done'[i].result_dir = R[i]
  <2>1. \A i \in 1 .. k : done[i].result_dir = R[i]
    BY <1>2, <1>5 DEF TurnInv, R
  <2>2. \A i \in 1 .. k + 1 : i \in 1 .. k \/ i = k + 1
    BY <1>5
  <2> QED BY <1>6, <1>7, <1>9, <2>1, <2>2
<1>13. DoneInv'
  <2>1. (\A i \in DOMAIN done : Analysed(done[i]))'
    <3>1. \A i \in 1 .. k : Analysed(done[i])
      BY <1>2, <1>5 DEF DoneInv
    <3>2. \A i \in 1 .. k + 1 : i \in 1 .. k \/ i = k + 1
      BY <1>5
    <3>3. \A i \in 1 .. k + 1 : Analysed(done'[i])
      BY <1>8, <1>9, <3>1, <3>2
    <3>4. \A i \in 1 .. k + 1 : Analysed(done[i])'
      <4> SUFFICES ASSUME NEW i \in 1 .. k + 1 PROVE Analysed(done[i])'
        OBVIOUS
      <4>1. Analysed(done'[i])
        BY <3>3
      <4> QED BY <1>1, <4>1 DEF Analysed
    <3> QED BY <1>9, <3>4
  <2>2. \A i, j \in DOMAIN done' : Resolve(done'[i].result_dir) = Resolve(done'[j].result_dir) => i = j
    BY <1>4, <1>5, <1>6, <1>9, <1>12 DEF R
  <2> QED BY <1>9, <2>1, <2>2 DEF DoneInv
<1>14. TurnInv'
  <2>1. Len(done') + Len(todo') = m
    BY <1>5, <1>9, <1>10
  <2>2. \A i \in DOMAIN todo' : todo'[i] = R[Len(done') + i]
    <3> SUFFICES ASSUME NEW i \in DOMAIN todo' PROVE todo'[i] = R[Len(done') + i]
      OBVIOUS
    <3>1. k \in Nat /\ h \in Nat /\ i \in 1 .. h - 1
      BY <1>5, <1>10
    <3>2. i + 1 \in 1 .. h /\ (k + 1) + i = k + (i + 1)
      BY <3>1
    <3>3. todo[i + 1] = R[k + (i + 1)]
      BY <1>2, <1>5, <3>2 DEF TurnInv, R, k
    <3> QED BY <1>9, <1>10, <3>1, <3>2, <3>3
  <2> QED BY <1>1, <1>2, <1>9, <1>10, <1>11, <1>12, <2>1, <2>2 DEF TurnInv, R, m
<1>15. CaseInv'
  BY <1>1 DEF CaseInv, Reading
<1>16. CallInv'
  <2>1. \A i \in 1 .. 3 : reports'[i] = "old"
    BY <1>1 DEF CallInv
  <2>2. ~\E i \in 1 .. 3 : reports'[i] = "new"
    BY <2>1
  <2>3. reports' \in [1 .. 3 -> {"old", "new"}] /\ status' = 0
    BY <1>1 DEF CallInv
  <2> QED BY <1>1, <1>2, <1>11, <1>13, <1>14, <2>1, <2>2, <2>3, Zenon DEF CallInv
<1> QED BY <1>15, <1>16

\* A directory that cannot be analysed ends the call, with nothing written.
LEMMA RaisedKeeps ==
  ASSUME CallInv, CaseInv, Raised
  PROVE  CallInv' /\ CaseInv'
<1>1. Fail /\ UNCHANGED caseVars
  BY DEF Raised
<1> QED BY <1>1, FailKeeps, RestKeeps

\* A function from 1 .. n that takes as many values takes each of them once.
LEMMA AsManyValues ==
  ASSUME NEW n \in Nat, NEW f, DOMAIN f = 1 .. n, ~(Cardinality({f[i] : i \in 1 .. n}) < n)
  PROVE  \A i, j \in 1 .. n : f[i] = f[j] => i = j
<1> DEFINE D == 1 .. n
           T == {f[i] : i \in D}
           g == [i \in D |-> f[i]]
<1>1. g \in Surjection(D, T)
  BY DEF Surjection
<1>2. IsFiniteSet(D) /\ Cardinality(D) = n
  BY FS_Interval
<1>3. /\ IsFiniteSet(T) /\ Cardinality(T) <= n
      /\ Cardinality(T) = n <=> g \in Injection(D, T)
  <2> HIDE DEF D, T, g
  <2>1. /\ IsFiniteSet(T) /\ Cardinality(T) <= Cardinality(D)
        /\ Cardinality(T) = Cardinality(D) <=> g \in Injection(D, T)
    BY <1>1, <1>2, FS_Surjection
  <2> QED BY <1>2, <2>1
<1>4. Cardinality(T) \in Nat
  BY <1>3, FS_CardinalityType
<1>5. Cardinality(T) = n
  <2>1. ~(Cardinality(T) < n)
    OBVIOUS
  <2> HIDE DEF T
  <2> QED BY <1>3, <1>4, <2>1
<1>6. g \in Injection(D, T)
  BY <1>3, <1>5
<1> QED BY <1>6 DEF Injection, IsInjective

VersionsAssumed ==
  /\ DOMAIN VERSION_ORDER = 1 .. 3 /\ Len(VERSION_ORDER) = 3
  /\ \A v, w \in 1 .. 3 : VERSION_ORDER[v] = VERSION_ORDER[w] => v = w
  /\ \A version \in DOMAIN EXPECTED_CODES : \E v \in 1 .. 3 : VERSION_ORDER[v] = version

\* The versions of the comparison are three, each with a code.
LEMMA TheVersions == VersionsAssumed
BY DEF VersionsAssumed, VERSION_ORDER, EXPECTED_CODES

\* Once all are done, each of them is taken, in the order of the versions.
LEMMA CollectedKeeps ==
  ASSUME CallInv, CaseInv, Collected
  PROVE  CallInv' /\ CaseInv'
<1> DEFINE R == result_dirs(call)
           n == Len(done)
           Of(version) == CHOOSE s \in ToSet(done) : s.version = version
<1>1. /\ pc = "analyse" /\ todo = <<>> /\ UNCHANGED caseVars /\ TurnInv /\ DoneInv
      /\ call \in Calls /\ NoneMissing
  BY DEF Collected, CallInv, TurnInv
<1>2. CaseInv'
  BY <1>1, RestKeeps
<1>3. IsSequence(done) /\ n \in Nat /\ DOMAIN done = 1 .. n
  BY <1>1, SequenceIs DEF DoneInv
<1>4. AllDone
  <2>1. IsSequence(R)
    BY <1>1, CallIs DEF NoneMissing
  <2>2. Len(todo) = 0 /\ Len(R) = n /\ DOMAIN R = 1 .. n
    BY <1>1, <1>3, <2>1, SequenceIs DEF TurnInv
  <2>3. \A i \in 1 .. n : done[i].result_dir = R[i]
    BY <1>1, <1>3 DEF TurnInv
  <2> QED BY <1>3, <2>2, <2>3 DEF AllDone, ToSet
<1>5. CASE Fail
  BY <1>2, <1>5, FailKeeps
<1>6. ASSUME call' = call, pc' = "write", reports' = reports, status' = status,
             DoneInv', AllDone',
             (call.tool = "versions" => [i \in DOMAIN done |-> done[i].version] = VERSION_ORDER)'
      PROVE  CallInv'
  <2>1. NoneMissing'
    BY <1>1, <1>6, SameCall
  <2>2. reports' \in [1 .. 3 -> {"old", "new"}] /\ status' = 0 /\ call' \in Calls
    BY <1>1, <1>6 DEF CallInv
  <2> QED BY <1>6, <2>1, <2>2, Zenon DEF CallInv
<1>7. CASE ~Fail /\ call.tool = "stalls"
  <2>1. pc' = "write" /\ UNCHANGED <<call, todo, done, reports, status>>
    BY <1>7 DEF Collected
  <2>2. DoneInv' /\ AllDone'
    BY <1>1, <1>4, <2>1, SameCall
  <2> QED BY <1>2, <1>6, <1>7, <2>1, <2>2
<1>8. CASE ~Fail /\ call.tool # "stalls"
  <2>1. /\ ~(Cardinality(Versions) < n) /\ ToSet(VERSION_ORDER) \subseteq Versions
        /\ done' = [v \in 1 .. 3 |-> Of(VERSION_ORDER[v])]
        /\ pc' = "write" /\ UNCHANGED <<call, todo, reports, status>>
    BY <1>8, TheVersions DEF Collected, VersionsAssumed
  <2>2. call.tool = "versions"
    BY <1>1, <1>8, CallIs DEF NoneMissing
  <2>3. \A i, j \in 1 .. n : done[i].version = done[j].version => i = j
    <3> DEFINE version == [i \in 1 .. n |-> done[i].version]
    <3>1. {version[i] : i \in 1 .. n} = Versions
      BY <1>3 DEF Versions
    <3>2. ~(Cardinality({version[i] : i \in 1 .. n}) < n) /\ DOMAIN version = 1 .. n
      BY <2>1, <3>1
    <3>3. \A i, j \in 1 .. n : version[i] = version[j] => i = j
      <4> HIDE DEF version, n
      <4> QED BY <1>3, <3>2, AsManyValues
    <3> QED BY <3>3
  <2>4. \A v \in 1 .. 3 : \E i \in 1 .. n : done[i].version = VERSION_ORDER[v]
    <3> SUFFICES ASSUME NEW v \in 1 .. 3 PROVE \E i \in 1 .. n : done[i].version = VERSION_ORDER[v]
      OBVIOUS
    <3>1. VERSION_ORDER[v] \in ToSet(VERSION_ORDER)
      BY TheVersions DEF ToSet, VersionsAssumed
    <3> QED BY <1>3, <2>1, <3>1 DEF Versions
  <2>5. \A i \in 1 .. n : \E v \in 1 .. 3 : done[i].version = VERSION_ORDER[v]
    <3> SUFFICES ASSUME NEW i \in 1 .. n PROVE \E v \in 1 .. 3 : done[i].version = VERSION_ORDER[v]
      OBVIOUS
    <3>1. Analysed(done[i])
      BY <1>1, <1>3 DEF DoneInv
    <3>2. done[i].version \in DOMAIN EXPECTED_CODES
      BY <2>2, <3>1 DEF Analysed, Acceptable, validate_payload
    <3> QED BY <3>2, TheVersions DEF VersionsAssumed
  <2>6. \A v \in 1 .. 3, i \in 1 .. n : done[i].version = VERSION_ORDER[v] => done'[v] = done[i]
    <3> SUFFICES ASSUME NEW v \in 1 .. 3, NEW i \in 1 .. n, done[i].version = VERSION_ORDER[v]
                 PROVE  done'[v] = done[i]
      OBVIOUS
    <3>1. done[i] \in ToSet(done)
      BY <1>3 DEF ToSet
    <3>2. \A s \in ToSet(done) : s.version = VERSION_ORDER[v] => s = done[i]
      BY <1>3, <2>3 DEF ToSet
    <3>3. Of(VERSION_ORDER[v]) = done[i]
      BY <3>1, <3>2
    <3> QED BY <2>1, <3>3
  <2>7. DOMAIN done' = 1 .. 3 /\ IsSequence(done')
    <3>1. DOMAIN done' = 1 .. 3 /\ done' = [v \in 1 .. 3 |-> done'[v]]
      BY <2>1
    <3> QED BY <3>1, FunctionIsSequence
  <2>8. DoneInv'
    <3>1. (\A v \in DOMAIN done : Analysed(done[v]))'
      <4> SUFFICES ASSUME NEW v \in 1 .. 3 PROVE Analysed(done[v])'
        BY <2>7
      <4>1. PICK i \in 1 .. n : done[i].version = VERSION_ORDER[v]
        BY <2>4
      <4>2. Analysed(done[i]) /\ done'[v] = done[i]
        BY <1>1, <1>3, <2>6, <4>1 DEF DoneInv
      <4>3. Analysed(done'[v])
        BY <4>2
      <4> QED BY <2>1, <4>3 DEF Analysed
    <3>2. ASSUME NEW v \in 1 .. 3, NEW w \in 1 .. 3,
                 Resolve(done'[v].result_dir) = Resolve(done'[w].result_dir)
          PROVE  v = w
      <4>1. PICK i \in 1 .. n : done[i].version = VERSION_ORDER[v]
        BY <2>4
      <4>2. PICK j \in 1 .. n : done[j].version = VERSION_ORDER[w]
        BY <2>4
      <4>3. done'[v] = done[i] /\ done'[w] = done[j]
        BY <2>6, <4>1, <4>2
      <4>4. i = j
        BY <1>1, <1>3, <3>2, <4>3 DEF DoneInv
      <4> QED BY <4>1, <4>2, <4>4, TheVersions DEF VersionsAssumed
    <3> QED BY <2>7, <3>1, <3>2 DEF DoneInv
  <2>9. AllDone'
    <3>1. {Resolve(done'[v].result_dir) : v \in 1 .. 3} = {Resolve(done[i].result_dir) : i \in 1 .. n}
      BY <2>4, <2>5, <2>6
    <3> QED BY <1>3, <1>4, <2>1, <2>7, <3>1 DEF AllDone
  <2>10. (call.tool = "versions" => [i \in DOMAIN done |-> done[i].version] = VERSION_ORDER)'
    <3>1. \A v \in 1 .. 3 : done'[v].version = VERSION_ORDER[v]
      BY <2>4, <2>6
    <3>2. VERSION_ORDER = [v \in 1 .. 3 |-> VERSION_ORDER[v]]
      BY DEF VERSION_ORDER
    <3> QED BY <2>7, <3>1, <3>2
  <2> QED BY <1>2, <1>6, <2>1, <2>8, <2>9, <2>10
<1> QED BY <1>5, <1>7, <1>8

\* The reports are written in turn, when all is done.
LEMMA WriteReportKeeps ==
  ASSUME CallInv, CaseInv, WriteReport
  PROVE  CallInv' /\ CaseInv'
<1>1. pc = "write" /\ UNCHANGED caseVars /\ DoneInv /\ AllDone /\ (done = <<>> \/ NoneMissing)
      /\ reports \in [1 .. 3 -> {"old", "new"}] /\ status = 0 /\ call \in Calls
  BY DEF WriteReport, CallInv
<1>2. CaseInv'
  BY <1>1, RestKeeps
<1>3. CASE Fail
  BY <1>2, <1>3, FailKeeps
<1>4. CASE ~Fail
  <2>1. PICK i \in DOMAIN reports :
          /\ reports[i] = "old" /\ \A j \in 1 .. i - 1 : reports[j] = "new"
          /\ reports' = [reports EXCEPT ![i] = "new"]
          /\ pc' = IF i = Len(reports) THEN "exited" ELSE "write"
          /\ UNCHANGED <<call, todo, done, status>>
    BY <1>4 DEF WriteReport
  <2>2. i \in 1 .. 3 /\ Len(reports) = 3
    <3>1. reports = [k \in 1 .. 3 |-> reports[k]]
      BY <1>1
    <3> QED BY <1>1, <3>1, FunctionIsSequence
  <2>3. reports' \in [1 .. 3 -> {"old", "new"}] /\ pc' \in {"write", "exited"}
    BY <1>1, <2>1, <2>2
  <2>4. pc' = "exited" => \A k \in 1 .. 3 : reports'[k] = "new"
    <3> SUFFICES ASSUME pc' = "exited", NEW k \in 1 .. 3 PROVE reports'[k] = "new"
      OBVIOUS
    <3>1. i = 3 /\ (k = 3 \/ k \in 1 .. i - 1)
      BY <2>1, <2>2
    <3> QED BY <1>1, <2>1, <3>1
  <2>5. DoneInv' /\ AllDone' /\ (done = <<>> \/ NoneMissing)'
    BY <1>1, <2>1, SameCall
  <2>6. (call.tool = "versions" => [v \in DOMAIN done |-> done[v].version] = VERSION_ORDER)'
    BY <1>1, <2>1 DEF CallInv
  <2>7. call' \in Calls /\ status' = 0
    BY <1>1, <2>1
  <2>8. CallInv'
    <3>1. CASE pc' = "write"
      BY <2>3, <2>5, <2>6, <2>7, <3>1, Zenon DEF CallInv
    <3>2. CASE pc' = "exited"
      BY <2>3, <2>4, <2>5, <2>7, <3>2, Zenon DEF CallInv
    <3> QED BY <2>3, <3>1, <3>2
  <2> QED BY <1>2, <2>8
<1> QED BY <1>3, <1>4

\* At every step of analyze_case what is gathered is what the rows read so far
\* give, and main analyses the directories of its call in turn, each once, and
\* writes nothing before it has done so.
THEOREM StallInvHolds == Spec => []StallInv
<1>1. ToolsInit => StallInv
  <2> SUFFICES ASSUME ToolsInit PROVE StallInv
    OBVIOUS
  <2>1. /\ step = "idle" /\ call \in Calls /\ pc = "find" /\ todo = <<>> /\ done = <<>>
        /\ reports = [i \in 1 .. 3 |-> "old"] /\ status = 0
    BY DEF ToolsInit, Init
  <2>2. CaseInv
    BY <2>1 DEF CaseInv, Reading
  <2>3. DoneInv
    <3>1. IsSequence(done) /\ DOMAIN done = {}
      BY <2>1, EmptyIsSequence
    <3> QED BY <3>1 DEF DoneInv
  <2>4. ~\E i \in 1 .. 3 : reports[i] = "new"
    BY <2>1
  <2>5. reports \in [1 .. 3 -> {"old", "new"}] /\ \A i \in 1 .. 3 : reports[i] = "old"
    BY <2>1
  <2>6. CallInv
    BY <2>1, <2>3, <2>4, <2>5, Zenon DEF CallInv
  <2> QED BY <2>2, <2>6 DEF StallInv
<1>2. StallInv /\ [Next]_vars => StallInv'
  <2> SUFFICES ASSUME CaseInv, CallInv, [Next]_vars PROVE CaseInv' /\ CallInv'
    BY DEF StallInv
  <2>1. CASE Find
    BY <2>1, FindKeeps, RestKeeps
  <2>2. CASE CallAnalyse
    BY <2>2, CallAnalyseKeeps
  <2>3. CASE InAnalyse
    BY <2>3, InAnalyseKeeps
  <2>4. CASE Returned
    BY <2>4, ReturnedKeeps
  <2>5. CASE Raised
    BY <2>5, RaisedKeeps
  <2>6. CASE Collected
    BY <2>6, CollectedKeeps
  <2>7. CASE WriteReport
    BY <2>7, WriteReportKeeps
  <2>8. CASE UNCHANGED vars
    <3>1. UNCHANGED caseVars /\ UNCHANGED <<call, pc, todo, done, reports, status, step, dir>>
      BY <2>8 DEF vars, caseVars
    <3>2. CaseInv'
      BY <3>1, RestKeeps
    <3>3. /\ (NoneMissing' <=> NoneMissing) /\ (DoneInv' <=> DoneInv) /\ (AllDone' <=> AllDone)
      BY <3>1, SameCall
    <3>4. TurnInv' <=> TurnInv
      BY <3>1, <3>3 DEF TurnInv, Current, Acceptable
    <3>5. CallInv'
      BY <3>1, <3>3, <3>4 DEF CallInv
    <3> QED BY <3>2, <3>5
  <2>9. CASE Terminating
    BY <2>8, <2>9 DEF Terminating
  <2> QED BY <2>1, <2>2, <2>3, <2>4, <2>5, <2>6, <2>7, <2>8, <2>9 DEF Next
<1> QED BY <1>1, <1>2, PTL DEF Spec

\* A call that succeeds has reported on every directory it was given, each once
\* though two paths lead to it, in all three files; nothing is written before
\* (the list comprehension of main, write_outputs).
THEOREM ReportsOnAllOrNone == Spec => []AllOrNoReport
<1>1. StallInv => AllOrNoReport
  <2> SUFFICES ASSUME CallInv PROVE AllOrNoReport
    BY DEF StallInv
  <2>1. DOMAIN reports = 1 .. 3
    BY DEF CallInv
  <2>2. \A i, j \in DOMAIN done :
          Resolve(done[i].result_dir) = Resolve(done[j].result_dir) => i = j
    BY DEF CallInv, DoneInv
  <2>3. (\E i \in DOMAIN reports : reports[i] = "new") => AllDone
    BY <2>1 DEF CallInv
  <2>4. pc = "exited" /\ status = 0 => \A i \in DOMAIN reports : reports[i] = "new"
    BY <2>1 DEF CallInv
  <2> QED BY <2>2, <2>3, <2>4 DEF AllOrNoReport, AllDone
<1> QED BY <1>1, StallInvHolds, PTL

\* compare_rccl_versions.py compares one conservative RCCL run of each version,
\* in the order of the versions, with no result of another version or library
\* among them (validate_payload, validate_complete_matrix).
THEOREM MatrixIsWhole == Spec => []MatrixIsComplete
<1>1. StallInv => MatrixIsComplete
  <2> SUFFICES ASSUME CallInv, call.tool = "versions", pc = "write"
               PROVE  /\ [i \in DOMAIN done |-> done[i].version] = VERSION_ORDER
                      /\ {done[i].dir : i \in DOMAIN done} =
                           {call.tree.dir[Resolve(p)] : p \in ToSet(result_dirs(call))}
                      /\ \A i \in DOMAIN done :
                           /\ done[i].dir.observed \in {"", EXPECTED_CODES[VERSION_ORDER[i]]}
                           /\ \A r \in ToSet(done[i].dir.results) :
                                r.rccl /\ r.conservative /\ r.version[2] \in {"", VERSION_ORDER[i]}
    BY DEF StallInv, MatrixIsComplete
  <2>1. [i \in DOMAIN done |-> done[i].version] = VERSION_ORDER /\ AllDone /\ DoneInv
    BY DEF CallInv
  <2>2. \A i \in DOMAIN done : /\ Analysed(done[i]) /\ done[i].version = VERSION_ORDER[i]
                               /\ done[i].dir = call.tree.dir[Resolve(done[i].result_dir)]
    BY <2>1 DEF DoneInv, Analysed
  <2>3. {done[i].dir : i \in DOMAIN done} =
          {call.tree.dir[Resolve(p)] : p \in ToSet(result_dirs(call))}
    <3> DEFINE Reached == {Resolve(p) : p \in ToSet(result_dirs(call))}
    <3>1. {done[i].dir : i \in DOMAIN done} =
            {call.tree.dir[q] : q \in {Resolve(done[i].result_dir) : i \in DOMAIN done}}
      BY <2>2
    <3>2. {call.tree.dir[q] : q \in Reached} =
            {call.tree.dir[Resolve(p)] : p \in ToSet(result_dirs(call))}
      OBVIOUS
    <3>3. {Resolve(done[i].result_dir) : i \in DOMAIN done} = Reached
      BY <2>1 DEF AllDone
    <3> QED BY <3>1, <3>2, <3>3
  <2>4. ASSUME NEW i \in DOMAIN done
        PROVE  /\ done[i].dir.observed \in {"", EXPECTED_CODES[VERSION_ORDER[i]]}
               /\ \A r \in ToSet(done[i].dir.results) :
                    r.rccl /\ r.conservative /\ r.version[2] \in {"", VERSION_ORDER[i]}
    <3>1. validate_payload(done[i].dir, VERSION_ORDER[i])
      BY <2>2 DEF Analysed, Acceptable
    <3> QED BY <3>1 DEF validate_payload, ToSet, normalize_rocm
  <2> QED BY <2>1, <2>3, <2>4
<1> QED BY <1>1, StallInvHolds, PTL

-----------------------------------------------------------------------------
(* Lists: sequences without repetition. *)

\* s has each element of S, at one place.
Lists(s, S) ==
  /\ IsSequence(s) /\ ToSet(s) = S
  /\ \A i, j \in 1 .. Len(s) : s[i] = s[j] => i = j

\* What a list of a set is.
LEMMA ListIs ==
  ASSUME NEW s, NEW S, Lists(s, S)
  PROVE  /\ IsSequence(s) /\ DOMAIN s = 1 .. Len(s) /\ Len(s) \in Nat
         /\ \A i \in 1 .. Len(s) : s[i] \in S
         /\ \A x \in S : \E i \in 1 .. Len(s) : s[i] = x
         /\ \A i, j \in 1 .. Len(s) : s[i] = s[j] => i = j
BY SequenceIs DEF Lists, ToSet

\* f tells the elements of S apart.
Separates(f, S) == S \subseteq DOMAIN f /\ \A x, y \in S : f[x] = f[y] => x = y

\* The same places hold the values of f.
LEMMA ListsValues ==
  ASSUME NEW s, NEW S, Lists(s, S), NEW f, Separates(f, S)
  PROVE  Lists([i \in DOMAIN s |-> f[s[i]]], {f[x] : x \in S})
<1> DEFINE t == [i \in DOMAIN s |-> f[s[i]]]
           n == Len(s)
<1>1. /\ n \in Nat /\ DOMAIN s = 1 .. n /\ \A i \in 1 .. n : s[i] \in S
      /\ \A x \in S : \E i \in 1 .. n : s[i] = x
      /\ \A i, j \in 1 .. n : s[i] = s[j] => i = j
  BY ListIs
<1>2. DOMAIN t = 1 .. n /\ \A i \in 1 .. n : t[i] = f[s[i]]
  BY <1>1
<1> HIDE DEF t, n
<1>3. t = [i \in 1 .. n |-> t[i]]
  BY <1>2 DEF t
<1>4. IsSequence(t) /\ Len(t) = n
  BY <1>1, <1>3, FunctionIsSequence
<1>5. ToSet(t) = {f[x] : x \in S}
  <2>1. \A y \in ToSet(t) : y \in {f[x] : x \in S}
    BY <1>1, <1>2 DEF ToSet
  <2>2. \A x \in S : f[x] \in ToSet(t)
    <3> SUFFICES ASSUME NEW x \in S PROVE f[x] \in ToSet(t)
      OBVIOUS
    <3>1. PICK i \in 1 .. n : s[i] = x
      BY <1>1
    <3> QED BY <1>2, <3>1 DEF ToSet
  <2> QED BY <2>1, <2>2
<1>6. \A i, j \in 1 .. n : t[i] = t[j] => i = j
  BY <1>1, <1>2 DEF Separates
<1>7. Lists(t, {f[x] : x \in S})
  BY <1>4, <1>5, <1>6 DEF Lists
<1> QED BY <1>7 DEF t

\* Lists of disjoint sets, one after the other.
LEMMA ListsJoined ==
  ASSUME NEW seqs, IsSequence(seqs), NEW sets,
         \A k \in DOMAIN seqs : Lists(seqs[k], sets[k]),
         \A k, l \in DOMAIN seqs : k # l => sets[k] \cap sets[l] = {}
  PROVE  Lists(FlattenSeq(seqs), UNION {sets[k] : k \in DOMAIN seqs})
<1> DEFINE flat == FlattenSeq(seqs)
<1>1. \A k \in DOMAIN seqs :
        /\ IsSequence(seqs[k]) /\ ToSet(seqs[k]) = sets[k]
        /\ DOMAIN seqs[k] = 1 .. Len(seqs[k])
        /\ \A i \in DOMAIN seqs[k] : seqs[k][i] \in sets[k]
        /\ \A i, j \in DOMAIN seqs[k] : seqs[k][i] = seqs[k][j] => i = j
  <2> SUFFICES ASSUME NEW k \in DOMAIN seqs
               PROVE  /\ IsSequence(seqs[k]) /\ ToSet(seqs[k]) = sets[k]
                      /\ DOMAIN seqs[k] = 1 .. Len(seqs[k])
                      /\ \A i \in DOMAIN seqs[k] : seqs[k][i] \in sets[k]
                      /\ \A i, j \in DOMAIN seqs[k] : seqs[k][i] = seqs[k][j] => i = j
    OBVIOUS
  <2> DEFINE s == seqs[k]
             S == sets[k]
  <2>1. Lists(s, S)
    OBVIOUS
  <2> HIDE DEF s, S
  <2>2. /\ IsSequence(s) /\ DOMAIN s = 1 .. Len(s) /\ \A i \in 1 .. Len(s) : s[i] \in S
        /\ \A i, j \in 1 .. Len(s) : s[i] = s[j] => i = j
    BY <2>1, ListIs
  <2>3. ToSet(s) = S
    BY <2>1 DEF Lists
  <2> QED BY <2>2, <2>3 DEF s, S
<1>2. \A n, m \in DOMAIN seqs : \A k \in DOMAIN seqs[n], l \in DOMAIN seqs[m] :
        seqs[n][k] = seqs[m][l] => n = m /\ k = l
  <2> SUFFICES ASSUME NEW n \in DOMAIN seqs, NEW m \in DOMAIN seqs,
                      NEW k \in DOMAIN seqs[n], NEW l \in DOMAIN seqs[m],
                      seqs[n][k] = seqs[m][l]
               PROVE  n = m /\ k = l
    OBVIOUS
  <2>1. seqs[n][k] \in sets[n] /\ seqs[n][k] \in sets[m]
    BY <1>1
  <2>2. n = m
    BY <2>1
  <2> QED BY <1>1, <2>2
<1>3. \A k \in DOMAIN seqs : IsSequence(seqs[k])
  BY <1>1
<1>4. IsSequence(flat) /\ ToSet(flat) = UNION {ToSet(seqs[k]) : k \in DOMAIN seqs}
  BY <1>3, FlattenIsSequence
<1>5. \A i, j \in 1 .. Len(flat) : flat[i] = flat[j] => i = j
  BY <1>2, <1>3, FlattenOf
<1>6. UNION {ToSet(seqs[k]) : k \in DOMAIN seqs} = UNION {sets[k] : k \in DOMAIN seqs}
  BY <1>1
<1> QED BY <1>4, <1>5, <1>6 DEF Lists

\* A list has as many places as there are elements.
LEMMA ListLength ==
  ASSUME NEW s, NEW S, Lists(s, S)
  PROVE  IsFiniteSet(S) /\ Cardinality(S) = Len(s)
<1>1. /\ Len(s) \in Nat /\ DOMAIN s = 1 .. Len(s) /\ \A i \in 1 .. Len(s) : s[i] \in S
      /\ \A x \in S : \E i \in 1 .. Len(s) : s[i] = x
      /\ \A i, j \in 1 .. Len(s) : s[i] = s[j] => i = j
      /\ s = [i \in 1 .. Len(s) |-> s[i]]
  BY ListIs, SequenceIs
<1>2. IsFiniteSet(1 .. Len(s)) /\ Cardinality(1 .. Len(s)) = Len(s)
  BY <1>1, FS_Interval
<1>3. s \in [1 .. Len(s) -> S]
  BY <1>1
<1>4. OneToOne(s, 1 .. Len(s), S)
  BY <1>1, <1>3 DEF OneToOne
<1> QED BY <1>2, <1>4, SameCount

\* The sample and the iteration can be read from where a record is.
LEMMA AtIs ==
  ASSUME NEW s \in Nat \X Nat, NEW i \in Nat
  PROVE  /\ SubSeq(Append(s, i), 1, 2) = s /\ Append(s, i)[3] = i
         /\ Append(s, i) \in Nat \X Nat \X Nat
<1> DEFINE t == <<s[1], s[2]>>
           a == <<s[1], s[2], i>>
<1>1. s = t /\ Len(t) = 2 /\ a \in Seq(Nat) /\ Len(a) = 3 /\ a \in Nat \X Nat \X Nat
      /\ t[1] = a[1] /\ t[2] = a[2] /\ a[3] = i
  OBVIOUS
<1>2. t = [k \in 1 .. 2 |-> t[k]] /\ a = [k \in 1 .. 3 |-> a[k]]
  OBVIOUS
<1> HIDE DEF t, a
<1>3. IsSequence(t) /\ IsSequence(a)
  BY <1>2, FunctionIsSequence
<1>4. Append(t, i) = a
  <2>1. /\ IsSequence(Append(t, i)) /\ Len(Append(t, i)) = Len(t) + 1
        /\ \A k \in 1 .. Len(t) : Append(t, i)[k] = t[k]
        /\ Append(t, i)[Len(t) + 1] = i
    BY <1>3, AppendIsSequence
  <2>2. Len(Append(t, i)) = 3 /\ \A k \in 1 .. 3 : Append(t, i)[k] = a[k]
    BY <1>1, <2>1
  <2> QED BY <1>1, <1>3, <2>1, <2>2, SameSequence
<1>5. SubSeq(a, 1, 2) = t
  <2> DEFINE b == SubSeq(a, 1, 2)
  <2>1. b \in Seq(Nat) /\ Len(b) = 2 /\ b[1] = a[1] /\ b[2] = a[2]
    <3>1. \A k \in 1 .. 2 : a[k] \in Nat
      BY <1>1
    <3>2. /\ SubSeq(a, 1, 2) \in Seq(Nat)
          /\ Len(SubSeq(a, 1, 2)) = IF 1 <= 2 THEN 2 - 1 + 1 ELSE 0
          /\ \A k \in 1 .. 2 - 1 + 1 : SubSeq(a, 1, 2)[k] = a[1 + k - 1]
      BY <3>1, SubSeqProperties
    <3> QED BY <3>2
  <2>2. b = [k \in 1 .. 2 |-> b[k]]
    BY <2>1
  <2> QED BY <1>1, <1>2, <2>1, <2>2
<1> QED BY <1>1, <1>4, <1>5

\* Numbers in their order are a list of them, as Ascending has it.
LEMMA AscendingLists ==
  ASSUME NEW S, IsFiniteSet(S), S \subseteq Int
  PROVE  Lists(Ascending(S), S)
<1> DEFINE a == Ascending(S)
           n == Cardinality(S)
<1>1. /\ n \in Nat /\ a \in [1 .. n -> S]
      /\ \A x \in S : \E i \in 1 .. n : a[i] = x
      /\ \A i, j \in 1 .. n : a[i] < a[j] <=> i < j
  BY AscendingIs
<1> HIDE DEF a, n
<1>2. a = [i \in 1 .. n |-> a[i]] /\ DOMAIN a = 1 .. n
  BY <1>1
<1>3. IsSequence(a) /\ Len(a) = n
  BY <1>1, <1>2, FunctionIsSequence
<1>4. ToSet(a) = S
  BY <1>1, <1>2 DEF ToSet
<1>5. ASSUME NEW i \in 1 .. n, NEW j \in 1 .. n, a[i] = a[j]
      PROVE  i = j
  <2>1. a[i] \in Int /\ a[j] \in Int
    BY <1>1
  <2>2. ~(a[i] < a[j]) /\ ~(a[j] < a[i])
    BY <1>5, <2>1
  <2> QED BY <1>1, <2>2
<1> QED BY <1>3, <1>4, <1>5 DEF Lists, a

\* And so are pairs, as Ordered has them.
LEMMA PairsLists ==
  ASSUME NEW S, IsFiniteSet(S), S \subseteq Int \X Int
  PROVE  Lists(Ordered(S, Precedes), S)
<1> DEFINE a == Ordered(S, Precedes)
           n == Cardinality(S)
<1>1. /\ n \in Nat /\ a \in [1 .. n -> S]
      /\ \A x \in S : \E i \in 1 .. n : a[i] = x
      /\ \A i, j \in 1 .. n : a[i] = a[j] => i = j
  <2>1. n \in Nat /\ a \in [1 .. n -> S]
    BY PairsAscend
  <2>2. \A x \in S : \E i \in 1 .. n : a[i] = x
    BY PairsAscend
  <2>3. \A i, j \in 1 .. n : a[i] = a[j] => i = j
    <3>1. \A i, j \in 1 .. n : /\ Precedes(a[i], a[j]) <=> i < j
                               /\ a[i] = a[j] => i = j
      BY PairsAscend
    <3> QED BY <3>1
  <2> QED BY <2>1, <2>2, <2>3
<1> HIDE DEF a, n
<1>2. a = [i \in 1 .. n |-> a[i]] /\ DOMAIN a = 1 .. n
  BY <1>1
<1>3. IsSequence(a) /\ Len(a) = n
  BY <1>1, <1>2, FunctionIsSequence
<1>4. ToSet(a) = S
  BY <1>1, <1>2 DEF ToSet
<1> QED BY <1>1, <1>3, <1>4 DEF Lists, a

\* And a set in whatever order, as SetToSeq has it.
LEMMA SetLists ==
  ASSUME NEW S, IsFiniteSet(S)
  PROVE  Lists(SetToSeq(S), S)
<1> DEFINE n == Cardinality(S)
           f == SetToSeq(S)
<1>1. n \in Nat /\ IsFiniteSet(1 .. n) /\ Cardinality(1 .. n) = n
  BY FS_CardinalityType, FS_Interval
<1>2. ExistsBijection(1 .. n, S)
  BY <1>1, FS_SameCardinalityBij
<1>3. \E g \in [1 .. n -> S] : IsInjective(g)
  BY <1>2 DEF ExistsBijection, Bijection, Injection
<1>4. f \in [1 .. n -> S] /\ IsInjective(f)
  BY <1>3 DEF SetToSeq
<1> HIDE DEF f, n
<1>5. f \in Injection(1 .. n, S)
  BY <1>4 DEF Injection
<1>6. f \in Surjection(1 .. n, S)
  <2>1. Cardinality(1 .. n) = Cardinality(S)
    BY <1>1 DEF n
  <2> QED BY <1>5, <2>1, FS_Injection
<1>7. f = [i \in 1 .. n |-> f[i]] /\ DOMAIN f = 1 .. n
  BY <1>4
<1>8. IsSequence(f) /\ Len(f) = n
  BY <1>1, <1>7, FunctionIsSequence
<1>9. ToSet(f) = S /\ \A i, j \in 1 .. n : f[i] = f[j] => i = j
  BY <1>4, <1>6, <1>7 DEF ToSet, IsInjective, Surjection
<1> QED BY <1>8, <1>9 DEF Lists, f

-----------------------------------------------------------------------------
(* The records of a job. *)

Ranks(job, s) == DOMAIN job.local[s][1]
Names(job, s) == DOMAIN job.local[s][1][0]

\* What the ranks of a job measured.
LEMMA JobIs ==
  ASSUME NEW job, IsJob(job)
  PROVE  /\ IsFiniteSet(DOMAIN job.local) /\ DOMAIN job.local \subseteq Nat \X Nat
         /\ job.recorded \in Int
         /\ \A s \in DOMAIN job.local :
              /\ IsFiniteSet(Ranks(job, s)) /\ Ranks(job, s) \subseteq Nat /\ 0 \in Ranks(job, s)
              /\ IsFiniteSet(Names(job, s)) /\ Names(job, s) \subseteq ToSet(PhaseColumns)
              /\ Len(job.local[s]) \in Nat \ {0} /\ DOMAIN job.local[s] = 1 .. Len(job.local[s])
              /\ \A i \in DOMAIN job.local[s] :
                   job.local[s][i] \in [Ranks(job, s) -> [Names(job, s) -> Nat]]
<1>1. /\ IsFiniteSet(DOMAIN job.local) /\ DOMAIN job.local \subseteq Nat \X Nat
      /\ job.recorded \in Int
  BY DEF IsJob
<1>2. IsFiniteSet(ToSet(PhaseColumns))
  <2> DEFINE columns == PhaseColumns
  <2>1. columns = [i \in 1 .. 15 |-> columns[i]]
    BY DEF PhaseColumns
  <2>2. DOMAIN columns = 1 .. 15
    BY <2>1
  <2>3. IsFiniteSet(1 .. 15)
    <3>1. \A n \in Nat : IsFiniteSet(1 .. n)
      BY FS_Interval
    <3> QED BY <3>1
  <2> HIDE DEF columns
  <2>4. columns \in Surjection(1 .. 15, ToSet(columns))
    BY <2>1, <2>2 DEF Surjection, ToSet
  <2> QED BY <2>3, <2>4, FS_Surjection DEF columns
<1>3. ASSUME NEW s \in DOMAIN job.local
      PROVE  /\ IsFiniteSet(Ranks(job, s)) /\ Ranks(job, s) \subseteq Nat /\ 0 \in Ranks(job, s)
             /\ IsFiniteSet(Names(job, s)) /\ Names(job, s) \subseteq ToSet(PhaseColumns)
             /\ Len(job.local[s]) \in Nat \ {0} /\ DOMAIN job.local[s] = 1 .. Len(job.local[s])
             /\ \A i \in DOMAIN job.local[s] :
                  job.local[s][i] \in [Ranks(job, s) -> [Names(job, s) -> Nat]]
  <2> DEFINE R == Ranks(job, s)
             P == Names(job, s)
             T == [R -> [P -> Nat]]
             l == job.local[s]
             c == Cardinality(R)
  <2>1. IsFiniteSet(R) /\ 0 \in R /\ R = 0 .. c - 1 /\ P \subseteq ToSet(PhaseColumns) /\ l \in Seq(T) /\ l # <<>>
    BY <1>3 DEF IsJob, Ranks, Names
  <2> HIDE DEF R, P, l, T, c
  <2>2. IsFiniteSet(P)
    BY <1>2, <2>1, FS_Subset
  <2>3. Len(l) \in Nat \ {0} /\ DOMAIN l = 1 .. Len(l) /\ \A i \in DOMAIN l : l[i] \in T
    BY <2>1
  <2>4. R \subseteq Nat
    <3>1. c \in Nat
      BY <2>1, FS_CardinalityType DEF c
    <3> QED BY <2>1, <3>1
  <2> QED BY <2>1, <2>2, <2>3, <2>4 DEF R, P, T, l
<1> QED BY <1>1, <1>3

\* A sum of natural numbers is one.
LEMMA SumIsNat ==
  ASSUME NEW S, IsFiniteSet(S), NEW f \in [S -> Nat]
  PROVE  SumFunction(f) \in Nat
<1>1. NumbersOn(f, S) /\ DOMAIN f = S
  BY DEF NumbersOn
<1>2. PICK sum : Adds(sum, f, S) /\ SumFunctionOnSet(f, S) = sum[S]
  BY <1>1, SumIs
<1> QED BY <1>1, <1>2 DEF Adds, SumFunction

\* MPI_MAXLOC gives the greatest value, and the lowest rank that has it.
LEMMA MaxLocIs ==
  ASSUME NEW R, IsFiniteSet(R), R \subseteq Nat, R # {}, NEW value \in [R -> Nat]
  PROVE  /\ MaxLoc(value).us \in Nat /\ MaxLoc(value).rank \in R
         /\ value[MaxLoc(value).rank] = MaxLoc(value).us
         /\ \A r \in R : value[r] <= MaxLoc(value).us
         /\ \A r \in R : value[r] = MaxLoc(value).us => MaxLoc(value).rank <= r
<1> DEFINE V == {value[r] : r \in DOMAIN value}
           m == Max(V)
           at == {r \in DOMAIN value : value[r] = m}
           l == Min(at)
<1>1. V \subseteq Nat /\ V # {} /\ IsFiniteSet(V) /\ DOMAIN value = R
  <2>1. DOMAIN value = R /\ V \subseteq Nat /\ V # {}
    OBVIOUS
  <2>2. value \in Surjection(R, V)
    BY DEF Surjection
  <2> QED BY <2>1, <2>2, FS_Surjection
<1>2. m \in V /\ \A x \in V : x <= m
  <2> HIDE DEF V
  <2>1. V \subseteq Int
    BY <1>1
  <2> QED BY <1>1, <2>1, ExtremesOf
<1> HIDE DEF m
<1>3. at \subseteq R /\ at # {} /\ IsFiniteSet(at)
  <2>1. at \subseteq R /\ at # {}
    BY <1>1, <1>2
  <2> HIDE DEF at
  <2> QED BY <2>1, FS_Subset
<1>4. l \in at /\ \A x \in at : l <= x
  <2> HIDE DEF at
  <2>1. at \subseteq Int
    BY <1>3
  <2> QED BY <1>3, <2>1, ExtremesOf
<1> HIDE DEF l
<1>5. MaxLoc(value).us = m /\ MaxLoc(value).rank = l
  BY DEF MaxLoc, m, l
<1> QED BY <1>1, <1>2, <1>3, <1>4, <1>5

\* The time of an iteration is that of its slowest rank.
LEMMA TotalIs ==
  ASSUME NEW job, IsJob(job), NEW s \in DOMAIN job.local, NEW i \in DOMAIN job.local[s]
  PROVE  /\ \A r \in Ranks(job, s) : LocalTotal(job, s, i, r) \in Nat
         /\ Total(job, s, i).us \in Nat /\ Total(job, s, i).rank \in Ranks(job, s)
         /\ LocalTotal(job, s, i, Total(job, s, i).rank) = Total(job, s, i).us
         /\ \A r \in Ranks(job, s) : LocalTotal(job, s, i, r) <= Total(job, s, i).us
<1> DEFINE R == Ranks(job, s)
           value == [r \in R |-> LocalTotal(job, s, i, r)]
<1>1. /\ IsFiniteSet(R) /\ R \subseteq Nat /\ R # {} /\ IsFiniteSet(Names(job, s))
      /\ job.local[s][i] \in [R -> [Names(job, s) -> Nat]]
  BY JobIs
<1>2. \A r \in R : LocalTotal(job, s, i, r) \in Nat
  BY <1>1, SumIsNat DEF LocalTotal
<1>3. value \in [R -> Nat]
  BY <1>2
<1>4. Total(job, s, i) = MaxLoc(value)
  <2>1. DOMAIN job.local[s][i] = R
    BY <1>1
  <2> QED BY <2>1 DEF Total
<1> HIDE DEF value
<1>5. /\ MaxLoc(value).us \in Nat /\ MaxLoc(value).rank \in R
      /\ value[MaxLoc(value).rank] = MaxLoc(value).us
      /\ \A r \in R : value[r] <= MaxLoc(value).us
  BY <1>1, <1>3, MaxLocIs
<1> QED BY <1>2, <1>4, <1>5 DEF value

TimeOf(job, s, i) ==
  [at |-> Append(s, i), us |-> Total(job, s, i).us, rank |-> Total(job, s, i).rank]

RowOf(job, s, i, r) ==
  [at |-> Append(s, i), rank |-> r, host |-> Host[r], row |-> Row[r], col |-> Col[r],
   us |-> LocalTotal(job, s, i, r),
   max |-> Total(job, s, i).us, maxRank |-> Total(job, s, i).rank,
   phase |-> job.local[s][i][r]]

\* The slowest rank of a phase of an iteration.
SlowestOf(job, s, i, name) == MaxLoc([r \in Ranks(job, s) |-> job.local[s][i][r][name]])

PhaseOf(job, s, i, name) ==
  [at |-> Append(s, i), name |-> name,
   us |-> SlowestOf(job, s, i, name).us, rank |-> SlowestOf(job, s, i, name).rank]

\* The iterations that are emitted are some of the job's.
LEMMA EmittedIs ==
  ASSUME NEW job, IsJob(job), NEW s \in DOMAIN job.local
  PROVE  /\ s \in Nat \X Nat /\ Emitted(job, s) \subseteq 1 .. Len(job.local[s])
         /\ Emitted(job, s) \subseteq DOMAIN job.local[s] /\ Emitted(job, s) \subseteq Nat
         /\ IsFiniteSet(Emitted(job, s)) /\ Lists(Ascending(Emitted(job, s)), Emitted(job, s))
<1>1. /\ s \in Nat \X Nat /\ Len(job.local[s]) \in Nat
      /\ DOMAIN job.local[s] = 1 .. Len(job.local[s])
  BY JobIs
<1>2. Emitted(job, s) \subseteq 1 .. Len(job.local[s])
  BY <1>1 DEF Emitted
<1>3. IsFiniteSet(1 .. Len(job.local[s]))
  <2>1. \A n \in Nat : IsFiniteSet(1 .. n)
    BY FS_Interval
  <2> QED BY <1>1, <2>1
<1>4. IsFiniteSet(Emitted(job, s))
  BY <1>2, <1>3, FS_Subset
<1>5. Emitted(job, s) \subseteq Nat /\ Emitted(job, s) \subseteq Int
  BY <1>2
<1>6. Lists(Ascending(Emitted(job, s)), Emitted(job, s))
  BY <1>4, <1>5, AscendingLists
<1> QED BY <1>1, <1>2, <1>4, <1>5, <1>6

\* The samples of a job, listed as the benchmark writes them.
LEMMA SamplesAre ==
  ASSUME NEW job, IsJob(job)
  PROVE  Lists(Samples(job), DOMAIN job.local)
<1>1. IsFiniteSet(DOMAIN job.local) /\ DOMAIN job.local \subseteq Int \X Int
  BY JobIs
<1> QED BY <1>1, PairsLists DEF Samples

\* f gives a record of each emitted iteration of sample s.
RecordsOf(job, s, f) ==
  DOMAIN f = Emitted(job, s) /\ \A i \in Emitted(job, s) : f[i].at = Append(s, i)

\* The same for each of some keys, the ranks or the phases.
RecordsByKey(job, s, F, keys) ==
  /\ DOMAIN F = keys /\ \A key \in keys : RecordsOf(job, s, F[key])
  /\ \A key, other \in keys : \A i, j \in Emitted(job, s) : F[key][i] = F[other][j] => key = other

\* The records of the emitted iterations of one sample.
LEMMA RecordsListed ==
  ASSUME NEW job, IsJob(job), NEW s \in DOMAIN job.local, NEW f, RecordsOf(job, s, f),
         NEW asc, asc = Ascending(Emitted(job, s))
  PROVE  Lists([k \in DOMAIN asc |-> f[asc[k]]], {f[i] : i \in Emitted(job, s)})
<1> DEFINE S == Emitted(job, s)
<1>1. Lists(asc, S) /\ s \in Nat \X Nat /\ S \subseteq Nat
  BY EmittedIs
<1>2. \A x, y \in S : f[x] = f[y] => x = y
  <2> SUFFICES ASSUME NEW x \in S, NEW y \in S, f[x] = f[y] PROVE x = y
    OBVIOUS
  <2>1. Append(s, x) = Append(s, y)
    BY DEF RecordsOf
  <2>2. Append(s, x)[3] = x /\ Append(s, y)[3] = y
    BY <1>1, AtIs
  <2> QED BY <2>1, <2>2
<1>3. Separates(f, S)
  BY <1>2 DEF Separates, RecordsOf
<1> QED BY <1>1, <1>3, ListsValues

\* Those of a sample key by key, each time iteration by iteration: the order of
\* the phase records and of the rows.
LEMMA RecordsOfKeys ==
  ASSUME NEW job, IsJob(job), NEW s \in DOMAIN job.local, NEW keys, NEW list, Lists(list, keys),
         NEW F, RecordsByKey(job, s, F, keys), NEW asc, asc = Ascending(Emitted(job, s))
  PROVE  Lists(FlattenSeq([r \in DOMAIN list |-> [k \in DOMAIN asc |-> F[list[r]][asc[k]]]]),
               UNION {{F[key][i] : i \in Emitted(job, s)} : key \in keys})
<1> DEFINE Of(key) == {F[key][i] : i \in Emitted(job, s)}
           seqs == [r \in DOMAIN list |-> [k \in DOMAIN asc |-> F[list[r]][asc[k]]]]
           sets == [r \in DOMAIN list |-> Of(list[r])]
<1>1. /\ IsSequence(list) /\ DOMAIN list = 1 .. Len(list) /\ Len(list) \in Nat
      /\ \A r \in DOMAIN list : list[r] \in keys
      /\ \A key \in keys : \E r \in DOMAIN list : list[r] = key
      /\ \A r, q \in DOMAIN list : list[r] = list[q] => r = q
  BY ListIs
<1>2. \A r \in DOMAIN list : Lists(seqs[r], sets[r])
  <2> SUFFICES ASSUME NEW r \in DOMAIN list PROVE Lists(seqs[r], sets[r])
    OBVIOUS
  <2> DEFINE f == F[list[r]]
  <2>1. RecordsOf(job, s, f)
    BY <1>1 DEF RecordsByKey
  <2>2. Lists([k \in DOMAIN asc |-> f[asc[k]]], {f[i] : i \in Emitted(job, s)})
    <3> HIDE DEF f
    <3> QED BY <2>1, RecordsListed
  <2> QED BY <2>2
<1>3. DOMAIN seqs = DOMAIN list /\ IsSequence(seqs)
  <2>1. DOMAIN seqs = DOMAIN list /\ seqs = [r \in 1 .. Len(list) |-> seqs[r]]
    BY <1>1
  <2> HIDE DEF seqs
  <2> QED BY <1>1, <2>1, FunctionIsSequence
<1>4. \A r, q \in DOMAIN list : r # q => sets[r] \cap sets[q] = {}
  BY <1>1 DEF RecordsByKey
<1>5. UNION {sets[r] : r \in DOMAIN list} = UNION {Of(key) : key \in keys}
  <2>1. \A r \in DOMAIN list : sets[r] = Of(list[r])
    OBVIOUS
  <2> HIDE DEF sets, Of
  <2> QED BY <1>1, <2>1
<1>6. Lists(FlattenSeq(seqs), UNION {sets[r] : r \in DOMAIN seqs})
  <2> HIDE DEF seqs, sets
  <2> QED BY <1>2, <1>3, <1>4, ListsJoined
<1> QED BY <1>3, <1>5, <1>6

\* The lists of the samples, and the sets they list.
SampleLists(job, lists, sets) ==
  /\ \A s \in DOMAIN job.local : Lists(lists[s], sets[s])
  /\ \A s \in DOMAIN job.local : \A x \in sets[s] : \E i \in Nat : x.at = Append(s, i)

\* Sample after sample gives the records of all of them.
LEMMA SamplesJoined ==
  ASSUME NEW job, IsJob(job), NEW lists, NEW sets, SampleLists(job, lists, sets)
  PROVE  Lists(FlattenSeq([n \in DOMAIN Samples(job) |-> lists[Samples(job)[n]]]),
               UNION {sets[s] : s \in DOMAIN job.local})
<1> DEFINE samples == Samples(job)
           seqs == [n \in DOMAIN samples |-> lists[samples[n]]]
           all == [n \in DOMAIN samples |-> sets[samples[n]]]
<1>1. /\ IsSequence(samples) /\ DOMAIN samples = 1 .. Len(samples) /\ Len(samples) \in Nat
      /\ \A n \in DOMAIN samples : samples[n] \in DOMAIN job.local
      /\ \A s \in DOMAIN job.local : \E n \in DOMAIN samples : samples[n] = s
      /\ \A n, m \in DOMAIN samples : samples[n] = samples[m] => n = m
  <2>1. Lists(samples, DOMAIN job.local)
    BY SamplesAre
  <2> HIDE DEF samples
  <2> QED BY <2>1, ListIs
<1> HIDE DEF samples
<1>2. \A n \in DOMAIN samples : Lists(seqs[n], all[n])
  BY <1>1 DEF SampleLists
<1>3. \A n, m \in DOMAIN samples : n # m => all[n] \cap all[m] = {}
  <2> SUFFICES ASSUME NEW n \in DOMAIN samples, NEW m \in DOMAIN samples, n # m,
                      NEW x, x \in sets[samples[n]], x \in sets[samples[m]]
               PROVE  FALSE
    OBVIOUS
  <2>1. PICK i \in Nat : x.at = Append(samples[n], i)
    BY <1>1 DEF SampleLists
  <2>2. PICK j \in Nat : x.at = Append(samples[m], j)
    BY <1>1 DEF SampleLists
  <2>3. samples[n] \in Nat \X Nat /\ samples[m] \in Nat \X Nat
    BY <1>1, EmittedIs
  <2>4. Append(samples[n], i) = Append(samples[m], j)
    BY <2>1, <2>2
  <2>5. /\ SubSeq(Append(samples[n], i), 1, 2) = samples[n]
        /\ SubSeq(Append(samples[m], j), 1, 2) = samples[m]
    BY <2>3, AtIs, Zenon
  <2>6. samples[n] = samples[m]
    BY <2>4, <2>5
  <2> QED BY <1>1, <2>6
<1>4. DOMAIN seqs = DOMAIN samples /\ IsSequence(seqs)
  <2>1. DOMAIN seqs = DOMAIN samples /\ seqs = [n \in 1 .. Len(samples) |-> seqs[n]]
    BY <1>1
  <2> HIDE DEF seqs
  <2> QED BY <1>1, <2>1, FunctionIsSequence
<1>5. UNION {all[n] : n \in DOMAIN samples} = UNION {sets[s] : s \in DOMAIN job.local}
  <2>1. \A n \in DOMAIN samples : all[n] = sets[samples[n]]
    OBVIOUS
  <2> HIDE DEF all
  <2> QED BY <1>1, <2>1
<1>6. Lists(FlattenSeq(seqs), UNION {all[n] : n \in DOMAIN seqs})
  <2> HIDE DEF seqs, all
  <2> QED BY <1>2, <1>3, <1>4, ListsJoined
<1> QED BY <1>4, <1>5, <1>6 DEF samples

\* iteration-times.csv has the emitted iterations, each once.
LEMMA TimesAre ==
  ASSUME NEW job, IsJob(job)
  PROVE  Lists(TimeRecords(job),
               UNION {{TimeOf(job, s, i) : i \in Emitted(job, s)} : s \in DOMAIN job.local})
<1> DEFINE asc(s) == Ascending(Emitted(job, s))
           f(s) == [i \in Emitted(job, s) |-> TimeOf(job, s, i)]
           lists == [s \in DOMAIN job.local |-> [k \in DOMAIN asc(s) |-> f(s)[asc(s)[k]]]]
           sets == [s \in DOMAIN job.local |-> {f(s)[i] : i \in Emitted(job, s)}]
<1>1. ASSUME NEW s \in DOMAIN job.local
      PROVE  /\ Lists(lists[s], sets[s]) /\ \A x \in sets[s] : \E i \in Nat : x.at = Append(s, i)
             /\ lists[s] = [k \in DOMAIN asc(s) |-> TimeOf(job, s, asc(s)[k])]
             /\ sets[s] = {TimeOf(job, s, i) : i \in Emitted(job, s)}
  <2> DEFINE g == f(s)
             a == asc(s)
  <2>1. RecordsOf(job, s, g)
    BY DEF RecordsOf, TimeOf
  <2>2. Lists([k \in DOMAIN a |-> g[a[k]]], {g[i] : i \in Emitted(job, s)})
    <3> HIDE DEF g
    <3> QED BY <2>1, RecordsListed
  <2>3. Emitted(job, s) \subseteq Nat /\ Lists(a, Emitted(job, s))
    BY EmittedIs
  <2>4. \A k \in DOMAIN a : a[k] \in Emitted(job, s)
    <3> HIDE DEF a
    <3> QED BY <2>3, ListIs
  <2>5. \A x \in sets[s] : \E i \in Nat : x.at = Append(s, i)
    BY <2>3 DEF TimeOf
  <2> QED BY <2>2, <2>4, <2>5
<1>2. TimeRecords(job) = FlattenSeq([n \in DOMAIN Samples(job) |-> lists[Samples(job)[n]]])
  <2>1. \A n \in DOMAIN Samples(job) : Samples(job)[n] \in DOMAIN job.local
    BY SamplesAre, ListIs
  <2>2. \A n \in DOMAIN Samples(job) : lists[Samples(job)[n]] =
          [k \in DOMAIN asc(Samples(job)[n]) |->
             TimeOf(job, Samples(job)[n], asc(Samples(job)[n])[k])]
    BY <1>1, <2>1
  <2> HIDE DEF lists
  <2> QED BY <2>2 DEF TimeRecords, TimeOf
<1>3. SampleLists(job, lists, sets)
  BY <1>1 DEF SampleLists
<1>4. UNION {sets[s] : s \in DOMAIN job.local} =
        UNION {{TimeOf(job, s, i) : i \in Emitted(job, s)} : s \in DOMAIN job.local}
  <2>1. \A s \in DOMAIN job.local : sets[s] = {TimeOf(job, s, i) : i \in Emitted(job, s)}
    BY <1>1
  <2> HIDE DEF sets
  <2> QED BY <2>1
<1> HIDE DEF lists, sets
<1> QED BY <1>2, <1>3, <1>4, SamplesJoined

\* stalled-rank-times.csv has a row of each rank for each of them.
LEMMA RowsAre ==
  ASSUME NEW job, IsJob(job)
  PROVE  Lists(RankRows(job),
               UNION {UNION {{RowOf(job, s, i, r) : i \in Emitted(job, s)} : r \in Ranks(job, s)}
                        : s \in DOMAIN job.local})
<1> DEFINE asc(s) == Ascending(Emitted(job, s))
           ranks(s) == Ascending(Ranks(job, s))
           F(s) == [r \in Ranks(job, s) |-> [i \in Emitted(job, s) |-> RowOf(job, s, i, r)]]
           Of(s) == UNION {{RowOf(job, s, i, r) : i \in Emitted(job, s)} : r \in Ranks(job, s)}
           List(s) == FlattenSeq([r \in DOMAIN ranks(s) |-> [k \in DOMAIN asc(s) |->
                        RowOf(job, s, asc(s)[k], ranks(s)[r])]])
           lists == [s \in DOMAIN job.local |-> List(s)]
           sets == [s \in DOMAIN job.local |-> Of(s)]
<1>1. ASSUME NEW s \in DOMAIN job.local
      PROVE  Lists(List(s), Of(s)) /\ \A x \in Of(s) : \E i \in Nat : x.at = Append(s, i)
  <2> DEFINE g == F(s)
             a == asc(s)
             l == ranks(s)
             K == Ranks(job, s)
  <2>1. IsFiniteSet(K) /\ K \subseteq Int
    BY JobIs
  <2>2. Lists(l, K)
    BY <2>1, AscendingLists
  <2>3. RecordsByKey(job, s, g, K)
    BY DEF RecordsByKey, RecordsOf, RowOf
  <2>4. Lists(FlattenSeq([r \in DOMAIN l |-> [k \in DOMAIN a |-> g[l[r]][a[k]]]]),
              UNION {{g[r][i] : i \in Emitted(job, s)} : r \in K})
    <3> HIDE DEF g, l, K
    <3> QED BY <2>2, <2>3, RecordsOfKeys
  <2>5. Emitted(job, s) \subseteq Nat /\ Lists(a, Emitted(job, s))
    BY EmittedIs
  <2>6. /\ \A k \in DOMAIN a : a[k] \in Emitted(job, s)
        /\ \A r \in DOMAIN l : l[r] \in K
    <3> HIDE DEF a, l, K
    <3> QED BY <2>2, <2>5, ListIs
  <2>7. [r \in DOMAIN l |-> [k \in DOMAIN a |-> g[l[r]][a[k]]]] =
          [r \in DOMAIN l |-> [k \in DOMAIN a |-> RowOf(job, s, a[k], l[r])]]
    BY <2>6
  <2>8. UNION {{g[r][i] : i \in Emitted(job, s)} : r \in K} = Of(s)
    OBVIOUS
  <2>9. Lists(List(s), Of(s))
    BY <2>4, <2>7, <2>8
  <2>10. \A x \in Of(s) : \E i \in Nat : x.at = Append(s, i)
    BY <2>5 DEF RowOf
  <2> QED BY <2>9, <2>10
<1>2. RankRows(job) = FlattenSeq([n \in DOMAIN Samples(job) |-> lists[Samples(job)[n]]])
  <2>1. \A n \in DOMAIN Samples(job) : Samples(job)[n] \in DOMAIN job.local
    BY SamplesAre, ListIs
  <2>2. \A n \in DOMAIN Samples(job) : lists[Samples(job)[n]] = List(Samples(job)[n])
    BY <2>1
  <2> HIDE DEF lists
  <2> QED BY <2>2 DEF RankRows, RowOf, Ranks
<1>3. SampleLists(job, lists, sets)
  BY <1>1 DEF SampleLists
<1>4. UNION {sets[s] : s \in DOMAIN job.local} = UNION {Of(s) : s \in DOMAIN job.local}
  <2>1. \A s \in DOMAIN job.local : sets[s] = Of(s)
    OBVIOUS
  <2> HIDE DEF sets, Of
  <2> QED BY <2>1
<1> HIDE DEF lists, sets
<1> QED BY <1>2, <1>3, <1>4, SamplesJoined

\* iteration-phase-times.csv has a record of each phase for each of them.
LEMMA PhasesAre ==
  ASSUME NEW job, IsJob(job)
  PROVE  Lists(PhaseRecords(job),
               UNION {UNION {{PhaseOf(job, s, i, p) : i \in Emitted(job, s)} : p \in Names(job, s)}
                        : s \in DOMAIN job.local})
<1> DEFINE asc(s) == Ascending(Emitted(job, s))
           names(s) == SetToSeq(Names(job, s))
           F(s) == [p \in Names(job, s) |-> [i \in Emitted(job, s) |-> PhaseOf(job, s, i, p)]]
           Of(s) == UNION {{PhaseOf(job, s, i, p) : i \in Emitted(job, s)} : p \in Names(job, s)}
           List(s) == FlattenSeq([p \in DOMAIN names(s) |-> [k \in DOMAIN asc(s) |->
                        PhaseOf(job, s, asc(s)[k], names(s)[p])]])
           lists == [s \in DOMAIN job.local |-> List(s)]
           sets == [s \in DOMAIN job.local |-> Of(s)]
<1>1. ASSUME NEW s \in DOMAIN job.local
      PROVE  Lists(List(s), Of(s)) /\ \A x \in Of(s) : \E i \in Nat : x.at = Append(s, i)
  <2> DEFINE g == F(s)
             a == asc(s)
             l == names(s)
             K == Names(job, s)
  <2>1. IsFiniteSet(K)
    BY JobIs
  <2>2. Lists(l, K)
    BY <2>1, SetLists
  <2>3. RecordsByKey(job, s, g, K)
    BY DEF RecordsByKey, RecordsOf, PhaseOf
  <2>4. Lists(FlattenSeq([p \in DOMAIN l |-> [k \in DOMAIN a |-> g[l[p]][a[k]]]]),
              UNION {{g[p][i] : i \in Emitted(job, s)} : p \in K})
    <3> HIDE DEF g, l, K
    <3> QED BY <2>2, <2>3, RecordsOfKeys
  <2>5. Emitted(job, s) \subseteq Nat /\ Lists(a, Emitted(job, s))
    BY EmittedIs
  <2>6. /\ \A k \in DOMAIN a : a[k] \in Emitted(job, s)
        /\ \A p \in DOMAIN l : l[p] \in K
    <3> HIDE DEF a, l, K
    <3> QED BY <2>2, <2>5, ListIs
  <2>7. [p \in DOMAIN l |-> [k \in DOMAIN a |-> g[l[p]][a[k]]]] =
          [p \in DOMAIN l |-> [k \in DOMAIN a |-> PhaseOf(job, s, a[k], l[p])]]
    BY <2>6
  <2>8. UNION {{g[p][i] : i \in Emitted(job, s)} : p \in K} = Of(s)
    OBVIOUS
  <2>9. Lists(List(s), Of(s))
    BY <2>4, <2>7, <2>8
  <2>10. \A x \in Of(s) : \E i \in Nat : x.at = Append(s, i)
    BY <2>5 DEF PhaseOf
  <2> QED BY <2>9, <2>10
<1>2. PhaseRecords(job) = FlattenSeq([n \in DOMAIN Samples(job) |-> lists[Samples(job)[n]]])
  <2> DEFINE samples == Samples(job)
             Local(n, k) == job.local[samples[n]][asc(samples[n])[k]]
             Rec(n, p, k) ==
               LET slowest == MaxLoc([r \in DOMAIN Local(n, k) |->
                                        Local(n, k)[r][names(samples[n])[p]]])
               IN [at |-> Append(samples[n], asc(samples[n])[k]), name |-> names(samples[n])[p],
                   us |-> slowest.us, rank |-> slowest.rank]
  <2>1. \A n \in DOMAIN samples : samples[n] \in DOMAIN job.local
    BY SamplesAre, ListIs
  <2>2. ASSUME NEW n \in DOMAIN samples
        PROVE  lists[samples[n]] =
                 FlattenSeq([p \in DOMAIN names(samples[n]) |-> [k \in DOMAIN asc(samples[n]) |->
                   Rec(n, p, k)]])
    <3> DEFINE s == samples[n]
               a == asc(s)
    <3>1. s \in DOMAIN job.local
      BY <2>1
    <3>2. Lists(a, Emitted(job, s)) /\ Emitted(job, s) \subseteq DOMAIN job.local[s]
      BY <3>1, EmittedIs
    <3>3. \A k \in DOMAIN a : a[k] \in DOMAIN job.local[s]
      <4> HIDE DEF a, s
      <4> QED BY <3>2, ListIs
    <3>4. \A k \in DOMAIN a : DOMAIN job.local[s][a[k]] = Ranks(job, s)
      BY <3>1, <3>3, JobIs
    <3>5. \A p \in DOMAIN names(s), k \in DOMAIN a : PhaseOf(job, s, a[k], names(s)[p]) = Rec(n, p, k)
      BY <3>4 DEF PhaseOf, SlowestOf
    <3>6. lists[s] = List(s)
      BY <3>1
    <3> HIDE DEF lists, Rec
    <3> QED BY <3>5, <3>6
  <2>3. PhaseRecords(job) =
          FlattenSeq([n \in DOMAIN samples |->
            FlattenSeq([p \in DOMAIN names(samples[n]) |-> [k \in DOMAIN asc(samples[n]) |->
              Rec(n, p, k)]])])
    BY DEF PhaseRecords, Names
  <2> HIDE DEF lists, Rec, samples
  <2>4. PhaseRecords(job) = FlattenSeq([n \in DOMAIN samples |-> lists[samples[n]]])
    BY <2>2, <2>3
  <2> QED BY <2>4 DEF samples
<1>3. SampleLists(job, lists, sets)
  BY <1>1 DEF SampleLists
<1>4. UNION {sets[s] : s \in DOMAIN job.local} = UNION {Of(s) : s \in DOMAIN job.local}
  <2>1. \A s \in DOMAIN job.local : sets[s] = Of(s)
    OBVIOUS
  <2> HIDE DEF sets, Of
  <2> QED BY <2>1
<1> HIDE DEF lists, sets
<1> QED BY <1>2, <1>3, <1>4, SamplesJoined

\* Some places of a list, in their order.
LEMMA ChosenLists ==
  ASSUME NEW s, NEW S, Lists(s, S), NEW P, P \subseteq 1 .. Len(s)
  PROVE  Lists(Chosen(s, P), {s[i] : i \in P})
<1> DEFINE asc == Ascending(P)
           c == Cardinality(P)
           t == Chosen(s, P)
<1>1. Len(s) \in Nat /\ \A i, j \in 1 .. Len(s) : s[i] = s[j] => i = j
  BY ListIs
<1>2. IsSequence(t) /\ Len(t) = c /\ ToSet(t) = {s[i] : i \in P}
  <2> DEFINE n == Len(s)
  <2>1. n \in Nat /\ P \subseteq 1 .. n
    BY <1>1
  <2> HIDE DEF n
  <2> QED BY <2>1, ChosenIs
<1>3. /\ c \in Nat /\ asc \in [1 .. c -> P]
      /\ \A i, j \in 1 .. c : asc[i] < asc[j] <=> i < j
  BY <1>1, PlacesInOrder
<1>4. \A k \in 1 .. c : t[k] = s[asc[k]]
  BY DEF Chosen
<1> HIDE DEF asc, c, t
<1>5. ASSUME NEW i \in 1 .. c, NEW j \in 1 .. c, t[i] = t[j]
      PROVE  i = j
  <2>1. asc[i] \in 1 .. Len(s) /\ asc[j] \in 1 .. Len(s)
    BY <1>3
  <2>2. asc[i] = asc[j]
    BY <1>1, <1>4, <1>5, <2>1
  <2>3. ~(asc[i] < asc[j]) /\ ~(asc[j] < asc[i])
    BY <1>1, <2>1, <2>2
  <2> QED BY <1>3, <2>3
<1> QED BY <1>2, <1>5 DEF Lists, t

Fast(job, s, i, r) == 10 * LocalTotal(job, s, i, r) < 8 * Total(job, s, i).us

\* All slow ranks are at one place.
OnlyAt(job, s, i, place) ==
  \E p \in {place[r] : r \in Ranks(job, s)} :
    \A r \in Ranks(job, s) : Fast(job, s, i, r) \/ place[r] = p

PlacesOf(place, slow) == {place[r] : r \in slow}

\* The ranks of R that are slow are at one place.
Together(R, slow, place) ==
  \E p \in {place[r] : r \in R} : \A r \in R : r \notin slow \/ place[r] = p

\* One place has all that is slow when it has something slow and nothing slow is
\* elsewhere.
LEMMA OnePlace ==
  ASSUME NEW R, IsFiniteSet(R), NEW slow, slow \subseteq R, NEW place
  PROVE  Cardinality(PlacesOf(place, slow)) = 1 <=> slow # {} /\ Together(R, slow, place)
<1> DEFINE T == {place[r] : r \in slow}
<1>1. IsFiniteSet(T)
  <2> DEFINE f == [r \in slow |-> place[r]]
  <2>1. f \in Surjection(slow, T)
    BY DEF Surjection
  <2>2. IsFiniteSet(slow)
    BY FS_Subset
  <2> QED BY <2>1, <2>2, FS_Surjection
<1>2. Cardinality(T) = 1 <=> \E p : T = {p}
  <2> HIDE DEF T
  <2> QED BY <1>1, FS_Singleton
<1>3. ASSUME NEW p, T = {p}
      PROVE  slow # {} /\ p \in {place[r] : r \in R} /\ \A r \in R : r \notin slow \/ place[r] = p
  BY <1>3
<1>4. ASSUME slow # {}, NEW p, \A r \in R : r \notin slow \/ place[r] = p
      PROVE  T = {p}
  BY <1>4
<1> QED BY <1>2, <1>3, <1>4 DEF PlacesOf, Together

\* What analyze_rank_records says of the rows of an iteration.
LEMMA LocalityIs ==
  ASSUME NEW job, IsJob(job), NEW s \in DOMAIN job.local, NEW i \in DOMAIN job.local[s],
         NEW rows, Lists(rows, {RowOf(job, s, i, r) : r \in Ranks(job, s)})
  PROVE  /\ SlowRows(rows) = {RowOf(job, s, i, r) : r \in {q \in Ranks(job, s) : ~Fast(job, s, i, q)}}
         /\ Locality(rows) = "node-localized" => OnlyAt(job, s, i, Host)
         /\ Locality(rows) = "row-localized" => OnlyAt(job, s, i, Row)
         /\ Locality(rows) = "column-localized" => OnlyAt(job, s, i, Col)
         /\ Locality(rows) = "mixed" =>
              ~OnlyAt(job, s, i, Host) /\ ~OnlyAt(job, s, i, Row) /\ ~OnlyAt(job, s, i, Col)
         /\ Locality(rows) = "collective-wide" <=>
              5 * Cardinality({r \in Ranks(job, s) : Fast(job, s, i, r)}) <= Cardinality(Ranks(job, s))
<1> DEFINE R == Ranks(job, s)
           total == Total(job, s, i)
           slow == {r \in R : ~Fast(job, s, i, r)}
           fast == {r \in R : Fast(job, s, i, r)}
           row(r) == RowOf(job, s, i, r)
           all == {row(r) : r \in R}
           n == Cardinality(R)
           c == Cardinality(slow)
           S == SlowRows(rows)
<1>1. /\ IsFiniteSet(R) /\ R # {} /\ total.us \in Nat
      /\ \A r \in R : LocalTotal(job, s, i, r) \in Nat
  BY JobIs, TotalIs
<1>2. /\ \A r, q \in R : row(r) = row(q) => r = q
      /\ \A r \in R : /\ row(r).us = LocalTotal(job, s, i, r) /\ row(r).max = total.us
                      /\ row(r).host = Host[r] /\ row(r).row = Row[r] /\ row(r).col = Col[r]
  BY DEF RowOf
<1>3. IsFiniteSet(slow) /\ IsFiniteSet(fast) /\ n \in Nat /\ c \in Nat /\ Cardinality(fast) = n - c
  <2>1. IsFiniteSet(slow) /\ IsFiniteSet(fast)
    BY <1>1, FS_Subset
  <2>2. Cardinality(R \ slow) = Cardinality(R) - Cardinality(R \cap slow)
    BY <1>1, FS_Difference
  <2>3. R \ slow = fast /\ R \cap slow = slow
    OBVIOUS
  <2>4. n \in Nat /\ c \in Nat
    BY <1>1, <2>1, FS_CardinalityType
  <2> QED BY <2>1, <2>2, <2>3, <2>4
<1>4. Len(rows) = n
  <2>1. OneToOne([r \in R |-> row(r)], R, all)
    BY <1>2 DEF OneToOne
  <2>2. Cardinality(all) = n
    <3> HIDE DEF row
    <3> QED BY <1>1, <2>1, SameCount
  <2>3. Cardinality(all) = Len(rows)
    BY ListLength
  <2> QED BY <2>2, <2>3
<1>5. S = {row(r) : r \in slow}
  <2> DEFINE longest == Max({rows[j].max : j \in DOMAIN rows})
  <2>1. /\ DOMAIN rows = 1 .. Len(rows) /\ \A j \in DOMAIN rows : rows[j] \in all
        /\ \A x \in all : \E j \in DOMAIN rows : rows[j] = x
    BY ListIs
  <2> HIDE DEF all
  <2>2. {rows[j].max : j \in DOMAIN rows} = {total.us}
    <3>1. \A j \in DOMAIN rows : rows[j].max = total.us
      BY <1>2, <2>1 DEF all
    <3>2. DOMAIN rows # {}
      <4>1. PICK r \in R : TRUE
        BY <1>1
      <4>2. row(r) \in all
        BY DEF all
      <4> QED BY <2>1, <4>2
    <3> QED BY <3>1, <3>2
  <2>3. longest = total.us
    <3> DEFINE us == total.us
    <3>1. {us} \subseteq Int /\ {us} # {}
      BY <1>1
    <3> HIDE DEF us
    <3>2. IsFiniteSet({us})
      BY FS_Singleton
    <3>3. Max({us}) \in {us}
      BY <3>1, <3>2, ExtremesOf
    <3> QED BY <2>2, <3>3 DEF us
  <2>4. S = {rows[j] : j \in {k \in DOMAIN rows : 10 * rows[k].us >= 8 * longest}}
    BY DEF SlowRows
  <2> HIDE DEF longest, S
  <2>5. ASSUME NEW x \in S PROVE x \in {row(r) : r \in slow}
    <3>1. PICK j \in DOMAIN rows : x = rows[j] /\ 10 * rows[j].us >= 8 * total.us
      BY <2>3, <2>4
    <3>2. PICK r \in R : x = row(r)
      BY <2>1, <3>1 DEF all
    <3>3. ~Fast(job, s, i, r)
      BY <1>1, <1>2, <3>1, <3>2 DEF Fast
    <3> QED BY <3>2, <3>3
  <2>6. ASSUME NEW r \in slow PROVE row(r) \in S
    <3>1. row(r) \in all
      BY DEF all
    <3>2. PICK j \in DOMAIN rows : rows[j] = row(r)
      BY <2>1, <3>1
    <3>3. 10 * row(r).us >= 8 * total.us
      BY <1>1, <1>2 DEF Fast
    <3> QED BY <2>3, <2>4, <3>2, <3>3
  <2> QED BY <2>5, <2>6
<1>6. Cardinality(S) = c
  <2>1. OneToOne([r \in slow |-> row(r)], slow, {row(r) : r \in slow})
    BY <1>2 DEF OneToOne
  <2>2. Cardinality({row(r) : r \in slow}) = c
    <3> HIDE DEF row, slow
    <3> QED BY <1>3, <2>1, SameCount DEF c
  <2> QED BY <1>5, <2>2
<1>7. /\ {x.host : x \in S} = {Host[r] : r \in slow}
      /\ {x.row : x \in S} = {Row[r] : r \in slow}
      /\ {x.col : x \in S} = {Col[r] : r \in slow}
  BY <1>2, <1>5
<1>8. \A place : Cardinality({place[r] : r \in slow}) = 1 <=> slow # {} /\ OnlyAt(job, s, i, place)
  <2> SUFFICES ASSUME NEW place
               PROVE  Cardinality({place[r] : r \in slow}) = 1
                        <=> slow # {} /\ OnlyAt(job, s, i, place)
    OBVIOUS
  <2>1. OnlyAt(job, s, i, place) <=> Together(R, slow, place)
    BY DEF OnlyAt, Together
  <2>2. slow \subseteq R
    OBVIOUS
  <2> HIDE DEF slow, R
  <2>3. Cardinality(PlacesOf(place, slow)) = 1 <=> slow # {} /\ Together(R, slow, place)
    BY <1>1, <2>2, OnePlace
  <2> QED BY <2>1, <2>3 DEF PlacesOf
<1>9. c > 2 => slow # {}
  <2>1. slow = {} => c = 0
    BY FS_EmptySet
  <2> QED BY <2>1
<1>10. c >= CeilDiv(8 * n, 10) <=> 5 * (n - c) <= n
  <2> HIDE DEF n, c
  <2> QED BY <1>3 DEF CeilDiv
<1> DEFINE host == Cardinality({x.host : x \in S}) = 1
           aRow == Cardinality({x.row : x \in S}) = 1
           col == Cardinality({x.col : x \in S}) = 1
<1>11. Locality(rows) =
         IF c >= CeilDiv(8 * n, 10) THEN "collective-wide"
         ELSE IF c <= 2 THEN "rank-localized"
         ELSE IF host THEN "node-localized"
         ELSE IF aRow THEN "row-localized"
         ELSE IF col THEN "column-localized"
         ELSE "mixed"
  BY <1>4, <1>6 DEF Locality
<1>12. /\ host <=> slow # {} /\ OnlyAt(job, s, i, Host)
       /\ aRow <=> slow # {} /\ OnlyAt(job, s, i, Row)
       /\ col <=> slow # {} /\ OnlyAt(job, s, i, Col)
  BY <1>7, <1>8
<1> HIDE DEF host, aRow, col, n, c, slow, fast, S
<1>13. (c <= 2) \/ c > 2
  BY <1>3
<1>14. /\ Locality(rows) = "node-localized" => OnlyAt(job, s, i, Host)
       /\ Locality(rows) = "row-localized" => OnlyAt(job, s, i, Row)
       /\ Locality(rows) = "column-localized" => OnlyAt(job, s, i, Col)
       /\ Locality(rows) = "mixed" =>
            ~OnlyAt(job, s, i, Host) /\ ~OnlyAt(job, s, i, Row) /\ ~OnlyAt(job, s, i, Col)
       /\ Locality(rows) = "collective-wide" <=> c >= CeilDiv(8 * n, 10)
  BY <1>9, <1>11, <1>12, <1>13
<1>15. Locality(rows) = "collective-wide" <=> 5 * Cardinality(fast) <= n
  BY <1>3, <1>10, <1>14
<1> QED BY <1>5, <1>14, <1>15 DEF S, slow, fast, n

-----------------------------------------------------------------------------
(* What has been gathered once all is read. *)

\* At the end of an analysis of undamaged files, all of them has been gathered.
LEMMA FinishedIs ==
  ASSUME CaseInv, Finished
  PROVE  /\ IsDirectory(dir) /\ Loadable(dir) /\ IsJob(dir.job) /\ threshold \in Int
         /\ Keys(dir) = DOMAIN dir.job.local
         /\ \A r \in ToSet(dir.results) : r.iterations = Len(dir.job.local[r.key])
         /\ dir.times = TimeRecords(dir.job) /\ dir.phases = PhaseRecords(dir.job)
         /\ dir.rows = RankRows(dir.job)
         /\ StallPlaces = {i \in 1 .. Len(dir.times) : IsStall(dir.times[i])}
         /\ PhasePlaces = {i \in 1 .. Len(dir.phases) : dir.phases[i].at \in Affected}
         /\ affected = Chosen(dir.times, StallPlaces)
         /\ Grouped(stalls, dir.times, SampleKeys(dir.times), StallPlaces)
         /\ Grouped(phasesAt, dir.phases, IterationKeys(dir.phases), PhasePlaces)
         /\ Grouped(rowsAt, dir.rows, IterationKeys(dir.rows), 1 .. Len(dir.rows))
         /\ breakdown = [at \in DOMAIN phasesAt |-> Dominant(phasesAt[at])]
         /\ summary = CaseSummary
<1>1. /\ Gathered /\ summary = CaseSummary
      /\ breakdown = [at \in DOMAIN phasesAt |-> Dominant(phasesAt[at])]
      /\ step = "returned" /\ dir.intact
  BY DEF CaseInv, Reading, Finished
<1>2. IsDirectory(dir)
  BY <1>1 DEF Gathered
<1>3. /\ IsJob(dir.job) /\ Keys(dir) = DOMAIN dir.job.local
      /\ \A r \in ToSet(dir.results) : r.iterations = Len(dir.job.local[r.key])
      /\ dir.times = TimeRecords(dir.job) /\ dir.phases = PhaseRecords(dir.job)
      /\ dir.rows = RankRows(dir.job)
      /\ \A kind \in Kinds : dir.state[kind] = "present"
  BY <1>1, <1>2 DEF IsDirectory
<1>4. File("times") = dir.times /\ File("phases") = dir.phases /\ File("rows") = dir.rows
  <2>1. /\ dir.state["times"] = "present" /\ dir.state["phases"] = "present"
        /\ dir.state["rows"] = "present"
    BY <1>3 DEF Kinds
  <2> QED BY <2>1 DEF File
<1>5. /\ TimesSoFar = Len(dir.times) /\ PhasesSoFar = Len(dir.phases)
      /\ RowsSoFar = Len(dir.rows)
  BY <1>1, <1>4 DEF TimesSoFar, PhasesSoFar, RowsSoFar
<1>6. /\ StallPlaces = {i \in 1 .. Len(dir.times) : IsStall(dir.times[i])}
      /\ PhasePlaces = {i \in 1 .. Len(dir.phases) : dir.phases[i].at \in Affected}
      /\ Grouped(rowsAt, dir.rows, IterationKeys(dir.rows), 1 .. Len(dir.rows))
  BY <1>1, <1>5 DEF StallPlaces, PhasePlaces, Gathered
<1> QED BY <1>1, <1>2, <1>3, <1>6 DEF Gathered

\* The records of an iteration among those at places.
Under(recs, places, at) == {recs[i] : i \in {j \in places : recs[j].at = at}}

\* The iterations of the records at places.
Iterations(recs, places) == {recs[i].at : i \in places}

\* The records under an iteration are those of that iteration.
LEMMA GroupLists ==
  ASSUME NEW recs, NEW U, Lists(recs, U), NEW places, places \subseteq 1 .. Len(recs),
         NEW g, Grouped(g, recs, IterationKeys(recs), places)
  PROVE  /\ DOMAIN g = Iterations(recs, places)
         /\ \A at \in DOMAIN g : Lists(g[at], Under(recs, places, at))
<1> DEFINE key == IterationKeys(recs)
<1>1. \A i \in places : key[i] = recs[i].at
  BY ListIs DEF IterationKeys
<1>2. /\ DOMAIN g = {key[i] : i \in places}
      /\ \A at \in DOMAIN g : g[at] = Chosen(recs, {j \in places : key[j] = at})
  BY DEF Grouped
<1> HIDE DEF key
<1>3. DOMAIN g = Iterations(recs, places)
  BY <1>1, <1>2 DEF Iterations
<1>4. ASSUME NEW at \in DOMAIN g
      PROVE  Lists(g[at], Under(recs, places, at))
  <2> DEFINE P == {j \in places : recs[j].at = at}
  <2>1. g[at] = Chosen(recs, P) /\ P \subseteq 1 .. Len(recs)
    <3>1. {j \in places : key[j] = at} = P
      BY <1>1
    <3> QED BY <1>2, <3>1
  <2> HIDE DEF P
  <2>2. Lists(g[at], {recs[i] : i \in P})
    BY <2>1, ChosenLists
  <2> QED BY <2>2 DEF P, Under
<1> QED BY <1>3, <1>4

\* The rows of a job.
AllRows(job) ==
  UNION {UNION {{RowOf(job, s, i, r) : i \in Emitted(job, s)} : r \in Ranks(job, s)}
           : s \in DOMAIN job.local}

\* A row is that of a rank of an emitted iteration.
LEMMA RowsListed ==
  ASSUME NEW job
  PROVE  /\ \A x \in AllRows(job) : \E s \in DOMAIN job.local : \E i \in Emitted(job, s) :
              \E r \in Ranks(job, s) : x = RowOf(job, s, i, r)
         /\ \A s \in DOMAIN job.local : \A i \in Emitted(job, s), r \in Ranks(job, s) :
              RowOf(job, s, i, r) \in AllRows(job)
BY DEF AllRows

\* These are the rows of the ranks in an iteration.
ListsRows(job, s, i, rows) == Lists(rows, {RowOf(job, s, i, r) : r \in Ranks(job, s)})

\* An emitted iteration has the row of each of its ranks, and so has each event.
LEMMA RowsOfEvents ==
  ASSUME CaseInv, Finished, NEW job, job = dir.job
  PROVE  /\ \A at \in DOMAIN rowsAt : \E s \in DOMAIN job.local : \E i \in Emitted(job, s) :
              /\ at = Append(s, i)
              /\ ListsRows(job, s, i, rowsAt[at])
         /\ \A s \in DOMAIN job.local : \A i \in Emitted(job, s) : Append(s, i) \in DOMAIN rowsAt
<1> DEFINE recs == dir.rows
           n == Len(recs)
           U == AllRows(job)
<1>1. IsJob(job) /\ recs = RankRows(job) /\ Grouped(rowsAt, recs, IterationKeys(recs), 1 .. n)
  BY FinishedIs
<1>2. Lists(recs, U)
  BY <1>1, RowsAre DEF AllRows
<1> HIDE DEF recs, U
<1> HIDE DEF n
<1>a. 1 .. n \subseteq 1 .. Len(recs)
  BY DEF n
<1>3. /\ DOMAIN rowsAt = Iterations(recs, 1 .. n)
      /\ \A at \in DOMAIN rowsAt : Lists(rowsAt[at], Under(recs, 1 .. n, at))
  BY <1>1, <1>2, <1>a, GroupLists
<1>b. \A k \in 1 .. n : recs[k].at \in DOMAIN rowsAt
  BY <1>3 DEF Iterations
<1>4. /\ \A k \in 1 .. n : recs[k] \in U
      /\ \A x \in U : \E k \in 1 .. n : recs[k] = x
  BY <1>2, ListIs DEF n
<1>5. /\ \A x \in U : \E s \in DOMAIN job.local : \E i \in Emitted(job, s) :
           \E r \in Ranks(job, s) : x = RowOf(job, s, i, r)
      /\ \A s \in DOMAIN job.local : \A i \in Emitted(job, s), r \in Ranks(job, s) :
           RowOf(job, s, i, r) \in U
  BY RowsListed DEF U
<1>6. ASSUME NEW at \in DOMAIN rowsAt
      PROVE  \E s \in DOMAIN job.local : \E i \in Emitted(job, s) :
               /\ at = Append(s, i)
               /\ ListsRows(job, s, i, rowsAt[at])
  <2>1. PICK k \in 1 .. n : recs[k].at = at
    BY <1>3 DEF Iterations
  <2>a. PICK s \in DOMAIN job.local :
          \E i \in Emitted(job, s) : \E r \in Ranks(job, s) : recs[k] = RowOf(job, s, i, r)
    BY <1>4, <1>5
  <2>b. PICK i \in Emitted(job, s) : \E r \in Ranks(job, s) : recs[k] = RowOf(job, s, i, r)
    BY <2>a
  <2>2. PICK r \in Ranks(job, s) : recs[k] = RowOf(job, s, i, r)
    BY <2>b
  <2>3. at = Append(s, i)
    BY <2>1, <2>2 DEF RowOf
  <2>4. s \in Nat \X Nat /\ i \in Nat
    BY <1>1, EmittedIs
  <2>5. ASSUME NEW t \in DOMAIN job.local, NEW j \in Emitted(job, t), Append(t, j) = at
        PROVE  t = s /\ j = i
    <3>1. t \in Nat \X Nat /\ j \in Nat
      BY <1>1, EmittedIs
    <3>2. /\ SubSeq(Append(s, i), 1, 2) = s /\ Append(s, i)[3] = i
          /\ SubSeq(Append(t, j), 1, 2) = t /\ Append(t, j)[3] = j
      BY <2>4, <3>1, AtIs
    <3> QED BY <2>3, <2>5, <3>2
  <2>6. Under(recs, 1 .. n, at) =
          {RowOf(job, s, i, q) : q \in Ranks(job, s)}
    <3>1. ASSUME NEW m \in 1 .. n, recs[m].at = at
          PROVE  \E q \in Ranks(job, s) : recs[m] = RowOf(job, s, i, q)
      <4>a. PICK t \in DOMAIN job.local :
              \E j \in Emitted(job, t) : \E q \in Ranks(job, t) : recs[m] = RowOf(job, t, j, q)
        BY <1>4, <1>5
      <4>b. PICK j \in Emitted(job, t) : \E q \in Ranks(job, t) : recs[m] = RowOf(job, t, j, q)
        BY <4>a
      <4>1. PICK q \in Ranks(job, t) : recs[m] = RowOf(job, t, j, q)
        BY <4>b
      <4>2. Append(t, j) = at
        BY <3>1, <4>1 DEF RowOf
      <4> QED BY <2>5, <4>1, <4>2
    <3>2. ASSUME NEW q \in Ranks(job, s)
          PROVE  \E m \in 1 .. n : recs[m].at = at /\ recs[m] = RowOf(job, s, i, q)
      <4>1. RowOf(job, s, i, q) \in U /\ RowOf(job, s, i, q).at = at
        BY <1>5, <2>3 DEF RowOf
      <4> QED BY <1>4, <4>1
    <3> QED BY <3>1, <3>2 DEF Under
  <2>7. ListsRows(job, s, i, rowsAt[at])
    BY <1>3, <2>6 DEF ListsRows
  <2> QED BY <2>3, <2>7
<1>7. ASSUME NEW s \in DOMAIN job.local, NEW i \in Emitted(job, s)
      PROVE  Append(s, i) \in DOMAIN rowsAt
  <2>1. 0 \in Ranks(job, s)
    BY <1>1, JobIs
  <2>2. RowOf(job, s, i, 0) \in U /\ RowOf(job, s, i, 0).at = Append(s, i)
    BY <1>5, <2>1 DEF RowOf
  <2> QED BY <1>4, <1>b, <2>2
<1> QED BY <1>6, <1>7

\* The report of an event.
LEMMA EventIs ==
  ASSUME CaseInv, Finished
  PROVE  /\ DOMAIN summary.events = DOMAIN rowsAt
         /\ \A at \in DOMAIN rowsAt : summary.events[at] = RankEvent(at)
<1>1. summary = CaseSummary
  BY FinishedIs
<1>2. CaseSummary.events = [at \in DOMAIN rowsAt |-> RankEvent(at)]
  BY DEF CaseSummary
<1> QED BY <1>1, <1>2

\* An event reported as local to a node, a row or a column is: that place has
\* all the slow ranks of the job; a collective-wide one left at most a fifth of
\* them fast (analyze_rank_records).
THEOREM LocalityHolds == Spec => []LocalityIsTheJobs
<1>1. StallInv => LocalityIsTheJobs
  <2> SUFFICES ASSUME CaseInv, Finished, NEW at \in DOMAIN summary.events
               PROVE  LET s == SubSeq(at, 1, 2)
                          ranks == DOMAIN dir.job.local[s][at[3]]
                          IsFast(r) == 10 * LocalTotal(dir.job, s, at[3], r) < 8 * Total(dir.job, s, at[3]).us
                          At(place) == \E p \in {place[r] : r \in ranks} :
                                         \A r \in ranks : IsFast(r) \/ place[r] = p
                          locality == summary.events[at].locality
                      IN /\ locality = "node-localized" => At(Host)
                         /\ locality = "row-localized" => At(Row)
                         /\ locality = "column-localized" => At(Col)
                         /\ locality = "mixed" => ~At(Host) /\ ~At(Row) /\ ~At(Col)
                         /\ locality = "collective-wide" <=>
                              5 * Cardinality({r \in ranks : IsFast(r)}) <= Cardinality(ranks)
    BY DEF StallInv, LocalityIsTheJobs
  <2> DEFINE job == dir.job
  <2>1. at \in DOMAIN rowsAt /\ summary.events[at] = RankEvent(at)
    BY EventIs
  <2>a. PICK s \in DOMAIN job.local : \E i \in Emitted(job, s) :
          /\ at = Append(s, i)
          /\ ListsRows(job, s, i, rowsAt[at])
    BY <2>1, RowsOfEvents
  <2>2. PICK i \in Emitted(job, s) :
          /\ at = Append(s, i)
          /\ ListsRows(job, s, i, rowsAt[at])
    BY <2>a
  <2>3. IsJob(job)
    BY FinishedIs
  <2>4. i \in DOMAIN job.local[s] /\ s \in Nat \X Nat /\ i \in Nat
    BY <2>3, EmittedIs
  <2>5. SubSeq(at, 1, 2) = s /\ at[3] = i
    BY <2>2, <2>4, AtIs
  <2>6. DOMAIN job.local[s][i] = Ranks(job, s)
    BY <2>3, <2>4, JobIs
  <2>7. summary.events[at].locality = Locality(rowsAt[at])
    BY <2>1 DEF RankEvent
  <2> HIDE DEF job
  <2>8. LET rows == rowsAt[at]
        IN /\ Locality(rows) = "node-localized" => OnlyAt(job, s, i, Host)
           /\ Locality(rows) = "row-localized" => OnlyAt(job, s, i, Row)
           /\ Locality(rows) = "column-localized" => OnlyAt(job, s, i, Col)
           /\ Locality(rows) = "mixed" =>
                ~OnlyAt(job, s, i, Host) /\ ~OnlyAt(job, s, i, Row) /\ ~OnlyAt(job, s, i, Col)
           /\ Locality(rows) = "collective-wide" <=>
                5 * Cardinality({r \in Ranks(job, s) : Fast(job, s, i, r)})
                  <= Cardinality(Ranks(job, s))
    <3> DEFINE rows == rowsAt[at]
    <3>1. Lists(rows, {RowOf(job, s, i, r) : r \in Ranks(job, s)})
      BY <2>2 DEF ListsRows
    <3> HIDE DEF rows
    <3>2. /\ Locality(rows) = "node-localized" => OnlyAt(job, s, i, Host)
          /\ Locality(rows) = "row-localized" => OnlyAt(job, s, i, Row)
          /\ Locality(rows) = "column-localized" => OnlyAt(job, s, i, Col)
          /\ Locality(rows) = "mixed" =>
               ~OnlyAt(job, s, i, Host) /\ ~OnlyAt(job, s, i, Row) /\ ~OnlyAt(job, s, i, Col)
          /\ Locality(rows) = "collective-wide" <=>
               5 * Cardinality({r \in Ranks(job, s) : Fast(job, s, i, r)})
                 <= Cardinality(Ranks(job, s))
      BY <2>3, <2>4, <3>1, LocalityIs
    <3> QED BY <3>2 DEF rows
  <2> QED BY <2>5, <2>6, <2>7, <2>8 DEF OnlyAt, Fast, job
<1> QED BY <1>1, StallInvHolds, PTL

-----------------------------------------------------------------------------
(* Phases. *)

\* What is compared of two phase records.
KeyOf(x) ==
  <<x.us, -x.rank, CHOOSE i \in DOMAIN PhaseColumns : PhaseColumns[i] = x.name>>

\* The record that the report names dominant: none took longer.
LEMMA DominantIs ==
  ASSUME NEW S, IsFiniteSet(S), S # {}, NEW recs, ToSet(recs) = S,
         \A x \in S : x.us \in Nat /\ x.rank \in Nat /\ x.name \in ToSet(PhaseColumns),
         \A x, y \in S : x.name = y.name => x = y
  PROVE  Dominant(recs) \in S /\ \A x \in S : x.us <= Dominant(recs).us
<1> DEFINE R == {p \in S \X S : Precedes(KeyOf(p[1]), KeyOf(p[2]))}
           T == [1 .. 3 -> Int]
           order == Arranged(R, S)
           n == Cardinality(S)
<1>1. \A x, y : Outranks(x, y) <=> Precedes(KeyOf(y), KeyOf(x))
  BY DEF Outranks, KeyOf
<1>2. ASSUME NEW x \in S
      PROVE  /\ KeyOf(x) \in T /\ KeyOf(x)[1] = x.us /\ KeyOf(x)[3] \in DOMAIN PhaseColumns
             /\ PhaseColumns[KeyOf(x)[3]] = x.name /\ Len(KeyOf(x)) = 3
  <2> DEFINE i == CHOOSE i \in DOMAIN PhaseColumns : PhaseColumns[i] = x.name
  <2>1. i \in DOMAIN PhaseColumns /\ PhaseColumns[i] = x.name
    BY DEF ToSet
  <2>2. DOMAIN PhaseColumns \subseteq Int
    <3> DEFINE columns == PhaseColumns
    <3>1. columns = [k \in 1 .. 15 |-> columns[k]]
      BY DEF PhaseColumns
    <3> HIDE DEF columns
    <3>2. DOMAIN columns \subseteq Int
      BY <3>1
    <3> QED BY <3>2 DEF columns
  <2>3. KeyOf(x) = <<x.us, -x.rank, i>>
    BY DEF KeyOf
  <2> HIDE DEF i
  <2>4. x.us \in Int /\ -x.rank \in Int /\ i \in Int
    BY <2>1, <2>2
  <2> QED BY <2>1, <2>3, <2>4
<1>3. /\ \A x \in T : ~Precedes(x, x)
      /\ \A x, y, z \in T : Precedes(x, y) /\ Precedes(y, z) => Precedes(x, z)
      /\ \A x, y \in T : x = y \/ Precedes(x, y) \/ Precedes(y, x)
  BY TuplesInOrder
<1>4. \A x, y \in S : KeyOf(x) = KeyOf(y) => x = y
  BY <1>2
<1>5. \A x, y \in S : <<x, y>> \in R <=> Precedes(KeyOf(x), KeyOf(y))
  OBVIOUS
<1> HIDE DEF R, T
<1>6. StrictOrder(R, S)
  <2>1. \A x \in S : <<x, x>> \notin R
    BY <1>2, <1>3, <1>5
  <2>2. \A x, y, z \in S : <<x, y>> \in R /\ <<y, z>> \in R => <<x, z>> \in R
    <3> SUFFICES ASSUME NEW x \in S, NEW y \in S, NEW z \in S, <<x, y>> \in R, <<y, z>> \in R
                 PROVE  <<x, z>> \in R
      OBVIOUS
    <3>1. KeyOf(x) \in T /\ KeyOf(y) \in T /\ KeyOf(z) \in T
      BY <1>2
    <3>2. Precedes(KeyOf(x), KeyOf(y)) /\ Precedes(KeyOf(y), KeyOf(z))
      BY <1>5
    <3> QED BY <1>3, <1>5, <3>1, <3>2
  <2>3. \A x, y \in S : x = y \/ <<x, y>> \in R \/ <<y, x>> \in R
    <3> SUFFICES ASSUME NEW x \in S, NEW y \in S PROVE x = y \/ <<x, y>> \in R \/ <<y, x>> \in R
      OBVIOUS
    <3>1. KeyOf(x) \in T /\ KeyOf(y) \in T
      BY <1>2
    <3>2. KeyOf(x) = KeyOf(y) \/ Precedes(KeyOf(x), KeyOf(y)) \/ Precedes(KeyOf(y), KeyOf(x))
      BY <1>3, <3>1
    <3> QED BY <1>4, <1>5, <3>2
  <2> QED BY <2>1, <2>2, <2>3 DEF StrictOrder
<1>7. /\ n \in Nat /\ order \in [1 .. n -> S]
      /\ \A x \in S : \E i \in 1 .. n : order[i] = x
      /\ \A i, j \in 1 .. n : <<order[i], order[j]>> \in R <=> i < j
  <2> HIDE DEF order, n
  <2>1. order = Arranged(R, S)
    BY DEF order
  <2> QED BY <1>6, <2>1, InOrderOf DEF n
<1> HIDE DEF order, n
<1>8. n \in 1 .. n
  BY <1>7
<1>9. order[n] \in S /\ \A y \in S : ~Outranks(y, order[n])
  <2>1. order[n] \in S
    BY <1>7, <1>8
  <2>2. ASSUME NEW y \in S, Outranks(y, order[n])
        PROVE  FALSE
    <3>1. PICK j \in 1 .. n : order[j] = y
      BY <1>7
    <3>2. <<order[n], order[j]>> \in R
      BY <1>1, <1>5, <2>1, <2>2, <3>1
    <3>3. n < j
      BY <1>7, <1>8, <3>2
    <3> QED BY <1>7, <3>3
  <2> QED BY <2>1, <2>2
<1>10. Dominant(recs) \in S /\ \A y \in S : ~Outranks(y, Dominant(recs))
  <2>1. Dominant(recs) = CHOOSE x \in S : \A y \in S : ~Outranks(y, x)
    BY DEF Dominant
  <2> QED BY <1>9, <2>1
<1>11. ASSUME NEW x \in S
       PROVE  x.us <= Dominant(recs).us
  <2> DEFINE d == Dominant(recs)
  <2>1. d \in S /\ ~Precedes(KeyOf(d), KeyOf(x))
    BY <1>1, <1>10
  <2> HIDE DEF d
  <2>2. KeyOf(d)[1] = d.us /\ KeyOf(x)[1] = x.us /\ Len(KeyOf(d)) = 3
    BY <1>2, <2>1
  <2>3. ~(KeyOf(d)[1] < KeyOf(x)[1])
    BY <2>1, <2>2 DEF Precedes
  <2> QED BY <2>1, <2>2, <2>3 DEF d
<1> QED BY <1>10, <1>11

\* The phase records of a job.
AllPhases(job) ==
  UNION {UNION {{PhaseOf(job, s, i, p) : i \in Emitted(job, s)} : p \in Names(job, s)}
           : s \in DOMAIN job.local}

\* A phase record is that of a phase of an emitted iteration.
LEMMA PhasesListed ==
  ASSUME NEW job
  PROVE  /\ \A x \in AllPhases(job) : \E s \in DOMAIN job.local : \E i \in Emitted(job, s) :
              \E p \in Names(job, s) : x = PhaseOf(job, s, i, p)
         /\ \A s \in DOMAIN job.local : \A i \in Emitted(job, s), p \in Names(job, s) :
              PhaseOf(job, s, i, p) \in AllPhases(job)
BY DEF AllPhases

\* These are the records of the phases of an iteration.
HasPhases(job, s, i, recs) ==
  /\ Names(job, s) # {}
  /\ ToSet(recs) = {PhaseOf(job, s, i, p) : p \in Names(job, s)}

\* A stalled iteration has the record of each of its phases.
LEMMA PhasesOfStalls ==
  ASSUME CaseInv, Finished, NEW job, job = dir.job, NEW at \in DOMAIN phasesAt
  PROVE  /\ at \in Affected
         /\ \E s \in DOMAIN job.local : \E i \in Emitted(job, s) :
              at = Append(s, i) /\ HasPhases(job, s, i, phasesAt[at])
<1> DEFINE recs == dir.phases
           n == Len(recs)
           U == AllPhases(job)
<1>1. /\ IsJob(job) /\ recs = PhaseRecords(job)
      /\ PhasePlaces = {k \in 1 .. n : recs[k].at \in Affected}
      /\ Grouped(phasesAt, recs, IterationKeys(recs), PhasePlaces)
  BY FinishedIs
<1>2. Lists(recs, U)
  BY <1>1, PhasesAre DEF AllPhases
<1> HIDE DEF recs, U
<1>a. PhasePlaces \subseteq 1 .. Len(recs)
  BY <1>1 DEF n
<1>3. /\ DOMAIN phasesAt = Iterations(recs, PhasePlaces)
      /\ Lists(phasesAt[at], Under(recs, PhasePlaces, at))
  BY <1>1, <1>2, <1>a, GroupLists
<1>4. /\ \A k \in 1 .. n : recs[k] \in U
      /\ \A x \in U : \E k \in 1 .. n : recs[k] = x
  BY <1>2, ListIs DEF n
<1> HIDE DEF n
<1>5. /\ \A x \in U : \E s \in DOMAIN job.local : \E i \in Emitted(job, s) :
           \E p \in Names(job, s) : x = PhaseOf(job, s, i, p)
      /\ \A s \in DOMAIN job.local : \A i \in Emitted(job, s), p \in Names(job, s) :
           PhaseOf(job, s, i, p) \in U
  BY PhasesListed DEF U
<1>6. PICK k \in PhasePlaces : recs[k].at = at
  BY <1>3 DEF Iterations
<1>7. k \in 1 .. n /\ at \in Affected
  BY <1>1, <1>6
<1>8. PICK s \in DOMAIN job.local :
        \E i \in Emitted(job, s) : \E p \in Names(job, s) : recs[k] = PhaseOf(job, s, i, p)
  BY <1>4, <1>5, <1>7
<1>9. PICK i \in Emitted(job, s) : \E p \in Names(job, s) : recs[k] = PhaseOf(job, s, i, p)
  BY <1>8
<1>10. at = Append(s, i) /\ Names(job, s) # {}
  BY <1>6, <1>9 DEF PhaseOf
<1>11. s \in Nat \X Nat /\ i \in Nat
  BY <1>1, EmittedIs
<1>12. ASSUME NEW t \in DOMAIN job.local, NEW j \in Emitted(job, t), Append(t, j) = at
       PROVE  t = s /\ j = i
  <2>1. t \in Nat \X Nat /\ j \in Nat
    BY <1>1, EmittedIs
  <2>2. /\ SubSeq(Append(s, i), 1, 2) = s /\ Append(s, i)[3] = i
        /\ SubSeq(Append(t, j), 1, 2) = t /\ Append(t, j)[3] = j
    BY <1>11, <2>1, AtIs
  <2> QED BY <1>10, <1>12, <2>2
<1>13. Under(recs, PhasePlaces, at) = {PhaseOf(job, s, i, p) : p \in Names(job, s)}
  <2>1. ASSUME NEW m \in PhasePlaces, recs[m].at = at
        PROVE  \E q \in Names(job, s) : recs[m] = PhaseOf(job, s, i, q)
    <3>0. m \in 1 .. n
      BY <1>1
    <3>1. PICK t \in DOMAIN job.local :
            \E j \in Emitted(job, t) : \E q \in Names(job, t) : recs[m] = PhaseOf(job, t, j, q)
      BY <1>4, <1>5, <3>0
    <3>2. PICK j \in Emitted(job, t) : \E q \in Names(job, t) : recs[m] = PhaseOf(job, t, j, q)
      BY <3>1
    <3>3. PICK q \in Names(job, t) : recs[m] = PhaseOf(job, t, j, q)
      BY <3>2
    <3>4. Append(t, j) = at
      BY <2>1, <3>3 DEF PhaseOf
    <3> QED BY <1>12, <3>3, <3>4
  <2>2. ASSUME NEW q \in Names(job, s)
        PROVE  \E m \in PhasePlaces : recs[m].at = at /\ recs[m] = PhaseOf(job, s, i, q)
    <3>1. PhaseOf(job, s, i, q) \in U /\ PhaseOf(job, s, i, q).at = at
      BY <1>5, <1>10 DEF PhaseOf
    <3>2. PICK m \in 1 .. n : recs[m] = PhaseOf(job, s, i, q)
      BY <1>4, <3>1
    <3> QED BY <1>1, <1>7, <3>1, <3>2
  <2> QED BY <2>1, <2>2 DEF Under
<1>14. HasPhases(job, s, i, phasesAt[at])
  BY <1>3, <1>10, <1>13 DEF Lists, HasPhases
<1> QED BY <1>7, <1>10, <1>14

\* The rows and the report of an emitted iteration.
LEMMA EventOf ==
  ASSUME CaseInv, Finished, NEW job, job = dir.job,
         NEW s \in DOMAIN job.local, NEW i \in Emitted(job, s), NEW at, at = Append(s, i)
  PROVE  /\ at \in DOMAIN rowsAt /\ ListsRows(job, s, i, rowsAt[at])
         /\ SubSeq(at, 1, 2) = s /\ at[3] = i
<1>1. IsJob(job)
  BY FinishedIs
<1>2. s \in Nat \X Nat /\ i \in Nat
  BY <1>1, EmittedIs
<1>3. SubSeq(Append(s, i), 1, 2) = s /\ Append(s, i)[3] = i
  BY <1>2, AtIs
<1>4. at \in DOMAIN rowsAt
  BY RowsOfEvents
<1>a. \A a \in DOMAIN rowsAt : \E t \in DOMAIN job.local : \E j \in Emitted(job, t) :
        a = Append(t, j) /\ ListsRows(job, t, j, rowsAt[a])
  BY RowsOfEvents
<1>5. PICK t \in DOMAIN job.local : \E j \in Emitted(job, t) :
        at = Append(t, j) /\ ListsRows(job, t, j, rowsAt[at])
  BY <1>4, <1>a
<1>6. PICK j \in Emitted(job, t) :
        at = Append(t, j) /\ ListsRows(job, t, j, rowsAt[at])
  BY <1>5
<1>7. t \in Nat \X Nat /\ j \in Nat
  BY <1>1, EmittedIs
<1>8. SubSeq(Append(t, j), 1, 2) = t /\ Append(t, j)[3] = j
  BY <1>7, AtIs
<1>9. t = s /\ j = i
  BY <1>3, <1>6, <1>8
<1>10. ListsRows(job, s, i, rowsAt[at])
  BY <1>6, <1>9
<1> QED BY <1>3, <1>4, <1>10

\* What the report of a stalled iteration says of its phases: name is a dominant
\* one, its local value on the slowest rank is its time, and a match is that the
\* iteration has the same slowest rank.
Explains(job, s, i, name, record, event) ==
  /\ record = PhaseOf(job, s, i, name)
  /\ \A other \in Names(job, s) :
       SlowestOf(job, s, i, other).us <= SlowestOf(job, s, i, name).us
  /\ event.local[record.rank] = record.us
  /\ event.match = IF Total(job, s, i).rank = record.rank THEN "match" ELSE "mismatch"

\* So it is of every stalled iteration whose phases were written.
LEMMA ExplainedIs ==
  ASSUME CaseInv, Finished, NEW job, job = dir.job, NEW at \in DOMAIN breakdown
  PROVE  /\ at \in Affected
         /\ \E s \in DOMAIN job.local : \E i \in Emitted(job, s) : \E name \in Names(job, s) :
              at = Append(s, i) /\ Explains(job, s, i, name, breakdown[at], RankEvent(at))
<1>1. /\ IsJob(job) /\ at \in DOMAIN phasesAt
      /\ breakdown[at] = Dominant(phasesAt[at])
  BY FinishedIs
<1>2. at \in Affected
  BY <1>1, PhasesOfStalls
<1>3. PICK s \in DOMAIN job.local : \E i \in Emitted(job, s) :
        at = Append(s, i) /\ HasPhases(job, s, i, phasesAt[at])
  BY <1>1, PhasesOfStalls
<1>4. PICK i \in Emitted(job, s) :
        at = Append(s, i) /\ HasPhases(job, s, i, phasesAt[at])
  BY <1>3
<1> DEFINE R == Ranks(job, s)
           N == Names(job, s)
           S == {PhaseOf(job, s, i, p) : p \in N}
           rows == rowsAt[at]
           local == job.local[s][i]
<1>5. /\ IsFiniteSet(R) /\ R \subseteq Nat /\ 0 \in R
      /\ IsFiniteSet(N) /\ N \subseteq ToSet(PhaseColumns)
      /\ local \in [R -> [N -> Nat]]
  <2>1. i \in DOMAIN job.local[s]
    BY <1>1, EmittedIs
  <2> QED BY <1>1, <2>1, JobIs
<1> HIDE DEF R, N
<1>6. ASSUME NEW p \in N
      PROVE  /\ SlowestOf(job, s, i, p).us \in Nat /\ SlowestOf(job, s, i, p).rank \in R
             /\ local[SlowestOf(job, s, i, p).rank][p] = SlowestOf(job, s, i, p).us
             /\ PhaseOf(job, s, i, p).us = SlowestOf(job, s, i, p).us
             /\ PhaseOf(job, s, i, p).rank = SlowestOf(job, s, i, p).rank
             /\ PhaseOf(job, s, i, p).name = p
  <2> DEFINE value == [r \in R |-> local[r][p]]
  <2>1. value \in [R -> Nat] /\ R # {}
    BY <1>5
  <2>2. SlowestOf(job, s, i, p) = MaxLoc(value)
    BY DEF SlowestOf, R
  <2> HIDE DEF value
  <2>3. /\ MaxLoc(value).us \in Nat /\ MaxLoc(value).rank \in R
        /\ value[MaxLoc(value).rank] = MaxLoc(value).us
    BY <1>5, <2>1, MaxLocIs
  <2>4. \A r \in R : value[r] = local[r][p]
    BY DEF value
  <2>5. /\ PhaseOf(job, s, i, p).us = SlowestOf(job, s, i, p).us
        /\ PhaseOf(job, s, i, p).rank = SlowestOf(job, s, i, p).rank
        /\ PhaseOf(job, s, i, p).name = p
    BY DEF PhaseOf
  <2> QED BY <2>2, <2>3, <2>4, <2>5
<1>7. IsFiniteSet(S) /\ S # {} /\ ToSet(phasesAt[at]) = S
  <2> DEFINE f == [p \in N |-> PhaseOf(job, s, i, p)]
  <2>1. f \in Surjection(N, S)
    BY DEF Surjection
  <2>2. IsFiniteSet(S)
    BY <1>5, <2>1, FS_Surjection
  <2> QED BY <1>4, <2>2 DEF N, HasPhases
<1>8. /\ \A x \in S : x.us \in Nat /\ x.rank \in Nat /\ x.name \in ToSet(PhaseColumns)
      /\ \A x, y \in S : x.name = y.name => x = y
  <2>1. ASSUME NEW x \in S
        PROVE  /\ x.us \in Nat /\ x.rank \in Nat /\ x.name \in ToSet(PhaseColumns)
               /\ x = PhaseOf(job, s, i, x.name)
    <3>1. PICK p \in N : x = PhaseOf(job, s, i, p)
      OBVIOUS
    <3> QED BY <1>5, <1>6, <3>1
  <2> HIDE DEF S
  <2> QED BY <2>1
<1>9. Dominant(phasesAt[at]) \in S /\ \A x \in S : x.us <= Dominant(phasesAt[at]).us
  <2> HIDE DEF S
  <2> QED BY <1>7, <1>8, DominantIs
<1>10. PICK name \in N : breakdown[at] = PhaseOf(job, s, i, name)
  BY <1>1, <1>9
<1>11. \A other \in N : SlowestOf(job, s, i, other).us <= SlowestOf(job, s, i, name).us
  <2>1. \A other \in N : PhaseOf(job, s, i, other).us <= PhaseOf(job, s, i, name).us
    BY <1>1, <1>9, <1>10
  <2> QED BY <1>6, <2>1
<1>12. ToSet(rows) = {RowOf(job, s, i, r) : r \in R}
  <2>1. ListsRows(job, s, i, rowsAt[at])
    BY <1>4, EventOf
  <2> QED BY <2>1 DEF R, ListsRows, Lists
<1> HIDE DEF rows
<1>13. \A r \in R : RowOf(job, s, i, r).rank = r /\ RowOf(job, s, i, r).phase = local[r]
                    /\ RowOf(job, s, i, r).maxRank = Total(job, s, i).rank
  BY DEF RowOf
<1> DEFINE event == RankEvent(at)
           first == CHOOSE r \in ToSet(rows) : \A q \in ToSet(rows) : r.rank <= q.rank
           rank == SlowestOf(job, s, i, name).rank
           row == CHOOSE q \in ToSet(rows) : q.rank = rank
<1>14. /\ event.match = IF Agrees(breakdown[at], first) THEN "match" ELSE "mismatch"
       /\ event.local = [r \in {q.rank : q \in ToSet(rows)} |->
                           local_phase_value(CHOOSE q \in ToSet(rows) : q.rank = r,
                                             breakdown[at].name)]
  BY DEF RankEvent, rows
<1>15. first.maxRank = Total(job, s, i).rank
  <2>1. RowOf(job, s, i, 0) \in ToSet(rows)
    BY <1>5, <1>12
  <2>2. \A q \in ToSet(rows) : RowOf(job, s, i, 0).rank <= q.rank
    BY <1>5, <1>12, <1>13
  <2>3. first \in ToSet(rows)
    BY <2>1, <2>2
  <2> HIDE DEF first
  <2> QED BY <1>12, <1>13, <2>3
<1> HIDE DEF first, event
<1>16. rank \in R /\ breakdown[at].rank = rank /\ breakdown[at].name = name
       /\ breakdown[at].us = SlowestOf(job, s, i, name).us
       /\ local[rank][name] = SlowestOf(job, s, i, name).us
  BY <1>6, <1>10
<1> HIDE DEF rank
<1>17. row = RowOf(job, s, i, rank)
  <2>1. RowOf(job, s, i, rank) \in ToSet(rows) /\ RowOf(job, s, i, rank).rank = rank
    BY <1>12, <1>13, <1>16
  <2>2. row \in ToSet(rows) /\ row.rank = rank
    BY <2>1
  <2> HIDE DEF row
  <2> QED BY <1>12, <1>13, <2>2
<1>18. event.local[rank] = breakdown[at].us
  <2>1. rank \in {q.rank : q \in ToSet(rows)}
    BY <1>12, <1>13, <1>16
  <2>2. event.local[rank] = local_phase_value(row, name)
    BY <1>14, <1>16, <2>1
  <2> HIDE DEF row
  <2>3. row.phase = local[rank] /\ name \in DOMAIN local[rank] /\ name \in ToSet(PhaseColumns)
    BY <1>5, <1>13, <1>16, <1>17
  <2>4. local_phase_value(row, name) = local[rank][name]
    <3> HIDE DEF local
    <3> QED BY <2>3 DEF local_phase_value
  <2> QED BY <1>16, <2>2, <2>4
<1>19. event.match = IF Total(job, s, i).rank = breakdown[at].rank THEN "match" ELSE "mismatch"
  BY <1>14, <1>15 DEF Agrees
<1>20. Explains(job, s, i, name, breakdown[at], RankEvent(at))
  BY <1>10, <1>11, <1>16, <1>18, <1>19 DEF Explains, event, N
<1> QED BY <1>2, <1>4, <1>20 DEF N

\* A category that explains more than half of the stalls.
MoreThanHalf(dominant, c) ==
  2 * Cardinality({at \in DOMAIN dominant : phase_category(dominant[at].name) = c})
    > Cardinality(DOMAIN dominant)

\* There is one such category at most, and it is the cause that is reported.
LEMMA CauseIs ==
  ASSUME NEW dominant, IsFiniteSet(DOMAIN dominant)
  PROVE  /\ \A at \in DOMAIN dominant : MoreThanHalf(dominant, phase_category(dominant[at].name))
              => Cause(dominant) = phase_category(dominant[at].name)
         /\ Cause(dominant) # "mixed/unattributed" => MoreThanHalf(dominant, Cause(dominant))
<1> DEFINE D == DOMAIN dominant
           cat(at) == phase_category(dominant[at].name)
           Of(c) == {at \in D : cat(at) = c}
           Count(c) == Cardinality(Of(c))
           C == {cat(at) : at \in D}
           l == CHOOSE c \in C : \A other \in C : Count(other) <= Count(c)
<1>1. Cause(dominant) = IF C # {} /\ 2 * Count(l) > Cardinality(D) THEN l ELSE "mixed/unattributed"
  BY DEF Cause
<1>2. \A c : MoreThanHalf(dominant, c) <=> 2 * Count(c) > Cardinality(D)
  BY DEF MoreThanHalf
<1>3. Cardinality(D) \in Nat /\ \A c : IsFiniteSet(Of(c)) /\ Count(c) \in Nat
  <2> SUFFICES ASSUME NEW c PROVE Cardinality(D) \in Nat /\ IsFiniteSet(Of(c)) /\ Count(c) \in Nat
    OBVIOUS
  <2>1. IsFiniteSet(Of(c))
    <3>1. Of(c) \subseteq D
      OBVIOUS
    <3> HIDE DEF Of
    <3> QED BY <3>1, FS_Subset
  <2> HIDE DEF Of
  <2> QED BY <2>1, FS_CardinalityType
<1>4. ASSUME NEW c, NEW other, c # other
      PROVE  Count(c) + Count(other) <= Cardinality(D)
  <2> DEFINE A == Of(c)
             B == Of(other)
  <2>1. A \cap B = {} /\ A \cup B \subseteq D
    BY <1>4
  <2>2. IsFiniteSet(A) /\ IsFiniteSet(B) /\ Cardinality(A) \in Nat /\ Cardinality(B) \in Nat
    BY <1>3
  <2> HIDE DEF A, B
  <2>3. Cardinality(A \cup B) = Cardinality(A) + Cardinality(B)
    <3>1. Cardinality(A \cup B) = Cardinality(A) + Cardinality(B) - Cardinality(A \cap B)
      BY <2>2, FS_Union
    <3>2. Cardinality(A \cap B) = 0
      BY <2>1, FS_EmptySet
    <3>3. Cardinality(A) \in Nat /\ Cardinality(B) \in Nat
      BY <2>2
    <3> QED BY <3>1, <3>2, <3>3
  <2>4. Cardinality(A \cup B) <= Cardinality(D)
    BY <2>1, FS_Subset
  <2> QED BY <2>3, <2>4 DEF A, B
<1> HIDE DEF Count
<1>5. ASSUME NEW at \in D, 2 * Count(cat(at)) > Cardinality(D)
      PROVE  Cause(dominant) = cat(at)
  <2> DEFINE c == cat(at)
  <2>1. c \in C
    OBVIOUS
  <2>a. 2 * Count(c) > Cardinality(D)
    BY <1>5
  <2> HIDE DEF c, C
  <2>2. \A other \in C : Count(other) <= Count(c)
    <3>0. Count(c) <= Count(c)
      <4>1. Count(c) \in Nat
        BY <1>3
      <4> QED BY <4>1
    <3> SUFFICES ASSUME NEW other \in C, c # other PROVE Count(other) <= Count(c)
      BY <3>0
    <3>1. Count(c) + Count(other) <= Cardinality(D)
      BY <1>4
    <3>2. Cardinality(D) \in Nat /\ Count(c) \in Nat /\ Count(other) \in Nat
      BY <1>3
    <3> QED BY <2>a, <3>1, <3>2
  <2>3. l \in C /\ Count(c) <= Count(l)
    BY <2>1, <2>2
  <2> HIDE DEF l
  <2>4. l = c
    <3> SUFFICES ASSUME c # l PROVE FALSE
      OBVIOUS
    <3>1. Count(c) + Count(l) <= Cardinality(D)
      BY <1>4
    <3>2. Cardinality(D) \in Nat /\ Count(c) \in Nat /\ Count(l) \in Nat
      BY <1>3
    <3> QED BY <2>a, <2>3, <3>1, <3>2
  <2>5. Cause(dominant) = l
    BY <1>1, <2>1, <2>4, <2>a
  <2> QED BY <2>4, <2>5 DEF c
<1>6. Cause(dominant) # "mixed/unattributed" => 2 * Count(Cause(dominant)) > Cardinality(D)
  BY <1>1
<1> QED BY <1>2, <1>5, <1>6

\* What the property says of the phases of one stalled iteration.
Told(at) ==
  LET local == dir.job.local[SubSeq(at, 1, 2)][at[3]]
      Slowest(name) == MaxLoc([r \in DOMAIN local |-> local[r][name]])
      record == summary.breakdown[at]
      event == summary.events[at]
  IN /\ at \in Affected /\ at \in DOMAIN summary.events
     /\ \A name \in DOMAIN local[0] : Slowest(name).us <= record.us
     /\ event.local[record.rank] = record.us
     /\ event.match = IF Total(dir.job, SubSeq(at, 1, 2), at[3]).rank = Slowest(record.name).rank
                      THEN "match" ELSE "mismatch"

\* Every stalled iteration of a finished case is told of that way.
LEMMA ToldOfStalls ==
  ASSUME CaseInv, Finished
  PROVE  /\ summary.breakdown = breakdown /\ summary.cause = Cause(breakdown)
         /\ summary.matches = Cardinality({at \in DOMAIN summary.events :
                                             summary.events[at].match = "match"})
         /\ summary.mismatches = Cardinality({at \in DOMAIN summary.events :
                                                summary.events[at].match = "mismatch"})
         /\ \A at \in DOMAIN breakdown : Told(at)
         /\ \A at \in DOMAIN summary.events : at \notin DOMAIN breakdown =>
              summary.events[at].match = "unknown"
<1>1. summary = CaseSummary
  BY FinishedIs
<1>2. /\ summary.breakdown = breakdown /\ summary.cause = Cause(breakdown)
      /\ summary.matches = Cardinality({at \in DOMAIN summary.events :
                                          summary.events[at].match = "match"})
      /\ summary.mismatches = Cardinality({at \in DOMAIN summary.events :
                                             summary.events[at].match = "mismatch"})
  BY <1>1 DEF CaseSummary
<1>3. /\ DOMAIN summary.events = DOMAIN rowsAt
      /\ \A at \in DOMAIN rowsAt : summary.events[at] = RankEvent(at)
  BY EventIs
<1>4. ASSUME NEW at \in DOMAIN summary.events, at \notin DOMAIN breakdown
      PROVE  summary.events[at].match = "unknown"
  <2>1. summary.events[at] = RankEvent(at)
    BY <1>3
  <2>2. RankEvent(at).match = "unknown"
    BY <1>4 DEF RankEvent
  <2> QED BY <2>1, <2>2
<1>5. ASSUME NEW at \in DOMAIN breakdown
      PROVE  Told(at)
  <2> DEFINE job == dir.job
  <2>0. IsJob(job)
    BY FinishedIs
  <2> HIDE DEF job
  <2>1. job = dir.job
    BY DEF job
  <2>2. /\ at \in Affected
        /\ \E s \in DOMAIN job.local : \E i \in Emitted(job, s) : \E name \in Names(job, s) :
             at = Append(s, i) /\ Explains(job, s, i, name, breakdown[at], RankEvent(at))
    BY <2>1, ExplainedIs
  <2>3. PICK s \in DOMAIN job.local : \E i \in Emitted(job, s) : \E name \in Names(job, s) :
          at = Append(s, i) /\ Explains(job, s, i, name, breakdown[at], RankEvent(at))
    BY <2>2
  <2>4. PICK i \in Emitted(job, s) : \E name \in Names(job, s) :
          at = Append(s, i) /\ Explains(job, s, i, name, breakdown[at], RankEvent(at))
    BY <2>3
  <2>5. PICK name \in Names(job, s) :
          at = Append(s, i) /\ Explains(job, s, i, name, breakdown[at], RankEvent(at))
    BY <2>4
  <2>6. at \in DOMAIN rowsAt /\ SubSeq(at, 1, 2) = s /\ at[3] = i
    BY <2>1, <2>5, EventOf
  <2> DEFINE local == job.local[s][i]
  <2>7. DOMAIN local = Ranks(job, s) /\ DOMAIN local[0] = Names(job, s)
    <3>1. i \in DOMAIN job.local[s]
      BY <2>0, EmittedIs
    <3>2. local \in [Ranks(job, s) -> [Names(job, s) -> Nat]] /\ 0 \in Ranks(job, s)
      BY <2>0, <3>1, JobIs
    <3> QED BY <3>2
  <2> HIDE DEF local
  <2>8. \A n : MaxLoc([r \in DOMAIN local |-> local[r][n]]) = SlowestOf(job, s, i, n)
    BY <2>7 DEF SlowestOf, local
  <2>9. /\ breakdown[at].us = SlowestOf(job, s, i, name).us /\ breakdown[at].name = name
        /\ breakdown[at].rank = SlowestOf(job, s, i, name).rank
        /\ \A other \in Names(job, s) :
             SlowestOf(job, s, i, other).us <= SlowestOf(job, s, i, name).us
        /\ RankEvent(at).local[breakdown[at].rank] = breakdown[at].us
        /\ RankEvent(at).match = IF Total(job, s, i).rank = breakdown[at].rank
                                 THEN "match" ELSE "mismatch"
    BY <2>5 DEF Explains, PhaseOf
  <2>10. dir.job.local[SubSeq(at, 1, 2)][at[3]] = local
    BY <2>1, <2>6 DEF local
  <2>11. summary.breakdown[at] = breakdown[at] /\ summary.events[at] = RankEvent(at)
         /\ at \in DOMAIN summary.events
    BY <1>2, <1>3, <2>6
  <2>12. \A n \in DOMAIN local[0] : MaxLoc([r \in DOMAIN local |-> local[r][n]]).us <= breakdown[at].us
    BY <2>7, <2>8, <2>9
  <2>13. MaxLoc([r \in DOMAIN local |-> local[r][breakdown[at].name]]).rank = breakdown[at].rank
    BY <2>8, <2>9
  <2>14. RankEvent(at).match = IF Total(dir.job, SubSeq(at, 1, 2), at[3]).rank = breakdown[at].rank
                               THEN "match" ELSE "mismatch"
    BY <2>1, <2>6, <2>9
  <2> QED BY <2>2, <2>9, <2>10, <2>11, <2>12, <2>13, <2>14 DEF Told
<1> QED BY <1>2, <1>4, <1>5

\* The dominant phase of a stall is the one whose slowest rank took longest, with
\* the value of that rank; matches and mismatches count the stalls whose slowest
\* rank is or is not that one; the cause is the category of more than half of them,
\* if there is one (analyze_phase_records, analyze_rank_records).
THEOREM PhasesHold == Spec => []PhasesAreTheJobs
<1>1. StallInv => PhasesAreTheJobs
  <2> SUFFICES ASSUME CaseInv, Finished PROVE PhasesAreTheJobs
    BY DEF StallInv, PhasesAreTheJobs
  <2> DEFINE ofStall == summary.breakdown
             Local(at) == dir.job.local[SubSeq(at, 1, 2)][at[3]]
             Slowest(at, name) == MaxLoc([r \in DOMAIN Local(at) |-> Local(at)[r][name]])
             SameRank(at) == Total(dir.job, SubSeq(at, 1, 2), at[3]).rank
                               = Slowest(at, ofStall[at].name).rank
             events == summary.events
  <2>1. /\ ofStall = breakdown /\ summary.cause = Cause(ofStall)
        /\ summary.matches = Cardinality({at \in DOMAIN events : events[at].match = "match"})
        /\ summary.mismatches = Cardinality({at \in DOMAIN events : events[at].match = "mismatch"})
        /\ \A at \in DOMAIN ofStall : Told(at)
        /\ \A at \in DOMAIN events : at \notin DOMAIN ofStall => events[at].match = "unknown"
    BY ToldOfStalls
  <2>2. ASSUME NEW at \in DOMAIN ofStall
        PROVE  /\ at \in Affected /\ at \in DOMAIN events
               /\ \A name \in DOMAIN Local(at)[0] : Slowest(at, name).us <= ofStall[at].us
               /\ events[at].local[ofStall[at].rank] = ofStall[at].us
               /\ events[at].match = IF SameRank(at) THEN "match" ELSE "mismatch"
    BY <2>1 DEF Told
  <2>3. IsFiniteSet(DOMAIN ofStall)
    <3> DEFINE key == IterationKeys(dir.phases)
               n == Len(dir.phases)
    <3>1. /\ DOMAIN ofStall = DOMAIN phasesAt
          /\ Grouped(phasesAt, dir.phases, key, PhasePlaces)
          /\ PhasePlaces \subseteq 1 .. n /\ dir.phases = PhaseRecords(dir.job) /\ IsJob(dir.job)
      BY <2>1, FinishedIs
    <3>2. n \in Nat
      BY <3>1, PhasesAre, ListIs
    <3> HIDE DEF key, n
    <3>3. IsFiniteSet(PhasePlaces)
      <4>1. \A k \in Nat : IsFiniteSet(1 .. k)
        BY FS_Interval
      <4> QED BY <3>1, <3>2, <4>1, FS_Subset
    <3>4. DOMAIN phasesAt = {key[k] : k \in PhasePlaces}
      BY <3>1 DEF Grouped
    <3>5. [k \in PhasePlaces |-> key[k]] \in Surjection(PhasePlaces, DOMAIN phasesAt)
      BY <3>4 DEF Surjection
    <3> QED BY <3>1, <3>3, <3>5, FS_Surjection
  <2> HIDE DEF Slowest, SameRank, Local
  <2>4. /\ \A at \in DOMAIN ofStall : MoreThanHalf(ofStall, phase_category(ofStall[at].name))
             => summary.cause = phase_category(ofStall[at].name)
        /\ summary.cause # "mixed/unattributed" => MoreThanHalf(ofStall, summary.cause)
    <3> HIDE DEF ofStall
    <3> QED BY <2>1, <2>3, CauseIs
  <2>5. {at \in DOMAIN events : events[at].match = "match"} = {at \in DOMAIN ofStall : SameRank(at)}
    BY <2>1, <2>2
  <2>6. {at \in DOMAIN events : events[at].match = "mismatch"} = {at \in DOMAIN ofStall : ~SameRank(at)}
    BY <2>1, <2>2
  <2>7. /\ summary.matches = Cardinality({at \in DOMAIN ofStall : SameRank(at)})
        /\ summary.mismatches = Cardinality({at \in DOMAIN ofStall : ~SameRank(at)})
    BY <2>1, <2>5, <2>6
  <2>8. DOMAIN ofStall \subseteq Affected \cap DOMAIN events
    BY <2>2
  <2> QED BY <2>2, <2>4, <2>7, <2>8 DEF PhasesAreTheJobs, MoreThanHalf, Slowest, SameRank, Local
<1> QED BY <1>1, StallInvHolds, PTL

-----------------------------------------------------------------------------
(* Stalls. *)

\* The larger of two numbers.
LEMMA LargerIs ==
  ASSUME NEW a \in Nat, NEW b \in Nat
  PROVE  Max({a, b}) = IF a >= b THEN a ELSE b
<1> DEFINE S == {a, b}
<1>1. IsFiniteSet(S) /\ S \subseteq Int /\ S # {}
  <2>1. IsFiniteSet({a}) /\ IsFiniteSet({b}) /\ S = {a} \cup {b}
    BY FS_Singleton
  <2>2. IsFiniteSet(S)
    BY <2>1, FS_Union
  <2> QED BY <2>2
<1> HIDE DEF S
<1>2. Max(S) \in S /\ \A x \in S : x <= Max(S)
  BY <1>1, ExtremesOf
<1> QED BY <1>2 DEF S

\* From i on, length markers say that a sample has no stall.
FreeFrom(markers, i, length) == \A j \in i + 1 .. i + length : markers[j] = "F"

\* After k markers: the longest run without a stall among them, and the one they
\* end with.
Scanned(markers, k, longest, current) ==
  /\ longest \in Nat /\ current \in Nat /\ current <= longest /\ longest <= k
  /\ FreeFrom(markers, k - current, current)
  /\ current < k => markers[k - current] # "F"
  /\ \E i \in 0 .. k - longest : FreeFrom(markers, i, longest)
  /\ \A i \in 0 .. k - longest - 1 : ~FreeFrom(markers, i, longest + 1)

\* One more marker.
LEMMA ScannedStep ==
  ASSUME NEW markers, NEW k \in Nat, NEW l, NEW c, Scanned(markers, k, l, c)
  PROVE  /\ markers[k + 1] = "F" =>
              Scanned(markers, k + 1, IF l >= c + 1 THEN l ELSE c + 1, c + 1)
         /\ markers[k + 1] # "F" => Scanned(markers, k + 1, l, 0)
<1>1. /\ l \in Nat /\ c \in Nat /\ c <= l /\ l <= k
      /\ \A j \in k - c + 1 .. k : markers[j] = "F"
      /\ c < k => markers[k - c] # "F"
      /\ \E i \in 0 .. k - l : FreeFrom(markers, i, l)
      /\ \A i \in 0 .. k - l - 1 : ~FreeFrom(markers, i, l + 1)
  <2>1. FreeFrom(markers, k - c, c)
    BY DEF Scanned
  <2>2. k - c + c = k
    BY DEF Scanned
  <2>3. \A j \in k - c + 1 .. k : markers[j] = "F"
    BY <2>1, <2>2 DEF FreeFrom
  <2> QED BY <2>3 DEF Scanned
<1>2. ASSUME markers[k + 1] = "F"
      PROVE  Scanned(markers, k + 1, IF l >= c + 1 THEN l ELSE c + 1, c + 1)
  <2> DEFINE m == IF l >= c + 1 THEN l ELSE c + 1
  <2>1. m \in Nat /\ c + 1 \in Nat /\ c + 1 <= m /\ m <= k + 1 /\ l <= m /\ m <= l + 1
    BY <1>1
  <2>2. FreeFrom(markers, k + 1 - (c + 1), c + 1)
    BY <1>1, <1>2 DEF FreeFrom
  <2>3. c + 1 < k + 1 => markers[k + 1 - (c + 1)] # "F"
    BY <1>1
  <2>4. \E i \in 0 .. k + 1 - m : FreeFrom(markers, i, m)
    <3>1. CASE l >= c + 1
      <4>1. PICK i \in 0 .. k - l : FreeFrom(markers, i, l)
        BY <1>1
      <4>2. m = l /\ i \in 0 .. k + 1 - m
        BY <1>1, <3>1
      <4> QED BY <4>1, <4>2
    <3>2. CASE ~(l >= c + 1)
      <4>1. m = c + 1 /\ k + 1 - (c + 1) \in 0 .. k + 1 - m
        BY <1>1, <3>2
      <4> QED BY <2>2, <4>1
    <3> QED BY <3>1, <3>2
  <2>5. ASSUME NEW i \in 0 .. k + 1 - m - 1, FreeFrom(markers, i, m + 1)
        PROVE  FALSE
    <3>1. CASE i + m + 1 <= k
      <4>1. FreeFrom(markers, i, l + 1)
        BY <1>1, <2>1, <2>5 DEF FreeFrom
      <4>2. i \in 0 .. k - l - 1
        BY <1>1, <2>1, <3>1
      <4> QED BY <1>1, <4>1, <4>2
    <3>2. CASE ~(i + m + 1 <= k)
      <4>1. i + m + 1 = k + 1 /\ k - c \in i + 1 .. i + (m + 1) /\ c < k
        BY <1>1, <2>1, <3>2
      <4>2. markers[k - c] = "F"
        BY <2>5, <4>1 DEF FreeFrom
      <4> QED BY <1>1, <4>1, <4>2
    <3> QED BY <3>1, <3>2
  <2> HIDE DEF m
  <2>6. Scanned(markers, k + 1, m, c + 1)
    BY <2>1, <2>2, <2>3, <2>4, <2>5 DEF Scanned
  <2> QED BY <2>6 DEF m
<1>3. ASSUME markers[k + 1] # "F"
      PROVE  Scanned(markers, k + 1, l, 0)
  <2>1. FreeFrom(markers, k + 1 - 0, 0)
    BY DEF FreeFrom
  <2>2. markers[k + 1 - 0] # "F"
    BY <1>3
  <2>3. \E i \in 0 .. k + 1 - l : FreeFrom(markers, i, l)
    BY <1>1
  <2>4. ASSUME NEW i \in 0 .. k + 1 - l - 1, FreeFrom(markers, i, l + 1)
        PROVE  FALSE
    <3>1. CASE i + l + 1 <= k
      <4>1. i \in 0 .. k - l - 1
        BY <1>1, <3>1
      <4> QED BY <1>1, <2>4, <4>1
    <3>2. CASE ~(i + l + 1 <= k)
      <4>1. k + 1 \in i + 1 .. i + (l + 1)
        BY <1>1, <3>2
      <4> QED BY <1>3, <2>4, <4>1 DEF FreeFrom
    <3> QED BY <3>1, <3>2
  <2> QED BY <1>1, <2>1, <2>2, <2>3, <2>4 DEF Scanned
<1> QED BY <1>2, <1>3

\* The length that the report gives is that of the longest run without a stall.
LEMMA LongestIs ==
  ASSUME NEW markers, IsSequence(markers), NEW n, n = Len(markers),
         NEW l, l = longest_stall_free_sequence(markers)
  PROVE  /\ l \in 0 .. n /\ \E i \in 0 .. n - l : FreeFrom(markers, i, l)
         /\ l < n => ~\E i \in 0 .. n - (l + 1) : FreeFrom(markers, i, l + 1)
<1> DEFINE T == Nat \X Nat
           Step(k, run) == IF markers[k] = "F" THEN <<Max({run[1], run[2] + 1}), run[2] + 1>>
                           ELSE <<run[1], 0>>
           F == [p \in (1 .. n) \X T |-> Step(p[1], p[2])]
           none == <<0, 0>>
           Body(f) == [k \in 0 .. n |-> IF k = 0 THEN none ELSE Step(k, f[k - 1])]
           scan == CHOOSE f : f = Body(f)
<1>1. n \in Nat
  BY SequenceIs
<1>2. \A run \in T : run[1] \in Nat /\ run[2] \in Nat /\ run = <<run[1], run[2]>>
                     /\ Max({run[1], run[2] + 1}) = IF run[1] >= run[2] + 1 THEN run[1] ELSE run[2] + 1
  BY LargerIs
<1>a. \A k : \A run \in T : Step(k, run) \in T
  BY <1>2
<1>4. \E f : f = Body(f)
  <2>1. F \in [(1 .. n) \X T -> T] /\ none \in T
    BY <1>a
  <2> HIDE DEF F, T, Step, none
  <2>a. PICK f \in [0 .. n -> T] : Repeats(f, n, none, F)
    BY <1>1, <2>1, Recursion
  <2>2. f \in [0 .. n -> T] /\ f[0] = none /\ \A k \in 1 .. n : f[k] = F[<<k, f[k - 1]>>]
    BY <2>a DEF Repeats
  <2>3. ASSUME NEW k \in 1 .. n PROVE f[k] = Step(k, f[k - 1])
    <3>1. <<k, f[k - 1]>> \in (1 .. n) \X T
      BY <1>1, <2>2
    <3> QED BY <2>2, <3>1 DEF F
  <2>4. f = Body(f)
    <3>1. \A k \in 0 .. n : f[k] = IF k = 0 THEN none ELSE Step(k, f[k - 1])
      <4>1. \A k \in 0 .. n : k = 0 \/ k \in 1 .. n
        BY <1>1
      <4> QED BY <2>2, <2>3, <4>1
    <3> QED BY <2>2, <3>1
  <2> QED BY <2>4
<1>5. scan = Body(scan)
  BY <1>4
<1>6. l = scan[n][1]
  BY DEF longest_stall_free_sequence
<1> HIDE DEF scan, Step
<1>7. /\ scan[0] = <<0, 0>>
      /\ \A k \in 1 .. n : scan[k] = Step(k, scan[k - 1])
  <2>1. \A k \in 0 .. n : scan[k] = IF k = 0 THEN none ELSE Step(k, scan[k - 1])
    BY <1>5, Zenon
  <2>2. 0 \in 0 .. n /\ \A k \in 1 .. n : k \in 0 .. n /\ k # 0
    BY <1>1
  <2> QED BY <2>1, <2>2
<1> DEFINE G == {k \in 0 .. n : Scanned(markers, k, scan[k][1], scan[k][2])
                                /\ scan[k] = <<scan[k][1], scan[k][2]>>}
<1>8. 0 \in G
  <2>1. Scanned(markers, 0, 0, 0)
    BY DEF Scanned, FreeFrom
  <2> QED BY <1>1, <1>7, <2>1
<1>9. ASSUME NEW k \in 1 .. n, k - 1 \in G
      PROVE  k \in G
  <2> DEFINE c == scan[k - 1][2]
             m == scan[k - 1][1]
  <2>1. Scanned(markers, k - 1, m, c) /\ scan[k - 1] = <<m, c>> /\ k - 1 \in Nat
    BY <1>1, <1>9
  <2>2. m \in Nat /\ c \in Nat
    BY <2>1 DEF Scanned
  <2>3. scan[k] = IF markers[k] = "F" THEN <<Max({m, c + 1}), c + 1>> ELSE <<m, 0>>
    BY <1>7 DEF Step
  <2> HIDE DEF m, c
  <2>4. Max({m, c + 1}) = IF m >= c + 1 THEN m ELSE c + 1
    BY <2>2, LargerIs
  <2>5. /\ markers[k - 1 + 1] = "F" =>
             Scanned(markers, k - 1 + 1, IF m >= c + 1 THEN m ELSE c + 1, c + 1)
        /\ markers[k - 1 + 1] # "F" => Scanned(markers, k - 1 + 1, m, 0)
    BY <2>1, ScannedStep
  <2>6. k - 1 + 1 = k
    OBVIOUS
  <2>7. CASE markers[k] = "F"
    <3>1. scan[k] = <<IF m >= c + 1 THEN m ELSE c + 1, c + 1>>
      BY <2>3, <2>4, <2>7
    <3>2. Scanned(markers, k, IF m >= c + 1 THEN m ELSE c + 1, c + 1)
      BY <2>5, <2>6, <2>7
    <3> QED BY <3>1, <3>2
  <2>8. CASE markers[k] # "F"
    <3>1. scan[k] = <<m, 0>>
      BY <2>3, <2>8
    <3>2. Scanned(markers, k, m, 0)
      BY <2>5, <2>6, <2>8
    <3> QED BY <3>1, <3>2
  <2> QED BY <2>7, <2>8
<1>10. \A k \in 0 .. n : k \in G
  <2> HIDE DEF G
  <2> QED BY <1>1, <1>8, <1>9, UpTo
<1>11. Scanned(markers, n, l, scan[n][2])
  BY <1>1, <1>6, <1>10
<1>12. /\ l \in Nat /\ l <= n /\ \E i \in 0 .. n - l : FreeFrom(markers, i, l)
       /\ \A i \in 0 .. n - l - 1 : ~FreeFrom(markers, i, l + 1)
  BY <1>11 DEF Scanned
<1> QED BY <1>1, <1>12

\* The stalls of one sample.
StallsIn(d, s) == {at \in JobStalls(d) : SubSeq(at, 1, 2) = s}

\* The iterations of a job that took the time of the threshold, by sample.
LEMMA JobStallsAre ==
  ASSUME NEW d, IsJob(d.job)
  PROVE  \A at : at \in JobStalls(d) <=>
           \E s \in DOMAIN d.job.local : \E i \in DOMAIN d.job.local[s] :
             at = Append(s, i) /\ Total(d.job, s, i).us >= threshold
<1> DEFINE local == d.job.local
           Ats(s) == {Append(s, i) : i \in DOMAIN local[s]}
           all == {Ats(s) : s \in DOMAIN local}
           total(at) == Total(d.job, SubSeq(at, 1, 2), at[3]).us
<1>1. ASSUME NEW s \in DOMAIN local, NEW i \in DOMAIN local[s]
      PROVE  SubSeq(Append(s, i), 1, 2) = s /\ Append(s, i)[3] = i
  <2>1. s \in Nat \X Nat /\ i \in Nat
    <3>1. s \in Nat \X Nat /\ DOMAIN local[s] = 1 .. Len(local[s]) /\ Len(local[s]) \in Nat
      BY JobIs
    <3> QED BY <3>1
  <2> QED BY <2>1, AtIs
<1>2. \A at : at \in UNION all <=> \E s \in DOMAIN local : \E i \in DOMAIN local[s] : at = Append(s, i)
  OBVIOUS
<1>3. JobStalls(d) = {at \in UNION all : total(at) >= threshold}
  BY DEF JobStalls
<1> HIDE DEF all
<1>4. ASSUME NEW at \in JobStalls(d)
      PROVE  \E s \in DOMAIN local : \E i \in DOMAIN local[s] :
               at = Append(s, i) /\ Total(d.job, s, i).us >= threshold
  <2>1. PICK s \in DOMAIN local : \E i \in DOMAIN local[s] : at = Append(s, i)
    BY <1>2, <1>3
  <2>2. PICK i \in DOMAIN local[s] : at = Append(s, i)
    BY <2>1
  <2> QED BY <1>1, <1>3, <2>2
<1>5. ASSUME NEW at, NEW s \in DOMAIN local, NEW i \in DOMAIN local[s],
             at = Append(s, i), Total(d.job, s, i).us >= threshold
      PROVE  at \in JobStalls(d)
  BY <1>1, <1>2, <1>3, <1>5
<1> QED BY <1>4, <1>5

\* The records that are kept of a job whose threshold is not above that of the
\* analysis are its stalls, and they are counted sample by sample.
LEMMA StallsAre ==
  ASSUME CaseInv, Finished, dir.job.recorded = 0 \/ threshold >= dir.job.recorded
  PROVE  /\ {affected[i].at : i \in DOMAIN affected} = JobStalls(dir)
         /\ Len(affected) = Cardinality(JobStalls(dir)) /\ IsFiniteSet(JobStalls(dir))
         /\ \A s : s \in DOMAIN stalls <=> StallsIn(dir, s) # {}
         /\ \A s \in DOMAIN stalls : Len(stalls[s]) = Cardinality(StallsIn(dir, s))
<1> DEFINE job == dir.job
           recs == dir.times
           n == Len(recs)
           P == StallPlaces
           key == SampleKeys(recs)
           J == JobStalls(dir)
           U == UNION {{TimeOf(job, s, i) : i \in Emitted(job, s)} : s \in DOMAIN job.local}
<1>1. /\ IsDirectory(dir) /\ IsJob(job) /\ recs = TimeRecords(job) /\ threshold \in Int
      /\ P = {k \in 1 .. n : IsStall(recs[k])}
      /\ affected = Chosen(recs, P) /\ Grouped(stalls, recs, key, P)
  BY FinishedIs
<1>2. Lists(recs, U)
  BY <1>1, TimesAre
<1>3. /\ IsSequence(recs) /\ DOMAIN recs = 1 .. n /\ n \in Nat
      /\ \A k \in 1 .. n : recs[k] \in U
      /\ \A x \in U : \E k \in 1 .. n : recs[k] = x
  <2> HIDE DEF U
  <2> QED BY <1>2, ListIs
<1>4. /\ \A x \in U : \E s \in DOMAIN job.local : \E i \in Emitted(job, s) : x = TimeOf(job, s, i)
      /\ \A s \in DOMAIN job.local : \A i \in Emitted(job, s) : TimeOf(job, s, i) \in U
  OBVIOUS
<1>5. \A k, l \in 1 .. n : recs[k].at = recs[l].at => k = l
  BY <1>1, <1>3 DEF IsDirectory
<1>6. \A k \in 1 .. n : k \in P <=> recs[k].us >= threshold
  BY <1>1 DEF IsStall
<1>7. \A k \in 1 .. n : key[k] = SubSeq(recs[k].at, 1, 2)
  BY <1>3 DEF SampleKeys, SampleOf
<1>8. P \subseteq 1 .. n
  BY <1>1
<1>9. \A at : at \in J <=> \E s \in DOMAIN job.local : \E i \in DOMAIN job.local[s] :
        at = Append(s, i) /\ Total(job, s, i).us >= threshold
  BY <1>1, JobStallsAre
<1>a. job.recorded \in Int
  BY <1>1, JobIs
<1>b. job.recorded = 0 \/ threshold >= job.recorded
  OBVIOUS
<1> HIDE DEF job, recs, n, P, key, J, U
<1>10. ASSUME NEW k \in P PROVE recs[k].at \in J
  <2>1. k \in 1 .. n /\ recs[k].us >= threshold
    BY <1>6, <1>8
  <2>2. PICK s \in DOMAIN job.local : \E i \in Emitted(job, s) : recs[k] = TimeOf(job, s, i)
    BY <1>3, <1>4, <2>1
  <2>3. PICK i \in Emitted(job, s) : recs[k] = TimeOf(job, s, i)
    BY <2>2
  <2>4. i \in DOMAIN job.local[s]
    BY <1>1, EmittedIs
  <2>5. recs[k].at = Append(s, i) /\ recs[k].us = Total(job, s, i).us
    BY <2>3 DEF TimeOf
  <2> QED BY <1>9, <2>1, <2>4, <2>5
<1>11. ASSUME NEW at \in J PROVE \E k \in P : recs[k].at = at
  <2>1. PICK s \in DOMAIN job.local : \E i \in DOMAIN job.local[s] :
          at = Append(s, i) /\ Total(job, s, i).us >= threshold
    BY <1>9
  <2>2. PICK i \in DOMAIN job.local[s] : at = Append(s, i) /\ Total(job, s, i).us >= threshold
    BY <2>1
  <2>3. Total(job, s, i).us \in Nat
    BY <1>1, TotalIs
  <2>4. i \in Emitted(job, s)
    BY <1>1, <1>a, <1>b, <2>2, <2>3 DEF Emitted
  <2>5. PICK k \in 1 .. n : recs[k] = TimeOf(job, s, i)
    BY <1>3, <1>4, <2>4
  <2>6. recs[k].at = at /\ recs[k].us >= threshold
    BY <2>2, <2>5 DEF TimeOf
  <2> QED BY <1>6, <2>6
<1>12. ASSUME NEW Q, Q \subseteq P, NEW A, A = {recs[k].at : k \in Q}
       PROVE  IsFiniteSet(A) /\ Cardinality(A) = Cardinality(Q)
  <2> DEFINE f == [k \in Q |-> recs[k].at]
  <2>1. IsFiniteSet(Q)
    <3>1. \A m \in Nat : IsFiniteSet(1 .. m)
      BY FS_Interval
    <3>2. Q \subseteq 1 .. n
      BY <1>8, <1>12
    <3> QED BY <1>3, <3>1, <3>2, FS_Subset
  <2>2. OneToOne(f, Q, A)
    BY <1>5, <1>8, <1>12 DEF OneToOne
  <2> HIDE DEF f
  <2> QED BY <2>1, <2>2, SameCount
<1>13. /\ ToSet(affected) = {recs[k] : k \in P} /\ Len(affected) = Cardinality(P)
       /\ DOMAIN affected = 1 .. Len(affected)
  <2>1. /\ IsSequence(Chosen(recs, P)) /\ Len(Chosen(recs, P)) = Cardinality(P)
        /\ ToSet(Chosen(recs, P)) = {recs[k] : k \in P}
    BY <1>3, <1>8, ChosenIs
  <2> QED BY <1>1, <2>1, SequenceIs
<1>14. {affected[i].at : i \in DOMAIN affected} = J
  <2>1. ASSUME NEW i \in DOMAIN affected PROVE affected[i].at \in J
    <3>1. affected[i] \in ToSet(affected)
      BY DEF ToSet
    <3> QED BY <1>10, <1>13, <3>1
  <2>2. ASSUME NEW at \in J PROVE \E i \in DOMAIN affected : affected[i].at = at
    <3>1. PICK k \in P : recs[k].at = at
      BY <1>11
    <3>2. recs[k] \in ToSet(affected)
      BY <1>13
    <3> QED BY <3>1, <3>2 DEF ToSet
  <2> QED BY <2>1, <2>2
<1>15. J = {recs[k].at : k \in P}
  BY <1>10, <1>11
<1>16. Len(affected) = Cardinality(J) /\ IsFiniteSet(J)
  BY <1>12, <1>13, <1>15
<1>17. ASSUME NEW s
       PROVE  /\ s \in DOMAIN stalls <=> StallsIn(dir, s) # {}
              /\ s \in DOMAIN stalls => Len(stalls[s]) = Cardinality(StallsIn(dir, s))
  <2> DEFINE Q == {k \in P : key[k] = s}
             A == StallsIn(dir, s)
  <2>1. A = {recs[k].at : k \in Q}
    BY <1>7, <1>8, <1>15 DEF StallsIn, J
  <2>2. s \in DOMAIN stalls <=> Q # {}
    BY <1>1 DEF Grouped
  <2>3. s \in DOMAIN stalls => stalls[s] = Chosen(recs, Q)
    BY <1>1 DEF Grouped
  <2>4. Q \subseteq P /\ Q \subseteq 1 .. n
    BY <1>8
  <2> HIDE DEF Q, A
  <2>5. Cardinality(A) = Cardinality(Q)
    BY <1>12, <2>1, <2>4
  <2>6. Len(Chosen(recs, Q)) = Cardinality(Q)
    BY <1>3, <2>4, ChosenIs
  <2>7. s \in DOMAIN stalls <=> A # {}
    BY <2>1, <2>2
  <2> QED BY <2>3, <2>5, <2>6, <2>7 DEF A
<1> QED BY <1>14, <1>16, <1>17 DEF J

\* The pairs of S of which the first precedes the second.
PairOrder(S) == {p \in S \X S : Precedes(p[1], p[2])}

\* Pairs, as Ordered has them, in their one order.
LEMMA PairsEnumerated ==
  ASSUME NEW S, IsFiniteSet(S), S \subseteq Int \X Int
  PROVE  /\ Cardinality(S) \in Nat
         /\ Enumerates(Ordered(S, Precedes), Cardinality(S), S, PairOrder(S))
         /\ \A x, y \in S : Precedes(x, y) <=> x[1] < y[1] \/ (x[1] = y[1] /\ x[2] < y[2])
<1> DEFINE a == Ordered(S, Precedes)
           n == Cardinality(S)
<1>1. n \in Nat /\ a \in [1 .. n -> S]
  BY PairsAscend
<1>2. \A x \in S : \E i \in 1 .. n : a[i] = x
  BY PairsAscend
<1>3. \A i, j \in 1 .. n : /\ Precedes(a[i], a[j]) <=> i < j
                           /\ a[i] = a[j] => i = j
  BY PairsAscend
<1>4. \A x, y \in S : Precedes(x, y) <=> x[1] < y[1] \/ (x[1] = y[1] /\ x[2] < y[2])
  BY PairsAscend
<1> HIDE DEF a, n
<1>5. \A i, j \in 1 .. n : <<a[i], a[j]>> \in PairOrder(S) <=> i < j
  <2>1. \A x, y \in S : <<x, y>> \in PairOrder(S) <=> Precedes(x, y)
    BY DEF PairOrder
  <2>2. \A i \in 1 .. n : a[i] \in S
    BY <1>1
  <2> SUFFICES ASSUME NEW i \in 1 .. n, NEW j \in 1 .. n
               PROVE  <<a[i], a[j]>> \in PairOrder(S) <=> i < j
    OBVIOUS
  <2>3. Precedes(a[i], a[j]) <=> i < j
    BY <1>3
  <2>4. <<a[i], a[j]>> \in PairOrder(S) <=> Precedes(a[i], a[j])
    BY <2>1, <2>2
  <2> QED BY <2>3, <2>4
<1>6. Enumerates(a, n, S, PairOrder(S))
  BY <1>1, <1>2, <1>5 DEF Enumerates
<1> QED BY <1>1, <1>4, <1>6 DEF a, n

\* The entries of ghalo.json sorted are those of the job's samples in its order.
LEMMA SortedAreSamples ==
  ASSUME NEW d, IsDirectory(d), Loadable(d), NEW local, Keys(d) = local,
         IsFiniteSet(local), local \subseteq Int \X Int,
         NEW sorted, sorted = SortedSamples(d), NEW keys, keys = Ordered(local, Precedes)
  PROVE  /\ DOMAIN sorted = 1 .. Cardinality(local) /\ DOMAIN keys = 1 .. Cardinality(local)
         /\ \A i \in DOMAIN sorted : sorted[i] \in ToSet(d.results) /\ sorted[i].key = keys[i]
<1> DEFINE S == ToSet(d.results)
           n == Len(d.results)
           N == Cardinality(local)
           key == [i \in 1 .. n |-> d.results[i].key]
           R == {p \in S \X S : Precedes(p[1].key, p[2].key)}
           K == {p \in local \X local : Precedes(p[1], p[2])}
<1>1. n \in Nat /\ DOMAIN d.results = 1 .. n /\ ~(Cardinality(local) < n)
  <2>1. d.results \in Seq(S)
    BY DEF IsDirectory
  <2>2. Cardinality(local) = n
    BY DEF Loadable
  <2> QED BY <2>1, <2>2
<1>2. local = {key[i] : i \in 1 .. n}
  BY <1>1 DEF Keys
<1>3. \A i, j \in 1 .. n : key[i] = key[j] => i = j
  <2>1. DOMAIN key = 1 .. n
    OBVIOUS
  <2> HIDE DEF key, n
  <2> QED BY <1>1, <1>2, <2>1, AsManyValues
<1>4. /\ \A x \in S : \E i \in 1 .. n : x = d.results[i]
      /\ \A i \in 1 .. n : d.results[i] \in S
  BY <1>1 DEF ToSet
<1>5. \A x, y \in S : x.key = y.key => x = y
  <2> SUFFICES ASSUME NEW x \in S, NEW y \in S, x.key = y.key PROVE x = y
    OBVIOUS
  <2>1. PICK i \in 1 .. n : x = d.results[i]
    BY <1>4
  <2>2. PICK j \in 1 .. n : y = d.results[j]
    BY <1>4
  <2>3. key[i] = key[j]
    BY <2>1, <2>2
  <2> QED BY <1>3, <2>1, <2>2, <2>3
<1>6. \A x \in S : x.key \in local
  BY <1>2, <1>4
<1>7. \A k \in local : \E x \in S : x.key = k
  BY <1>2, <1>4
<1>8. /\ N \in Nat /\ Enumerates(keys, N, local, K)
      /\ \A x, y \in local : Precedes(x, y) <=> x[1] < y[1] \/ (x[1] = y[1] /\ x[2] < y[2])
  <2>1. K = PairOrder(local)
    BY DEF PairOrder
  <2> HIDE DEF K
  <2>2. /\ N \in Nat /\ Enumerates(Ordered(local, Precedes), N, local, PairOrder(local))
        /\ \A x, y \in local : Precedes(x, y) <=> x[1] < y[1] \/ (x[1] = y[1] /\ x[2] < y[2])
    BY PairsEnumerated
  <2> QED BY <2>1, <2>2
<1>9. \A x \in local : x[1] \in Int /\ x[2] \in Int /\ x = <<x[1], x[2]>>
  OBVIOUS
<1>10. \A x, y \in S : <<x, y>> \in R <=> Precedes(x.key, y.key)
  OBVIOUS
<1>11. \A x, y \in local : <<x, y>> \in K <=> Precedes(x, y)
  OBVIOUS
<1>12. IsFiniteSet(S) /\ Cardinality(S) = N
  <2> DEFINE f == [x \in S |-> x.key]
  <2>1. OneToOne(f, S, local)
    BY <1>5, <1>6, <1>7 DEF OneToOne
  <2>2. IsFiniteSet(S)
    <3> DEFINE D == 1 .. n
               g == [i \in D |-> d.results[i]]
    <3>1. g \in Surjection(D, S)
      BY <1>4 DEF Surjection
    <3>2. IsFiniteSet(D)
      BY <1>1, FS_Interval
    <3> HIDE DEF D, g, S
    <3> QED BY <3>1, <3>2, FS_Surjection
  <2> HIDE DEF f, S
  <2> QED BY <2>1, <2>2, SameCount
<1>13. sorted = Arranged(R, S)
  <2>1. sorted = [i \in 1 .. Cardinality(S) |->
                    CHOOSE x \in S : Cardinality({y \in S : Precedes(y.key, x.key)}) = i - 1]
    BY DEF SortedSamples, Ordered
  <2>2. \A x \in S : {y \in S : Precedes(y.key, x.key)} = {y \in S : <<y, x>> \in R}
    BY <1>10
  <2> HIDE DEF R, S
  <2>3. \A i : (CHOOSE x \in S : Cardinality({y \in S : Precedes(y.key, x.key)}) = i - 1)
               = CHOOSE x \in S : Cardinality({y \in S : <<y, x>> \in R}) = i - 1
    BY <2>2
  <2> QED BY <2>1, <2>3, Zenon DEF Arranged
<1> HIDE DEF R, K, S, N
<1>14. StrictOrder(R, S)
  <2>1. \A x \in S : <<x, x>> \notin R
    BY <1>6, <1>8, <1>9, <1>10
  <2>2. \A x, y, z \in S : <<x, y>> \in R /\ <<y, z>> \in R => <<x, z>> \in R
    BY <1>6, <1>8, <1>9, <1>10
  <2>3. \A x, y \in S : x = y \/ <<x, y>> \in R \/ <<y, x>> \in R
    <3> SUFFICES ASSUME NEW x \in S, NEW y \in S, x # y
                 PROVE  <<x, y>> \in R \/ <<y, x>> \in R
      OBVIOUS
    <3> DEFINE a == x.key
               b == y.key
    <3>1. a \in local /\ b \in local /\ a # b
      BY <1>5, <1>6
    <3> HIDE DEF a, b
    <3>2. a = <<a[1], a[2]>> /\ b = <<b[1], b[2]>>
      BY <1>9, <3>1
    <3>3. a[1] # b[1] \/ a[2] # b[2]
      BY <3>1, <3>2
    <3>4. Precedes(a, b) \/ Precedes(b, a)
      BY <1>8, <1>9, <3>1, <3>3
    <3> QED BY <1>10, <3>4 DEF a, b
  <2> QED BY <2>1, <2>2, <2>3 DEF StrictOrder
<1>15. /\ sorted \in [1 .. N -> S]
       /\ \A x \in S : \E i \in 1 .. N : sorted[i] = x
       /\ \A i, j \in 1 .. N : <<sorted[i], sorted[j]>> \in R <=> i < j
  <2>1. /\ sorted \in [1 .. Cardinality(S) -> S]
        /\ \A x \in S : \E i \in 1 .. Cardinality(S) : sorted[i] = x
        /\ \A i, j \in 1 .. Cardinality(S) : <<sorted[i], sorted[j]>> \in R <=> i < j
    <3>1. IsFiniteSet(S) /\ sorted = Arranged(R, S)
      BY <1>12, <1>13
    <3> QED BY <3>1, <1>14, InOrderOf
  <2> QED BY <1>12, <2>1
<1> DEFINE g == [i \in 1 .. N |-> sorted[i].key]
<1>16. Enumerates(g, N, local, K)
  <2>1. g \in [1 .. N -> local]
    BY <1>6, <1>15
  <2>2. \A x \in local : \E i \in 1 .. N : g[i] = x
    <3> SUFFICES ASSUME NEW x \in local PROVE \E i \in 1 .. N : g[i] = x
      OBVIOUS
    <3>1. PICK y \in S : y.key = x
      BY <1>7
    <3>2. PICK i \in 1 .. N : sorted[i] = y
      BY <1>15
    <3> QED BY <3>1, <3>2
  <2>3. \A i, j \in 1 .. N : <<g[i], g[j]>> \in K <=> i < j
    <3> SUFFICES ASSUME NEW i \in 1 .. N, NEW j \in 1 .. N PROVE <<g[i], g[j]>> \in K <=> i < j
      OBVIOUS
    <3>1. g[i] \in local /\ g[j] \in local /\ g[i] = sorted[i].key /\ g[j] = sorted[j].key
      BY <2>1
    <3>2. sorted[i] \in S /\ sorted[j] \in S
      BY <1>15
    <3> HIDE DEF g
    <3> QED BY <1>10, <1>11, <1>15, <3>1, <3>2
  <2> HIDE DEF g
  <2> QED BY <2>1, <2>2, <2>3 DEF Enumerates
<1>17. Enumerates(keys, N, local, K)
  BY <1>8
<1>18. g = keys
  <2> HIDE DEF g
  <2> QED BY <1>8, <1>16, <1>17, OneArrangement
<1>19. DOMAIN keys = 1 .. N
  BY <1>17 DEF Enumerates
<1> QED BY <1>15, <1>18, <1>19 DEF S, N

\* What a sample with c stalls in m iterations is called: nearly all are slow from
\* nine stalls in ten on.
LEMMA ClassIs ==
  ASSUME NEW c \in Nat, NEW m \in Nat \ {0}
  PROVE  /\ classify_sample(c, m) = "isolated" <=> c = 1
         /\ classify_sample(c, m) = "nearly_all" <=> c > 1 /\ 10 * c >= 9 * m
         /\ classify_sample(c, m) = "multiple" <=> c > 1 /\ ~(10 * c >= 9 * m)
<1> DEFINE a == 9 * m
           t == CeilDiv(a, 10)
<1>1. a \in Nat /\ m > 0
  OBVIOUS
<1>2. c >= t <=> 10 * c >= a
  <2> HIDE DEF a
  <2>1. t = (a + 9) \div 10
    BY <1>1 DEF CeilDiv
  <2> QED BY <1>1, <2>1
<1> HIDE DEF a, t
<1>3. classify_sample(c, m) =
        CASE c = 0 -> "none" [] c = 1 -> "isolated"
          [] c > 1 /\ m > 0 /\ c >= t -> "nearly_all" [] OTHER -> "multiple"
  BY DEF classify_sample, t, a
<1>4. CASE c = 0
  BY <1>3, <1>4
<1>5. CASE c = 1
  BY <1>3, <1>5
<1>6. CASE c > 1
  <2>1. c # 0 /\ c # 1
    BY <1>6
  <2>2. CASE c >= t
    <3>1. classify_sample(c, m) = "nearly_all"
      BY <1>1, <1>3, <1>6, <2>1, <2>2
    <3> QED BY <1>2, <1>6, <2>1, <2>2, <3>1 DEF a
  <2>3. CASE ~(c >= t)
    <3>1. classify_sample(c, m) = "multiple"
      BY <1>3, <1>6, <2>1, <2>3
    <3> QED BY <1>2, <1>6, <2>1, <2>3, <3>1 DEF a
  <2> QED BY <2>2, <2>3
<1> QED BY <1>4, <1>5, <1>6

\* Three sets of numbers up to N that make up S.
Parts(A, B, C, S, N) ==
  /\ A \subseteq 1 .. N /\ B \subseteq 1 .. N /\ C \subseteq 1 .. N
  /\ A \cap B = {} /\ (A \cup B) \cap C = {} /\ S = A \cup B \cup C

\* They have as many members as it has.
LEMMA PartsAddUp ==
  ASSUME NEW N \in Nat, NEW A, NEW B, NEW C, NEW S, Parts(A, B, C, S, N)
  PROVE  Cardinality(A) + Cardinality(B) + Cardinality(C) = Cardinality(S)
<1>0. /\ A \subseteq 1 .. N /\ B \subseteq 1 .. N /\ C \subseteq 1 .. N
      /\ A \cap B = {} /\ (A \cup B) \cap C = {} /\ S = A \cup B \cup C
  BY DEF Parts
<1>1. IsFiniteSet(1 .. N)
  BY FS_Interval
<1>2. /\ IsFiniteSet(A) /\ IsFiniteSet(B) /\ IsFiniteSet(C) /\ IsFiniteSet(A \cup B)
  BY <1>0, <1>1, FS_Subset, FS_Union
<1>3. /\ Cardinality(A) \in Nat /\ Cardinality(B) \in Nat /\ Cardinality(C) \in Nat
      /\ Cardinality(A \cup B) \in Nat
  BY <1>2, FS_CardinalityType
<1>4. Cardinality(A \cup B) = Cardinality(A) + Cardinality(B)
  <2>1. Cardinality(A \cup B) = Cardinality(A) + Cardinality(B) - Cardinality(A \cap B)
    BY <1>2, FS_Union
  <2>2. Cardinality(A \cap B) = 0
    BY <1>0, FS_EmptySet
  <2> QED BY <1>3, <2>1, <2>2
<1>5. Cardinality(A \cup B \cup C) = Cardinality(A \cup B) + Cardinality(C)
  <2> DEFINE D == A \cup B
  <2>1. IsFiniteSet(D) /\ D \cap C = {} /\ Cardinality(D) \in Nat
    BY <1>0, <1>2, <1>3
  <2> HIDE DEF D
  <2>2. Cardinality(D \cup C) = Cardinality(D) + Cardinality(C) - Cardinality(D \cap C)
    BY <1>2, <2>1, FS_Union
  <2>3. Cardinality(D \cap C) = 0
    BY <2>1, FS_EmptySet
  <2>4. Cardinality(D \cup C) = Cardinality(D) + Cardinality(C)
    BY <1>3, <2>1, <2>2, <2>3
  <2> QED BY <2>4 DEF D
<1> QED BY <1>0, <1>3, <1>4, <1>5

\* The samples of the report are those of the job, each once, with its stalls and
\* its iterations.
SamplesReported(sorted, keys, N) ==
  /\ N \in Nat /\ DOMAIN sorted = 1 .. N /\ DOMAIN keys = 1 .. N
  /\ \A i \in 1 .. N :
       /\ keys[i] \in DOMAIN dir.job.local
       /\ sorted[i].key \in DOMAIN stalls <=> StallsIn(dir, keys[i]) # {}
       /\ StallsOf(sorted[i].key) = Cardinality(StallsIn(dir, keys[i]))
       /\ Cardinality(StallsIn(dir, keys[i])) \in Nat
       /\ Cardinality(StallsIn(dir, keys[i])) = 0 <=> StallsIn(dir, keys[i]) = {}
       /\ sorted[i].iterations = Len(dir.job.local[keys[i]])
       /\ sorted[i].iterations \in Nat \ {0}
  /\ \A i, j \in 1 .. N : keys[i] = keys[j] => i = j
  /\ \A s \in DOMAIN dir.job.local : \E i \in 1 .. N : keys[i] = s

\* The n-th sample of the report is the n-th of the job, with its stalls and its
\* iterations.
LEMMA SampleReports ==
  ASSUME CaseInv, Finished, dir.job.recorded = 0 \/ threshold >= dir.job.recorded
  PROVE  SamplesReported(SortedSamples(dir), Samples(dir.job), Cardinality(DOMAIN dir.job.local))
<1>p. PICK sorted, keys, N : /\ sorted = SortedSamples(dir) /\ keys = Samples(dir.job)
                             /\ N = Cardinality(DOMAIN dir.job.local)
  OBVIOUS
<1> DEFINE job == dir.job
           local == DOMAIN job.local
<1>1. /\ IsDirectory(dir) /\ Loadable(dir) /\ IsJob(job) /\ Keys(dir) = local
      /\ \A r \in ToSet(dir.results) : r.iterations = Len(job.local[r.key])
  BY FinishedIs
<1>2. /\ IsFiniteSet(local) /\ local \subseteq Int \X Int
      /\ \A s \in local : Len(job.local[s]) \in Nat \ {0}
  <2>1. /\ IsFiniteSet(local) /\ local \subseteq Nat \X Nat
        /\ \A s \in local : Len(job.local[s]) \in Nat \ {0}
    BY <1>1, JobIs
  <2> QED BY <2>1
<1>3. /\ DOMAIN sorted = 1 .. N /\ DOMAIN keys = 1 .. N
      /\ \A i \in 1 .. N : sorted[i] \in ToSet(dir.results) /\ sorted[i].key = keys[i]
  <2>1. keys = Ordered(local, Precedes)
    BY <1>p DEF Samples
  <2> HIDE DEF local
  <2>2. /\ DOMAIN sorted = 1 .. Cardinality(local) /\ DOMAIN keys = 1 .. Cardinality(local)
        /\ \A i \in DOMAIN sorted : sorted[i] \in ToSet(dir.results) /\ sorted[i].key = keys[i]
    BY <1>p, <1>1, <1>2, <2>1, SortedAreSamples
  <2>3. Cardinality(local) = N
    BY <1>p DEF local
  <2> QED BY <2>2, <2>3
<1>4. N \in Nat
  BY <1>p, <1>2, FS_CardinalityType
<1>5. Lists(keys, local)
  BY <1>p, <1>1, SamplesAre
<1>6. /\ \A i \in DOMAIN keys : keys[i] \in local
      /\ \A s \in local : \E i \in DOMAIN keys : keys[i] = s
      /\ \A i, j \in DOMAIN keys : keys[i] = keys[j] => i = j
  <2> HIDE DEF local
  <2> QED BY <1>5, ListIs
<1>7. /\ \A s : s \in DOMAIN stalls <=> StallsIn(dir, s) # {}
      /\ \A s \in DOMAIN stalls : Len(stalls[s]) = Cardinality(StallsIn(dir, s))
      /\ IsFiniteSet(JobStalls(dir))
  BY StallsAre
<1>8. ASSUME NEW s
      PROVE  /\ StallsOf(s) = Cardinality(StallsIn(dir, s)) /\ Cardinality(StallsIn(dir, s)) \in Nat
             /\ Cardinality(StallsIn(dir, s)) = 0 <=> StallsIn(dir, s) = {}
  <2> DEFINE A == StallsIn(dir, s)
  <2>1. IsFiniteSet(A)
    <3>1. A \subseteq JobStalls(dir)
      BY DEF StallsIn
    <3> HIDE DEF A
    <3> QED BY <1>7, <3>1, FS_Subset
  <2>2. s \in DOMAIN stalls <=> A # {}
    BY <1>7
  <2>3. s \in DOMAIN stalls => Len(stalls[s]) = Cardinality(A)
    BY <1>7
  <2> HIDE DEF A
  <2>4. Cardinality(A) \in Nat /\ (Cardinality(A) = 0 <=> A = {})
    BY <2>1, FS_CardinalityType, FS_EmptySet
  <2>5. StallsOf(s) = Cardinality(A)
    BY <2>2, <2>3, <2>4 DEF StallsOf
  <2> QED BY <2>4, <2>5 DEF A
<1>9. ASSUME NEW i \in 1 .. N
      PROVE  sorted[i].iterations = Len(job.local[keys[i]]) /\ sorted[i].iterations \in Nat \ {0}
  <2>1. sorted[i] \in ToSet(dir.results) /\ sorted[i].key = keys[i]
    BY <1>3
  <2>2. keys[i] \in local
    BY <1>3, <1>6
  <2>3. sorted[i].iterations = Len(job.local[sorted[i].key])
    BY <1>1, <2>1
  <2>4. Len(job.local[keys[i]]) \in Nat \ {0}
    <3> HIDE DEF local
    <3> QED BY <1>2, <2>2
  <2> HIDE DEF local
  <2> QED BY <2>1, <2>3, <2>4
<1>10. SamplesReported(sorted, keys, N)
  <2>1. ASSUME NEW i \in 1 .. N
        PROVE  /\ keys[i] \in DOMAIN dir.job.local
               /\ sorted[i].key \in DOMAIN stalls <=> StallsIn(dir, keys[i]) # {}
               /\ StallsOf(sorted[i].key) = Cardinality(StallsIn(dir, keys[i]))
    <3>1. keys[i] \in DOMAIN dir.job.local /\ sorted[i].key = keys[i]
      BY <1>3, <1>6
    <3> QED BY <1>7, <1>8, <3>1
  <2>2. \A s \in DOMAIN dir.job.local : \E i \in 1 .. N : keys[i] = s
    BY <1>3, <1>6
  <2>3. \A i, j \in 1 .. N : keys[i] = keys[j] => i = j
    BY <1>3, <1>6
  <2> QED BY <1>3, <1>4, <1>8, <1>9, <2>1, <2>2, <2>3 DEF SamplesReported
<1> QED BY <1>p, <1>10

\* The samples with at least tenths of ten iterations stalled, and more than one.
ManyOf(tenths) ==
  {s \in DOMAIN dir.job.local :
     /\ Cardinality(StallsIn(dir, s)) > 1
     /\ 10 * Cardinality(StallsIn(dir, s)) >= tenths * Len(dir.job.local[s])}

\* The markers of a case say which samples have a stall, and how long none has.
LEMMA MarkersAre ==
  ASSUME CaseInv, Finished, dir.job.recorded = 0 \/ threshold >= dir.job.recorded,
         NEW markers, markers = summary.sequence
  PROVE  /\ IsSequence(markers)
         /\ \A i \in DOMAIN markers : (markers[i] = "S") <=> StallsIn(dir, Samples(dir.job)[i]) # {}
         /\ summary.longestFree = longest_stall_free_sequence(markers)
<1>p. PICK sorted, keys, N : /\ sorted = SortedSamples(dir) /\ keys = Samples(dir.job)
                             /\ N = Cardinality(DOMAIN dir.job.local)
  OBVIOUS
<1>1. /\ N \in Nat /\ DOMAIN sorted = 1 .. N
      /\ \A i \in 1 .. N : sorted[i].key \in DOMAIN stalls <=> StallsIn(dir, keys[i]) # {}
  <2>1. SamplesReported(sorted, keys, N)
    BY <1>p, SampleReports
  <2> QED BY <2>1 DEF SamplesReported
<1>2. /\ markers = [i \in DOMAIN sorted |-> IF sorted[i].key \in DOMAIN stalls THEN "S" ELSE "F"]
      /\ summary.longestFree = longest_stall_free_sequence(markers)
  <2>1. summary = CaseSummary
    BY FinishedIs
  <2> QED BY <1>p, <2>1 DEF CaseSummary
<1>3. markers = [i \in 1 .. N |-> markers[i]]
  BY <1>1, <1>2
<1>4. IsSequence(markers)
  BY <1>1, <1>3, FunctionIsSequence
<1> QED BY <1>p, <1>1, <1>2, <1>4

\* Of each class as many samples are counted as have the stalls of it.
LEMMA ClassesAre ==
  ASSUME CaseInv, Finished, dir.job.recorded = 0 \/ threshold >= dir.job.recorded
  PROVE  /\ summary.isolated + summary.multiple + summary.nearlyAll = summary.withStalls
         /\ summary.nearlyAll = Cardinality(ManyOf(9))
<1>p. PICK sorted, keys, N : /\ sorted = SortedSamples(dir) /\ keys = Samples(dir.job)
                             /\ N = Cardinality(DOMAIN dir.job.local)
  OBVIOUS
<1> DEFINE local == DOMAIN dir.job.local
           c(i) == Cardinality(StallsIn(dir, keys[i]))
           m(i) == Len(dir.job.local[keys[i]])
           Class(i) == classify_sample(StallsOf(sorted[i].key), sorted[i].iterations)
           Of(class) == {i \in DOMAIN sorted : Class(i) = class}
           markers == summary.sequence
           slow == {i \in DOMAIN markers : markers[i] = "S"}
<1>1. /\ N \in Nat /\ DOMAIN sorted = 1 .. N
      /\ \A i \in 1 .. N :
           /\ keys[i] \in local
           /\ sorted[i].key \in DOMAIN stalls <=> StallsIn(dir, keys[i]) # {}
           /\ StallsOf(sorted[i].key) = c(i)
           /\ c(i) \in Nat
           /\ c(i) = 0 <=> StallsIn(dir, keys[i]) = {}
           /\ sorted[i].iterations = m(i)
           /\ sorted[i].iterations \in Nat \ {0}
      /\ \A i, j \in 1 .. N : keys[i] = keys[j] => i = j
      /\ \A s \in local : \E i \in 1 .. N : keys[i] = s
  <2>1. SamplesReported(sorted, keys, N)
    BY <1>p, SampleReports
  <2> QED BY <2>1 DEF SamplesReported
<1>2. /\ markers = [i \in DOMAIN sorted |-> IF sorted[i].key \in DOMAIN stalls THEN "S" ELSE "F"]
      /\ summary.isolated = Cardinality(Of("isolated"))
      /\ summary.multiple = Cardinality(Of("multiple"))
      /\ summary.nearlyAll = Cardinality(Of("nearly_all"))
      /\ summary.withStalls = Cardinality(slow)
  <2>1. summary = CaseSummary
    BY FinishedIs
  <2> QED BY <1>p, <2>1 DEF CaseSummary
<1>3. ManyOf(9) = {s \in local : Cardinality(StallsIn(dir, s)) > 1
                                 /\ 10 * Cardinality(StallsIn(dir, s)) >= 9 * Len(dir.job.local[s])}
  BY DEF ManyOf
<1>4. ASSUME NEW i \in 1 .. N
      PROVE  /\ Class(i) = "isolated" <=> c(i) = 1
             /\ Class(i) = "nearly_all" <=> c(i) > 1 /\ 10 * c(i) >= 9 * m(i)
             /\ Class(i) = "multiple" <=> c(i) > 1 /\ ~(10 * c(i) >= 9 * m(i))
             /\ c(i) \in Nat
             /\ i \in slow <=> c(i) # 0
  <2>1. Class(i) = classify_sample(c(i), m(i)) /\ c(i) \in Nat /\ m(i) \in Nat \ {0}
    BY <1>1
  <2>2. i \in slow <=> c(i) # 0
    BY <1>1, <1>2
  <2> HIDE DEF c, m, Class, slow
  <2>3. /\ classify_sample(c(i), m(i)) = "isolated" <=> c(i) = 1
        /\ classify_sample(c(i), m(i)) = "nearly_all" <=> c(i) > 1 /\ 10 * c(i) >= 9 * m(i)
        /\ classify_sample(c(i), m(i)) = "multiple" <=> c(i) > 1 /\ ~(10 * c(i) >= 9 * m(i))
    BY <2>1, ClassIs
  <2> QED BY <2>1, <2>2, <2>3
<1>5. slow \subseteq 1 .. N /\ \A class : Of(class) \subseteq 1 .. N
  BY <1>1, <1>2
<1>6. \A class : \A i \in 1 .. N : i \in Of(class) <=> Class(i) = class
  BY <1>1
<1> HIDE DEF slow, Of, Class
<1>7. summary.isolated + summary.multiple + summary.nearlyAll = summary.withStalls
  <2> DEFINE A == Of("isolated")
             B == Of("multiple")
             D == Of("nearly_all")
  <2>1. A \subseteq 1 .. N /\ B \subseteq 1 .. N /\ D \subseteq 1 .. N
    BY <1>5
  <2>2. A \cap B = {} /\ (A \cup B) \cap D = {}
    BY <1>6, <2>1
  <2>3. A \cup B \cup D = slow
    <3>1. ASSUME NEW i \in 1 .. N PROVE (i \in A \/ i \in B \/ i \in D) <=> i \in slow
      <4>1. /\ i \in A <=> c(i) = 1
            /\ i \in D <=> c(i) > 1 /\ 10 * c(i) >= 9 * m(i)
            /\ i \in B <=> c(i) > 1 /\ ~(10 * c(i) >= 9 * m(i))
            /\ c(i) \in Nat /\ (i \in slow <=> c(i) # 0)
        BY <1>4, <1>6
      <4> HIDE DEF A, B, D, c
      <4>2. c(i) # 0 <=> c(i) = 1 \/ c(i) > 1
        BY <4>1
      <4> QED BY <4>1, <4>2
    <3> QED BY <1>5, <2>1, <3>1
  <2>4. /\ summary.isolated = Cardinality(A) /\ summary.multiple = Cardinality(B)
        /\ summary.nearlyAll = Cardinality(D) /\ summary.withStalls = Cardinality(slow)
    BY <1>2
  <2>6. N \in Nat
    BY <1>1
  <2> HIDE DEF A, B, D
  <2>5. Parts(A, B, D, slow, N)
    BY <2>1, <2>2, <2>3 DEF Parts
  <2>7. Cardinality(A) + Cardinality(B) + Cardinality(D) = Cardinality(slow)
    BY <2>5, <2>6, PartsAddUp
  <2> QED BY <2>4, <2>7
<1>8. Cardinality(ManyOf(9)) = Cardinality(Of("nearly_all"))
  <2> DEFINE D == Of("nearly_all")
             f == [i \in D |-> keys[i]]
             T == ManyOf(9)
  <2>1. IsFiniteSet(D)
    <3>1. \A n \in Nat : IsFiniteSet(1 .. n)
      BY FS_Interval
    <3> QED BY <1>1, <1>5, <3>1, FS_Subset
  <2>2. \A i \in 1 .. N : i \in D <=> keys[i] \in T
    BY <1>1, <1>3, <1>4, <1>6
  <2>3. D \subseteq 1 .. N /\ T \subseteq local
    BY <1>3, <1>5
  <2>4. OneToOne(f, D, T)
    <3> HIDE DEF D, T, local
    <3> QED BY <1>1, <2>2, <2>3 DEF OneToOne
  <2> HIDE DEF D, T, f
  <2>5. Cardinality(T) = Cardinality(D)
    BY <2>1, <2>4, SameCount
  <2> QED BY <2>5 DEF D, T
<1> QED BY <1>2, <1>7, <1>8

\* What the report says of the stalls is so of the job, read at its threshold or
\* a higher one: which iterations stalled, in which samples, how many samples are
\* of each class, and the longest run of samples without a stall.
THEOREM StallsHold == Spec => []StallsAreTheJobs
<1>1. StallInv => StallsAreTheJobs
  <2> SUFFICES ASSUME CaseInv, Finished, dir.job.recorded = 0 \/ threshold >= dir.job.recorded
               PROVE  StallsAreTheJobs
    BY DEF StallInv, StallsAreTheJobs
  <2> DEFINE markers == summary.sequence
             l == summary.longestFree
             n == Len(markers)
             job == dir.job
             Free(k) == \E i \in 0 .. n - k : \A j \in i + 1 .. i + k : markers[j] = "F"
  <2>1. /\ {summary.affected[i].at : i \in DOMAIN summary.affected} = JobStalls(dir)
        /\ summary.stalls = Cardinality(JobStalls(dir))
    <3>1. summary.affected = affected /\ summary.stalls = Len(affected)
      <4>1. summary = CaseSummary
        BY FinishedIs
      <4> QED BY <4>1 DEF CaseSummary
    <3>2. {affected[i].at : i \in DOMAIN affected} = JobStalls(dir) /\ Len(affected) = Cardinality(JobStalls(dir))
      BY StallsAre
    <3> QED BY <3>1, <3>2
  <2>2. /\ IsSequence(markers) /\ l = longest_stall_free_sequence(markers)
        /\ \A i \in DOMAIN markers : (markers[i] = "S") <=> StallsIn(dir, Samples(job)[i]) # {}
    BY MarkersAre
  <2>3. /\ summary.isolated + summary.multiple + summary.nearlyAll = summary.withStalls
        /\ summary.nearlyAll = Cardinality(ManyOf(9))
    BY ClassesAre
  <2>4. Cardinality(ManyOf(10)) <= Cardinality(ManyOf(9))
    <3>1. IsJob(job)
      BY FinishedIs
    <3>2. IsFiniteSet(DOMAIN job.local) /\ \A s \in DOMAIN job.local : Len(job.local[s]) \in Nat
      BY <3>1, JobIs
    <3>3. ASSUME NEW s \in ManyOf(10) PROVE s \in ManyOf(9)
      <4> DEFINE a == Cardinality(StallsIn(dir, s))
                 b == Len(job.local[s])
      <4>1. s \in DOMAIN job.local /\ a > 1 /\ 10 * a >= 10 * b
        BY DEF ManyOf
      <4>2. b \in Nat
        BY <3>2, <4>1
      <4>3. a \in Nat
        <5>1. IsFiniteSet(StallsIn(dir, s))
          <6>1. IsFiniteSet(JobStalls(dir))
            BY StallsAre
          <6> QED BY <6>1, FS_Subset DEF StallsIn
        <5> QED BY <5>1, FS_CardinalityType
      <4> HIDE DEF a, b
      <4>4. 10 * a >= 9 * b
        BY <4>1, <4>2, <4>3
      <4> QED BY <4>1, <4>4 DEF ManyOf, a, b
    <3>4. IsFiniteSet(ManyOf(9))
      BY <3>2, FS_Subset DEF ManyOf
    <3> QED BY <3>3, <3>4, FS_Subset, FS_CardinalityType
  <2>5. /\ l \in 0 .. n /\ \E i \in 0 .. n - l : FreeFrom(markers, i, l)
        /\ l < n => ~\E i \in 0 .. n - (l + 1) : FreeFrom(markers, i, l + 1)
    <3> HIDE DEF markers, l
    <3> QED BY <2>2, LongestIs
  <2>6. n \in Nat
    <3> HIDE DEF markers
    <3> QED BY <2>2, SequenceIs
  <2>7. l <= n /\ Free(l) /\ (l < n => ~Free(l + 1))
    <3> HIDE DEF markers, l
    <3> QED BY <2>5, <2>6 DEF FreeFrom
  <2>8. Cardinality(ManyOf(10)) <= summary.nearlyAll /\ summary.nearlyAll <= Cardinality(ManyOf(9))
    <3>1. Cardinality(ManyOf(9)) \in Int
      <4>1. IsFiniteSet(ManyOf(9))
        <5>1. IsFiniteSet(DOMAIN job.local)
          BY FinishedIs, JobIs
        <5> QED BY <5>1, FS_Subset DEF ManyOf
      <4> QED BY <4>1, FS_CardinalityType
    <3> QED BY <2>3, <2>4, <3>1
  <2> QED BY <2>1, <2>2, <2>3, <2>7, <2>8 DEF StallsAreTheJobs, ManyOf, StallsIn
<1> QED BY <1>1, StallInvHolds, PTL

-----------------------------------------------------------------------------
(* Versions. *)

\* The numbers of a set that begin a run of consecutive ones.
Firsts(S) == {x \in S : x - 1 \notin S}

\* After k of the numbers q of S: the lengths of the runs that ended and of the
\* one that has not, and the last number.
Split(S, q, k, lengths, current, previous) ==
  /\ current \in Nat \ {0} /\ previous = q[k] /\ current <= k
  /\ AddsTo(lengths, Cardinality({j \in 1 .. k : q[j] - 1 \notin S}) - 1, k - current)

\* One more number: it makes the run longer, or begins one.
LEMMA SplitStep ==
  ASSUME NEW S, NEW n \in Nat, NEW q \in [1 .. n -> Nat], NEW k \in 1 .. n, k + 1 \in 1 .. n,
         NEW lengths, NEW c, NEW p, Split(S, q, k, lengths, c, p),
         q[k + 1] - 1 \in S <=> q[k + 1] = q[k] + 1
  PROVE  /\ q[k + 1] = p + 1 => Split(S, q, k + 1, lengths, c + 1, q[k + 1])
         /\ q[k + 1] # p + 1 => Split(S, q, k + 1, Append(lengths, c), 1, q[k + 1])
<1> DEFINE A == {j \in 1 .. k : q[j] - 1 \notin S}
           B == {j \in 1 .. k + 1 : q[j] - 1 \notin S}
<1>1. /\ c \in Nat \ {0} /\ p = q[k] /\ c <= k /\ AddsTo(lengths, Cardinality(A) - 1, k - c)
  BY DEF Split
<1>2. IsFiniteSet(A) /\ Cardinality(A) \in Nat
  <2>1. IsFiniteSet(1 .. k)
    BY FS_Interval
  <2>2. A \subseteq 1 .. k
    OBVIOUS
  <2> HIDE DEF A
  <2> QED BY <2>1, <2>2, FS_Subset, FS_CardinalityType
<1>3. ASSUME q[k + 1] = p + 1
      PROVE  Split(S, q, k + 1, lengths, c + 1, q[k + 1])
  <2>1. B = A
    <3>1. q[k + 1] - 1 \in S
      BY <1>1, <1>3
    <3>2. \A j \in 1 .. k + 1 : j \in 1 .. k \/ j = k + 1
      OBVIOUS
    <3>3. \A j \in 1 .. k : j \in 1 .. k + 1
      OBVIOUS
    <3> QED BY <3>1, <3>2, <3>3
  <2>2. k + 1 - (c + 1) = k - c /\ c + 1 \in Nat \ {0} /\ c + 1 <= k + 1
    BY <1>1
  <2>3. AddsTo(lengths, Cardinality(B) - 1, k + 1 - (c + 1))
    BY <1>1, <2>1, <2>2
  <2> QED BY <2>2, <2>3 DEF Split
<1>4. ASSUME q[k + 1] # p + 1
      PROVE  Split(S, q, k + 1, Append(lengths, c), 1, q[k + 1])
  <2>1. B = A \cup {k + 1} /\ k + 1 \notin A
    <3>1. q[k + 1] - 1 \notin S
      BY <1>1, <1>4
    <3>2. \A j : j \in 1 .. k + 1 <=> j \in 1 .. k \/ j = k + 1
      OBVIOUS
    <3>3. k + 1 \notin 1 .. k
      OBVIOUS
    <3> QED BY <3>1, <3>2, <3>3
  <2> HIDE DEF A, B
  <2>2. Cardinality(B) = Cardinality(A) + 1
    BY <1>2, <2>1, FS_AddElement
  <2>3. AddsTo(Append(lengths, c), Cardinality(A) - 1 + 1, k - c + c)
    BY <1>1, AppendAdds
  <2>4. Cardinality(A) - 1 + 1 = Cardinality(B) - 1 /\ k - c + c = k + 1 - 1 /\ 1 <= k + 1
    BY <1>1, <1>2, <2>2
  <2>5. AddsTo(Append(lengths, c), Cardinality(B) - 1, k + 1 - 1)
    BY <2>3, <2>4
  <2> QED BY <2>4, <2>5 DEF Split, B
<1> QED BY <1>3, <1>4

\* The runs of the numbers of a set have as many numbers as the set, and each
\* begins with a first one.
LEMMA RunsAre ==
  ASSUME NEW S, IsFiniteSet(S), S \subseteq Nat, S # {}
  PROVE  AddsTo(Runs(Ascending(S)), Cardinality(Firsts(S)), Cardinality(S))
<1> DEFINE q == Ascending(S)
           n == Cardinality(S)
           T == Seq(Nat) \X Nat \X Nat
           Step(k, run) == LET i == q[k]
                           IN IF run[2] = 0 \/ i = run[3] + 1 THEN <<run[1], run[2] + 1, i>>
                              ELSE <<Append(run[1], run[2]), 1, i>>
           F == [p \in (1 .. n) \X T |-> Step(p[1], p[2])]
           none == <<<<>>, 0, 0>>
           Body(f) == [k \in 0 .. Len(q) |-> IF k = 0 THEN none ELSE Step(k, f[k - 1])]
           scan == CHOOSE f : f = Body(f)
<1>1. /\ n \in Nat /\ n # 0 /\ q \in [1 .. n -> S]
      /\ \A x \in S : \E i \in 1 .. n : q[i] = x
      /\ \A i, j \in 1 .. n : q[i] < q[j] <=> i < j
  <2>1. S \subseteq Int
    OBVIOUS
  <2> QED BY <2>1, AscendingIs, FS_EmptySet
<1>2. q \in [1 .. n -> Nat] /\ Len(q) = n
  <2> HIDE DEF q, n
  <2>1. q \in [1 .. n -> Nat]
    BY <1>1
  <2>2. q \in Seq(Nat)
    BY <1>1, <2>1
  <2> QED BY <1>1, <2>1
<1>3. Runs(q) = Append(scan[n][1], scan[n][2])
  <2>1. Scan(q) = scan[Len(q)]
    BY DEF Scan
  <2> HIDE DEF scan, q, n
  <2> QED BY <1>2, <2>1 DEF Runs
<1> HIDE DEF q, n
<1>4. \E f : f = Body(f)
  <2>1. F \in [(1 .. n) \X T -> T] /\ none \in T
    <3>0. ASSUME NEW a \in Seq(Nat), NEW b \in Nat, NEW c \in Nat PROVE <<a, b, c>> \in T
      OBVIOUS
    <3>1. \A k \in 1 .. n : \A run \in T : Step(k, run) \in T
      <4> SUFFICES ASSUME NEW k \in 1 .. n, NEW run \in T PROVE Step(k, run) \in T
        OBVIOUS
      <4>1. run[1] \in Seq(Nat) /\ run[2] \in Nat /\ run[3] \in Nat /\ q[k] \in Nat
        BY <1>2
      <4>2. Append(run[1], run[2]) \in Seq(Nat)
        BY <4>1
      <4>3. <<run[1], run[2] + 1, q[k]>> \in T /\ <<Append(run[1], run[2]), 1, q[k]>> \in T
        <5> HIDE DEF T
        <5>1. run[2] + 1 \in Nat /\ 1 \in Nat
          BY <4>1
        <5>2. <<run[1], run[2] + 1, q[k]>> \in T
          BY <3>0, <4>1, <5>1, Zenon
        <5>3. <<Append(run[1], run[2]), 1, q[k]>> \in T
          BY <3>0, <4>1, <4>2, <5>1, Zenon
        <5> QED BY <5>2, <5>3
      <4> HIDE DEF T
      <4> QED BY <4>3
    <3>2. none \in T
      <4>1. <<>> \in Seq(Nat)
        OBVIOUS
      <4> HIDE DEF T
      <4> QED BY <3>0, <4>1
    <3> HIDE DEF Step, T, none
    <3> QED BY <3>1, <3>2
  <2> HIDE DEF F, T, Step, none
  <2>a. PICK f \in [0 .. n -> T] : Repeats(f, n, none, F)
    BY <1>1, <2>1, Recursion
  <2>2. f \in [0 .. n -> T] /\ f[0] = none /\ \A k \in 1 .. n : f[k] = F[<<k, f[k - 1]>>]
    BY <2>a DEF Repeats
  <2>3. ASSUME NEW k \in 1 .. n PROVE f[k] = Step(k, f[k - 1])
    <3>1. <<k, f[k - 1]>> \in (1 .. n) \X T
      BY <1>1, <2>2
    <3> QED BY <2>2, <3>1 DEF F
  <2>4. f = Body(f)
    <3>1. \A k \in 0 .. n : f[k] = IF k = 0 THEN none ELSE Step(k, f[k - 1])
      <4>1. \A k \in 0 .. n : k = 0 \/ k \in 1 .. n
        BY <1>1
      <4> QED BY <2>2, <2>3, <4>1
    <3> QED BY <1>2, <2>2, <3>1
  <2> QED BY <2>4
<1>5. scan = Body(scan)
  BY <1>4
<1> HIDE DEF scan, Step
<1>6. /\ scan[0] = none
      /\ \A k \in 1 .. n : scan[k] = Step(k, scan[k - 1])
  <2>1. \A k \in 0 .. n : scan[k] = IF k = 0 THEN none ELSE Step(k, scan[k - 1])
    BY <1>2, <1>5, Zenon
  <2>2. 0 \in 0 .. n /\ \A k \in 1 .. n : k \in 0 .. n /\ k # 0
    BY <1>1
  <2> QED BY <2>1, <2>2
<1>7. ASSUME NEW k \in 1 .. n, k + 1 \in 1 .. n
      PROVE  q[k + 1] - 1 \in S <=> q[k + 1] = q[k] + 1
  <2>1. q[k] \in S /\ q[k] \in Nat /\ q[k + 1] \in Nat /\ q[k] < q[k + 1]
    BY <1>1, <1>2, <1>7
  <2>2. ASSUME q[k + 1] - 1 \in S PROVE q[k + 1] = q[k] + 1
    <3>1. PICK i \in 1 .. n : q[i] = q[k + 1] - 1
      BY <1>1, <2>2
    <3>2. q[i] < q[k + 1]
      BY <2>1, <3>1
    <3>3. i < k + 1
      BY <1>1, <1>7, <3>2
    <3>4. i = k \/ i < k
      BY <1>1, <3>3
    <3>5. i = k \/ q[i] < q[k]
      BY <1>1, <3>4
    <3> QED BY <2>1, <3>1, <3>5
  <2>3. ASSUME q[k + 1] = q[k] + 1 PROVE q[k + 1] - 1 \in S
    BY <2>1, <2>3
  <2> QED BY <2>2, <2>3
<1>8. 1 \in 1 .. n /\ q[1] \in Nat /\ q[1] - 1 \notin S
  <2>1. 1 \in 1 .. n /\ q[1] \in Nat
    BY <1>1, <1>2
  <2>2. ASSUME q[1] - 1 \in S PROVE FALSE
    <3>1. PICK i \in 1 .. n : q[i] = q[1] - 1
      BY <1>1, <2>2
    <3>2. q[i] < q[1]
      BY <2>1, <3>1
    <3>3. i < 1
      BY <1>1, <2>1, <3>2
    <3> QED BY <1>1, <3>3
  <2> QED BY <2>1, <2>2
<1> DEFINE Good(k) == /\ Split(S, q, k, scan[k][1], scan[k][2], scan[k][3])
                      /\ scan[k] = <<scan[k][1], scan[k][2], scan[k][3]>>
           G == {k \in 0 .. n : k # 0 => Good(k)}
<1>9. Good(1)
  <2>1. scan[1] = <<<<>>, 1, q[1]>>
    <3>1. scan[1] = Step(1, none)
      <4>1. 1 - 1 = 0
        OBVIOUS
      <4> QED BY <1>6, <1>8, <4>1
    <3> QED BY <3>1 DEF Step
  <2> DEFINE A == {j \in 1 .. 1 : q[j] - 1 \notin S}
  <2>2. A = {1}
    <3>1. \A j : j \in 1 .. 1 <=> j = 1
      OBVIOUS
    <3> QED BY <1>8, <3>1
  <2> HIDE DEF A
  <2>3. Cardinality(A) - 1 = 0 /\ 1 - 1 = 0
    BY <2>2, FS_Singleton
  <2>4. AddsTo(<<>>, Cardinality(A) - 1, 1 - 1)
    BY <2>3, NothingAdds
  <2>5. Split(S, q, 1, <<>>, 1, q[1])
    BY <2>4 DEF Split, A
  <2> QED BY <2>1, <2>5
<1>10. ASSUME NEW k \in 1 .. n, k + 1 \in 1 .. n, Good(k)
       PROVE  Good(k + 1)
  <2> DEFINE l == scan[k][1]
             c == scan[k][2]
             p == scan[k][3]
  <2>1. Split(S, q, k, l, c, p) /\ scan[k] = <<l, c, p>>
    BY <1>10
  <2>2. scan[k + 1] = Step(k + 1, scan[k])
    <3>1. k + 1 - 1 = k
      OBVIOUS
    <3> QED BY <1>6, <1>10, <3>1
  <2> HIDE DEF l, c, p
  <2>3. c # 0
    BY <2>1 DEF Split
  <2>4. scan[k + 1] = IF q[k + 1] = p + 1 THEN <<l, c + 1, q[k + 1]>> ELSE <<Append(l, c), 1, q[k + 1]>>
    BY <2>1, <2>2, <2>3 DEF Step
  <2>5. /\ q[k + 1] = p + 1 => Split(S, q, k + 1, l, c + 1, q[k + 1])
        /\ q[k + 1] # p + 1 => Split(S, q, k + 1, Append(l, c), 1, q[k + 1])
    BY <1>1, <1>2, <1>7, <1>10, <2>1, SplitStep
  <2>6. CASE q[k + 1] = p + 1
    <3>1. scan[k + 1] = <<l, c + 1, q[k + 1]>>
      BY <2>4, <2>6
    <3> QED BY <2>5, <2>6, <3>1
  <2>7. CASE q[k + 1] # p + 1
    <3>1. scan[k + 1] = <<Append(l, c), 1, q[k + 1]>>
      BY <2>4, <2>7
    <3> QED BY <2>5, <2>7, <3>1
  <2> QED BY <2>6, <2>7
<1>11. Good(n)
  <2> HIDE DEF Good
  <2>1. 0 \in G
    BY <1>1
  <2>2. ASSUME NEW k \in 1 .. n, k - 1 \in G PROVE k \in G
    <3>1. CASE k = 1
      BY <1>1, <1>9, <3>1
    <3>2. CASE k # 1
      <4>1. k - 1 \in 1 .. n /\ k - 1 # 0 /\ k - 1 + 1 = k
        BY <1>1, <3>2
      <4>2. Good(k - 1)
        BY <2>2, <4>1
      <4>3. Good(k - 1 + 1)
        BY <1>10, <4>1, <4>2
      <4> QED BY <4>1, <4>3
    <3> QED BY <3>1, <3>2
  <2> HIDE DEF G
  <2>3. \A k \in 0 .. n : k \in G
    BY <1>1, <2>1, <2>2, UpTo
  <2> USE DEF G
  <2> QED BY <1>1, <2>3
<1> DEFINE A == {j \in 1 .. n : q[j] - 1 \notin S}
           f == [j \in A |-> q[j]]
           B == Firsts(S)
<1>12. Cardinality(B) = Cardinality(A) /\ Cardinality(A) \in Nat
  <2>1. IsFiniteSet(A)
    <3>1. IsFiniteSet(1 .. n)
      BY <1>1, FS_Interval
    <3>2. A \subseteq 1 .. n
      OBVIOUS
    <3> HIDE DEF A
    <3> QED BY <3>1, <3>2, FS_Subset
  <2>2. OneToOne(f, A, B)
    <3>1. f \in [A -> B]
      BY <1>1 DEF Firsts
    <3>2. \A y \in B : \E x \in A : f[x] = y
      BY <1>1 DEF Firsts
    <3>3. \A x, y \in A : f[x] = f[y] => x = y
      <4> SUFFICES ASSUME NEW x \in A, NEW y \in A, f[x] = f[y] PROVE x = y
        OBVIOUS
      <4>1. x \in 1 .. n /\ y \in 1 .. n /\ q[x] = q[y] /\ q[x] \in Nat
        BY <1>2
      <4>2. ~(x < y) /\ ~(y < x)
        BY <1>1, <4>1
      <4> QED BY <1>1, <4>1, <4>2
    <3> HIDE DEF A, B, f
    <3> QED BY <3>1, <3>2, <3>3 DEF OneToOne
  <2> HIDE DEF A, B, f
  <2> QED BY <2>1, <2>2, SameCount, FS_CardinalityType
<1>13. /\ scan[n][2] \in Nat /\ scan[n][2] <= n
       /\ AddsTo(scan[n][1], Cardinality(A) - 1, n - scan[n][2])
  BY <1>11 DEF Split
<1> HIDE DEF A, B, f, scan
<1>14. AddsTo(Append(scan[n][1], scan[n][2]), Cardinality(A) - 1 + 1, n - scan[n][2] + scan[n][2])
  BY <1>13, AppendAdds
<1>15. Cardinality(A) - 1 + 1 = Cardinality(A) /\ n - scan[n][2] + scan[n][2] = n
  BY <1>1, <1>12, <1>13
<1>16. AddsTo(Runs(q), Cardinality(B), n)
  BY <1>3, <1>12, <1>14, <1>15
<1> QED BY <1>16 DEF q, n, B

\* Sequences that have a number for each element of Y of one group and add up to
\* the elements of X of that group have, together, one for each of Y and add up to X.
LEMMA GroupsAdd ==
  ASSUME NEW X, IsFiniteSet(X), NEW Y, Y \subseteq X, NEW M \in Nat, NEW group,
         \A x \in X : group[x] \in 1 .. M,
         NEW seqs, IsSequence(seqs), Len(seqs) = M,
         \A k \in 1 .. M : AddsTo(seqs[k], Cardinality(Share(Y, group, k)),
                                  Cardinality(Share(X, group, k)))
  PROVE  AddsTo(FlattenSeq(seqs), Cardinality(Y), Cardinality(X))
<1>1. DOMAIN seqs = 1 .. M
  BY SequenceIs
<1>2. \A k \in DOMAIN seqs : IsSequence(seqs[k])
  <2> SUFFICES ASSUME NEW k \in 1 .. M PROVE IsSequence(seqs[k])
    BY <1>1
  <2> DEFINE m == Cardinality(Share(Y, group, k))
  <2>1. m \in Nat /\ seqs[k] \in [1 .. m -> Nat]
    BY DEF AddsTo
  <2> HIDE DEF m
  <2>2. seqs[k] = [i \in 1 .. m |-> seqs[k][i]]
    BY <2>1
  <2> QED BY <2>1, <2>2, FunctionIsSequence
<1>3. PICK f : /\ f[0] = <<>> /\ f[M] = FlattenSeq(seqs)
               /\ \A k \in 1 .. M : f[k] = f[k - 1] \o seqs[k]
  BY <1>2, FlattenSteps
<1>4. IsFiniteSet(Y) /\ (\A x \in X : group[x] \in Nat) /\ \A x \in Y : group[x] \in Nat
  BY FS_Subset
<1> DEFINE G == {k \in 0 .. M : AddsTo(f[k], Cardinality(Shares(Y, group, k)),
                                       Cardinality(Shares(X, group, k)))}
<1>5. 0 \in G
  <2>1. Shares(Y, group, 0) = {} /\ Shares(X, group, 0) = {}
    BY DEF Shares
  <2>2. Cardinality({}) = 0
    BY FS_EmptySet
  <2>3. AddsTo(f[0], Cardinality(Shares(Y, group, 0)), Cardinality(Shares(X, group, 0)))
    BY <1>3, <2>1, <2>2, NothingAdds, Zenon
  <2>4. 0 \in 0 .. M
    OBVIOUS
  <2> QED BY <2>3, <2>4
<1>6. ASSUME NEW k \in 1 .. M, k - 1 \in G PROVE k \in G
  <2> DEFINE a == Cardinality(Shares(Y, group, k - 1))
             b == Cardinality(Shares(X, group, k - 1))
             c == Cardinality(Share(Y, group, k))
             d == Cardinality(Share(X, group, k))
  <2>1. k - 1 \in Nat /\ k - 1 + 1 = k
    OBVIOUS
  <2>2. Cardinality(Shares(Y, group, k - 1 + 1)) = a + Cardinality(Share(Y, group, k - 1 + 1))
    BY <1>4, <2>1, SharesGrow
  <2>3. Cardinality(Shares(X, group, k - 1 + 1)) = b + Cardinality(Share(X, group, k - 1 + 1))
    BY <1>4, <2>1, SharesGrow
  <2>4. AddsTo(f[k - 1], a, b) /\ AddsTo(seqs[k], c, d)
    BY <1>6
  <2>5. AddsTo(f[k - 1] \o seqs[k], a + c, b + d)
    <3> HIDE DEF a, b, c, d
    <3> QED BY <2>4, CatAdds
  <2>6. f[k] = f[k - 1] \o seqs[k]
    BY <1>3
  <2>7. AddsTo(f[k], Cardinality(Shares(Y, group, k)), Cardinality(Shares(X, group, k)))
    BY <2>1, <2>2, <2>3, <2>5, <2>6
  <2>8. k \in 0 .. M
    OBVIOUS
  <2> QED BY <2>7, <2>8
<1>7. M \in G
  <2> HIDE DEF G
  <2>1. \A k \in 0 .. M : k \in G
    BY <1>5, <1>6, UpTo
  <2> QED BY <2>1
<1>8. Shares(Y, group, M) = Y /\ Shares(X, group, M) = X
  BY DEF Shares
<1> QED BY <1>3, <1>7, <1>8

\* A place is its sample and its iteration.
LEMMA AtSplits ==
  ASSUME NEW at \in Nat \X Nat \X Nat
  PROVE  /\ SubSeq(at, 1, 2) \in Nat \X Nat /\ at[3] \in Nat
         /\ Append(SubSeq(at, 1, 2), at[3]) = at
<1> DEFINE s == <<at[1], at[2]>>
           i == at[3]
           a == Append(s, i)
<1>1. s \in Nat \X Nat /\ i \in Nat /\ Len(s) = 2 /\ s[1] = at[1] /\ s[2] = at[2]
      /\ s = [k \in 1 .. 2 |-> s[k]] /\ at = <<at[1], at[2], at[3]>>
  OBVIOUS
<1> HIDE DEF s, i
<1>2. SubSeq(a, 1, 2) = s /\ a[3] = i /\ a \in Nat \X Nat \X Nat
  BY <1>1, AtIs
<1>3. a[1] = s[1] /\ a[2] = s[2]
  <2>1. IsSequence(s)
    BY <1>1, FunctionIsSequence
  <2>2. \A k \in 1 .. Len(s) : a[k] = s[k]
    BY <2>1, AppendIsSequence
  <2> QED BY <1>1, <2>2
<1>4. a = <<a[1], a[2], a[3]>>
  <2> HIDE DEF a
  <2> QED BY <1>2
<1>5. a = at
  <2> HIDE DEF a
  <2> QED BY <1>1, <1>2, <1>3, <1>4 DEF i
<1> QED BY <1>1, <1>2, <1>5 DEF i

\* Records of as many iterations, no two of the same one.
Distinct(records) ==
  /\ IsSequence(records)
  /\ \A i \in DOMAIN records : records[i].at \in Nat \X Nat \X Nat
  /\ \A i, j \in DOMAIN records : records[i].at = records[j].at => i = j

\* Those that begin an event.
Beginning(records) ==
  {x \in ToSet(records) :
     ~\E y \in ToSet(records) : SampleOf(y) = SampleOf(x) /\ y.at[3] = x.at[3] - 1}

\* The iterations of a sample among those of some records.
IterationsIn(records, s) ==
  {records[i].at[3] : i \in {j \in DOMAIN records : SampleOf(records[j]) = s}}

\* Those of a sample among some records.
OfSample(records, s) == {x \in records : SampleOf(x) = s}

\* The iterations of a sample are as many as the records of it, and begin as many
\* runs as these begin events.
LEMMA IterationsAre ==
  ASSUME NEW records, Distinct(records), NEW s
  PROVE  /\ IsFiniteSet(ToSet(records)) /\ Cardinality(ToSet(records)) = Len(records)
         /\ IsFiniteSet(IterationsIn(records, s)) /\ IterationsIn(records, s) \subseteq Nat
         /\ OfSample(ToSet(records), s) # {} => IterationsIn(records, s) # {}
         /\ Cardinality(IterationsIn(records, s)) = Cardinality(OfSample(ToSet(records), s))
         /\ Cardinality(Firsts(IterationsIn(records, s))) = Cardinality(OfSample(Beginning(records), s))
<1>p. PICK X, A, I : /\ X = ToSet(records) /\ A = OfSample(X, s) /\ I = IterationsIn(records, s)
  OBVIOUS
<1>q. PICK B : B = OfSample(Beginning(records), s)
  OBVIOUS
<1> DEFINE n == Len(records)
           f == [i \in 1 .. n |-> records[i]]
           g == [x \in A |-> x.at[3]]
           h == [x \in B |-> x.at[3]]
<1>1. n \in Nat /\ DOMAIN records = 1 .. n
  BY SequenceIs DEF Distinct
<1>2. X = {records[i] : i \in 1 .. n}
  BY <1>p, <1>1 DEF ToSet
<1>3. /\ \A x \in X : x.at \in Nat \X Nat \X Nat
      /\ \A x, y \in X : x.at = y.at => x = y
  BY <1>1, <1>2 DEF Distinct
<1>4. IsFiniteSet(X) /\ Cardinality(X) = n
  <2>1. OneToOne(f, 1 .. n, X)
    BY <1>1, <1>2 DEF OneToOne, Distinct
  <2>2. IsFiniteSet(1 .. n) /\ Cardinality(1 .. n) = n
    <3> HIDE DEF n
    <3>1. \A m \in Nat : IsFiniteSet(1 .. m) /\ Cardinality(1 .. m) = m
      BY FS_Interval
    <3> QED BY <1>1, <3>1
  <2> HIDE DEF n, f
  <2> QED BY <2>1, <2>2, SameCount
<1>5. IsFiniteSet(A) /\ IsFiniteSet(B)
  <2>1. A \subseteq X /\ B \subseteq X
    BY <1>p, <1>q DEF OfSample, Beginning
  <2> QED BY <1>4, <2>1, FS_Subset
<1>6. I = {x.at[3] : x \in A}
  <2>1. \A z : z \in I <=> \E i \in 1 .. n : SampleOf(records[i]) = s /\ z = records[i].at[3]
    BY <1>p, <1>1 DEF IterationsIn
  <2>2. \A z : z \in {x.at[3] : x \in A} <=> \E i \in 1 .. n : SampleOf(records[i]) = s /\ z = records[i].at[3]
    BY <1>p, <1>2 DEF OfSample
  <2> QED BY <2>1, <2>2
<1>7. \A x \in A : x \in X /\ SampleOf(x) = s /\ x.at[3] \in Nat
  BY <1>p, <1>3 DEF OfSample
<1>8. ASSUME NEW x \in A, NEW y \in A, x.at[3] = y.at[3] PROVE x = y
  <2>1. SubSeq(x.at, 1, 2) = SubSeq(y.at, 1, 2)
    BY <1>7 DEF SampleOf
  <2>2. x.at \in Nat \X Nat \X Nat /\ y.at \in Nat \X Nat \X Nat
    BY <1>3, <1>7
  <2>3. /\ Append(SubSeq(x.at, 1, 2), x.at[3]) = x.at
        /\ Append(SubSeq(y.at, 1, 2), y.at[3]) = y.at
    BY <2>2, AtSplits
  <2>4. x.at = y.at
    BY <1>8, <2>1, <2>3
  <2> QED BY <1>3, <1>7, <2>4
<1>9. IsFiniteSet(I) /\ Cardinality(I) = Cardinality(A)
  <2>1. OneToOne(g, A, I)
    BY <1>6, <1>8 DEF OneToOne
  <2> HIDE DEF g
  <2> QED BY <1>5, <2>1, SameCount
<1>10. I \subseteq Nat /\ (A # {} => I # {})
  BY <1>6, <1>7
<1>11. \A x \in A : x \in B <=> x.at[3] \in Firsts(I)
  <2> SUFFICES ASSUME NEW x \in A PROVE x \in B <=> x.at[3] \in Firsts(I)
    OBVIOUS
  <2>1. x.at[3] \in Firsts(I) <=> x.at[3] - 1 \notin I
    BY <1>6 DEF Firsts
  <2>2. x \in B <=> ~\E y \in X : SampleOf(y) = s /\ y.at[3] = x.at[3] - 1
    BY <1>p, <1>q, <1>7 DEF Beginning, OfSample
  <2>3. x.at[3] - 1 \in I <=> \E y \in X : SampleOf(y) = s /\ y.at[3] = x.at[3] - 1
    BY <1>p, <1>6, <1>7 DEF OfSample
  <2> QED BY <2>1, <2>2, <2>3
<1>12. Cardinality(Firsts(I)) = Cardinality(B)
  <2>1. Firsts(I) \subseteq I /\ B \subseteq A
    BY <1>p, <1>q DEF Firsts, OfSample, Beginning
  <2>2. OneToOne(h, B, Firsts(I))
    BY <1>6, <1>8, <1>11, <2>1 DEF OneToOne
  <2> HIDE DEF h
  <2> QED BY <1>5, <2>2, SameCount
<1> QED BY <1>p, <1>q, <1>4, <1>9, <1>10, <1>12

\* The lengths of the events of some records add up to the records, and there is
\* one for each record that begins an event.
LEMMA EventsAre ==
  ASSUME NEW records, Distinct(records)
  PROVE  AddsTo(event_lengths(records), Cardinality(Beginning(records)), Len(records))
<1> DEFINE n == Len(records)
           X == ToSet(records)
           Y == Beginning(records)
           S == {SampleOf(records[i]) : i \in DOMAIN records}
           samples == Ordered(S, Precedes)
           M == Len(samples)
           group == [x \in X |-> CHOOSE k \in 1 .. M : samples[k] = SampleOf(x)]
           seqs == [k \in DOMAIN samples |-> Runs(Ascending(IterationsIn(records, samples[k])))]
<1>1. n \in Nat /\ DOMAIN records = 1 .. n
  BY SequenceIs DEF Distinct
<1>2. X = {records[i] : i \in 1 .. n} /\ S = {SampleOf(x) : x \in X}
  BY <1>1 DEF ToSet
<1>3. IsFiniteSet(S) /\ S \subseteq Int \X Int
  <2>1. S \subseteq Nat \X Nat
    <3> SUFFICES ASSUME NEW i \in DOMAIN records PROVE SampleOf(records[i]) \in Nat \X Nat
      OBVIOUS
    <3>1. records[i].at \in Nat \X Nat \X Nat
      BY DEF Distinct
    <3> QED BY <3>1, AtSplits DEF SampleOf
  <2>2. IsFiniteSet(S)
    <3> DEFINE D == 1 .. n
               f == [i \in D |-> SampleOf(records[i])]
    <3>1. f \in Surjection(D, S)
      BY <1>1 DEF Surjection
    <3>2. IsFiniteSet(D)
      <4> HIDE DEF n
      <4> QED BY <1>1, FS_Interval
    <3> HIDE DEF D, f, S
    <3> QED BY <3>1, <3>2, FS_Surjection
  <2> HIDE DEF S
  <2> QED BY <2>1, <2>2
<1> HIDE DEF S
<1>4. Lists(samples, S)
  BY <1>3, PairsLists
<1> HIDE DEF samples
<1>5. /\ M \in Nat /\ DOMAIN samples = 1 .. M
      /\ \A k \in 1 .. M : samples[k] \in S
      /\ \A s \in S : \E k \in 1 .. M : samples[k] = s
      /\ \A k, l \in 1 .. M : samples[k] = samples[l] => k = l
  BY <1>4, ListIs
<1> HIDE DEF M
<1>6. event_lengths(records) = FlattenSeq(seqs)
  BY DEF event_lengths, IterationsIn, samples, S
<1>7. \A x \in X : group[x] \in 1 .. M /\ samples[group[x]] = SampleOf(x)
  <2> SUFFICES ASSUME NEW x \in X PROVE group[x] \in 1 .. M /\ samples[group[x]] = SampleOf(x)
    OBVIOUS
  <2>1. \E k \in 1 .. M : samples[k] = SampleOf(x)
    BY <1>2, <1>5
  <2>2. group[x] = CHOOSE k \in 1 .. M : samples[k] = SampleOf(x)
    OBVIOUS
  <2> HIDE DEF group, X
  <2> QED BY <2>1, <2>2
<1> HIDE DEF group
<1>8. IsSequence(seqs) /\ Len(seqs) = M
  <2>1. seqs = [k \in 1 .. M |-> seqs[k]]
    BY <1>5
  <2> HIDE DEF seqs
  <2> QED BY <1>5, <2>1, FunctionIsSequence
<1>9. Y \subseteq X
  BY DEF Beginning
<1>10. ASSUME NEW k \in 1 .. M
       PROVE  /\ IsFiniteSet(X) /\ Cardinality(X) = n
              /\ AddsTo(seqs[k], Cardinality(Share(Y, group, k)), Cardinality(Share(X, group, k)))
  <2> DEFINE s == samples[k]
             A == OfSample(X, s)
             B == OfSample(Y, s)
             I == IterationsIn(records, s)
  <2>1. seqs[k] = Runs(Ascending(I))
    BY <1>5
  <2>2. A = Share(X, group, k) /\ B = Share(Y, group, k)
    <3>1. \A x \in X : SampleOf(x) = s <=> group[x] = k
      BY <1>5, <1>7
    <3> QED BY <1>9, <3>1 DEF Share, OfSample
  <2>3. A # {}
    <3>1. s \in S
      BY <1>5
    <3> QED BY <1>2, <3>1 DEF OfSample
  <2> HIDE DEF s, n, seqs
  <2>4. /\ IsFiniteSet(X) /\ Cardinality(X) = Len(records)
        /\ IsFiniteSet(I) /\ I \subseteq Nat /\ (A # {} => I # {})
        /\ Cardinality(I) = Cardinality(A) /\ Cardinality(Firsts(I)) = Cardinality(B)
    BY IterationsAre
  <2> HIDE DEF I, A, B, X, Y
  <2>5. AddsTo(Runs(Ascending(I)), Cardinality(Firsts(I)), Cardinality(I))
    BY <2>3, <2>4, RunsAre
  <2>6. AddsTo(seqs[k], Cardinality(B), Cardinality(A))
    BY <2>1, <2>4, <2>5
  <2> QED BY <2>2, <2>4, <2>6 DEF n
<1>11. IsFiniteSet(X) /\ Cardinality(X) = n
  BY IterationsAre
<1> HIDE DEF X, Y, seqs, n
<1>12. AddsTo(FlattenSeq(seqs), Cardinality(Y), Cardinality(X))
  BY <1>5, <1>7, <1>8, <1>9, <1>10, <1>11, GroupsAdd
<1> QED BY <1>6, <1>11, <1>12 DEF Y, n

\* The median lies between the smallest and the largest of the values.
LEMMA MedianBetween ==
  ASSUME NEW m \in Nat \ {0}, NEW v \in [1 .. m -> Int]
  PROVE  /\ \E i \in 1 .. m : 2 * v[i] <= MedianTwice(v)
         /\ \E i \in 1 .. m : 2 * v[i] >= MedianTwice(v)
<1> DEFINE w == Sorted(v)
           a == (m + 1) \div 2
           b == (m + 2) \div 2
<1>1. MedianTwice(v) = w[a] + w[b]
  <2>1. Len(v) = m
    OBVIOUS
  <2> HIDE DEF w
  <2> QED BY <2>1 DEF MedianTwice, w
<1>2. a \in 1 .. m /\ b \in 1 .. m /\ a <= b
  OBVIOUS
<1> HIDE DEF w, a, b
<1>3. /\ w \in [1 .. m -> Int]
      /\ \E p \in [1 .. m -> 1 .. m] : \A k \in 1 .. m : w[k] = v[p[k]]
      /\ \A i, j \in 1 .. m : i <= j => w[i] <= w[j]
  <2>1. /\ w \in [1 .. m -> Int]
        /\ \E p \in [1 .. m -> 1 .. m] :
             /\ \A i \in 1 .. m : \E k \in 1 .. m : p[k] = i
             /\ \A k \in 1 .. m : w[k] = v[p[k]]
        /\ \A i, j \in 1 .. m : i <= j => w[i] <= w[j]
    BY SortedIs DEF w
  <2> QED BY <2>1
<1>4. PICK p \in [1 .. m -> 1 .. m] : \A k \in 1 .. m : w[k] = v[p[k]]
  BY <1>3
<1>5. /\ p[a] \in 1 .. m /\ p[b] \in 1 .. m /\ w[a] = v[p[a]] /\ w[b] = v[p[b]]
      /\ w[a] \in Int /\ w[b] \in Int /\ w[a] <= w[b]
  BY <1>2, <1>3, <1>4
<1>6. 2 * v[p[a]] <= w[a] + w[b] /\ 2 * v[p[b]] >= w[a] + w[b]
  <2> DEFINE x == v[p[a]]
             y == v[p[b]]
  <2>1. x \in Int /\ y \in Int /\ x <= y /\ w[a] = x /\ w[b] = y
    BY <1>5
  <2> HIDE DEF x, y
  <2>2. 2 * x <= x + y /\ 2 * y >= x + y
    BY <2>1
  <2> QED BY <2>1, <2>2 DEF x, y
<1> QED BY <1>1, <1>5, <1>6

\* The samples of a directory without a stall among some records.
FastSamples(d, records) == {r \in ToSet(d.results) : \A x \in ToSet(records) : SampleOf(x) # r.key}

\* The fast median lies between the averages of them.
LEMMA FastMedianIs ==
  ASSUME NEW d, IsSequence(d.results), \A r \in ToSet(d.results) : r.average \in Nat,
         NEW records, IsSequence(records), FastSamples(d, records) # {}
  PROVE  /\ \E r \in FastSamples(d, records) : 2 * r.average <= sample_fast_median(d, records)
         /\ \E r \in FastSamples(d, records) : 2 * r.average >= sample_fast_median(d, records)
<1> DEFINE results == d.results
           n == Len(results)
           stalled == {SampleOf(records[i]) : i \in DOMAIN records}
           P == {i \in DOMAIN results : results[i].key \notin stalled}
           c == Chosen(results, P)
           m == Len(c)
           v == [i \in DOMAIN c |-> c[i].average]
           fast == FastSamples(d, records)
<1>1. n \in Nat /\ DOMAIN results = 1 .. n
  BY SequenceIs
<1>2. P \subseteq 1 .. n
  BY <1>1
<1>3. fast = {results[i] : i \in P}
  <2>1. \A i \in DOMAIN results : i \in P <=> \A x \in ToSet(records) : SampleOf(x) # results[i].key
    BY DEF ToSet
  <2>2. ToSet(results) = {results[i] : i \in DOMAIN results}
    BY DEF ToSet
  <2> HIDE DEF P
  <2>3. P \subseteq DOMAIN results
    BY <1>1, <1>2
  <2> QED BY <2>1, <2>2, <2>3 DEF FastSamples
<1> HIDE DEF P
<1>4. IsSequence(c) /\ ToSet(c) = fast
  <2> HIDE DEF n, results
  <2> QED BY <1>1, <1>2, <1>3, ChosenIs
<1>5. sample_fast_median(d, records) = MedianTwice([i \in DOMAIN (IF c # <<>> THEN c ELSE results) |->
                                                      (IF c # <<>> THEN c ELSE results)[i].average])
  BY DEF sample_fast_median, P
<1> HIDE DEF c
<1>6. m \in Nat /\ DOMAIN c = 1 .. m /\ (c # <<>> <=> m # 0)
  BY <1>4, SequenceIs
<1>7. m # 0
  <2>1. PICK r : r \in ToSet(c)
    BY <1>4
  <2>2. PICK i \in DOMAIN c : c[i] = r
    BY <2>1 DEF ToSet
  <2> QED BY <1>6, <2>2
<1>8. sample_fast_median(d, records) = MedianTwice(v)
  BY <1>5, <1>6, <1>7
<1>9. \A i \in 1 .. m : c[i] \in fast /\ c[i] \in ToSet(d.results)
  BY <1>4, <1>6 DEF ToSet, FastSamples
<1>10. m \in Nat \ {0} /\ v \in [1 .. m -> Int] /\ \A i \in 1 .. m : v[i] = c[i].average
  BY <1>6, <1>7, <1>9
<1> HIDE DEF v, m, fast
<1>11. /\ \E i \in 1 .. m : 2 * v[i] <= MedianTwice(v)
       /\ \E i \in 1 .. m : 2 * v[i] >= MedianTwice(v)
  BY <1>10, MedianBetween
<1> QED BY <1>8, <1>9, <1>10, <1>11 DEF fast

\* What is compared of each version is so of its records: its events are its
\* stalls in runs, and its fast median is that of its samples without one.
THEOREM VersionsHold == Spec => []VersionsAreTheJobs
<1>1. StallInv => VersionsAreTheJobs
  <2> SUFFICES ASSUME CallInv, call.tool = "versions", NEW i \in DOMAIN done
               PROVE  LET records == ToSet(done[i].case.affected)
                          Begins(x) == ~\E y \in records : SampleOf(y) = SampleOf(x) /\ y.at[3] = x.at[3] - 1
                          fast == {r \in ToSet(done[i].dir.results) : \A x \in records : SampleOf(x) # r.key}
                      IN /\ SumFunction(done[i].lengths) = done[i].stalls
                         /\ done[i].events = Cardinality({x \in records : Begins(x)})
                         /\ fast # {} => /\ \E r \in fast : 2 * r.average <= done[i].fastMedian
                                         /\ \E r \in fast : 2 * r.average >= done[i].fastMedian
    BY DEF StallInv, VersionsAreTheJobs
  <2> DEFINE R == done[i]
             d == R.dir
             times == d.times
             all == R.case.affected
  <2>1. Analysed(R) /\ call \in Calls /\ NoneMissing
    <3>1. pc # "find" /\ done # <<>>
      BY DEF CallInv
    <3> QED BY <3>1 DEF CallInv, DoneInv
  <2>2. /\ R.result_dir \in ToSet(result_dirs(call))
        /\ d = call.tree.dir[Resolve(R.result_dir)]
        /\ \E places \in SUBSET DOMAIN times : all = Chosen(times, places)
        /\ R.stalls = Len(all) /\ R.lengths = event_lengths(all) /\ R.events = Len(R.lengths)
        /\ R.fastMedian = sample_fast_median(d, all)
    BY <2>1 DEF Analysed
  <2>3. IsDirectory(d)
    BY <2>1, <2>2, CallIs DEF NoneMissing
  <2> HIDE DEF R
  <2>4. /\ IsSequence(times) /\ IsSequence(d.results)
        /\ \A r \in ToSet(d.results) : r.average \in Nat
        /\ \A k \in DOMAIN times : times[k].at \in Nat \X Nat \X Nat
        /\ \A k, l \in DOMAIN times : times[k].at = times[l].at => k = l
    BY <2>3 DEF IsDirectory, IsSequence, ToSet
  <2> HIDE DEF times, d, all
  <2>5. Distinct(all)
    <3>1. PICK places \in SUBSET DOMAIN times : all = Chosen(times, places)
      BY <2>2 DEF times, d, all
    <3>2. Len(times) \in Nat /\ DOMAIN times = 1 .. Len(times)
      BY <2>4, SequenceIs
    <3>3. /\ Cardinality(places) \in Nat
          /\ Ascending(places) \in [1 .. Cardinality(places) -> places]
          /\ \A k, l \in 1 .. Cardinality(places) : Ascending(places)[k] = Ascending(places)[l] => k = l
      BY <3>1, <3>2, PlacesInOrder
    <3>4. IsSequence(all)
      BY <3>1, <3>2, ChosenIs
    <3>5. all = [k \in 1 .. Cardinality(places) |-> times[Ascending(places)[k]]]
      BY <3>1 DEF Chosen
    <3> QED BY <2>4, <3>3, <3>4, <3>5 DEF Distinct
  <2>6. AddsTo(R.lengths, Cardinality(Beginning(all)), R.stalls)
    <3>1. AddsTo(event_lengths(all), Cardinality(Beginning(all)), Len(all))
      BY <2>5, EventsAre
    <3> QED BY <2>2, <3>1 DEF all
  <2>7. SumFunction(R.lengths) = R.stalls /\ R.events = Cardinality(Beginning(all))
    <3>1. /\ Cardinality(Beginning(all)) \in Nat /\ SumFunction(R.lengths) = R.stalls
          /\ R.lengths \in [1 .. Cardinality(Beginning(all)) -> Nat]
      BY <2>6 DEF AddsTo
    <3>2. Len(R.lengths) = Cardinality(Beginning(all))
      BY <3>1
    <3> QED BY <2>2, <3>1, <3>2
  <2>8. FastSamples(d, all) # {} =>
          /\ \E r \in FastSamples(d, all) : 2 * r.average <= R.fastMedian
          /\ \E r \in FastSamples(d, all) : 2 * r.average >= R.fastMedian
    <3>1. IsSequence(all)
      BY <2>5 DEF Distinct
    <3>2. R.fastMedian = sample_fast_median(d, all)
      BY <2>2 DEF all, d
    <3> QED BY <2>4, <3>1, <3>2, FastMedianIs
  <2> QED BY <2>7, <2>8 DEF Beginning, FastSamples, R, d, all
<1> QED BY <1>1, StallInvHolds, PTL

=============================================================================
