-------------------------- MODULE ResultToolsProofs --------------------------
(***************************************************************************)
(* That migrations neither take away nor change what is in the tree, that  *)
(* their copies are whole and read like the originals, and what the calls  *)
(* of the analyzer beside them load, conclude and write, for any number of *)
(* migrations of any tree of known bundles and for any calls.              *)
(*                                                                         *)
(* The argument: who is copying is alone in the directory it made, since   *)
(* copytree fails in one that exists, and a directory that it made is      *)
(* never one of the flat layout.  The tree so only grows, and the bundles  *)
(* in it, those half copied included, stay known (KnownInv): what was      *)
(* loaded can be loaded again, and is what the whole bundle says.          *)
(***************************************************************************)
EXTENDS AnalysisReport, StatisticsTheorems

\* The functions on processes are defined for each.
Domains ==
  /\ DOMAIN state = Migrations /\ DOMAIN source = Migrations /\ DOMAIN dest = Migrations
  /\ DOMAIN left = Migrations /\ DOMAIN copies = Migrations

BundlesAreFunctions ==
  \A path \in DOMAIN tree : tree[path] = [file \in DOMAIN tree[path] |-> tree[path][file]]

\* A bundle is copied from the tree to a path that has a version.
CopiesAreVersioned ==
  \A m \in Migrations :
    state[m] \in {"make", "copy"} => source[m] \in DOMAIN tree /\ dest[m].version # ""

\* What is copied so far, of process m.
PartIsOfSource(m) ==
  /\ dest[m] \in DOMAIN tree
  /\ left[m] \cap DOMAIN tree[dest[m]] = {}
  /\ source[m].version = "" =>
       /\ DOMAIN tree[source[m]] = DOMAIN tree[dest[m]] \cup left[m]
       /\ \A file \in DOMAIN tree[dest[m]] : tree[dest[m]][file] = tree[source[m]][file]

PartsAreOfSources == \A m \in Migrations : state[m] = "copy" => PartIsOfSource(m)

\* Nobody else copies to the same path.
OneCopies ==
  \A m, n \in Migrations :
    state[m] = "copy" /\ state[n] = "copy" /\ dest[m] = dest[n] => m = n

\* Nobody copies to where a completed copy is.
CopiesAreLeftAlone ==
  \A m \in Migrations : \A x \in copies[m] :
    /\ x = <<x[1], x[2]>>
    /\ x[1] \in DOMAIN tree /\ x[2] \in DOMAIN tree
    /\ \A n \in Migrations : state[n] = "copy" => dest[n] # x[2]

MigrationInv ==
  /\ Domains /\ BundlesAreFunctions /\ CopiesAreVersioned /\ PartsAreOfSources
  /\ OneCopies /\ CopiesAreLeftAlone /\ CopiesAreWhole

-----------------------------------------------------------------------------
LEMMA VersionIsSpelled ==
  ASSUME NEW spelled PROVE normalize_rocm(spelled) # ""
  BY DEF normalize_rocm

LEMMA DestinationIsVersioned ==
  ASSUME NEW path PROVE unique_destination(path).version # ""
<1>1. ASSUME NEW n PROVE Candidate(path, n).version # ""
  BY VersionIsSpelled DEF Candidate, infer_bundle
<1> QED
  BY <1>1 DEF unique_destination

LEMMA InitMigrationInv ==
  MigrationInit => MigrationInv
<1> SUFFICES ASSUME NEW c \in Commands, MigrationInitOf(c)
             PROVE MigrationInv
  BY DEF MigrationInit
<1> USE DEF MigrationInitOf
<1>1. Domains
  BY DEF Domains
<1>2. BundlesAreFunctions
  BY CommandsAssumption DEF BundlesAreFunctions
<1>3. \A m \in Migrations : state[m] \in {"walk", "done"} /\ copies[m] = {}
  OBVIOUS
<1>4. CopiesAreVersioned /\ PartsAreOfSources /\ OneCopies
  BY <1>3 DEF CopiesAreVersioned, PartsAreOfSources, OneCopies
<1>5. CopiesAreLeftAlone /\ CopiesAreWhole
  BY <1>3 DEF CopiesAreLeftAlone, CopiesAreWhole
<1> QED
  BY <1>1, <1>2, <1>4, <1>5 DEF MigrationInv

-----------------------------------------------------------------------------
\* What a step may do to the tree: add bundles, and add files to bundles.
Grows ==
  \A path \in DOMAIN tree :
    /\ path \in DOMAIN tree'
    /\ \A file \in DOMAIN tree[path] :
         file \in DOMAIN tree'[path] /\ tree'[path][file] = tree[path][file]

LEMMA SameTree ==
  ASSUME BundlesAreFunctions, CopiesAreWhole, UNCHANGED <<tree, copies>>
  PROVE  BundlesAreFunctions' /\ CopiesAreWhole'
<1>1. tree' = tree /\ copies' = copies
  OBVIOUS
<1>2. BundlesAreFunctions'
  BY <1>1 DEF BundlesAreFunctions
<1>3. CopiesAreWhole'
  <2>1. \A m \in Migrations : \A x \in copies'[m] : x[1].version = "" => tree'[x[2]] = tree'[x[1]]
    BY <1>1 DEF CopiesAreWhole
  <2>2. \A m, n \in Migrations : \A x \in copies'[m], y \in copies'[n] : x[2] = y[2] => m = n /\ x = y
    <3>1. \A m, n \in Migrations : \A x \in copies[m], y \in copies[n] : x[2] = y[2] => m = n /\ x = y
      BY DEF CopiesAreWhole
    <3> QED
      BY <1>1, <3>1
  <2> QED
    BY <2>1, <2>2 DEF CopiesAreWhole
<1> QED
  BY <1>2, <1>3

\* The steps that leave the tree, the sources and the destinations alone, and
\* after which nobody copies or is about to who was not before.
LEMMA QuietStep ==
  ASSUME MigrationInv, DOMAIN state' = Migrations,
         \A n \in Migrations : state'[n] \in {"make", "copy"} => state'[n] = state[n],
         UNCHANGED <<tree, source, dest, left, copies>>
  PROVE  MigrationInv' /\ Grows
<1>1. \A n \in Migrations : state'[n] \in {"make", "copy"} => state'[n] = state[n]
  OBVIOUS
<1>2. Domains'
  BY DEF MigrationInv, Domains
<1>3. BundlesAreFunctions' /\ CopiesAreWhole'
  BY SameTree DEF MigrationInv
<1>4. CopiesAreVersioned'
  BY <1>1 DEF MigrationInv, CopiesAreVersioned
<1>5. PartsAreOfSources'
  <2> SUFFICES ASSUME NEW n \in Migrations, state'[n] = "copy" PROVE PartIsOfSource(n)'
    BY DEF PartsAreOfSources
  <2>1. PartIsOfSource(n)
    BY <1>1 DEF MigrationInv, PartsAreOfSources
  <2> QED
    BY <2>1 DEF PartIsOfSource
<1>6. OneCopies'
  BY <1>1 DEF MigrationInv, OneCopies
<1>7. CopiesAreLeftAlone'
  BY <1>1 DEF MigrationInv, CopiesAreLeftAlone
<1> QED
  BY <1>2, <1>3, <1>4, <1>5, <1>6, <1>7 DEF MigrationInv, Grows

LEMMA VisitStep ==
  ASSUME MigrationInv, NEW m \in Migrations, Visit(m)
  PROVE  MigrationInv' /\ Grows
<1>1. PICK path \in listed[m] :
        IF IsBundle(path) /\ apply[m]
        THEN /\ source' = [source EXCEPT ![m] = path]
             /\ dest' = [dest EXCEPT ![m] = unique_destination(path)]
             /\ state' = [state EXCEPT ![m] = "make"]
        ELSE UNCHANGED <<source, dest, state>>
  BY DEF Visit, Goto
<1>2. UNCHANGED <<tree, left, copies>>
  BY DEF Visit
<1>3. CASE IsBundle(path) /\ apply[m]
  <2>1. path \in DOMAIN tree /\ unique_destination(path).version # ""
    BY <1>3, DestinationIsVersioned DEF IsBundle
  <2>2. /\ state'[m] = "make" /\ source'[m] = path /\ dest'[m] = unique_destination(path)
        /\ \A n \in Migrations \ {m} :
             state'[n] = state[n] /\ source'[n] = source[n] /\ dest'[n] = dest[n]
    BY <1>1, <1>3 DEF MigrationInv, Domains
  <2>3. Domains'
    BY <1>1, <1>2, <1>3 DEF MigrationInv, Domains
  <2>4. BundlesAreFunctions' /\ CopiesAreWhole'
    BY <1>2, SameTree DEF MigrationInv
  <2>5. CopiesAreVersioned'
    BY <1>2, <2>1, <2>2 DEF MigrationInv, CopiesAreVersioned
  <2>6. PartsAreOfSources'
    <3> SUFFICES ASSUME NEW n \in Migrations, state'[n] = "copy" PROVE PartIsOfSource(n)'
      BY DEF PartsAreOfSources
    <3>1. n # m /\ state[n] = "copy" /\ source'[n] = source[n] /\ dest'[n] = dest[n]
      BY <2>2
    <3>2. PartIsOfSource(n)
      BY <3>1 DEF MigrationInv, PartsAreOfSources
    <3> QED
      BY <1>2, <3>1, <3>2 DEF PartIsOfSource
  <2>7. OneCopies'
    BY <2>2 DEF MigrationInv, OneCopies
  <2>8. CopiesAreLeftAlone'
    BY <1>2, <2>2 DEF MigrationInv, CopiesAreLeftAlone
  <2> QED
    BY <1>2, <2>3, <2>4, <2>5, <2>6, <2>7, <2>8 DEF MigrationInv, Grows
<1>4. CASE ~(IsBundle(path) /\ apply[m])
  BY <1>1, <1>2, <1>4, QuietStep DEF MigrationInv, Domains
<1> QED
  BY <1>3, <1>4

LEMMA MakeDirectoryStep ==
  ASSUME MigrationInv, NEW m \in Migrations, MakeDirectory(m)
  PROVE  MigrationInv' /\ Grows
<1>1. CASE dest[m] \in DOMAIN tree
  <2>1. state' = [state EXCEPT ![m] = "failed"] /\ UNCHANGED <<tree, source, dest, left, copies>>
    BY <1>1 DEF MakeDirectory, Goto
  <2>2. /\ DOMAIN state' = Migrations
        /\ \A n \in Migrations : state'[n] \in {"make", "copy"} => state'[n] = state[n]
    BY <2>1 DEF MigrationInv, Domains
  <2> QED
    BY <2>1, <2>2, QuietStep
<1>2. CASE dest[m] \notin DOMAIN tree
  <2>1. /\ state[m] = "make" /\ tree' = With(tree, dest[m], Nothing)
        /\ left' = [left EXCEPT ![m] = DOMAIN tree[source[m]]]
        /\ state' = [state EXCEPT ![m] = "copy"]
        /\ UNCHANGED <<source, dest, copies>>
    BY <1>2 DEF MakeDirectory, Goto
  <2>2. /\ DOMAIN tree' = DOMAIN tree \cup {dest[m]}
        /\ tree'[dest[m]] = Nothing
        /\ \A path \in DOMAIN tree : tree'[path] = tree[path]
    <3> DEFINE grown == With(tree, dest[m], Nothing)
    <3>1. /\ DOMAIN grown = DOMAIN tree \cup {dest[m]}
          /\ grown[dest[m]] = Nothing
          /\ \A path \in DOMAIN tree \ {dest[m]} : grown[path] = tree[path]
      BY DEF With
    <3>2. tree' = grown
      BY <2>1
    <3> QED
      BY <1>2, <3>1, <3>2
  <2>3. DOMAIN Nothing = {} /\ Nothing = [file \in DOMAIN Nothing |-> Nothing[file]]
    BY DEF Nothing
  <2>4. /\ state'[m] = "copy" /\ left'[m] = DOMAIN tree[source[m]]
        /\ \A n \in Migrations \ {m} : state'[n] = state[n] /\ left'[n] = left[n]
    BY <2>1 DEF MigrationInv, Domains
  <2>5. source[m] \in DOMAIN tree /\ dest[m].version # ""
    BY <2>1 DEF MigrationInv, CopiesAreVersioned
  <2>6. Domains'
    BY <2>1 DEF MigrationInv, Domains
  <2>7. BundlesAreFunctions'
    BY <2>2, <2>3 DEF MigrationInv, BundlesAreFunctions
  <2>8. CopiesAreVersioned'
    <3> SUFFICES ASSUME NEW n \in Migrations, state'[n] \in {"make", "copy"}
                 PROVE  source'[n] \in DOMAIN tree' /\ dest'[n].version # ""
      BY DEF CopiesAreVersioned
    <3>1. CASE n = m
      BY <2>1, <2>2, <2>5, <3>1
    <3>2. CASE n # m
      BY <2>1, <2>2, <2>4, <3>2 DEF MigrationInv, CopiesAreVersioned
    <3> QED
      BY <3>1, <3>2
  <2>9. PartsAreOfSources'
    <3> SUFFICES ASSUME NEW n \in Migrations, state'[n] = "copy" PROVE PartIsOfSource(n)'
      BY DEF PartsAreOfSources
    <3>1. CASE n = m
      BY <2>1, <2>2, <2>3, <2>4, <2>5, <3>1 DEF PartIsOfSource
    <3>2. CASE n # m
      <4>1. PartIsOfSource(n) /\ source[n] \in DOMAIN tree
        BY <2>4, <3>2 DEF MigrationInv, PartsAreOfSources, CopiesAreVersioned
      <4> QED
        <5>1. dest'[n] = dest[n] /\ left'[n] = left[n] /\ source'[n] = source[n]
          BY <2>1, <2>4, <3>2
        <5>2. dest[n] \in DOMAIN tree /\ tree'[dest[n]] = tree[dest[n]]
          BY <2>2, <4>1 DEF PartIsOfSource
        <5>3. dest[n] \in DOMAIN tree' /\ tree'[source[n]] = tree[source[n]]
          BY <2>2, <4>1, <5>2
        <5> QED
          BY <4>1, <5>1, <5>2, <5>3 DEF PartIsOfSource
    <3> QED
      BY <3>1, <3>2
  <2>10. OneCopies'
    <3>1. \A n \in Migrations : state[n] = "copy" => dest[n] # dest[m]
      BY <1>2 DEF MigrationInv, PartsAreOfSources, PartIsOfSource
    <3> QED
      BY <2>1, <2>4, <3>1 DEF MigrationInv, OneCopies
  <2>11. CopiesAreLeftAlone'
    BY <1>2, <2>1, <2>2, <2>4 DEF MigrationInv, CopiesAreLeftAlone
  <2>12. CopiesAreWhole'
    <3>1. copies' = copies
      BY <2>1
    <3>2. \A a \in Migrations : \A x \in copies[a] :
            tree'[x[1]] = tree[x[1]] /\ tree'[x[2]] = tree[x[2]]
      BY <2>2 DEF MigrationInv, CopiesAreLeftAlone
    <3>3. \A a, b \in Migrations : \A x \in copies[a], y \in copies[b] : x[2] = y[2] => a = b /\ x = y
      BY DEF MigrationInv, CopiesAreWhole
    <3>4. \A a \in Migrations : \A x \in copies[a] : x[1].version = "" => tree[x[2]] = tree[x[1]]
      BY DEF MigrationInv, CopiesAreWhole
    <3>5. \A a \in Migrations : \A x \in copies[a] : x[1].version = "" => tree'[x[2]] = tree'[x[1]]
      BY <3>2, <3>4
    <3>6. \A a, b \in Migrations : \A x \in copies'[a], y \in copies'[b] : x[2] = y[2] => a = b /\ x = y
      BY <3>1, <3>3
    <3>7. \A a \in Migrations : \A x \in copies'[a] : x[1].version = "" => tree'[x[2]] = tree'[x[1]]
      BY <3>1, <3>5
    <3> QED
      BY <3>6, <3>7 DEF CopiesAreWhole
  <2>13. Grows
    BY <2>2 DEF Grows
  <2> QED
    BY <2>6, <2>7, <2>8, <2>9, <2>10, <2>11, <2>12, <2>13 DEF MigrationInv
<1> QED
  BY <1>1, <1>2

LEMMA CopyFileStep ==
  ASSUME MigrationInv, NEW m \in Migrations, CopyFile(m)
  PROVE  MigrationInv' /\ Grows
<1>1. PICK file \in left[m] :
        /\ tree' = [tree EXCEPT ![dest[m]] = With(tree[dest[m]], file, tree[source[m]][file])]
        /\ left' = [left EXCEPT ![m] = left[m] \ {file}]
  BY DEF CopyFile
<1>2. state[m] = "copy" /\ UNCHANGED <<state, source, dest, copies>>
  BY DEF CopyFile
<1> DEFINE part == With(tree[dest[m]], file, tree[source[m]][file])
<1>3. PartIsOfSource(m) /\ source[m] \in DOMAIN tree /\ dest[m].version # ""
  BY <1>2 DEF MigrationInv, PartsAreOfSources, CopiesAreVersioned
<1>4. /\ DOMAIN tree' = DOMAIN tree
      /\ tree'[dest[m]] = part
      /\ \A path \in DOMAIN tree \ {dest[m]} : tree'[path] = tree[path]
  BY <1>1, <1>3 DEF PartIsOfSource
<1>5. /\ DOMAIN part = DOMAIN tree[dest[m]] \cup {file}
      /\ part[file] = tree[source[m]][file]
      /\ \A f \in DOMAIN tree[dest[m]] \ {file} : part[f] = tree[dest[m]][f]
      /\ part = [f \in DOMAIN part |-> part[f]]
  BY DEF With
<1>6. file \notin DOMAIN tree[dest[m]]
  BY <1>1, <1>3 DEF PartIsOfSource
<1>7. left'[m] = left[m] \ {file} /\ \A n \in Migrations \ {m} : left'[n] = left[n]
  BY <1>1 DEF MigrationInv, Domains
<1> HIDE DEF part
<1>8. Domains'
  BY <1>1, <1>2 DEF MigrationInv, Domains
<1>9. BundlesAreFunctions'
  BY <1>4, <1>5 DEF MigrationInv, BundlesAreFunctions
<1>10. CopiesAreVersioned'
  BY <1>2, <1>4 DEF MigrationInv, CopiesAreVersioned
<1>11. PartsAreOfSources'
  <2> SUFFICES ASSUME NEW n \in Migrations, state[n] = "copy" PROVE PartIsOfSource(n)'
    BY <1>2 DEF PartsAreOfSources
  <2>1. /\ PartIsOfSource(n) /\ source[n] \in DOMAIN tree /\ dest[n].version # ""
        /\ source' = source /\ dest' = dest
    BY <1>2 DEF MigrationInv, PartsAreOfSources, CopiesAreVersioned
  <2>2. source[n].version = "" => source[n] # dest[m]
    BY <1>3
  <2>3. CASE n = m
    <3>1. dest[m] \in DOMAIN tree' /\ left'[m] \cap DOMAIN tree'[dest[m]] = {}
      BY <1>3, <1>4, <1>5, <1>7 DEF PartIsOfSource
    <3>2. ASSUME source[m].version = ""
          PROVE  /\ DOMAIN tree'[source[m]] = DOMAIN tree'[dest[m]] \cup left'[m]
                 /\ \A f \in DOMAIN tree'[dest[m]] : tree'[dest[m]][f] = tree'[source[m]][f]
      <4>1. tree'[source[m]] = tree[source[m]]
        BY <1>3, <1>4, <2>2, <2>3, <3>2
      <4>2. DOMAIN tree'[source[m]] = DOMAIN tree'[dest[m]] \cup left'[m]
        BY <1>1, <1>3, <1>4, <1>5, <1>7, <3>2, <4>1 DEF PartIsOfSource
      <4>3. \A f \in DOMAIN part : part[f] = tree[source[m]][f]
        BY <1>3, <1>5, <3>2 DEF PartIsOfSource
      <4> QED
        BY <1>4, <4>1, <4>2, <4>3
    <3> QED
      BY <2>1, <2>3, <3>1, <3>2 DEF PartIsOfSource
  <2>4. CASE n # m
    <3>1. dest[n] # dest[m]
      BY <1>2, <2>4 DEF MigrationInv, OneCopies
    <3>2. tree'[dest[n]] = tree[dest[n]] /\ left'[n] = left[n]
      BY <1>4, <1>7, <2>1, <2>4, <3>1 DEF PartIsOfSource
    <3>3. source[n].version = "" => tree'[source[n]] = tree[source[n]]
      BY <1>4, <2>1, <2>2
    <3> QED
      BY <1>4, <2>1, <3>2, <3>3 DEF PartIsOfSource
  <2> QED
    BY <2>3, <2>4
<1>12. OneCopies'
  BY <1>2 DEF MigrationInv, OneCopies
<1>13. CopiesAreLeftAlone'
  BY <1>2, <1>4 DEF MigrationInv, CopiesAreLeftAlone
<1>14. CopiesAreWhole'
  <2>1. copies' = copies
    BY <1>2
  <2>2. \A a \in Migrations : \A x \in copies[a] :
          /\ tree'[x[2]] = tree[x[2]]
          /\ x[1].version = "" => tree'[x[1]] = tree[x[1]]
    BY <1>2, <1>3, <1>4 DEF MigrationInv, CopiesAreLeftAlone
  <2>3. \A a \in Migrations : \A x \in copies[a] :
          x[1].version = "" => tree[x[2]] = tree[x[1]]
    BY DEF MigrationInv, CopiesAreWhole
  <2>4. \A a \in Migrations : \A x \in copies[a] :
          x[1].version = "" => tree'[x[2]] = tree'[x[1]]
    BY <2>2, <2>3
  <2>5. \A a, b \in Migrations : \A x \in copies[a], y \in copies[b] :
          x[2] = y[2] => a = b /\ x = y
    BY DEF MigrationInv, CopiesAreWhole
  <2> QED
    <3>1. \A a \in Migrations : \A x \in copies'[a] :
            x[1].version = "" => tree'[x[2]] = tree'[x[1]]
      BY <2>1, <2>4
    <3>2. \A a, b \in Migrations : \A x \in copies'[a], y \in copies'[b] :
            x[2] = y[2] => a = b /\ x = y
      BY <2>1, <2>5
    <3> QED
      BY <3>1, <3>2 DEF CopiesAreWhole
<1>15. Grows
  <2> SUFFICES ASSUME NEW path \in DOMAIN tree, NEW f \in DOMAIN tree[path]
               PROVE  f \in DOMAIN tree'[path] /\ tree'[path][f] = tree[path][f]
    BY <1>4 DEF Grows
  <2>1. CASE path = dest[m]
    BY <1>4, <1>5, <1>6, <2>1
  <2>2. CASE path # dest[m]
    BY <1>4, <2>2
  <2> QED
    BY <2>1, <2>2
<1> QED
  BY <1>8, <1>9, <1>10, <1>11, <1>12, <1>13, <1>14, <1>15 DEF MigrationInv

LEMMA CopiedStep ==
  ASSUME MigrationInv, NEW m \in Migrations, Copied(m)
  PROVE  MigrationInv' /\ Grows
<1> DEFINE made == <<source[m], dest[m]>>
<1>1. /\ state[m] = "copy" /\ left[m] = {}
      /\ copies' = [copies EXCEPT ![m] = copies[m] \cup {made}]
      /\ state' = [state EXCEPT ![m] = "walk"]
      /\ UNCHANGED <<tree, source, dest, left>>
  BY DEF Copied, Goto
<1>2. /\ state'[m] = "walk" /\ copies'[m] = copies[m] \cup {made}
      /\ \A n \in Migrations \ {m} : state'[n] = state[n] /\ copies'[n] = copies[n]
  BY <1>1 DEF MigrationInv, Domains
<1>3. PartIsOfSource(m) /\ source[m] \in DOMAIN tree
  BY <1>1 DEF MigrationInv, PartsAreOfSources, CopiesAreVersioned
<1>4. source[m].version = "" => tree[dest[m]] = tree[source[m]]
  <2>1. /\ tree[dest[m]] = [f \in DOMAIN tree[dest[m]] |-> tree[dest[m]][f]]
        /\ tree[source[m]] = [f \in DOMAIN tree[source[m]] |-> tree[source[m]][f]]
    BY <1>3 DEF MigrationInv, BundlesAreFunctions, PartIsOfSource
  <2> SUFFICES ASSUME source[m].version = "" PROVE tree[dest[m]] = tree[source[m]]
    OBVIOUS
  <2>2. DOMAIN tree[dest[m]] = DOMAIN tree[source[m]]
    BY <1>1, <1>3 DEF PartIsOfSource
  <2>3. \A f \in DOMAIN tree[dest[m]] : tree[dest[m]][f] = tree[source[m]][f]
    BY <1>3 DEF PartIsOfSource
  <2> QED
    BY <2>1, <2>2, <2>3
<1>5. \A n \in Migrations : \A x \in copies[n] : x[2] # dest[m]
  BY <1>1 DEF MigrationInv, CopiesAreLeftAlone
<1>6. Domains'
  BY <1>1 DEF MigrationInv, Domains
<1>7. BundlesAreFunctions'
  BY <1>1 DEF MigrationInv, BundlesAreFunctions
<1>8. CopiesAreVersioned'
  <2> SUFFICES ASSUME NEW n \in Migrations, state'[n] \in {"make", "copy"}
               PROVE  source[n] \in DOMAIN tree /\ dest[n].version # ""
    BY <1>1 DEF CopiesAreVersioned
  <2>1. state[n] \in {"make", "copy"}
    BY <1>2
  <2> QED
    BY <2>1 DEF MigrationInv, CopiesAreVersioned
<1>9. OneCopies'
  <2> SUFFICES ASSUME NEW n \in Migrations, NEW k \in Migrations,
                      state'[n] = "copy", state'[k] = "copy", dest[n] = dest[k]
               PROVE  n = k
    BY <1>1 DEF OneCopies
  <2>1. state[n] = "copy" /\ state[k] = "copy"
    BY <1>2
  <2> QED
    BY <2>1 DEF MigrationInv, OneCopies
<1>10. PartsAreOfSources'
  <2> SUFFICES ASSUME NEW n \in Migrations, state'[n] = "copy" PROVE PartIsOfSource(n)'
    BY DEF PartsAreOfSources
  <2>1. state[n] = "copy" /\ PartIsOfSource(n)
    BY <1>2 DEF MigrationInv, PartsAreOfSources
  <2> QED
    BY <1>1, <2>1 DEF PartIsOfSource
<1>11. CopiesAreLeftAlone'
  <2> SUFFICES ASSUME NEW n \in Migrations, NEW x \in copies'[n]
               PROVE  /\ x = <<x[1], x[2]>> /\ x[1] \in DOMAIN tree /\ x[2] \in DOMAIN tree
                      /\ \A k \in Migrations : state'[k] = "copy" => dest[k] # x[2]
    BY <1>1 DEF CopiesAreLeftAlone
  <2>1. CASE x \in copies[n]
    BY <1>2, <2>1 DEF MigrationInv, CopiesAreLeftAlone
  <2>2. CASE x \notin copies[n]
    <3>1. x = made /\ n = m
      BY <1>2, <2>2
    <3>2. \A k \in Migrations : state'[k] = "copy" => dest[k] # dest[m]
      BY <1>1, <1>2 DEF MigrationInv, OneCopies
    <3> QED
      BY <1>3, <3>1, <3>2 DEF PartIsOfSource
  <2> QED
    BY <2>1, <2>2
<1>12. CopiesAreWhole'
  <2>1. \A n \in Migrations : \A x \in copies'[n] : x \in copies[n] \/ (n = m /\ x = made)
    BY <1>2
  <2>2. \A n \in Migrations : \A x \in copies[n] : x[1].version = "" => tree[x[2]] = tree[x[1]]
    BY DEF MigrationInv, CopiesAreWhole
  <2>3. \A n \in Migrations : \A x \in copies'[n] : x[1].version = "" => tree[x[2]] = tree[x[1]]
    <3> SUFFICES ASSUME NEW n \in Migrations, NEW x \in copies'[n], x[1].version = ""
                 PROVE  tree[x[2]] = tree[x[1]]
      OBVIOUS
    <3>1. CASE x \in copies[n]
      BY <2>2, <3>1
    <3>2. CASE x = made
      <4>1. x[1] = source[m] /\ x[2] = dest[m]
        BY <3>2
      <4> QED
        BY <1>4, <4>1
    <3> QED
      BY <2>1, <3>1, <3>2
  <2>4. \A a, b \in Migrations : \A x \in copies[a], y \in copies[b] :
          x[2] = y[2] => a = b /\ x = y
    BY DEF MigrationInv, CopiesAreWhole
  <2>5. ASSUME NEW a \in Migrations, NEW b \in Migrations,
               NEW x \in copies'[a], NEW y \in copies'[b], x[2] = y[2]
        PROVE  a = b /\ x = y
    <3>1. CASE x \in copies[a] /\ y \in copies[b]
      BY <2>5, <2>4, <3>1
    <3>2. CASE x = made /\ y = made
      BY <1>5, <2>1, <2>5, <3>2
    <3>3. CASE x \in copies[a] /\ y = made
      BY <1>5, <2>5, <3>3
    <3>4. CASE x = made /\ y \in copies[b]
      BY <1>5, <2>5, <3>4
    <3> QED
      BY <2>1, <3>1, <3>2, <3>3, <3>4
  <2> QED
    BY <1>1, <2>3, <2>5 DEF CopiesAreWhole
<1> QED
  BY <1>1, <1>6, <1>7, <1>8, <1>9, <1>10, <1>11, <1>12 DEF MigrationInv, Grows

LEMMA OtherStep ==
  ASSUME MigrationInv, NEW m \in Migrations, TakeArgument(m) \/ Finish(m) \/ Kill(m)
  PROVE  MigrationInv' /\ Grows
<1>1. DOMAIN state' = Migrations /\ UNCHANGED <<tree, source, dest, left, copies>>
  BY DEF TakeArgument, Finish, Kill, Goto, MigrationInv, Domains
<1>2. \A n \in Migrations : state'[n] \in {"make", "copy"} => state'[n] = state[n]
  BY DEF TakeArgument, Finish, Kill, Goto, MigrationInv, Domains
<1> QED
  BY <1>1, <1>2, QuietStep

LEMMA MigrationStep ==
  ASSUME MigrationInv, [MigrationNext]_migrationVars
  PROVE  MigrationInv' /\ Grows
<1>1. CASE MigrationNext
  <2>1. PICK m \in Migrations : Migrate(m)
    BY <1>1 DEF MigrationNext
  <2>2. CASE Visit(m)
    BY <2>2, VisitStep
  <2>3. CASE MakeDirectory(m)
    BY <2>3, MakeDirectoryStep
  <2>4. CASE CopyFile(m)
    BY <2>4, CopyFileStep
  <2>5. CASE Copied(m)
    BY <2>5, CopiedStep
  <2>6. CASE TakeArgument(m) \/ Finish(m) \/ Kill(m)
    BY <2>6, OtherStep
  <2> QED
    BY <2>1, <2>2, <2>3, <2>4, <2>5, <2>6 DEF Migrate
<1>2. CASE UNCHANGED migrationVars
  <2>1. UNCHANGED <<tree, state, source, dest, left, copies>>
    BY <1>2 DEF migrationVars
  <2>2. DOMAIN state' = Migrations
    BY <2>1 DEF MigrationInv, Domains
  <2> QED
    BY <2>1, <2>2, QuietStep
<1> QED
  BY <1>1, <1>2

-----------------------------------------------------------------------------
\* What the calls of the analyzer do is no step of a migration.
THEOREM SpecMigrates == Spec => MigrationSpec
<1>1. ReportInit => MigrationInit
  BY DEF ReportInit, MigrationInit
<1>2. [Next]_<<migrationVars, analysisVars>> => [MigrationNext]_migrationVars
  BY DEF Next, Terminating
<1> QED
  BY <1>1, <1>2, PTL DEF Spec, MigrationSpec

\* Beside any calls of the analyzer, a completed copy of a flat bundle is that
\* bundle, and it is the copy of one migration (main, unique_destination).
THEOREM CopiesStayWhole == Spec => []CopiesAreWhole
<1>1. MigrationInv /\ [MigrationNext]_migrationVars => MigrationInv'
  BY MigrationStep
<1>2. MigrationInv => CopiesAreWhole
  BY DEF MigrationInv
<1> QED
  BY InitMigrationInv, SpecMigrates, <1>1, <1>2, PTL DEF MigrationSpec

\* No step of any number of migrations, killed or not, takes away or changes a
\* file of a bundle (copytree in main, which makes its directory).
THEOREM NothingIsOverwritten == Spec => NeverOverwrites
<1>1. MigrationInv /\ [MigrationNext]_migrationVars => MigrationInv' /\ [Grows]_migrationVars
  BY MigrationStep
<1>2. [][Grows]_migrationVars => NeverOverwrites
  BY PTL DEF NeverOverwrites, Grows
<1> QED
  BY InitMigrationInv, SpecMigrates, <1>1, <1>2, PTL DEF MigrationSpec

-----------------------------------------------------------------------------
(* What the paths and the bundles of the tree are like, partial copies too. *)

Part(b, d) == DOMAIN b \subseteq DOMAIN d /\ \A file \in DOMAIN b : b[file] = d[file]

\* The part of a bundle is of the same kind.
LEMMA PartIsKnown ==
  ASSUME NEW b, NEW d, Part(b, d), KnownBundle(d)
  PROVE  KnownBundle(b)
<1>1. \A file \in DOMAIN b : /\ file \in Results => KnownResults(b[file])
                             /\ file \in ToSet(MetadataFiles) => KnownValues(b[file])
                             /\ file = "slurm-job.txt" => b[file] \in Seq(Seq(STRING \X Nat) \ {<<>>})
  <2> SUFFICES ASSUME NEW file \in DOMAIN b
               PROVE  /\ file \in Results => KnownResults(b[file])
                      /\ file \in ToSet(MetadataFiles) => KnownValues(b[file])
                      /\ file = "slurm-job.txt" => b[file] \in Seq(Seq(STRING \X Nat) \ {<<>>})
    OBVIOUS
  <2>1. file \in DOMAIN d /\ b[file] = d[file]
    BY DEF Part
  <2> QED BY <2>1, Zenon DEF KnownBundle
<1>2. Results \subseteq DOMAIN b /\ (\A file \in Results : b[file].state = "read") =>
        Measured(b["ghalo.json"].results) = Measured(b["ghalo.csv"].results)
  <2> SUFFICES ASSUME Results \subseteq DOMAIN b, \A file \in Results : b[file].state = "read"
               PROVE  Measured(b["ghalo.json"].results) = Measured(b["ghalo.csv"].results)
    OBVIOUS
  <2>1. Results \subseteq DOMAIN d /\ \A file \in Results : d[file] = b[file]
    BY DEF Part
  <2>2. Measured(d["ghalo.json"].results) = Measured(d["ghalo.csv"].results)
    BY <2>1 DEF KnownBundle
  <2> QED BY <2>1, <2>2 DEF Results
<1> QED BY <1>1, <1>2 DEF KnownBundle

LEMMA NoVersionType == NoVersion \in Versions
  BY WordsAssumption DEF NoVersion, Versions

LEMMA FirstVersionType ==
  ASSUME NEW versions, DOMAIN versions \subseteq Nat, \A i \in DOMAIN versions : versions[i] \in Versions
  PROVE  FirstVersion(versions) \in Versions
<1> DEFINE given == {i \in DOMAIN versions : versions[i][2] # ""}
           i == CHOOSE i \in given : \A j \in given : i <= j
<1>1. CASE given = {}
  <2>1. FirstVersion(versions) = NoVersion
    BY <1>1 DEF FirstVersion
  <2> QED BY <2>1, NoVersionType
<1>2. CASE given # {}
  <2>1. given \subseteq Nat
    OBVIOUS
  <2>2. \E k \in given : \A j \in given : k <= j
    BY <1>2, <2>1, LeastOf
  <2>3. i \in given
    BY <2>2
  <2>4. FirstVersion(versions) = versions[i]
    BY <1>2 DEF FirstVersion
  <2> HIDE DEF i
  <2> QED BY <2>3, <2>4
<1> QED BY <1>1, <1>2

LEMMA KnownValue ==
  ASSUME NEW bundle, KnownBundle(bundle), NEW file \in ToSet(MetadataFiles), file \in DOMAIN bundle
  PROVE  /\ \A key \in {"nodes", "requested_nodes", "ranks_per_node", "requested_ranks_per_node"} :
              key \in DOMAIN bundle[file] => bundle[file][key] \in Nat
         /\ \A key \in {"active_system", "timestamp"} :
              key \in DOMAIN bundle[file] => bundle[file][key] \in ToSet(Alphabet)
         /\ \A key \in {"rocm_version", "loaded_rocm_module"} :
              key \in DOMAIN bundle[file] => bundle[file][key] \in Versions
         /\ "backend" \in DOMAIN bundle[file] => bundle[file]["backend"] \in DOMAIN BackendWords
         /\ "rccl_sync_mode" \in DOMAIN bundle[file] =>
              bundle[file]["rccl_sync_mode"] \in DOMAIN ModeRank
<1> DEFINE values == bundle[file]
<1>1. KnownValues(values)
  BY DEF KnownBundle
<1> HIDE DEF values
<1>2. \A key \in {"nodes", "requested_nodes", "ranks_per_node", "requested_ranks_per_node"} :
        key \in DOMAIN values => values[key] \in Nat
  BY <1>1 DEF KnownValues
<1>3. \A key \in {"active_system", "timestamp"} :
        key \in DOMAIN values => values[key] \in ToSet(Alphabet)
  BY <1>1 DEF KnownValues
<1>4. \A key \in {"rocm_version", "loaded_rocm_module"} :
        key \in DOMAIN values => values[key] \in Versions
  BY <1>1 DEF KnownValues
<1>5. "backend" \in DOMAIN values => values["backend"] \in DOMAIN BackendWords
  BY <1>1 DEF KnownValues
<1>6. "rccl_sync_mode" \in DOMAIN values => values["rccl_sync_mode"] \in DOMAIN ModeRank
  BY <1>1 DEF KnownValues
<1> QED BY <1>2, <1>3, <1>4, <1>5, <1>6 DEF values

LEMMA TheMetadataFiles ==
  ToSet(MetadataFiles) = {"system-resolution.txt", "submission.txt", "environment.txt", "git.txt",
                          "command.txt", "result-metadata.txt"}
  BY DEF ToSet, MetadataFiles

\* The first result of a bundle.
LEMMA FirstType ==
  ASSUME NEW bundle, KnownBundle(bundle)
  PROVE  \A r \in First(bundle) : KnownResult(r)
<1> SUFFICES ASSUME NEW r \in First(bundle) PROVE KnownResult(r)
  OBVIOUS
<1> DEFINE results == bundle["ghalo.json"].results
<1>1. "ghalo.json" \in DOMAIN bundle /\ Len(results) > 0 /\ r = results[1]
  BY DEF First
<1>2. KnownResults(bundle["ghalo.json"])
  BY <1>1 DEF KnownBundle, Results
<1>3. results \in Seq(ToSet(results)) /\ \A x \in ToSet(results) : KnownResult(x)
  BY <1>2 DEF KnownResults
<1> HIDE DEF results
<1>4. DOMAIN results = 1 .. Len(results) /\ Len(results) \in Nat
  BY <1>3, SequenceIs DEF IsSequence
<1> QED BY <1>1, <1>3, <1>4 DEF ToSet

LEMMA InferredType ==
  ASSUME NEW path \in Paths, NEW bundle, KnownBundle(bundle)
  PROVE  infer_bundle(path, bundle) \in
           [system : ToSet(Alphabet), version : ToSet(Alphabet), category : ToSet(Alphabet),
            backend : DOMAIN BackendWords, label : ToSet(Labels)]
<1> DEFINE first == First(bundle)
           inferred == infer_bundle(path, bundle)
           f == CHOOSE r \in first : TRUE
           backend == IF first # {} THEN f.backend
                      ELSE Value(bundle, "system-resolution.txt", "backend", path.name.backend)
           rocm == FirstVersion(<<IF first # {} THEN f.rocm ELSE NoVersion,
                     Value(bundle, "result-metadata.txt", "rocm_version", NoVersion),
                     Value(bundle, "result-metadata.txt", "loaded_rocm_module", NoVersion)>>)
           category == Value(bundle, "result-metadata.txt", "result_category",
                             infer_category(path.name.label, first))
<1>1. first # {} => KnownResult(f)
  BY FirstType
<1>2. /\ path.system \in ToSet(Alphabet) /\ path.name.backend \in DOMAIN BackendWords
      /\ path.name.label \in ToSet(Labels)
  BY DEF Paths
<1>3. NoVersion \in Versions
  BY NoVersionType
<1>4. backend \in DOMAIN BackendWords
  <2>1. CASE first # {}
    BY <1>1, <2>1 DEF KnownResult, BackendRank, BackendWords
  <2>2. CASE first = {}
    <3>1. Value(bundle, "system-resolution.txt", "backend", path.name.backend) \in DOMAIN BackendWords
      BY <1>2, KnownValue, TheMetadataFiles DEF Value
    <3> QED BY <2>2, <3>1
  <2> QED BY <2>1, <2>2
<1>5. rocm \in Versions
  <2> DEFINE v1 == IF first # {} THEN f.rocm ELSE NoVersion
             v2 == Value(bundle, "result-metadata.txt", "rocm_version", NoVersion)
             v3 == Value(bundle, "result-metadata.txt", "loaded_rocm_module", NoVersion)
  <2>1. v1 \in Versions
    BY <1>1, <1>3 DEF KnownResult
  <2>2. v2 \in Versions
    BY <1>3, KnownValue, TheMetadataFiles DEF Value
  <2>3. v3 \in Versions
    BY <1>3, KnownValue, TheMetadataFiles DEF Value
  <2>4. rocm = FirstVersion(<<v1, v2, v3>>)
    OBVIOUS
  <2> HIDE DEF v1, v2, v3, rocm
  <2>5. /\ DOMAIN <<v1, v2, v3>> \subseteq Nat
        /\ \A i \in DOMAIN <<v1, v2, v3>> : <<v1, v2, v3>>[i] \in Versions
    BY <2>1, <2>2, <2>3
  <2> QED BY <2>4, <2>5, FirstVersionType
<1>6. Value(bundle, "system-resolution.txt", "active_system", path.system) \in ToSet(Alphabet)
  BY <1>2, KnownValue, TheMetadataFiles DEF Value
<1>7. inferred = [system |-> Value(bundle, "system-resolution.txt", "active_system", path.system),
                  version |-> normalize_rocm(rocm),
                  category |-> IF category \in CATEGORIES THEN category ELSE "repeatability",
                  backend |-> backend,
                  label |-> normalize_label(path.name.label, backend)]
  BY DEF infer_bundle
<1> HIDE DEF inferred, rocm, category, backend
<1>8. normalize_rocm(rocm) \in ToSet(Alphabet)
  BY <1>5, WordsAssumption DEF normalize_rocm, Versions
<1>9. (IF category \in CATEGORIES THEN category ELSE "repeatability") \in ToSet(Alphabet)
  BY WordsAssumption DEF CATEGORIES
<1>10. normalize_label(path.name.label, backend) \in ToSet(Labels)
  BY <1>2, <1>4, WordsAssumption
<1> QED BY <1>4, <1>6, <1>7, <1>8, <1>9, <1>10 DEF inferred

\* There is a free name, and so a first one: fewer names are taken than tried.
LEMMA DestinationType ==
  ASSUME NEW path \in DOMAIN tree, DOMAIN tree \subseteq Paths, IsFiniteSet(DOMAIN tree),
         KnownBundle(tree[path])
  PROVE  unique_destination(path) \in Paths
<1> DEFINE N == Cardinality(DOMAIN tree)
           Free(n) == /\ Candidate(path, n) \notin DOMAIN tree
                      /\ \A k \in 1 .. n - 1 : Candidate(path, k) \in DOMAIN tree
           inferred == infer_bundle(path, tree[path])
<1>1. N \in Nat
  BY FS_CardinalityType
<1>2. inferred \in [system : ToSet(Alphabet), version : ToSet(Alphabet), category : ToSet(Alphabet),
                    backend : DOMAIN BackendWords, label : ToSet(Labels)]
  BY InferredType
<1>3. \A n : Candidate(path, n) =
        [system |-> inferred.system, version |-> inferred.version, category |-> inferred.category,
         name |-> [stamp |-> path.name.stamp, backend |-> inferred.backend,
                   label |-> inferred.label, suffix |-> n]]
  BY DEF Candidate
<1> HIDE DEF inferred
<1>4. path.name.stamp \in ToSet(Alphabet)
  BY DEF Paths
<1>5. \A n \in Nat \ {0} : Candidate(path, n) \in Paths
  BY <1>2, <1>3, <1>4 DEF Paths
<1>6. \A n : Candidate(path, n).name.suffix = n
  BY <1>3
<1> DEFINE Taken == {n \in 1 .. N + 1 : Candidate(path, n) \in DOMAIN tree}
           Left == {n \in 1 .. N + 1 : Candidate(path, n) \notin DOMAIN tree}
<1>7. Left # {}
  <2> SUFFICES ASSUME Left = {} PROVE FALSE
    OBVIOUS
  <2> DEFINE f == [n \in 1 .. N + 1 |-> Candidate(path, n)]
  <2>1. f \in [1 .. N + 1 -> DOMAIN tree]
    OBVIOUS
  <2>2. IsFiniteSet(1 .. N + 1) /\ Cardinality(1 .. N + 1) = N + 1
    BY <1>1, FS_Interval
  <2>3. N < N + 1
    BY <1>1
  <2> HIDE DEF f, N
  <2>4. Cardinality(DOMAIN tree) < Cardinality(1 .. N + 1)
    BY <2>2, <2>3 DEF N
  <2>5. PICK x \in 1 .. N + 1, y \in 1 .. N + 1 : x # y /\ f[x] = f[y]
    <3> DEFINE S == 1 .. N + 1
               T == DOMAIN tree
    <3>1. f \in [S -> T] /\ IsFiniteSet(S) /\ IsFiniteSet(T) /\ Cardinality(T) < Cardinality(S)
      BY <2>1, <2>2, <2>4
    <3> HIDE DEF S, T
    <3>2. \E x, y \in S : x # y /\ f[x] = f[y]
      BY <3>1, FS_PigeonHole
    <3> QED BY <3>2 DEF S
  <2>6. Candidate(path, x) = Candidate(path, y)
    BY <2>5 DEF f
  <2>7. Candidate(path, x).name.suffix = Candidate(path, y).name.suffix
    BY <2>6
  <2> QED BY <1>6, <2>5, <2>7
<1>8. PICK n \in Left : \A k \in Left : n <= k
  <2>1. Left \subseteq Nat
    BY <1>1
  <2> QED BY <1>7, <2>1, LeastOf
<1>9. n \in 1 .. N + 1 /\ Free(n)
  <2>1. \A k \in 1 .. n - 1 : k \in 1 .. N + 1 /\ ~(n <= k)
    BY <1>1, <1>8
  <2> QED BY <1>8, <2>1
<1> DEFINE m == CHOOSE k \in 1 .. N + 1 : Free(k)
<1>10. m \in 1 .. N + 1
  BY <1>9
<1>11. unique_destination(path) = Candidate(path, m)
  BY DEF unique_destination
<1> HIDE DEF m
<1>12. m \in Nat \ {0}
  BY <1>1, <1>10
<1> QED BY <1>5, <1>11, <1>12

Copying(m) ==
  /\ Part(tree[dest[m]], tree[source[m]])
  /\ left[m] \subseteq DOMAIN tree[source[m]]

KnownInv ==
  /\ state \in [Migrations -> {"walk", "make", "copy", "done", "failed", "killed"}]
  /\ IsFiniteSet(DOMAIN tree) /\ DOMAIN tree \subseteq Paths
  /\ \A path \in DOMAIN tree : KnownBundle(tree[path])
  /\ \A m \in Migrations : state[m] \in {"make", "copy"} => dest[m] \in Paths
  /\ \A m \in Migrations : state[m] = "copy" => Copying(m)

LEMMA InitKnown == MigrationInit => KnownInv
<1> SUFFICES ASSUME NEW c \in Commands, MigrationInitOf(c)
             PROVE KnownInv
  BY DEF MigrationInit
<1>1. tree = c.tree
  BY DEF MigrationInitOf
<1>2. /\ IsFiniteSet(DOMAIN tree) /\ DOMAIN tree \subseteq Paths
      /\ \A path \in DOMAIN tree : KnownBundle(tree[path])
  BY <1>1, TreesAssumption
<1>3. /\ state \in [Migrations -> {"walk", "make", "copy", "done", "failed", "killed"}]
      /\ \A m \in Migrations : state[m] \in {"walk", "done"}
  BY DEF MigrationInitOf
<1> QED BY <1>2, <1>3 DEF KnownInv

\* The steps after which a copy is still part of its source.
LEMMA PartGrows ==
  ASSUME MigrationInv, KnownInv, Grows, NEW m \in Migrations, state[m] = "copy",
         source'[m] = source[m], dest'[m] = dest[m], left'[m] = left[m],
         tree'[dest[m]] = tree[dest[m]]
  PROVE  Copying(m)'
<1>1. Copying(m) /\ source[m] \in DOMAIN tree
  BY DEF KnownInv, MigrationInv, CopiesAreVersioned
<1>2. \A file \in DOMAIN tree[source[m]] :
        file \in DOMAIN tree'[source[m]] /\ tree'[source[m]][file] = tree[source[m]][file]
  BY <1>1 DEF Grows
<1>3. DOMAIN tree[source[m]] \subseteq DOMAIN tree'[source[m]]
  BY <1>2
<1>4. Part(tree[dest[m]], tree'[source[m]])
  BY <1>1, <1>2, <1>3 DEF Copying, Part
<1>5. left[m] \subseteq DOMAIN tree'[source[m]]
  BY <1>1, <1>3 DEF Copying
<1>6. Part(tree'[dest'[m]], tree'[source'[m]]) /\ left'[m] \subseteq DOMAIN tree'[source'[m]]
  BY <1>4, <1>5
<1> QED BY <1>6 DEF Copying, Part

\* The steps after which the tree is the same and nobody copies who did not.
LEMMA QuietKnown ==
  ASSUME KnownInv, UNCHANGED <<tree, source, left>>,
         state' \in [Migrations -> {"walk", "make", "copy", "done", "failed", "killed"}],
         \A m \in Migrations :
           /\ state'[m] \in {"make", "copy"} => dest'[m] \in Paths
           /\ state'[m] = "copy" => state[m] = "copy" /\ dest'[m] = dest[m]
  PROVE  KnownInv'
<1>1. ASSUME NEW m \in Migrations, state'[m] = "copy" PROVE Copying(m)'
  <2>1. Copying(m) /\ dest'[m] = dest[m]
    BY <1>1 DEF KnownInv
  <2> QED BY <2>1 DEF Copying, Part
<1>2. /\ IsFiniteSet(DOMAIN tree') /\ DOMAIN tree' \subseteq Paths
      /\ \A path \in DOMAIN tree' : KnownBundle(tree[path])
  BY DEF KnownInv
<1>3. \A path \in DOMAIN tree' : KnownBundle(tree'[path])
  BY <1>2
<1> QED BY <1>1, <1>2, <1>3 DEF KnownInv

\* The source, chosen before, is not changed; the copy is another than those
\* the other processes work on (MigrationInv).
LEMMA MakeDirectoryKnown ==
  ASSUME MigrationInv, KnownInv, NEW m \in Migrations, MakeDirectory(m), Grows
  PROVE  KnownInv'
<1>1. CASE dest[m] \in DOMAIN tree
  <2>1. UNCHANGED <<tree, source, left, dest>> /\ state' = [state EXCEPT ![m] = "failed"]
    BY <1>1 DEF MakeDirectory, Goto
  <2>2. state' \in [Migrations -> {"walk", "make", "copy", "done", "failed", "killed"}]
    BY <2>1 DEF KnownInv
  <2>3. \A n \in Migrations : state'[n] \in {"make", "copy"} => state'[n] = state[n]
    BY <2>1 DEF KnownInv
  <2>4. \A n \in Migrations :
          /\ state'[n] \in {"make", "copy"} => dest'[n] \in Paths
          /\ state'[n] = "copy" => state[n] = "copy" /\ dest'[n] = dest[n]
    BY <2>1, <2>3 DEF KnownInv
  <2> QED BY <2>1, <2>2, <2>4, QuietKnown
<1>2. CASE dest[m] \notin DOMAIN tree
  <2>1. /\ tree' = With(tree, dest[m], Nothing)
        /\ left' = [left EXCEPT ![m] = DOMAIN tree[source[m]]]
        /\ state' = [state EXCEPT ![m] = "copy"] /\ state[m] = "make"
        /\ UNCHANGED <<source, dest>>
    BY <1>2 DEF MakeDirectory, Goto
  <2>2. DOMAIN tree' = DOMAIN tree \cup {dest[m]} /\ tree'[dest[m]] = Nothing
        /\ \A path \in DOMAIN tree : tree'[path] = tree[path]
    BY <1>2, <2>1 DEF With
  <2>3. dest[m] \in Paths /\ source[m] \in DOMAIN tree
    BY <2>1 DEF KnownInv, MigrationInv, CopiesAreVersioned
  <2>4. IsFiniteSet(DOMAIN tree') /\ DOMAIN tree' \subseteq Paths
    BY <2>2, <2>3, FS_AddElement DEF KnownInv
  <2>5. KnownBundle(Nothing)
    BY DEF Nothing, KnownBundle, Results
  <2>6. \A path \in DOMAIN tree' : KnownBundle(tree'[path])
    <3> SUFFICES ASSUME NEW path \in DOMAIN tree' PROVE KnownBundle(tree'[path])
      OBVIOUS
    <3>1. CASE path = dest[m]
      <4>1. tree'[path] = Nothing
        BY <2>2, <3>1
      <4> QED BY <2>5, <4>1
    <3>2. CASE path # dest[m]
      <4>1. path \in DOMAIN tree /\ tree'[path] = tree[path]
        BY <2>2, <3>2
      <4>2. KnownBundle(tree[path])
        BY <4>1 DEF KnownInv
      <4> QED BY <4>1, <4>2
    <3> QED BY <3>1, <3>2
  <2>7. \A n \in Migrations : n # m => state'[n] = state[n] /\ left'[n] = left[n]
    BY <2>1 DEF MigrationInv, Domains
  <2>8. \A n \in Migrations : state'[n] \in {"make", "copy"} => dest'[n] \in Paths
    BY <2>1, <2>3, <2>7 DEF KnownInv
  <2>9. ASSUME NEW n \in Migrations, state'[n] = "copy" PROVE Copying(n)'
    <3>1. CASE n = m
      <4>1. left'[m] = DOMAIN tree[source[m]]
        BY <2>1 DEF MigrationInv, Domains
      <4>2. tree'[source[m]] = tree[source[m]]
        BY <2>2, <2>3
      <4>3. Part(Nothing, tree[source[m]])
        BY DEF Part, Nothing
      <4>4. Part(tree'[dest'[m]], tree'[source'[m]]) /\ left'[m] \subseteq DOMAIN tree'[source'[m]]
        BY <2>1, <2>2, <4>1, <4>2, <4>3
      <4> QED BY <3>1, <4>4 DEF Copying, Part
    <3>2. CASE n # m
      <4>1. state[n] = "copy" /\ left'[n] = left[n] /\ source'[n] = source[n] /\ dest'[n] = dest[n]
        BY <2>1, <2>7, <2>9, <3>2
      <4>2. dest[n] \in DOMAIN tree
        BY <4>1 DEF MigrationInv, PartsAreOfSources, PartIsOfSource
      <4> QED BY <2>2, <4>1, <4>2, PartGrows
    <3> QED BY <3>1, <3>2
  <2>10. state' \in [Migrations -> {"walk", "make", "copy", "done", "failed", "killed"}]
    BY <2>1 DEF KnownInv
  <2> QED BY <2>4, <2>6, <2>8, <2>9, <2>10 DEF KnownInv
<1> QED BY <1>1, <1>2

LEMMA CopyFileKnown ==
  ASSUME MigrationInv, KnownInv, NEW m \in Migrations, CopyFile(m), Grows
  PROVE  KnownInv'
<1>1. PICK file \in left[m] :
        /\ tree' = [tree EXCEPT ![dest[m]] = With(@, file, tree[source[m]][file])]
        /\ left' = [left EXCEPT ![m] = @ \ {file}]
  BY DEF CopyFile
<1>2. state[m] = "copy" /\ UNCHANGED <<state, source, dest>>
  BY DEF CopyFile
<1>3. /\ dest[m] \in DOMAIN tree /\ source[m] \in DOMAIN tree /\ Copying(m)
  BY <1>2 DEF KnownInv, MigrationInv, PartsAreOfSources, PartIsOfSource, CopiesAreVersioned
<1> DEFINE old == tree[dest[m]]
           from == tree[source[m]]
           new == With(old, file, from[file])
<1>4. DOMAIN tree' = DOMAIN tree /\ \A path \in DOMAIN tree : path # dest[m] => tree'[path] = tree[path]
  BY <1>1
<1>5. tree'[dest[m]] = new
  BY <1>1, <1>3
<1>6. Part(old, from) /\ file \in DOMAIN from
  BY <1>3 DEF Copying
<1>7. Part(new, from)
  <2> HIDE DEF old, from
  <2> QED BY <1>6 DEF Part, With
<1>8. KnownBundle(from)
  BY <1>3 DEF KnownInv
<1> HIDE DEF old, from, new
<1>9. KnownBundle(new)
  BY <1>7, <1>8, PartIsKnown
<1>10. \A path \in DOMAIN tree' : KnownBundle(tree'[path])
  <2> SUFFICES ASSUME NEW path \in DOMAIN tree' PROVE KnownBundle(tree'[path])
    OBVIOUS
  <2>1. CASE path = dest[m]
    <3>1. tree'[path] = new
      BY <1>5, <2>1
    <3> QED BY <1>9, <3>1
  <2>2. CASE path # dest[m]
    <3>1. path \in DOMAIN tree /\ tree'[path] = tree[path]
      BY <1>4, <2>2
    <3>2. KnownBundle(tree[path])
      BY <3>1 DEF KnownInv
    <3> QED BY <3>1, <3>2
  <2> QED BY <2>1, <2>2
<1>11. \A n \in Migrations : n # m => left'[n] = left[n]
  BY <1>1 DEF MigrationInv, Domains
<1>12. left'[m] = left[m] \ {file}
  BY <1>1 DEF MigrationInv, Domains
<1>13. ASSUME NEW n \in Migrations, state'[n] = "copy" PROVE Copying(n)'
  <2>1. CASE n = m
    <3>1. \A f \in DOMAIN from : f \in DOMAIN tree'[source[m]] /\ tree'[source[m]][f] = from[f]
      BY <1>3 DEF Grows, from
    <3>2. Part(new, tree'[source[m]])
      BY <1>7, <3>1 DEF Part
    <3>3. left[m] \subseteq DOMAIN from
      BY <1>3 DEF Copying, from
    <3>4. left'[m] \subseteq DOMAIN tree'[source[m]]
      BY <1>12, <3>1, <3>3
    <3>5. Part(tree'[dest'[m]], tree'[source'[m]]) /\ left'[m] \subseteq DOMAIN tree'[source'[m]]
      BY <1>2, <1>5, <3>2, <3>4
    <3> QED BY <2>1, <3>5 DEF Copying, Part
  <2>2. CASE n # m
    <3>1. state[n] = "copy"
      BY <1>2, <1>13
    <3>2. dest[n] \in DOMAIN tree /\ dest[n] # dest[m]
      BY <1>2, <2>2, <3>1 DEF MigrationInv, PartsAreOfSources, PartIsOfSource, OneCopies
    <3>3. tree'[dest[n]] = tree[dest[n]]
      BY <1>4, <3>2
    <3>4. source'[n] = source[n] /\ dest'[n] = dest[n] /\ left'[n] = left[n]
      BY <1>2, <1>11, <2>2
    <3> QED BY <3>1, <3>3, <3>4, PartGrows
  <2> QED BY <2>1, <2>2
<1>14. IsFiniteSet(DOMAIN tree') /\ DOMAIN tree' \subseteq Paths
  BY <1>4 DEF KnownInv
<1>15. \A n \in Migrations : state'[n] \in {"make", "copy"} => dest'[n] \in Paths
  BY <1>2 DEF KnownInv
<1>16. state' \in [Migrations -> {"walk", "make", "copy", "done", "failed", "killed"}]
  BY <1>2 DEF KnownInv
<1> QED BY <1>10, <1>13, <1>14, <1>15, <1>16 DEF KnownInv

LEMMA VisitKnown ==
  ASSUME MigrationInv, KnownInv, NEW m \in Migrations, Visit(m)
  PROVE  KnownInv'
<1>1. PICK path \in listed[m] :
        IF IsBundle(path) /\ apply[m]
        THEN /\ source' = [source EXCEPT ![m] = path]
             /\ dest' = [dest EXCEPT ![m] = unique_destination(path)]
             /\ Goto(m, "make")
        ELSE UNCHANGED <<source, dest, state>>
  BY DEF Visit
<1>2. state[m] = "walk" /\ UNCHANGED <<tree, left>>
  BY DEF Visit
<1>3. CASE ~(IsBundle(path) /\ apply[m])
  <2>1. UNCHANGED <<source, dest, state>>
    BY <1>1, <1>3
  <2> QED BY <1>2, <2>1, QuietKnown DEF KnownInv
<1>4. CASE IsBundle(path) /\ apply[m]
  <2>1. /\ source' = [source EXCEPT ![m] = path]
        /\ dest' = [dest EXCEPT ![m] = unique_destination(path)]
        /\ state' = [state EXCEPT ![m] = "make"]
    BY <1>1, <1>4 DEF Goto
  <2>2. unique_destination(path) \in Paths
    BY <1>4, DestinationType DEF IsBundle, KnownInv
  <2>3. \A n \in Migrations :
          n # m => state'[n] = state[n] /\ dest'[n] = dest[n] /\ source'[n] = source[n]
    BY <2>1 DEF MigrationInv, Domains
  <2>4. state'[m] = "make" /\ dest'[m] \in Paths
    BY <2>1, <2>2 DEF MigrationInv, Domains
  <2>5. ASSUME NEW n \in Migrations, state'[n] = "copy" PROVE Copying(n)'
    <3>1. n # m
      BY <2>4, <2>5
    <3>2. state[n] = "copy" /\ dest'[n] = dest[n] /\ source'[n] = source[n]
      BY <2>3, <2>5, <3>1
    <3>3. Copying(n)
      BY <3>2 DEF KnownInv
    <3> QED BY <1>2, <3>2, <3>3 DEF Copying, Part
  <2>6. state' \in [Migrations -> {"walk", "make", "copy", "done", "failed", "killed"}]
    BY <2>1 DEF KnownInv
  <2>7. \A n \in Migrations : state'[n] \in {"make", "copy"} => dest'[n] \in Paths
    BY <2>3, <2>4 DEF KnownInv
  <2>8. /\ IsFiniteSet(DOMAIN tree') /\ DOMAIN tree' \subseteq Paths
        /\ \A p \in DOMAIN tree' : KnownBundle(tree[p])
    BY <1>2 DEF KnownInv
  <2>9. \A p \in DOMAIN tree' : KnownBundle(tree'[p])
    BY <1>2, <2>8
  <2> QED BY <2>5, <2>6, <2>7, <2>8, <2>9 DEF KnownInv
<1> QED BY <1>3, <1>4

LEMMA MigrationKnown ==
  ASSUME MigrationInv, KnownInv, [MigrationNext]_migrationVars
  PROVE  KnownInv'
<1>1. Grows
  BY MigrationStep
<1>2. CASE MigrationNext
  <2>1. PICK m \in Migrations : Migrate(m)
    BY <1>2 DEF MigrationNext
  <2>2. CASE Visit(m)
    BY <2>2, VisitKnown
  <2>3. CASE MakeDirectory(m)
    BY <1>1, <2>3, MakeDirectoryKnown
  <2>4. CASE CopyFile(m)
    BY <1>1, <2>4, CopyFileKnown
  <2>5. CASE TakeArgument(m) \/ Finish(m) \/ Kill(m) \/ Copied(m)
    <3>1. UNCHANGED <<tree, source, left, dest>>
      BY <2>5 DEF TakeArgument, Finish, Kill, Copied
    <3>2. state' = state \/ \E label \in {"walk", "done", "killed"} : state' = [state EXCEPT ![m] = label]
      BY <2>5 DEF TakeArgument, Finish, Kill, Copied, Goto
    <3>3. state' \in [Migrations -> {"walk", "make", "copy", "done", "failed", "killed"}]
      BY <3>2 DEF KnownInv
    <3>4. \A n \in Migrations : state'[n] \in {"make", "copy"} => state'[n] = state[n]
      BY <3>2 DEF KnownInv
    <3>5. \A n \in Migrations :
            /\ state'[n] \in {"make", "copy"} => dest'[n] \in Paths
            /\ state'[n] = "copy" => state[n] = "copy" /\ dest'[n] = dest[n]
      BY <3>1, <3>4 DEF KnownInv
    <3> QED BY <3>1, <3>3, <3>5, QuietKnown
  <2> QED BY <2>1, <2>2, <2>3, <2>4, <2>5 DEF Migrate
<1>3. CASE UNCHANGED migrationVars
  <2>1. UNCHANGED <<tree, state, source, dest, left>>
    BY <1>3 DEF migrationVars
  <2> QED BY <2>1, QuietKnown DEF KnownInv
<1> QED BY <1>2, <1>3

-----------------------------------------------------------------------------
(* What is known of a run. *)

LEMMA LeastIsMin ==
  ASSUME NEW S, S \subseteq Nat, S # {}
  PROVE  Min(S) \in S
<1>1. \E m \in S : \A x \in S : m <= x
  BY LeastOf
<1> QED BY <1>1 DEF Min

\* The greatest is the least distance from a bound.
LEMMA GreatestIsMax ==
  ASSUME NEW n \in Nat, NEW S, S \subseteq 1 .. n, S # {}
  PROVE  Max(S) \in S
<1> DEFINE D == {n - x : x \in S}
<1>1. D \subseteq Nat /\ D # {}
  <2>1. \A x \in S : n - x \in Nat /\ n - x \in D
    OBVIOUS
  <2> QED BY <2>1
<1>2. PICK d \in D : \A e \in D : d <= e
  BY <1>1, LeastOf
<1>3. PICK x \in S : d = n - x
  OBVIOUS
<1>4. \A y \in S : x >= y
  <2> SUFFICES ASSUME NEW y \in S PROVE x >= y
    OBVIOUS
  <2>1. d <= n - y
    BY <1>2
  <2> QED BY <1>3, <2>1
<1>5. \E m \in S : \A y \in S : m >= y
  BY <1>4
<1> QED BY <1>5 DEF Max

LEMMA FirstCountType ==
  ASSUME NEW counts, DOMAIN counts \subseteq Nat, \A i \in DOMAIN counts : counts[i] \in Nat
  PROVE  /\ FirstCount(counts) \in Nat
         /\ FirstCount(counts) # 0 => \E i \in DOMAIN counts : FirstCount(counts) = counts[i]
         /\ FirstCount(counts) = 0 => \A i \in DOMAIN counts : counts[i] = 0
<1>1. CASE \A i \in DOMAIN counts : counts[i] = 0
  BY <1>1 DEF FirstCount
<1>2. CASE ~(\A i \in DOMAIN counts : counts[i] = 0)
  <2> DEFINE S == {i \in DOMAIN counts : counts[i] # 0}
  <2>1. S \subseteq Nat /\ S # {}
    BY <1>2
  <2>2. Min(S) \in S
    BY <2>1, LeastIsMin
  <2>3. FirstCount(counts) = counts[Min(S)]
    BY <1>2 DEF FirstCount
  <2> QED BY <2>2, <2>3
<1> QED BY <1>1, <1>2

\* Of four counts, the first that is not zero is taken.
LEMMA FirstIs ==
  ASSUME NEW a, NEW b, NEW c, NEW d
  PROVE  FirstCount(<<a, b, c, d>>) =
           IF a # 0 THEN a ELSE IF b # 0 THEN b ELSE IF c # 0 THEN c ELSE d
<1> DEFINE t == <<a, b, c, d>>
<1>1. DOMAIN t = 1 .. 4 /\ t[1] = a /\ t[2] = b /\ t[3] = c /\ t[4] = d
  OBVIOUS
<1>2. FirstCount(t) = IF a # 0 THEN a ELSE IF b # 0 THEN b ELSE IF c # 0 THEN c ELSE d
  <2> HIDE DEF t
  <2>1. CASE \A i \in DOMAIN t : t[i] = 0
    <3>1. FirstCount(t) = 0
      BY <2>1 DEF FirstCount
    <3>2. a = 0 /\ b = 0 /\ c = 0 /\ d = 0
      BY <1>1, <2>1
    <3> QED BY <3>1, <3>2
  <2>2. CASE ~(\A i \in DOMAIN t : t[i] = 0)
    <3> DEFINE S == {i \in DOMAIN t : t[i] # 0}
               m == Min(S)
    <3>1. S \subseteq Nat /\ S # {}
      BY <1>1, <2>2
    <3>2. PICK k \in S : \A x \in S : k <= x
      BY <3>1, LeastOf
    <3>3. Min(S) \in S /\ \A x \in S : Min(S) <= x
      BY <3>2 DEF Min
    <3>4. FirstCount(t) = t[m]
      BY <2>2 DEF FirstCount
    <3> HIDE DEF m
    <3>5. m \in 1 .. 4 /\ t[m] # 0 /\ \A i \in 1 .. 4 : t[i] # 0 => m <= i
      BY <1>1, <3>3 DEF m
    <3>6. CASE a # 0
      <4>1. m = 1
        BY <1>1, <3>5, <3>6
      <4> QED BY <1>1, <3>4, <3>6, <4>1
    <3>7. CASE a = 0 /\ b # 0
      <4>1. m = 2
        BY <1>1, <3>5, <3>7
      <4> QED BY <1>1, <3>4, <3>7, <4>1
    <3>8. CASE a = 0 /\ b = 0 /\ c # 0
      <4>1. m = 3
        BY <1>1, <3>5, <3>8
      <4> QED BY <1>1, <3>4, <3>8, <4>1
    <3>9. CASE a = 0 /\ b = 0 /\ c = 0
      <4>1. m = 4
        BY <1>1, <3>5, <3>9
      <4> QED BY <1>1, <3>4, <3>9, <4>1
    <3> QED BY <3>6, <3>7, <3>8, <3>9
  <2> QED BY <2>1, <2>2
<1> QED BY <1>2

LEMMA FirstOfFour ==
  ASSUME NEW a \in Nat, NEW b \in Nat, NEW c \in Nat, NEW d \in Nat
  PROVE  FirstCount(<<a, b>>) \in Nat /\ FirstCount(<<a, b, c, d>>) \in Nat
<1>1. FirstCount(<<a, b>>) \in Nat
  <2> DEFINE t == <<a, b>>
  <2>1. DOMAIN t = 1 .. 2 /\ \A i \in 1 .. 2 : t[i] \in Nat
    OBVIOUS
  <2> HIDE DEF t
  <2>2. FirstCount(t) \in Nat
    BY <2>1, FirstCountType
  <2> QED BY <2>2 DEF t
<1>2. FirstCount(<<a, b, c, d>>) \in Nat
  BY FirstIs
<1> QED BY <1>1, <1>2

LEMMA MetaValueType ==
  ASSUME NEW run, KnownBundle(run.bundle), NEW key, NEW default, NEW S, default \in S,
         \A file \in ToSet(MetadataFiles) \cap DOMAIN run.bundle :
           key \in DOMAIN run.bundle[file] => run.bundle[file][key] \in S
  PROVE  meta_value(run, key, default) \in S
<1> DEFINE having == {i \in DOMAIN MetadataFiles :
             MetadataFiles[i] \in DOMAIN run.bundle /\ key \in DOMAIN run.bundle[MetadataFiles[i]]}
<1>1. CASE having = {}
  BY <1>1 DEF meta_value
<1>2. CASE having # {}
  <2>1. DOMAIN MetadataFiles \subseteq Nat
    BY DEF MetadataFiles
  <2>2. Min(having) \in having
    BY <1>2, <2>1, LeastIsMin
  <2>3. meta_value(run, key, default) = run.bundle[MetadataFiles[Min(having)]][key]
    BY <1>2 DEF meta_value
  <2>4. MetadataFiles[Min(having)] \in ToSet(MetadataFiles)
    BY <2>2 DEF ToSet
  <2> QED BY <2>2, <2>3, <2>4
<1> QED BY <1>1, <1>2

LEMMA SlurmNodesType ==
  ASSUME NEW run, KnownBundle(run.bundle)
  PROVE  SlurmNodes(run) \in Nat
<1>1. CASE "slurm-job.txt" \notin DOMAIN run.bundle
  BY <1>1 DEF SlurmNodes
<1>2. CASE "slurm-job.txt" \in DOMAIN run.bundle
  <2> DEFINE Token == STRING \X Nat
             Line == Seq(Token) \ {<<>>}
             lines == run.bundle["slurm-job.txt"]
             first == {i \in DOMAIN lines : lines[i][1][1] = "nodes"}
             tokens == FlattenSeq(lines)
             later == {i \in DOMAIN tokens : tokens[i][1] = "nodes"}
  <2>1. lines \in Seq(Line)
    BY <1>2 DEF KnownBundle
  <2>2. SlurmNodes(run) =
          IF first # {} THEN IF Len(lines[Max(first)]) = 1 THEN lines[Max(first)][1][2] ELSE 0
          ELSE IF later # {} THEN tokens[Max(later)][2] ELSE 0
    BY <1>2 DEF SlurmNodes
  <2>3. \A t \in Token : t[2] \in Nat
    OBVIOUS
  <2> HIDE DEF lines, Token
  <2>4. Len(lines) \in Nat /\ DOMAIN lines = 1 .. Len(lines) /\ \A i \in DOMAIN lines : lines[i] \in Line
    BY <2>1, LenProperties, ElementOfSeq
  <2>5. \A i \in DOMAIN lines :
          /\ IsSequence(lines[i]) /\ ToSet(lines[i]) \subseteq Token
          /\ lines[i][1] \in Token
    <3> SUFFICES ASSUME NEW l \in Line
                 PROVE  IsSequence(l) /\ ToSet(l) \subseteq Token /\ l[1] \in Token
      BY <2>4
    <3>1. l \in Seq(Token) /\ l # <<>>
      OBVIOUS
    <3>2. Len(l) \in Nat /\ DOMAIN l = 1 .. Len(l) /\ l \in [1 .. Len(l) -> Token] /\ Len(l) # 0
      BY <3>1, LenProperties, EmptySeq
    <3>3. l = [i \in 1 .. Len(l) |-> l[i]]
      BY <3>2
    <3>4. IsSequence(l)
      BY <3>2, <3>3, FunctionIsSequence
    <3> QED BY <3>2, <3>4 DEF ToSet
  <2>6. IsSequence(lines)
    <3>1. lines = [i \in 1 .. Len(lines) |-> lines[i]]
      BY <2>1, LenProperties
    <3> QED BY <2>4, <3>1, FunctionIsSequence
  <2>7. IsSequence(tokens) /\ ToSet(tokens) = UNION {ToSet(lines[k]) : k \in DOMAIN lines}
    BY <2>5, <2>6, FlattenIsSequence
  <2>8. \A i \in DOMAIN tokens : tokens[i] \in Token
    BY <2>5, <2>7 DEF ToSet
  <2>9. Len(tokens) \in Nat /\ DOMAIN tokens = 1 .. Len(tokens)
    BY <2>7, SequenceIs
  <2>10. first # {} => Max(first) \in first
    BY <2>4, GreatestIsMax
  <2>11. later # {} => Max(later) \in later
    BY <2>9, GreatestIsMax
  <2> HIDE DEF tokens
  <2>12. first # {} => lines[Max(first)][1][2] \in Nat
    BY <2>3, <2>5, <2>10
  <2>13. later # {} => tokens[Max(later)][2] \in Nat
    BY <2>3, <2>8, <2>11
  <2> QED BY <2>2, <2>12, <2>13
<1> QED BY <1>1, <1>2

LEMMA CountType ==
  ASSUME NEW name, DOMAIN name.label \subseteq Nat, NEW counts \in {NodesIn, RanksIn}
  PROVE  parse_count(name, counts) \in Nat
<1> DEFINE Counts(i) == name.label[i] \in DOMAIN counts
                          /\ ~(i = Len(name.label) /\ name.suffix > 1)
           found == {i \in DOMAIN name.label : Counts(i)}
           i == CHOOSE i \in found : \A j \in found : i <= j
<1>1. CASE found = {}
  BY <1>1 DEF parse_count
<1>2. CASE found # {}
  <2>1. \E k \in found : \A j \in found : k <= j
    BY <1>2, LeastOf
  <2>2. i \in found
    BY <2>1
  <2>3. parse_count(name, counts) = counts[name.label[i]]
    BY <1>2 DEF parse_count
  <2> HIDE DEF i
  <2> QED BY <2>2, <2>3, WordsAssumption
<1> QED BY <1>1, <1>2

LEMMA LabelType ==
  ASSUME NEW label \in ToSet(Labels)
  PROVE  DOMAIN label \subseteq Nat
<1>1. PICK i \in DOMAIN Labels : label = Labels[i]
  BY DEF ToSet
<1>2. Labels \in Seq(Seq(STRING))
  BY WordsAssumption
<1>3. label \in Seq(STRING)
  BY <1>1, <1>2, LenProperties, ElementOfSeq
<1> QED BY <1>3, LenProperties

LEMMA PathMetadataType ==
  ASSUME NEW path \in Paths
  PROVE  LET metadata == infer_path_metadata(path)
         IN /\ metadata.rocm \in Versions /\ metadata.stamp \in ToSet(Alphabet)
            /\ metadata.nodes \in Nat /\ metadata.ranks \in Nat
            /\ metadata.mode \in DOMAIN ModeRank
<1> DEFINE versioned == IsVersion(path.version)
           named == (path.version = "" \/ versioned) /\ path.name.stamp # "unknown"
           name == IF named THEN path.name ELSE NoName
           Says(word) == \E i \in DOMAIN name.label : name.label[i] = word
           metadata == infer_path_metadata(path)
<1>1. path.version \in ToSet(Alphabet) /\ path.name.stamp \in ToSet(Alphabet)
  BY DEF Paths
<1>2. path.name.label \in ToSet(Labels)
  BY DEF Paths
<1>3. name.stamp \in ToSet(Alphabet)
  BY <1>1, WordsAssumption DEF NoName
<1>4. DOMAIN name.label \subseteq Nat
  <2>1. DOMAIN path.name.label \subseteq Nat
    BY <1>2, LabelType
  <2>2. DOMAIN NoName.label \subseteq Nat
    BY DEF NoName
  <2>3. name = path.name \/ name = NoName
    OBVIOUS
  <2> HIDE DEF name
  <2> QED BY <2>1, <2>2, <2>3
<1>5. metadata =
        [rocm |-> IF versioned THEN <<"rocm-", path.version>> ELSE NoVersion,
         suite |-> IF versioned THEN path.category ELSE "",
         stamp |-> name.stamp, backend |-> name.backend,
         nodes |-> parse_count(name, NodesIn), ranks |-> parse_count(name, RanksIn),
         mode |-> IF name.backend # "rccl" THEN ""
                  ELSE IF Says("stream-ordered") THEN "stream-ordered"
                  ELSE IF Says("conservative") THEN "conservative" ELSE ""]
  BY DEF infer_path_metadata
<1> HIDE DEF name, versioned, metadata, Says
<1>6. metadata.rocm \in Versions
  <2>1. <<"rocm-", path.version>> \in Versions
    BY <1>1, WordsAssumption DEF Versions
  <2>2. metadata.rocm = IF versioned THEN <<"rocm-", path.version>> ELSE NoVersion
    BY <1>5
  <2> QED BY <2>1, <2>2, NoVersionType
<1>7. metadata.nodes \in Nat /\ metadata.ranks \in Nat
  BY <1>4, <1>5, CountType
<1>8. metadata.mode \in {"", "conservative", "stream-ordered"}
  BY <1>5
<1>9. DOMAIN ModeRank = {"", "conservative", "stream-ordered"}
  BY DEF ModeRank
<1>10. metadata.stamp \in ToSet(Alphabet)
  BY <1>3, <1>5
<1> QED BY <1>6, <1>7, <1>8, <1>9, <1>10 DEF metadata

\* A run that was loaded from a bundle.
KnownRun(run) ==
  /\ run.path \in Paths /\ KnownBundle(run.bundle)
  /\ IsSequence(run.results) /\ run.results # <<>>
  /\ \A r \in ToSet(run.results) : KnownResult(r)
  /\ run.nodes \in Nat /\ run.ranks \in Nat
  /\ run.system \in ToSet(Alphabet) /\ run.timestamp \in ToSet(Alphabet)
  /\ run.rocm_version \in Versions /\ run.backend \in DOMAIN BackendRank
  /\ run.rccl_sync_mode \in DOMAIN ModeRank

LEMMA SourceType ==
  ASSUME NEW bundle, KnownBundle(bundle), load_run(bundle) = "loaded"
  PROVE  LET results == Source(bundle).results
         IN /\ Valid(results) /\ IsSequence(results) /\ results # <<>>
            /\ \A r \in ToSet(results) : KnownResult(r)
            /\ results[1] \in ToSet(results)
<1>1. DOMAIN bundle \cap {"ghalo.json", "ghalo.csv"} # {} /\ Valid(Source(bundle).results)
  BY DEF load_run
<1>2. KnownResults(Source(bundle))
  BY <1>1 DEF Source, KnownBundle, Results
<1> DEFINE results == Source(bundle).results
<1>3. /\ Valid(results) /\ results # <<>> /\ IsSequence(results)
      /\ \A r \in ToSet(results) : KnownResult(r)
  BY <1>1, <1>2 DEF Valid, KnownResults, IsSequence
<1> HIDE DEF results
<1>4. results[1] \in ToSet(results)
  <2>1. 1 \in DOMAIN results
    BY <1>3, SequenceIs
  <2> QED BY <2>1 DEF ToSet
<1> QED BY <1>3, <1>4 DEF results

LEMMA ValueType ==
  ASSUME NEW bundle, KnownBundle(bundle), NEW file \in ToSet(MetadataFiles),
         NEW key \in {"nodes", "requested_nodes", "ranks_per_node", "requested_ranks_per_node"}
  PROVE  Value(bundle, file, key, 0) \in Nat
  BY KnownValue DEF Value

\* The counts of a run, of which each looks at those before it.
LEMMA CountsOfRun ==
  ASSUME NEW run, run.path \in Paths, KnownBundle(run.bundle), KnownResult(run.results[1])
  PROVE  /\ ranks(run) \in Nat /\ nodes_without_derivation(run) \in Nat
         /\ ranks_per_node(run) \in Nat /\ nodes(run) \in Nat
         /\ run.results[1].nodes \in Nat /\ run.results[1].perNode \in Nat
         /\ Value(run.bundle, "submission.txt", "nodes", 0) \in Nat
         /\ Value(run.bundle, "environment.txt", "nodes", 0) \in Nat
         /\ Value(run.bundle, "result-metadata.txt", "requested_nodes", 0) \in Nat
         /\ Value(run.bundle, "result-metadata.txt", "requested_ranks_per_node", 0) \in Nat
         /\ meta_value(run, "ranks_per_node", 0) \in Nat
         /\ path_metadata(run).nodes \in Nat
         /\ Quotient(ranks(run), nodes_without_derivation(run)) \in Nat
         /\ Quotient(ranks(run), ranks_per_node(run)) \in Nat
<1>1. /\ run.results[1].ranks \in Nat /\ run.results[1].nodes \in Nat
      /\ run.results[1].perNode \in Nat
  BY DEF KnownResult
<1>2. path_metadata(run).nodes \in Nat /\ path_metadata(run).ranks \in Nat
  BY PathMetadataType DEF path_metadata
<1>3. SlurmNodes(run) \in Nat
  BY SlurmNodesType
<1>4. /\ Value(run.bundle, "submission.txt", "nodes", 0) \in Nat
      /\ Value(run.bundle, "environment.txt", "nodes", 0) \in Nat
      /\ Value(run.bundle, "result-metadata.txt", "requested_nodes", 0) \in Nat
      /\ Value(run.bundle, "result-metadata.txt", "requested_ranks_per_node", 0) \in Nat
  BY ValueType, TheMetadataFiles
<1>5. meta_value(run, "ranks_per_node", 0) \in Nat
  <2>1. \A file \in ToSet(MetadataFiles) \cap DOMAIN run.bundle :
          "ranks_per_node" \in DOMAIN run.bundle[file] => run.bundle[file]["ranks_per_node"] \in Nat
    BY KnownValue
  <2> DEFINE S == Nat
  <2>2. 0 \in S /\ \A file \in ToSet(MetadataFiles) \cap DOMAIN run.bundle :
          "ranks_per_node" \in DOMAIN run.bundle[file] => run.bundle[file]["ranks_per_node"] \in S
    BY <2>1
  <2> HIDE DEF S
  <2>3. meta_value(run, "ranks_per_node", 0) \in S
    BY <2>2, MetaValueType
  <2> QED BY <2>3 DEF S
<1>6. \A a, b \in Nat : Quotient(a, b) \in Nat
  BY DEF Quotient
<1>7. ranks(run) \in Nat
  BY <1>1, <1>2, FirstOfFour DEF ranks
<1>8. nodes_without_derivation(run) \in Nat
  BY <1>1, <1>3, <1>4, FirstOfFour DEF nodes_without_derivation
<1>9. Quotient(ranks(run), nodes_without_derivation(run)) \in Nat
  BY <1>6, <1>7, <1>8
<1>10. ranks_per_node(run) \in Nat
  BY <1>1, <1>4, <1>5, <1>9, FirstOfFour DEF ranks_per_node
<1>11. Quotient(ranks(run), ranks_per_node(run)) \in Nat
  BY <1>6, <1>7, <1>10
<1>12. nodes(run) \in Nat
  BY <1>2, <1>4, <1>8, <1>11, FirstOfFour DEF nodes
<1> QED BY <1>1, <1>2, <1>4, <1>5, <1>7, <1>8, <1>9, <1>10, <1>11, <1>12

LEMMA RunType ==
  ASSUME NEW path \in Paths, NEW bundle, KnownBundle(bundle), load_run(bundle) = "loaded"
  PROVE  KnownRun(RunAt(path, bundle))
<1> DEFINE run == [path |-> path, bundle |-> bundle, results |-> Source(bundle).results]
           first == run.results[1]
           r == RunAt(path, bundle)
<1>1. /\ run.path = path /\ run.bundle = bundle /\ run.results = Source(bundle).results
  OBVIOUS
<1>2. /\ IsSequence(run.results) /\ run.results # <<>> /\ KnownResult(first)
      /\ \A x \in ToSet(run.results) : KnownResult(x)
  BY <1>1, SourceType
<1>3. /\ r.path = path /\ r.bundle = bundle /\ r.results = run.results
      /\ r.nodes = nodes(run) /\ r.ranks = ranks(run) /\ r.system = system(run)
      /\ r.timestamp = timestamp(run) /\ r.rocm_version = rocm_version(run)
      /\ r.backend = first.backend /\ r.rccl_sync_mode = rccl_sync_mode(run)
  BY DEF RunAt
<1> HIDE DEF run, r
<1>4. nodes(run) \in Nat /\ ranks(run) \in Nat
  BY <1>1, <1>2, CountsOfRun
<1>5. system(run) \in ToSet(Alphabet)
  <2>1. \A file \in ToSet(MetadataFiles) \cap DOMAIN run.bundle :
          "active_system" \in DOMAIN run.bundle[file] =>
            run.bundle[file]["active_system"] \in ToSet(Alphabet)
    BY <1>1, KnownValue
  <2>2. run.path.system \in ToSet(Alphabet)
    BY <1>1 DEF Paths
  <2> QED BY <1>1, <2>1, <2>2, MetaValueType DEF system
<1>6. timestamp(run) \in ToSet(Alphabet)
  <2>1. \A file \in ToSet(MetadataFiles) \cap DOMAIN run.bundle :
          "timestamp" \in DOMAIN run.bundle[file] =>
            run.bundle[file]["timestamp"] \in ToSet(Alphabet)
    BY <1>1, KnownValue
  <2>2. path_metadata(run).stamp \in ToSet(Alphabet)
    BY <1>1, PathMetadataType DEF path_metadata
  <2> QED BY <1>1, <2>1, <2>2, MetaValueType DEF timestamp
<1>7. rocm_version(run) \in Versions
  <2> DEFINE v1 == first.rocm
             v2 == meta_value(run, "rocm_version", NoVersion)
             v3 == path_metadata(run).rocm
  <2>1. v1 \in Versions
    BY <1>2 DEF KnownResult
  <2>2. v2 \in Versions
    <3>1. \A file \in ToSet(MetadataFiles) \cap DOMAIN run.bundle :
            "rocm_version" \in DOMAIN run.bundle[file] =>
              run.bundle[file]["rocm_version"] \in Versions
      BY <1>1, KnownValue
    <3> QED BY <1>1, <3>1, NoVersionType, MetaValueType
  <2>3. v3 \in Versions
    BY <1>1, PathMetadataType DEF path_metadata
  <2>4. rocm_version(run) = FirstVersion(<<v1, v2, v3>>)
    BY DEF rocm_version
  <2> HIDE DEF v1, v2, v3
  <2>5. /\ DOMAIN <<v1, v2, v3>> \subseteq Nat
        /\ \A i \in DOMAIN <<v1, v2, v3>> : <<v1, v2, v3>>[i] \in Versions
    BY <2>1, <2>2, <2>3
  <2> QED BY <2>4, <2>5, FirstVersionType
<1>8. rccl_sync_mode(run) \in DOMAIN ModeRank
  <2>1. first.mode \in DOMAIN ModeRank
    BY <1>2 DEF KnownResult
  <2>2. \A file \in ToSet(MetadataFiles) \cap DOMAIN run.bundle :
          "rccl_sync_mode" \in DOMAIN run.bundle[file] =>
            run.bundle[file]["rccl_sync_mode"] \in DOMAIN ModeRank
    BY <1>1, KnownValue
  <2>3. path_metadata(run).mode \in DOMAIN ModeRank
    BY <1>1, PathMetadataType DEF path_metadata
  <2>4. meta_value(run, "rccl_sync_mode", path_metadata(run).mode) \in DOMAIN ModeRank
    BY <1>1, <2>2, <2>3, MetaValueType
  <2> QED BY <2>1, <2>4 DEF rccl_sync_mode
<1>9. first.backend \in DOMAIN BackendRank
  BY <1>2 DEF KnownResult
<1>10. r.path \in Paths /\ KnownBundle(r.bundle)
  BY <1>3
<1>11. /\ IsSequence(r.results) /\ r.results # <<>>
       /\ \A x \in ToSet(r.results) : KnownResult(x)
  BY <1>2, <1>3
<1>12. /\ r.nodes \in Nat /\ r.ranks \in Nat
       /\ r.system \in ToSet(Alphabet) /\ r.timestamp \in ToSet(Alphabet)
       /\ r.rocm_version \in Versions /\ r.backend \in DOMAIN BackendRank
       /\ r.rccl_sync_mode \in DOMAIN ModeRank
  BY <1>3, <1>4, <1>5, <1>6, <1>7, <1>8, <1>9
<1>13. KnownRun(r)
  BY <1>10, <1>11, <1>12 DEF KnownRun
<1> QED BY <1>13 DEF r

-----------------------------------------------------------------------------
(* The order of paths and of runs. *)

Numbers(s, n) == n \in Nat /\ s \in Seq(Int) /\ Len(s) = n

LEMMA TupleIs ==
  ASSUME NEW s, NEW n, Numbers(s, n)
  PROVE  n \in Nat /\ s \in [1 .. n -> Int]
  BY DEF Numbers

LEMMA TupleCat ==
  ASSUME NEW s, NEW m, Numbers(s, m), NEW t, NEW n, Numbers(t, n)
  PROVE  Numbers(s \o t, m + n)
<1> DEFINE S == Int
<1>1. s \in Seq(S) /\ t \in Seq(S) /\ Len(s) = m /\ Len(t) = n /\ m \in Nat /\ n \in Nat
  BY DEF Numbers
<1> HIDE DEF S
<1>2. s \o t \in Seq(S) /\ Len(s \o t) = m + n
  BY <1>1, ConcatProperties
<1>3. m + n \in Nat
  BY <1>1
<1> QED BY <1>2, <1>3 DEF S, Numbers

LEMMA TupleEnd ==
  ASSUME NEW s, NEW t, Numbers(s, 10), Numbers(t, 7)
  PROVE  \A i \in 1 .. 7 : (s \o t)[10 + i] = t[i]
<1> DEFINE S == Int
           u == s \o t
<1>1. s \in Seq(S) /\ t \in Seq(S) /\ Len(s) = 10 /\ Len(t) = 7
  BY DEF Numbers
<1> HIDE DEF S
<1>2. \A i \in 1 .. Len(s) + Len(t) : u[i] = IF i <= Len(s) THEN s[i] ELSE t[i - Len(s)]
  BY <1>1, ConcatProperties
<1> HIDE DEF u
<1>3. \A i \in 1 .. 17 : u[i] = IF i <= 10 THEN s[i] ELSE t[i - 10]
  BY <1>1, <1>2
<1>4. ASSUME NEW i \in 1 .. 7 PROVE u[10 + i] = t[i]
  <2>1. 10 + i \in 1 .. 17 /\ ~(10 + i <= 10) /\ (10 + i) - 10 = i
    OBVIOUS
  <2> QED BY <1>3, <2>1
<1> QED BY <1>4 DEF u

LEMMA PositionType ==
  ASSUME NEW sequence, DOMAIN sequence \subseteq Int, NEW x \in ToSet(sequence)
  PROVE  Position(sequence, x) \in Int /\ sequence[Position(sequence, x)] = x
  BY DEF Position, ToSet

LEMMA WordPosition ==
  /\ \A x \in ToSet(Alphabet) :
       Position(Alphabet, x) \in Int /\ Alphabet[Position(Alphabet, x)] = x
  /\ \A x \in ToSet(Labels) :
       Position(Labels, x) \in Int /\ Labels[Position(Labels, x)] = x
<1>1. DOMAIN Alphabet \subseteq Int
  <2> DEFINE S == STRING
  <2>1. Alphabet \in Seq(S)
    BY WordsAssumption
  <2> HIDE DEF S
  <2> QED BY <2>1, LenProperties
<1>2. DOMAIN Labels \subseteq Int
  <2> DEFINE S == Seq(STRING)
  <2>1. Labels \in Seq(S)
    BY WordsAssumption
  <2> HIDE DEF S
  <2> QED BY <2>1, LenProperties
<1> QED BY <1>1, <1>2, PositionType

LEMMA PathKeyType ==
  ASSUME NEW path \in Paths
  PROVE  Numbers(PathKey(path), 7)
<1>1. /\ {path.system, path.version, path.category, path.name.stamp} \subseteq ToSet(Alphabet)
      /\ path.name.backend \in DOMAIN BackendWords
      /\ path.name.label \in ToSet(Labels) /\ path.name.suffix \in Nat
  BY DEF Paths
<1>2. path.name.backend \in ToSet(Alphabet)
  BY <1>1, WordsAssumption
<1> DEFINE a == Position(Alphabet, path.system)
           b == Position(Alphabet, path.version)
           c == Position(Alphabet, path.category)
           d == Position(Alphabet, path.name.stamp)
           e == Position(Alphabet, path.name.backend)
           f == Position(Labels, path.name.label)
           g == path.name.suffix
<1>3. a \in Int /\ b \in Int /\ c \in Int /\ d \in Int /\ e \in Int /\ f \in Int /\ g \in Int
  BY <1>1, <1>2, WordPosition
<1>4. PathKey(path) = <<a, b, c, d, e, f, g>>
  BY DEF PathKey
<1> HIDE DEF a, b, c, d, e, f, g
<1> QED BY <1>3, <1>4 DEF Numbers

\* Two paths have one key only if they are one path.
LEMMA PathKeyOfOne ==
  ASSUME NEW p \in Paths, NEW q \in Paths, PathKey(p) = PathKey(q)
  PROVE  p = q
<1>1. /\ Position(Alphabet, p.system) = Position(Alphabet, q.system)
      /\ Position(Alphabet, p.version) = Position(Alphabet, q.version)
      /\ Position(Alphabet, p.category) = Position(Alphabet, q.category)
      /\ Position(Alphabet, p.name.stamp) = Position(Alphabet, q.name.stamp)
      /\ Position(Alphabet, p.name.backend) = Position(Alphabet, q.name.backend)
      /\ Position(Labels, p.name.label) = Position(Labels, q.name.label)
      /\ p.name.suffix = q.name.suffix
  BY DEF PathKey
<1>2. ASSUME NEW path \in Paths
      PROVE  /\ {path.system, path.version, path.category, path.name.stamp, path.name.backend}
                  \subseteq ToSet(Alphabet)
             /\ path.name.label \in ToSet(Labels)
             /\ path = [system |-> path.system, version |-> path.version,
                        category |-> path.category, name |-> path.name]
             /\ path.name = [stamp |-> path.name.stamp, backend |-> path.name.backend,
                             label |-> path.name.label, suffix |-> path.name.suffix]
  <2>1. path.name.backend \in DOMAIN BackendWords
    BY DEF Paths
  <2>2. path.name.backend \in ToSet(Alphabet)
    BY <2>1, WordsAssumption
  <2>3. {path.system, path.version, path.category, path.name.stamp} \subseteq ToSet(Alphabet)
    BY DEF Paths
  <2>4. path.name.label \in ToSet(Labels)
    BY DEF Paths
  <2>5. path = [system |-> path.system, version |-> path.version,
                category |-> path.category, name |-> path.name]
    BY DEF Paths
  <2>6. path.name = [stamp |-> path.name.stamp, backend |-> path.name.backend,
                     label |-> path.name.label, suffix |-> path.name.suffix]
    <3>1. path.name \in [stamp : ToSet(Alphabet), backend : DOMAIN BackendWords,
                         label : ToSet(Labels), suffix : Nat \ {0}]
      BY DEF Paths
    <3> QED BY <3>1
  <2> QED BY <2>2, <2>3, <2>4, <2>5, <2>6
<1>3. /\ p.system = q.system /\ p.version = q.version /\ p.category = q.category
      /\ p.name.stamp = q.name.stamp /\ p.name.backend = q.name.backend
  <2>1. \A x, y \in ToSet(Alphabet) : Position(Alphabet, x) = Position(Alphabet, y) => x = y
    <3> SUFFICES ASSUME NEW x \in ToSet(Alphabet), NEW y \in ToSet(Alphabet),
                        Position(Alphabet, x) = Position(Alphabet, y)
                 PROVE  x = y
      OBVIOUS
    <3>1. Alphabet[Position(Alphabet, x)] = Alphabet[Position(Alphabet, y)]
      OBVIOUS
    <3> QED BY <3>1, WordPosition
  <2>2. /\ {p.system, p.version, p.category, p.name.stamp, p.name.backend} \subseteq ToSet(Alphabet)
        /\ {q.system, q.version, q.category, q.name.stamp, q.name.backend} \subseteq ToSet(Alphabet)
    BY <1>2
  <2> QED BY <1>1, <2>1, <2>2
<1>4. p.name.label = q.name.label
  <2>1. p.name.label \in ToSet(Labels) /\ q.name.label \in ToSet(Labels)
    BY <1>2
  <2>2. Labels[Position(Labels, p.name.label)] = Labels[Position(Labels, q.name.label)]
    BY <1>1
  <2> QED BY <2>1, <2>2, WordPosition
<1>5. p.name = q.name
  BY <1>1, <1>2, <1>3, <1>4
<1> QED BY <1>2, <1>3, <1>5

\* A run's key is a tuple that ends in the key of its path.
LEMMA RunKeyType ==
  ASSUME NEW run, KnownRun(run)
  PROVE  /\ Numbers(run_output_sort_key(run), 17)
         /\ \A i \in 1 .. 7 : run_output_sort_key(run)[10 + i] = PathKey(run.path)[i]
<1> DEFINE a == <<Position(Alphabet, run.system)>>
           b == Spelled(run.rocm_version)
           c == <<BackendRank[run.backend], ModeRank[run.rccl_sync_mode]>>
           d == CountKey(run.nodes)
           e == CountKey(run.ranks)
           f == <<Position(Alphabet, run.timestamp)>>
           g == PathKey(run.path)
<1>1. Numbers(a, 1) /\ Numbers(f, 1)
  BY WordPosition DEF KnownRun, Numbers
<1>2. Numbers(b, 2)
  <2>1. run.rocm_version[1] \in ToSet(Alphabet) /\ run.rocm_version[2] \in ToSet(Alphabet)
    BY DEF KnownRun, Versions
  <2> QED BY <2>1, WordPosition DEF Spelled, Numbers
<1>3. Numbers(c, 2)
  <2>1. BackendRank[run.backend] \in Int
    BY DEF KnownRun, BackendRank
  <2>2. ModeRank[run.rccl_sync_mode] \in Int
    <3>1. run.rccl_sync_mode \in {"", "conservative", "stream-ordered"}
      BY DEF KnownRun, ModeRank
    <3>2. ModeRank[run.rccl_sync_mode] = IF run.rccl_sync_mode = "" THEN 0
                                         ELSE IF run.rccl_sync_mode = "conservative" THEN 1 ELSE 2
      BY <3>1 DEF ModeRank
    <3>3. \A b1, b2 \in BOOLEAN : (IF b1 THEN 0 ELSE IF b2 THEN 1 ELSE 2) \in Int
      OBVIOUS
    <3> QED BY <3>2, <3>3
  <2> QED BY <2>1, <2>2 DEF Numbers
<1>4. Numbers(d, 2) /\ Numbers(e, 2)
  BY DEF CountKey, KnownRun, Numbers
<1>5. Numbers(g, 7)
  BY PathKeyType DEF KnownRun
<1>6. run_output_sort_key(run) = a \o b \o c \o d \o e \o f \o g
  BY DEF run_output_sort_key
<1> HIDE DEF a, b, c, d, e, f, g
<1>7. Numbers(a \o b, 3)
  <2>1. Numbers(a \o b, 1 + 2)
    BY <1>1, <1>2, TupleCat
  <2> QED BY <2>1
<1>8. Numbers(a \o b \o c, 5)
  <2>1. Numbers(a \o b \o c, 3 + 2)
    BY <1>7, <1>3, TupleCat
  <2> QED BY <2>1
<1>9. Numbers(a \o b \o c \o d, 7)
  <2>1. Numbers(a \o b \o c \o d, 5 + 2)
    BY <1>8, <1>4, TupleCat
  <2> QED BY <2>1
<1>10. Numbers(a \o b \o c \o d \o e, 9)
  <2>1. Numbers(a \o b \o c \o d \o e, 7 + 2)
    BY <1>9, <1>4, TupleCat
  <2> QED BY <2>1
<1>11. Numbers(a \o b \o c \o d \o e \o f, 10)
  <2>1. Numbers(a \o b \o c \o d \o e \o f, 9 + 1)
    BY <1>10, <1>1, TupleCat
  <2> QED BY <2>1
<1>12. /\ Numbers(a \o b \o c \o d \o e \o f \o g, 17)
       /\ \A i \in 1 .. 7 : (a \o b \o c \o d \o e \o f \o g)[10 + i] = g[i]
  <2> DEFINE before == a \o b \o c \o d \o e \o f
  <2>1. Numbers(before, 10)
    BY <1>11
  <2> HIDE DEF before
  <2>2. Numbers(before \o g, 10 + 7)
    BY <2>1, <1>5, TupleCat
  <2>3. Numbers(before \o g, 17)
    BY <2>2
  <2>4. \A i \in 1 .. 7 : (before \o g)[10 + i] = g[i]
    <3> DEFINE whole == before \o g
    <3> SUFFICES ASSUME NEW i \in 1 .. 7 PROVE whole[10 + i] = g[i]
      OBVIOUS
    <3>1. Numbers(before, 10) /\ Numbers(g, 7)
      BY <2>1, <1>5
    <3>2. \A j \in 1 .. 7 : whole[10 + j] = g[j]
      BY <3>1, TupleEnd
    <3> QED BY <3>2
  <2> QED BY <2>3, <2>4 DEF before
<1> QED BY <1>6, <1>12 DEF g

\* Output order is a permutation of the runs, in which their keys ascend.
OutputOrder(perm, rs) ==
  LET D == 1 .. Len(rs)
      Key(i) == run_output_sort_key(rs[perm[i]])
  IN /\ perm \in [D -> D]
     /\ \A i \in D : \E k \in D : perm[k] = i
     /\ \A i, j \in D : perm[i] = perm[j] => i = j
     /\ \A i, j \in D :
          i < j => Precedes(Key(i), Key(j)) \/ (Key(i) = Key(j) /\ perm[i] < perm[j])
     /\ sorted_runs_for_output(rs) = [k \in D |-> rs[perm[k]]]

LEMMA SortedRuns ==
  ASSUME NEW rs, IsSequence(rs), \A i \in DOMAIN rs : KnownRun(rs[i])
  PROVE  \E perm : OutputOrder(perm, rs)
<1> DEFINE size == Len(rs)
           D == 1 .. size
           key == [i \in D |-> run_output_sort_key(rs[i])]
           Before(i, j) == Precedes(key[i], key[j]) \/ (key[i] = key[j] /\ i < j)
           R == {x \in D \X D : Before(x[1], x[2])}
           perm == Ordered(D, Before)
<1>1. size \in Nat /\ DOMAIN rs = D
  BY SequenceIs
<1>2. IsFiniteSet(D) /\ Cardinality(D) = size
  BY <1>1, FS_Interval
<1>3. \A i \in D : key[i] \in [1 .. 17 -> Int] /\ key[i] = run_output_sort_key(rs[i])
  BY <1>1, RunKeyType, TupleIs
<1>4. sorted_runs_for_output(rs) = [k \in D |-> rs[perm[k]]]
  BY <1>1 DEF sorted_runs_for_output
<1> HIDE DEF size, D, key
<1>5. \A i, j \in D : <<i, j>> \in R <=> Before(i, j)
  OBVIOUS
<1>6. D \subseteq Int
  BY <1>1 DEF D
<1>7. /\ \A i \in D : ~Precedes(key[i], key[i])
      /\ \A i, j, k \in D :
           Precedes(key[i], key[j]) /\ Precedes(key[j], key[k]) => Precedes(key[i], key[k])
      /\ \A i, j \in D : key[i] = key[j] \/ Precedes(key[i], key[j]) \/ Precedes(key[j], key[i])
  <2>1. 17 \in Nat
    OBVIOUS
  <2> QED BY <1>3, <2>1, TuplesInOrder
<1>8. \A x \in D : <<x, x>> \notin R
  BY <1>5, <1>6, <1>7
<1>9. \A x, y, z \in D : <<x, y>> \in R /\ <<y, z>> \in R => <<x, z>> \in R
  <2> HIDE DEF R
  <2> SUFFICES ASSUME NEW i \in D, NEW j \in D, NEW k \in D, Before(i, j), Before(j, k)
               PROVE  Before(i, k)
    BY <1>5
  <2>1. i \in Int /\ j \in Int /\ k \in Int
    BY <1>6
  <2>2. CASE key[i] = key[j]
    BY <1>7, <2>1, <2>2
  <2>3. CASE key[j] = key[k]
    BY <1>7, <2>1, <2>3
  <2>4. CASE key[i] # key[j] /\ key[j] # key[k]
    BY <1>7, <2>4
  <2> QED BY <2>2, <2>3, <2>4
<1>10. \A x, y \in D : x = y \/ <<x, y>> \in R \/ <<y, x>> \in R
  <2> HIDE DEF R
  <2> SUFFICES ASSUME NEW i \in D, NEW j \in D PROVE i = j \/ Before(i, j) \/ Before(j, i)
    BY <1>5
  <2>1. i \in Int /\ j \in Int
    BY <1>6
  <2> QED BY <1>7, <2>1
<1>11. perm = [i \in 1 .. Cardinality(D) |->
                 CHOOSE x \in D : Cardinality({y \in D : <<y, x>> \in R}) = i - 1]
  <2> DEFINE AtBefore(i) == CHOOSE x \in D : Cardinality({y \in D : Before(y, x)}) = i - 1
             AtR(i) == CHOOSE x \in D : Cardinality({y \in D : <<y, x>> \in R}) = i - 1
  <2>1. \A x \in D : {y \in D : Before(y, x)} = {y \in D : <<y, x>> \in R}
    BY <1>5
  <2>2. \A i : AtBefore(i) = AtR(i)
    <3> HIDE DEF R
    <3> QED BY <2>1
  <2>3. perm = [i \in 1 .. Cardinality(D) |-> AtBefore(i)]
    BY DEF Ordered
  <2> HIDE DEF perm, AtBefore, AtR
  <2>4. perm = [i \in 1 .. Cardinality(D) |-> AtR(i)]
    BY <2>2, <2>3
  <2> QED BY <2>4 DEF AtR
<1> HIDE DEF R, perm
<1>12. /\ Cardinality(D) \in Nat
       /\ perm \in [1 .. Cardinality(D) -> D]
       /\ \A x \in D : \E i \in 1 .. Cardinality(D) : perm[i] = x
       /\ \A i, j \in 1 .. Cardinality(D) : <<perm[i], perm[j]>> \in R <=> i < j
  <2>1. IsFiniteSet(D)
    BY <1>2
  <2>2. StrictOrder(R, D)
    BY <1>8, <1>9, <1>10 DEF StrictOrder
  <2>3. perm = Arranged(R, D)
    BY <1>11 DEF perm, Arranged
  <2> QED BY <2>1, <2>2, <2>3, InOrderOf
<1>13. 1 .. Cardinality(D) = D
  BY <1>2 DEF D
<1>14. /\ perm \in [D -> D]
       /\ \A i \in D : \E k \in D : perm[k] = i
       /\ \A i, j \in D : <<perm[i], perm[j]>> \in R <=> i < j
  BY <1>12, <1>13
<1>15. \A i, j \in D : perm[i] = perm[j] => i = j
  <2> SUFFICES ASSUME NEW i \in D, NEW j \in D, perm[i] = perm[j] PROVE i = j
    OBVIOUS
  <2>1. perm[i] \in D /\ ~(<<perm[i], perm[i]>> \in R)
    BY <1>8, <1>14
  <2>2. ~(i < j) /\ ~(j < i)
    BY <1>14, <2>1
  <2> QED BY <1>6, <2>2
<1>16. \A i, j \in D :
         i < j => \/ Precedes(run_output_sort_key(rs[perm[i]]), run_output_sort_key(rs[perm[j]]))
                  \/ /\ run_output_sort_key(rs[perm[i]]) = run_output_sort_key(rs[perm[j]])
                     /\ perm[i] < perm[j]
  <2> SUFFICES ASSUME NEW i \in D, NEW j \in D, i < j
               PROVE  \/ Precedes(run_output_sort_key(rs[perm[i]]), run_output_sort_key(rs[perm[j]]))
                      \/ /\ run_output_sort_key(rs[perm[i]]) = run_output_sort_key(rs[perm[j]])
                         /\ perm[i] < perm[j]
    OBVIOUS
  <2>1. perm[i] \in D /\ perm[j] \in D
    BY <1>14
  <2>2. Before(perm[i], perm[j])
    BY <1>5, <1>14, <2>1
  <2> QED BY <1>3, <2>1, <2>2
<1>17. OutputOrder(perm, rs)
  BY <1>4, <1>14, <1>15, <1>16 DEF D, size, OutputOrder
<1> QED BY <1>17

-----------------------------------------------------------------------------
(* What is loaded. *)

\* Migrations add no flat bundles, and change none.
LEMMA FlatStays ==
  ASSUME MigrationInv, [MigrationNext]_migrationVars, NEW path, path.version = ""
  PROVE  /\ path \in DOMAIN tree' <=> path \in DOMAIN tree
         /\ path \in DOMAIN tree => tree'[path] = tree[path]
<1>1. CASE UNCHANGED tree
  BY <1>1
<1>2. ASSUME NEW m \in Migrations, MakeDirectory(m)
      PROVE  /\ path \in DOMAIN tree' <=> path \in DOMAIN tree
             /\ path \in DOMAIN tree => tree'[path] = tree[path]
  <2>1. dest[m].version # ""
    BY <1>2 DEF MakeDirectory, MigrationInv, CopiesAreVersioned
  <2>2. UNCHANGED tree \/ tree' = With(tree, dest[m], Nothing)
    BY <1>2 DEF MakeDirectory
  <2>3. CASE tree' = With(tree, dest[m], Nothing)
    BY <2>1, <2>3 DEF With
  <2> QED BY <2>2, <2>3
<1>3. ASSUME NEW m \in Migrations, CopyFile(m)
      PROVE  /\ path \in DOMAIN tree' <=> path \in DOMAIN tree
             /\ path \in DOMAIN tree => tree'[path] = tree[path]
  <2>1. dest[m].version # ""
    BY <1>3 DEF CopyFile, MigrationInv, CopiesAreVersioned
  <2>2. PICK file : tree' = [tree EXCEPT ![dest[m]] = With(@, file, tree[source[m]][file])]
    BY <1>3 DEF CopyFile
  <2> QED BY <2>1, <2>2
<1>4. UNCHANGED tree \/ \E m \in Migrations : MakeDirectory(m) \/ CopyFile(m)
  BY DEF MigrationNext, Migrate, TakeArgument, Visit, Copied, Finish, Kill, migrationVars
<1> QED BY <1>1, <1>2, <1>3, <1>4

\* The paths found below a directory: each of them has its place.
LEMMA PathsInOrder ==
  ASSUME NEW S, IsFiniteSet(S), S \subseteq Paths
  PROVE  /\ Cardinality(S) \in Nat
         /\ InOrder(S) \in [1 .. Cardinality(S) -> S]
         /\ \A x \in S : \E i \in 1 .. Cardinality(S) : InOrder(S)[i] = x
<1> DEFINE Before(p, q) == Precedes(PathKey(p), PathKey(q))
           R == {x \in S \X S : Before(x[1], x[2])}
           order == Ordered(S, Before)
<1>1. order = InOrder(S)
  BY DEF InOrder
<1>2. \A x, y \in S : <<x, y>> \in R <=> Before(x, y)
  OBVIOUS
<1>3. \A x \in S : PathKey(x) \in [1 .. 7 -> Int]
  BY PathKeyType, TupleIs
<1>4. /\ \A x \in S : ~Before(x, x)
      /\ \A x, y, z \in S : Before(x, y) /\ Before(y, z) => Before(x, z)
      /\ \A x, y \in S : x = y \/ Before(x, y) \/ Before(y, x)
  <2>1. 7 \in Nat
    OBVIOUS
  <2>2. \A x \in S : ~Before(x, x)
    BY <1>3, <2>1, TuplesInOrder
  <2>3. \A x, y, z \in S : Before(x, y) /\ Before(y, z) => Before(x, z)
    BY <1>3, <2>1, TuplesInOrder
  <2>4. \A x, y \in S : PathKey(x) = PathKey(y) \/ Before(x, y) \/ Before(y, x)
    BY <1>3, <2>1, TuplesInOrder
  <2>5. \A x, y \in S : PathKey(x) = PathKey(y) => x = y
    BY PathKeyOfOne
  <2> QED BY <2>2, <2>3, <2>4, <2>5
<1>5. \A x \in S : <<x, x>> \notin R
  BY <1>2, <1>4
<1>6. \A x, y, z \in S : <<x, y>> \in R /\ <<y, z>> \in R => <<x, z>> \in R
  <2> HIDE DEF R
  <2> SUFFICES ASSUME NEW x \in S, NEW y \in S, NEW z \in S, Before(x, y), Before(y, z)
               PROVE  Before(x, z)
    BY <1>2
  <2> QED BY <1>4
<1>7. \A x, y \in S : x = y \/ <<x, y>> \in R \/ <<y, x>> \in R
  <2> HIDE DEF R
  <2> SUFFICES ASSUME NEW x \in S, NEW y \in S PROVE x = y \/ Before(x, y) \/ Before(y, x)
    BY <1>2
  <2> QED BY <1>4
<1>8. order = [i \in 1 .. Cardinality(S) |->
                 CHOOSE x \in S : Cardinality({y \in S : <<y, x>> \in R}) = i - 1]
  <2> DEFINE AtBefore(i) == CHOOSE x \in S : Cardinality({y \in S : Before(y, x)}) = i - 1
             AtR(i) == CHOOSE x \in S : Cardinality({y \in S : <<y, x>> \in R}) = i - 1
  <2>1. \A x \in S : {y \in S : Before(y, x)} = {y \in S : <<y, x>> \in R}
    BY <1>2
  <2>2. \A i : AtBefore(i) = AtR(i)
    <3> HIDE DEF R
    <3> QED BY <2>1
  <2>3. order = [i \in 1 .. Cardinality(S) |-> AtBefore(i)]
    BY DEF Ordered
  <2> HIDE DEF order, AtBefore, AtR
  <2>4. order = [i \in 1 .. Cardinality(S) |-> AtR(i)]
    BY <2>2, <2>3
  <2> QED BY <2>4 DEF AtR
<1> HIDE DEF R
<1>9. /\ Cardinality(S) \in Nat
      /\ order \in [1 .. Cardinality(S) -> S]
      /\ \A x \in S : \E i \in 1 .. Cardinality(S) : order[i] = x
      /\ \A i, j \in 1 .. Cardinality(S) : <<order[i], order[j]>> \in R <=> i < j
  <2>1. StrictOrder(R, S)
    BY <1>5, <1>6, <1>7 DEF StrictOrder
  <2>2. order = Arranged(R, S)
    BY <1>8 DEF Arranged
  <2> QED BY <2>1, <2>2, InOrderOf
<1> HIDE DEF order
<1> QED BY <1>1, <1>9

\* What AllAccountedFor says is given by an argument.
GivenBy(input) ==
  IF input.kind = "tree"
  THEN {p \in DOMAIN tree : Under(input.path, p) /\ p.version = "" /\ "ghalo.json" \in DOMAIN tree[p]}
  ELSE {input.path}

\* An argument stands for all that is given by it.
LEMMA ExpandedIs ==
  ASSUME KnownInv, NEW input
  PROVE  /\ IsSequence(Expanded(input)) /\ Expanded(input) # <<>>
         /\ GivenBy(input) \subseteq {x.path : x \in ToSet(Expanded(input))}
<1> DEFINE Having(file) == {p \in DOMAIN tree : Under(input.path, p) /\ file \in DOMAIN tree[p]}
           S == IF Having("ghalo.json") # {} THEN Having("ghalo.json") ELSE Having("ghalo.csv")
           found == InOrder(S)
           size == Cardinality(S)
           expanded == [i \in DOMAIN found |-> [kind |-> "dir", path |-> found[i]]]
<1>1. S \subseteq DOMAIN tree
  OBVIOUS
<1>2. IsFiniteSet(S) /\ S \subseteq Paths
  BY <1>1, FS_Subset DEF KnownInv
<1>3. GivenBy(input) \subseteq IF input.kind = "tree" THEN S ELSE {input.path}
  BY DEF GivenBy
<1>4. input.kind = "tree" => \A p \in GivenBy(input) : p \in S
  BY <1>3
<1>5. Expanded(input) = IF input.kind # "tree" \/ found = <<>> THEN <<input>> ELSE expanded
  BY DEF Expanded
<1> HIDE DEF S
<1>6. /\ size \in Nat /\ found \in [1 .. size -> S]
      /\ \A x \in S : \E i \in 1 .. size : found[i] = x
  BY <1>2, PathsInOrder
<1> HIDE DEF found, size
<1>7. CASE input.kind # "tree" \/ found = <<>>
  <2>1. Expanded(input) = <<input>>
    BY <1>5, <1>7
  <2>2. IsSequence(<<input>>) /\ <<input>> # <<>>
    BY OneIsSequence
  <2>3. ToSet(<<input>>) = {input}
    BY DEF ToSet
  <2>4. GivenBy(input) \subseteq {input.path}
    <3>1. CASE input.kind # "tree"
      BY <1>3, <3>1
    <3>2. CASE input.kind = "tree"
      <4>1. DOMAIN found = {}
        BY <1>7, <3>2
      <4>2. S = {}
        BY <1>6, <4>1
      <4> QED BY <1>4, <3>2, <4>2
    <3> QED BY <3>1, <3>2
  <2> QED BY <2>1, <2>2, <2>3, <2>4
<1>8. CASE input.kind = "tree" /\ found # <<>>
  <2>1. Expanded(input) = expanded /\ DOMAIN found = 1 .. size
    BY <1>5, <1>6, <1>8
  <2>2. expanded = [i \in 1 .. size |-> expanded[i]]
    BY <2>1
  <2>3. \A i \in 1 .. size : expanded[i].path = found[i]
    BY <2>1
  <2>4. DOMAIN expanded = 1 .. size
    BY <2>1
  <2>5. expanded # <<>>
    <3>1. size # 0
      <4> SUFFICES ASSUME size = 0 PROVE FALSE
        OBVIOUS
      <4>1. found = [i \in {} |-> found[i]]
        BY <1>6
      <4>2. found = <<>>
        BY <4>1
      <4> QED BY <1>8, <4>2
    <3>2. 1 \in DOMAIN expanded
      BY <1>6, <2>4, <3>1
    <3> QED BY <3>2
  <2> HIDE DEF expanded
  <2>6. IsSequence(expanded)
    BY <1>6, <2>2, FunctionIsSequence
  <2>7. \A p \in GivenBy(input) : \E x \in ToSet(expanded) : x.path = p
    <3> SUFFICES ASSUME NEW p \in GivenBy(input) PROVE \E x \in ToSet(expanded) : x.path = p
      OBVIOUS
    <3>1. PICK i \in 1 .. size : found[i] = p
      BY <1>4, <1>6, <1>8
    <3>2. expanded[i] \in ToSet(expanded)
      BY <2>4 DEF ToSet
    <3> QED BY <2>3, <3>1, <3>2
  <2> QED BY <2>1, <2>5, <2>6, <2>7
<1> QED BY <1>7, <1>8

-----------------------------------------------------------------------------
(* The calls and what they end with. *)

CallsInv ==
  /\ \E c \in Commands : calls = c.calls
  /\ current \in Nat \ {0}
  /\ phase \in {"idle", "load", "loaded", "write", "exited"} /\ status \in {0, 1, 2, 130}
  /\ phase # "idle" => current <= Len(calls)

LEMMA TheCall ==
  ASSUME CallsInv, current <= Len(calls)
  PROVE  /\ call.command \in {"summarize", "compare", "aggregate", "scaling", "plot", "report"}
         /\ call.baseline.kind \in {"path", "nodes", "smallest"}
         /\ IsSequence(call.inputs) /\ call.inputs # <<>>
<1>1. PICK c \in Commands : calls = c.calls
  BY DEF CallsInv
<1>2. IsSequence(calls)
  BY <1>1, CallsAssumption DEF IsSequence
<1>3. current \in DOMAIN calls
  BY <1>2, SequenceIs DEF CallsInv
<1>4. call \in ToSet(calls)
  BY <1>3 DEF ToSet, call
<1> QED BY <1>1, <1>4, CallsAssumption DEF IsSequence

LEMMA OutcomeIs == \A input : Outcome(input) \in {"loaded", "error", "crash"}
  BY DEF Outcome, load_run

Ends == {"ok", "error", "crash"}

LEMMA BaselineEnds ==
  ASSUME CallsInv, current <= Len(calls), NEW rs
  PROVE  BaselineOutcome(rs) \in Ends
<1>1. CASE call.baseline.kind = "path"
  <2> DEFINE base == Outcome(Directory(call.baseline.path))
  <2>1. BaselineOutcome(rs) = IF base = "loaded" THEN "ok" ELSE base
    BY <1>1 DEF BaselineOutcome
  <2>2. base \in {"loaded", "error", "crash"}
    BY OutcomeIs
  <2> HIDE DEF base
  <2> QED BY <2>1, <2>2 DEF Ends
<1>2. CASE call.baseline.kind = "nodes"
  <2>1. BaselineOutcome(rs) =
          IF \E i \in DOMAIN rs : rs[i].nodes = call.baseline.nodes THEN "ok" ELSE "error"
    BY <1>2 DEF BaselineOutcome
  <2> QED BY <2>1 DEF Ends
<1>3. CASE call.baseline.kind = "smallest"
  <2>1. BaselineOutcome(rs) = "ok"
    BY <1>3 DEF BaselineOutcome
  <2> QED BY <2>1 DEF Ends
<1> QED BY <1>1, <1>2, <1>3, TheCall

LEMMA PlotEnds ==
  ASSUME CallsInv, current <= Len(calls), NEW kind, NEW rs
  PROVE  PlotOutcome(kind, rs) \in Ends
<1> DEFINE axis == choose_scaling_x_axis(rs, call.xAxis)
           baseline == BaselineOutcome(rs)
           C1 == call.labels \notin {0, Len(rs)}
           C2 == axis = "error"
           C3 == kind = "percent-difference" /\ ~CanPlotDifference(rs)
           C4 == ~call.matplotlib
           C5 == kind = "phase" /\ ~rs[1].phase_timing_enabled
           C6 == kind # "scaling"
           C7 == axis = "ranks" /\ \E row \in scaling_rows(rs, choose_baseline(rs)) : row.ranks = 0
<1>1. PlotOutcome(kind, rs) =
        IF C1 THEN "error" ELSE IF C2 THEN "error" ELSE IF C3 THEN "error"
        ELSE IF C4 THEN "error" ELSE IF C5 THEN "error" ELSE IF C6 THEN "ok"
        ELSE IF baseline # "ok" THEN baseline ELSE IF C7 THEN "crash" ELSE "ok"
  BY DEF PlotOutcome
<1>2. baseline \in Ends
  BY BaselineEnds
<1> HIDE DEF axis, baseline, C1, C2, C3, C4, C5, C6, C7
<1> QED BY <1>1, <1>2 DEF Ends

LEMMA ExitStatus ==
  ASSUME NEW outcome \in Ends
  PROVE  ExitOf(outcome) \in {0, 1, 2} /\ (ExitOf(outcome) = 0 <=> outcome = "ok")
<1>1. CASE outcome = "ok"
  BY <1>1 DEF ExitOf
<1>2. CASE outcome = "error"
  BY <1>2 DEF ExitOf
<1>3. CASE outcome = "crash"
  BY <1>3 DEF ExitOf
<1> QED BY <1>1, <1>2, <1>3 DEF Ends

LEMMA PrintedEnds ==
  ASSUME CallsInv, current <= Len(calls), call.command # "report"
  PROVE  PrintedStatus \in {0, 1, 2}
<1>1. CASE call.command = "summarize"
  BY <1>1 DEF PrintedStatus
<1>2. CASE call.command = "compare"
  <2> DEFINE C1 == Len(runs) # 2
             C2 == ~CanCompare(runs[1], runs[2], call.allowMissing)
             C3 == call.failOnRegression
                     /\ Regressed(compare_rows(runs[1], runs[2], call.allowMissing), call.percent)
  <2>1. PrintedStatus = IF C1 THEN 1 ELSE IF C2 THEN 2 ELSE IF C3 THEN 1 ELSE 0
    BY <1>2 DEF PrintedStatus
  <2> HIDE DEF C1, C2, C3
  <2> QED BY <2>1
<1>3. CASE call.command = "aggregate"
  <2>1. PrintedStatus =
          IF CanAggregate(sorted_runs_for_output(runs), call.allowMixed, call.groupBy) THEN 0 ELSE 2
    BY <1>3 DEF PrintedStatus
  <2> QED BY <2>1
<1>4. CASE call.command = "scaling"
  <2>1. PrintedStatus = ExitOf(BaselineOutcome(sorted_runs_for_output(runs)))
    BY <1>4 DEF PrintedStatus
  <2> QED BY <2>1, BaselineEnds, ExitStatus
<1>5. CASE call.command = "plot"
  <2> DEFINE rs == IF call.kind = "percent-difference" THEN runs ELSE sorted_runs_for_output(runs)
  <2>1. PrintedStatus = ExitOf(PlotOutcome(call.kind, rs))
    BY <1>5 DEF PrintedStatus
  <2> HIDE DEF rs
  <2> QED BY <2>1, PlotEnds, ExitStatus
<1> QED BY <1>1, <1>2, <1>3, <1>4, <1>5, TheCall

\* What becomes of an output of a report.  A plot is made of bundles that load.
LEMMA RequestEnds ==
  ASSUME CallsInv, current <= Len(calls), NEW q, IsSequence(q.runs)
  PROVE  /\ RequestOutcome(q) \in Ends \cup {"skip"}
         /\ q.kind = "table" => RequestOutcome(q) = "ok"
         /\ q.kind = "baseline" => RequestOutcome(q) # "skip"
         /\ q.kind = "comparison" =>
              RequestOutcome(q) =
                IF Len(q.runs) = 2 /\ Halos(q.runs[1]) = Halos(q.runs[Len(q.runs)])
                THEN "ok" ELSE "skip"
         /\ q.kind \notin {"table", "baseline", "comparison"} /\ RequestOutcome(q) = "ok" =>
              \A i \in DOMAIN q.runs : Outcome(Directory(q.runs[i].path)) = "loaded"
<1> DEFINE again == [i \in DOMAIN q.runs |-> Directory(q.runs[i].path)]
           bad == {i \in DOMAIN again : Outcome(again[i]) # "loaded"}
           first == Outcome(again[Min(bad)])
           plot == PlotOutcome(q.kind, [i \in DOMAIN again |-> Loaded(again[i])])
           plotted == PlotAgain(q.kind, q.runs)
<1>1. plotted = IF bad # {} THEN first ELSE plot
  BY DEF PlotAgain
<1>2. bad # {} => first \in {"error", "crash"}
  <2> SUFFICES ASSUME bad # {} PROVE first \in {"error", "crash"}
    OBVIOUS
  <2>1. bad \subseteq Nat
    BY SequenceIs
  <2>2. Min(bad) \in bad
    BY <2>1, LeastIsMin
  <2>3. first # "loaded"
    BY <2>2
  <2>4. first \in {"loaded", "error", "crash"}
    BY OutcomeIs
  <2> QED BY <2>3, <2>4
<1>3. plot \in Ends
  BY PlotEnds
<1>4. bad = {} => \A i \in DOMAIN q.runs : Outcome(Directory(q.runs[i].path)) = "loaded"
  OBVIOUS
<1>5. BaselineOutcome(q.runs) \in Ends
  BY BaselineEnds
<1> DEFINE Same == Len(q.runs) = 2 /\ Halos(q.runs[1]) = Halos(q.runs[Len(q.runs)])
<1>6. /\ q.kind = "table" => RequestOutcome(q) = "ok"
      /\ q.kind = "baseline" => RequestOutcome(q) = BaselineOutcome(q.runs)
      /\ q.kind = "comparison" => RequestOutcome(q) = IF Same THEN "ok" ELSE "skip"
      /\ q.kind \notin {"table", "baseline", "comparison"} =>
           RequestOutcome(q) = IF plotted = "error" THEN "skip" ELSE plotted
  <2>1. CASE q.kind = "table"
    BY <2>1 DEF RequestOutcome
  <2>2. CASE q.kind = "baseline"
    BY <2>2 DEF RequestOutcome
  <2>3. CASE q.kind = "comparison"
    BY <2>3 DEF RequestOutcome
  <2>4. CASE q.kind \notin {"table", "baseline", "comparison"}
    BY <2>4 DEF RequestOutcome
  <2> QED BY <2>1, <2>2, <2>3, <2>4
<1> DEFINE AllLoad == \A i \in DOMAIN q.runs : Outcome(Directory(q.runs[i].path)) = "loaded"
<1>7. bad = {} => AllLoad
  BY <1>4
<1> HIDE DEF again, bad, first, plot, plotted, Same, AllLoad
<1>8. /\ RequestOutcome(q) \in Ends \cup {"skip"}
      /\ q.kind = "table" => RequestOutcome(q) = "ok"
      /\ q.kind = "baseline" => RequestOutcome(q) # "skip"
      /\ q.kind = "comparison" => RequestOutcome(q) = IF Same THEN "ok" ELSE "skip"
      /\ q.kind \notin {"table", "baseline", "comparison"} /\ RequestOutcome(q) = "ok" => AllLoad
  BY <1>1, <1>2, <1>3, <1>5, <1>6, <1>7 DEF Ends
<1> QED BY <1>8 DEF Same, AllLoad

-----------------------------------------------------------------------------
(* The runs of a call. *)

\* A run of this path was loaded from files that the tree still has.
LoadedFrom(run, path) ==
  /\ run = RunAt(path, run.bundle) /\ load_run(run.bundle) = "loaded"
  /\ path \in DOMAIN tree /\ Part(run.bundle, tree[path])

LoadInv ==
  /\ IsSequence(inputs) /\ IsSequence(runs) /\ Len(runs) <= Len(inputs)
  /\ phase \in {"loaded", "write"} => Len(runs) = Len(inputs)
  /\ \A i \in DOMAIN runs : LoadedFrom(runs[i], inputs[i].path)

GivenInv ==
  phase # "idle" =>
    /\ inputs # <<>>
    /\ \A i \in DOMAIN call.inputs :
         GivenBy(call.inputs[i]) \subseteq {inputs[k].path : k \in DOMAIN inputs}

LEMMA LoadedStays ==
  ASSUME Grows, NEW run, NEW path, LoadedFrom(run, path)
  PROVE  LoadedFrom(run, path)'
<1>1. path \in DOMAIN tree' /\ Part(run.bundle, tree'[path])
  BY DEF LoadedFrom, Part, Grows
<1>2. run = RunAt(path, run.bundle) /\ load_run(run.bundle) = "loaded"
  BY DEF LoadedFrom
<1> QED BY <1>1, <1>2 DEF LoadedFrom

LEMMA LoadedNow ==
  ASSUME NEW input, Outcome(input) = "loaded"
  PROVE  /\ LoadedFrom(Loaded(input), input.path)
         /\ Loaded(input).bundle = View(input) /\ Loaded(input).path = input.path
<1>1. input.path \in DOMAIN tree /\ load_run(View(input)) = "loaded"
  BY DEF Outcome
<1>2. Loaded(input).bundle = View(input) /\ Loaded(input).path = input.path
  BY DEF Loaded, RunAt
<1>3. Part(View(input), tree[input.path])
  BY DEF View, Part
<1> QED BY <1>1, <1>2, <1>3 DEF LoadedFrom, Loaded

LEMMA LoadedRuns ==
  ASSUME KnownInv, LoadInv
  PROVE  \A i \in DOMAIN runs :
           /\ KnownRun(runs[i]) /\ runs[i].path = inputs[i].path
           /\ runs[i].results = Source(runs[i].bundle).results /\ Valid(runs[i].results)
<1> SUFFICES ASSUME NEW i \in DOMAIN runs
             PROVE  /\ KnownRun(runs[i]) /\ runs[i].path = inputs[i].path
                    /\ runs[i].results = Source(runs[i].bundle).results /\ Valid(runs[i].results)
  OBVIOUS
<1> DEFINE run == runs[i]
           path == inputs[i].path
<1>1. LoadedFrom(run, path)
  BY DEF LoadInv
<1>2. path \in Paths /\ KnownBundle(run.bundle)
  BY <1>1, PartIsKnown DEF LoadedFrom, KnownInv
<1>3. /\ RunAt(path, run.bundle).path = path
      /\ RunAt(path, run.bundle).results = Source(run.bundle).results
  BY DEF RunAt
<1>4. run = RunAt(path, run.bundle) /\ load_run(run.bundle) = "loaded"
  BY <1>1 DEF LoadedFrom
<1> HIDE DEF run, path
<1>5. KnownRun(RunAt(path, run.bundle)) /\ Valid(Source(run.bundle).results)
  BY <1>2, <1>4, RunType, SourceType
<1> QED BY <1>3, <1>4, <1>5 DEF run, path

-----------------------------------------------------------------------------
(* The outputs of a report. *)

Closing == {"provenance.json", "report.md"}

Requested(q, rs) ==
  /\ IsSequence(q.runs) /\ ToSet(q.runs) \subseteq ToSet(rs)
  /\ q.kind \in {"table", "baseline", "comparison"} <=> q.file[1] \notin Plots
  /\ q.file[1] \in Closing => q.kind = "table" /\ q.runs = rs

\* Outputs for the runs, each to a file of its own, whose name begins so.
Named(requests, tags, rs) ==
  /\ IsSequence(requests)
  /\ \A i \in DOMAIN requests : Requested(requests[i], rs) /\ requests[i].file[1] \in tags
  /\ \A i, j \in DOMAIN requests : requests[i].file = requests[j].file => i = j

LEMMA NamedCat ==
  ASSUME NEW rs, NEW s, NEW t, NEW A, NEW B, Named(s, A, rs), Named(t, B, rs), A \cap B = {}
  PROVE  Named(s \o t, A \cup B, rs)
<1> DEFINE u == s \o t
           k == Len(s)
           n == Len(t)
<1>1. IsSequence(s) /\ IsSequence(t)
  BY DEF Named
<1>2. /\ k \in Nat /\ DOMAIN s = 1 .. k /\ n \in Nat /\ DOMAIN t = 1 .. n
  BY <1>1, SequenceIs
<1>3. IsSequence(u) /\ Len(u) = k + n
  BY <1>1, CatIsSequence
<1>4. \A i \in 1 .. k : u[i] = s[i]
  BY <1>1, CatIsSequence
<1>5. \A i \in 1 .. n : u[k + i] = t[i]
  BY <1>1, CatIsSequence
<1>6. DOMAIN u = 1 .. k + n
  BY <1>3, SequenceIs
<1>7. /\ \A i \in 1 .. k : Requested(s[i], rs) /\ s[i].file[1] \in A
      /\ \A i, j \in 1 .. k : s[i].file = s[j].file => i = j
      /\ \A i \in 1 .. n : Requested(t[i], rs) /\ t[i].file[1] \in B
      /\ \A i, j \in 1 .. n : t[i].file = t[j].file => i = j
  BY <1>2 DEF Named
<1> HIDE DEF u, k, n
<1>8. \A i \in 1 .. k + n :
        \/ i \in 1 .. k /\ u[i] = s[i]
        \/ i > k /\ \E j \in 1 .. n : i = k + j /\ u[i] = t[j]
  <2> SUFFICES ASSUME NEW i \in 1 .. k + n, i > k
               PROVE  \E j \in 1 .. n : i = k + j /\ u[i] = t[j]
    BY <1>2, <1>4
  <2>1. i - k \in 1 .. n /\ i = k + (i - k)
    BY <1>2
  <2> QED BY <1>5, <2>1
<1>9. \A i \in 1 .. k + n : Requested(u[i], rs) /\ u[i].file[1] \in A \cup B
  <2> SUFFICES ASSUME NEW i \in 1 .. k + n PROVE Requested(u[i], rs) /\ u[i].file[1] \in A \cup B
    OBVIOUS
  <2>1. CASE i \in 1 .. k /\ u[i] = s[i]
    BY <1>7, <2>1
  <2>2. ASSUME NEW j \in 1 .. n, u[i] = t[j]
        PROVE  Requested(u[i], rs) /\ u[i].file[1] \in A \cup B
    BY <1>7, <2>2
  <2> QED BY <1>8, <2>1, <2>2
<1>10. ASSUME NEW i \in 1 .. k + n, NEW j \in 1 .. k + n, u[i].file = u[j].file PROVE i = j
  <2>1. CASE i \in 1 .. k /\ u[i] = s[i] /\ j \in 1 .. k /\ u[j] = s[j]
    BY <1>7, <1>10, <2>1
  <2>2. ASSUME i \in 1 .. k, u[i] = s[i], NEW b \in 1 .. n, u[j] = t[b] PROVE FALSE
    <3>1. s[i].file[1] \in A /\ t[b].file[1] \in B /\ s[i].file = t[b].file
      BY <1>7, <1>10, <2>2
    <3> QED BY <3>1
  <2>3. ASSUME j \in 1 .. k, u[j] = s[j], NEW b \in 1 .. n, u[i] = t[b] PROVE FALSE
    <3>1. s[j].file[1] \in A /\ t[b].file[1] \in B /\ s[j].file = t[b].file
      BY <1>7, <1>10, <2>3
    <3> QED BY <3>1
  <2>4. ASSUME NEW a \in 1 .. n, i = k + a, u[i] = t[a], NEW b \in 1 .. n, j = k + b, u[j] = t[b]
        PROVE  i = j
    <3>1. a = b
      BY <1>7, <1>10, <2>4
    <3> QED BY <2>4, <3>1
  <2> QED BY <1>8, <2>1, <2>2, <2>3, <2>4
<1> QED BY <1>3, <1>6, <1>9, <1>10 DEF Named, u

\* The files of the pairs of runs, in one form.
OfPairs(made, name, kind, size, pairs, rs) ==
  /\ made = [m \in 1 .. size |-> made[m]]
  /\ \A m \in 1 .. size :
       /\ pairs[m][1] \in DOMAIN rs /\ pairs[m][2] \in DOMAIN rs
       /\ made[m] = Request(<<name, m, Slug(rs[pairs[m][1]]), Slug(rs[pairs[m][2]])>>, kind,
                            <<rs[pairs[m][1]], rs[pairs[m][2]]>>)

PairKind(name, kind) ==
  \/ name = "pair.csv" /\ kind = "table"
  \/ name = "pair.png" /\ kind = "percent-difference"

LEMMA PairsNamed ==
  ASSUME NEW rs, NEW size \in Nat, NEW pairs, NEW made, NEW name, NEW kind, PairKind(name, kind),
         OfPairs(made, name, kind, size, pairs, rs)
  PROVE  Named(made, {name}, rs)
<1>1. IsSequence(made) /\ DOMAIN made = 1 .. size
  BY FunctionIsSequence DEF OfPairs
<1>2. ASSUME NEW m \in 1 .. size
      PROVE  Requested(made[m], rs) /\ made[m].file[1] = name /\ made[m].file[2] = m
  <2> DEFINE a == rs[pairs[m][1]]
             b == rs[pairs[m][2]]
  <2>1. a \in ToSet(rs) /\ b \in ToSet(rs)
    BY DEF ToSet, OfPairs
  <2>2. made[m] = [file |-> <<name, m, Slug(a), Slug(b)>>, kind |-> kind, runs |-> <<a, b>>]
    BY DEF Request, OfPairs
  <2> HIDE DEF a, b
  <2>3. IsSequence(<<a, b>>) /\ ToSet(<<a, b>>) = {a, b}
    <3>1. <<a, b>> = [i \in 1 .. 2 |-> <<a, b>>[i]] /\ 2 \in Nat
      OBVIOUS
    <3>2. ToSet(<<a, b>>) = {a, b}
      <4>1. DOMAIN <<a, b>> = {1, 2}
        OBVIOUS
      <4>2. ToSet(<<a, b>>) = {<<a, b>>[i] : i \in {1, 2}}
        BY <4>1 DEF ToSet
      <4> QED BY <4>2
    <3>3. IsSequence(<<a, b>>)
      BY <3>1, FunctionIsSequence
    <3> QED BY <3>2, <3>3
  <2>4. /\ made[m].runs = <<a, b>> /\ made[m].kind = kind
        /\ made[m].file[1] = name /\ made[m].file[2] = m
    BY <2>2
  <2>5. ToSet(made[m].runs) \subseteq ToSet(rs) /\ IsSequence(made[m].runs)
    BY <2>1, <2>3, <2>4
  <2> QED BY <2>4, <2>5 DEF Requested, Plots, Closing, PairKind
<1> QED BY <1>1, <1>2 DEF Named

\* The plots of the phases of those runs that were timed.
OfPhases(made, timed, size, rs) ==
  /\ Len(timed) = size
  /\ made = [m \in 1 .. size |-> made[m]]
  /\ \A m \in 1 .. size :
       /\ timed[m] \in ToSet(rs)
       /\ made[m] = Request(IF Len(timed) = 1 THEN <<"phase.png">>
                            ELSE <<"phase.png", m, Slug(timed[m])>>, "phase", <<timed[m]>>)

LEMMA PhasesNamed ==
  ASSUME NEW rs, NEW size \in Nat, NEW timed, NEW made, OfPhases(made, timed, size, rs)
  PROVE  Named(made, {"phase.png"}, rs)
<1> USE DEF OfPhases
<1>1. IsSequence(made) /\ DOMAIN made = 1 .. size
  BY FunctionIsSequence
<1>2. ASSUME NEW m \in 1 .. size
      PROVE  /\ Requested(made[m], rs) /\ made[m].file[1] = "phase.png"
             /\ size # 1 => made[m].file[2] = m
  <2> DEFINE a == timed[m]
             file == IF Len(timed) = 1 THEN <<"phase.png">> ELSE <<"phase.png", m, Slug(a)>>
  <2>1. a \in ToSet(rs)
    OBVIOUS
  <2>2. made[m] = [file |-> file, kind |-> "phase", runs |-> <<a>>]
    BY DEF Request
  <2>3. file[1] = "phase.png" /\ (size # 1 => file[2] = m)
    OBVIOUS
  <2> HIDE DEF a, file
  <2>4. IsSequence(<<a>>) /\ ToSet(<<a>>) = {a}
    BY OneIsSequence DEF ToSet
  <2>5. made[m].runs = <<a>> /\ made[m].kind = "phase" /\ made[m].file = file
    BY <2>2
  <2>6. ToSet(made[m].runs) \subseteq ToSet(rs) /\ IsSequence(made[m].runs)
    BY <2>1, <2>4, <2>5
  <2> QED BY <2>3, <2>5, <2>6 DEF Requested, Plots, Closing
<1>3. ASSUME NEW i \in 1 .. size, NEW j \in 1 .. size, made[i].file = made[j].file PROVE i = j
  <2>1. CASE size = 1
    BY <2>1
  <2>2. CASE size # 1
    BY <1>2, <1>3, <2>2
  <2> QED BY <2>1, <2>2
<1> QED BY <1>1, <1>2, <1>3 DEF Named

\* An output of all runs.
LEMMA OneNamed ==
  ASSUME NEW rs, IsSequence(rs), NEW name, NEW kind,
         kind \in {"table", "baseline", "comparison"} <=> name \notin Plots,
         name \in Closing => kind = "table"
  PROVE  Named(<<Request(<<name>>, kind, rs)>>, {name}, rs)
<1> DEFINE q == Request(<<name>>, kind, rs)
<1>1. q.file = <<name>> /\ q.kind = kind /\ q.runs = rs /\ q.file[1] = name
  BY DEF Request
<1> HIDE DEF q
<1>2. Requested(q, rs)
  BY <1>1 DEF Requested
<1>3. IsSequence(<<q>>) /\ DOMAIN <<q>> = {1} /\ <<q>>[1] = q
  BY OneIsSequence
<1>4. Named(<<q>>, {name}, rs)
  BY <1>1, <1>2, <1>3 DEF Named
<1> QED BY <1>4 DEF q

Openings == {"summary.csv", "summary.json", "summary.md", "scaling.csv", "comparison.csv"}

LEMMA OpeningNamed ==
  ASSUME NEW rs, IsSequence(rs)
  PROVE  Named(Opening(rs), Openings, rs) /\ Len(Opening(rs)) = 5
<1> DEFINE all == Opening(rs)
<1>1. /\ all = [i \in 1 .. 5 |-> all[i]] /\ 5 \in Nat
      /\ all[1] = Request(<<"summary.csv">>, "table", rs)
      /\ all[2] = Request(<<"summary.json">>, "table", rs)
      /\ all[3] = Request(<<"summary.md">>, "table", rs)
      /\ all[4] = Request(<<"scaling.csv">>, "baseline", rs)
      /\ all[5] = Request(<<"comparison.csv">>, "comparison", rs)
  BY DEF Opening
<1> HIDE DEF all
<1>2. IsSequence(all) /\ DOMAIN all = 1 .. 5 /\ Len(all) = 5
  BY <1>1, FunctionIsSequence
<1>3. /\ all[1].file[1] = "summary.csv" /\ all[2].file[1] = "summary.json"
      /\ all[3].file[1] = "summary.md" /\ all[4].file[1] = "scaling.csv"
      /\ all[5].file[1] = "comparison.csv"
  BY <1>1 DEF Request
<1>4. \A i \in 1 .. 5 : all[i].kind \in {"table", "baseline", "comparison"} /\ all[i].runs = rs
  <2> SUFFICES ASSUME NEW i \in 1 .. 5
               PROVE  all[i].kind \in {"table", "baseline", "comparison"} /\ all[i].runs = rs
    OBVIOUS
  <2>1. i = 1 \/ i = 2 \/ i = 3 \/ i = 4 \/ i = 5
    OBVIOUS
  <2> QED BY <1>1, <2>1 DEF Request
<1>5. \A i \in 1 .. 5 : all[i].file[1] \in Openings
  <2> SUFFICES ASSUME NEW i \in 1 .. 5 PROVE all[i].file[1] \in Openings
    OBVIOUS
  <2>1. i = 1 \/ i = 2 \/ i = 3 \/ i = 4 \/ i = 5
    OBVIOUS
  <2> QED BY <1>3, <2>1 DEF Openings
<1>6. \A i \in 1 .. 5 : Requested(all[i], rs)
  <2> SUFFICES ASSUME NEW i \in 1 .. 5 PROVE Requested(all[i], rs)
    OBVIOUS
  <2>1. all[i].file[1] \notin Plots /\ all[i].file[1] \notin Closing
    BY <1>5 DEF Openings, Plots, Closing
  <2> QED BY <1>4, <2>1 DEF Requested
<1>7. \A i, j \in 1 .. 5 : all[i].file = all[j].file => i = j
  <2> SUFFICES ASSUME NEW i \in 1 .. 5, NEW j \in 1 .. 5, all[i].file[1] = all[j].file[1]
               PROVE  i = j
    OBVIOUS
  <2>1. i = 1 \/ i = 2 \/ i = 3 \/ i = 4 \/ i = 5
    OBVIOUS
  <2>2. j = 1 \/ j = 2 \/ j = 3 \/ j = 4 \/ j = 5
    OBVIOUS
  <2> QED BY <1>3, <2>1, <2>2
<1> QED BY <1>2, <1>5, <1>6, <1>7 DEF Named, all

Tags == Openings \cup Plots \cup {"pair.csv"} \cup Closing

\* The outputs of a report: five tables first, provenance and report last, and
\* each to a file of its own.
LEMMA RequestsAre ==
  ASSUME NEW rs, IsSequence(rs)
  PROVE  /\ Named(Requests(rs), Tags, rs) /\ Len(Requests(rs)) > 5
         /\ \A i \in 1 .. 5 : Requests(rs)[i] = Opening(rs)[i]
<1> DEFINE size == Len(rs)
           pairs == percent_difference_pairs(rs)
           key == [i \in DOMAIN rs |-> percent_difference_pair_key(rs[i])]
           Same(i, j) == /\ rs[i].backend = rs[j].backend
                         /\ rs[i].rccl_sync_mode = rs[j].rccl_sync_mode
                         /\ rs[i].path = rs[j].path
           S == {p \in (DOMAIN rs) \X (DOMAIN rs) :
                   After(p[1], p[2]) /\ key[p[1]] = key[p[2]] /\ ~Same(p[1], p[2])}
           places == {i \in DOMAIN rs : rs[i].phase_timing_enabled}
           timed == Chosen(rs, places)
           Pair(name, m, kind) ==
             Request(<<name, m, Slug(rs[pairs[m][1]]), Slug(rs[pairs[m][2]])>>, kind,
                     <<rs[pairs[m][1]], rs[pairs[m][2]]>>)
           tables == [m \in DOMAIN pairs |-> Pair("pair.csv", m, "table")]
           curves == <<Request(<<"latency.png">>, "latency", rs),
                       Request(<<"effective-rate.png">>, "effective-rate", rs),
                       Request(<<"scaling.png">>, "scaling", rs)>>
           difference == IF Len(rs) = 2
                         THEN <<Request(<<"percent-difference.png">>, "percent-difference", rs)>>
                         ELSE <<>>
           plots == [m \in DOMAIN pairs |-> Pair("pair.png", m, "percent-difference")]
           phases == [m \in DOMAIN timed |->
                        Request(IF Len(timed) = 1 THEN <<"phase.png">>
                                ELSE <<"phase.png", m, Slug(timed[m])>>, "phase", <<timed[m]>>)]
           last == <<Request(<<"provenance.json">>, "table", rs),
                     Request(<<"report.md">>, "table", rs)>>
<1>1. Requests(rs) =
        Opening(rs) \o tables \o curves \o difference \o plots \o phases \o last
  BY DEF Requests, RequestsWith
<1>2. size \in Nat /\ DOMAIN rs = 1 .. size
  BY SequenceIs
<1>3. /\ Cardinality(S) \in Nat
      /\ pairs \in [1 .. Cardinality(S) -> S]
  <2>1. pairs = Ordered(S, Precedes)
    BY DEF percent_difference_pairs
  <2>2. S \subseteq (1 .. size) \X (1 .. size)
    BY <1>2
  <2> HIDE DEF S, pairs
  <2> QED BY <1>2, <2>1, <2>2, PairsInOrder
<1>4. /\ DOMAIN pairs = 1 .. Cardinality(S)
      /\ \A m \in 1 .. Cardinality(S) : pairs[m][1] \in DOMAIN rs /\ pairs[m][2] \in DOMAIN rs
  <2>1. S \subseteq (DOMAIN rs) \X (DOMAIN rs)
    OBVIOUS
  <2> HIDE DEF S, pairs
  <2> QED BY <1>3, <2>1
<1>5. /\ Cardinality(places) \in Nat
      /\ Ascending(places) \in [1 .. Cardinality(places) -> places]
  <2>1. places \subseteq 1 .. size
    BY <1>2
  <2> HIDE DEF places
  <2> QED BY <1>2, <2>1, PlacesInOrder
<1>6. /\ timed = [k \in 1 .. Cardinality(places) |-> rs[Ascending(places)[k]]]
      /\ places \subseteq DOMAIN rs
  BY DEF Chosen
<1> HIDE DEF S, places
<1>7. /\ DOMAIN timed = 1 .. Cardinality(places) /\ Len(timed) = Cardinality(places)
      /\ \A m \in 1 .. Cardinality(places) : timed[m] \in ToSet(rs)
  <2> HIDE DEF timed
  <2>1. DOMAIN timed = 1 .. Cardinality(places)
    BY <1>6
  <2>2. Len(timed) = Cardinality(places)
    BY <1>5, <1>6, FunctionIsSequence
  <2>3. ASSUME NEW m \in 1 .. Cardinality(places) PROVE timed[m] \in ToSet(rs)
    <3>1. Ascending(places)[m] \in DOMAIN rs
      BY <1>5, <1>6
    <3> QED BY <1>6, <3>1 DEF ToSet
  <2> QED BY <2>1, <2>2, <2>3
<1>8. Named(tables, {"pair.csv"}, rs)
  <2>1. /\ \A m \in 1 .. Cardinality(S) : tables[m] = Pair("pair.csv", m, "table")
        /\ tables = [m \in 1 .. Cardinality(S) |-> tables[m]]
    BY <1>4
  <2> HIDE DEF tables, pairs
  <2>2. OfPairs(tables, "pair.csv", "table", Cardinality(S), pairs, rs)
    BY <1>4, <2>1 DEF OfPairs
  <2>3. PairKind("pair.csv", "table")
    BY DEF PairKind
  <2> QED BY <1>3, <2>2, <2>3, PairsNamed
<1>9. Named(plots, {"pair.png"}, rs)
  <2>1. /\ \A m \in 1 .. Cardinality(S) : plots[m] = Pair("pair.png", m, "percent-difference")
        /\ plots = [m \in 1 .. Cardinality(S) |-> plots[m]]
    BY <1>4
  <2> HIDE DEF plots, pairs
  <2>2. OfPairs(plots, "pair.png", "percent-difference", Cardinality(S), pairs, rs)
    BY <1>4, <2>1 DEF OfPairs
  <2>3. PairKind("pair.png", "percent-difference")
    BY DEF PairKind
  <2> QED BY <1>3, <2>2, <2>3, PairsNamed
<1>10. Named(phases, {"phase.png"}, rs)
  <2> HIDE DEF timed
  <2>1. /\ \A m \in 1 .. Cardinality(places) :
             phases[m] = Request(IF Len(timed) = 1 THEN <<"phase.png">>
                                 ELSE <<"phase.png", m, Slug(timed[m])>>, "phase", <<timed[m]>>)
        /\ phases = [m \in 1 .. Cardinality(places) |-> phases[m]]
    BY <1>7
  <2> HIDE DEF phases
  <2>2. OfPhases(phases, timed, Cardinality(places), rs)
    BY <1>7, <2>1 DEF OfPhases
  <2> QED BY <1>5, <2>2, PhasesNamed
<1>11. Named(difference, {"percent-difference.png"}, rs)
  <2>1. CASE Len(rs) = 2
    <3>1. difference = <<Request(<<"percent-difference.png">>, "percent-difference", rs)>>
      BY <2>1
    <3>2. "percent-difference.png" \in Plots /\ "percent-difference.png" \notin Closing
          /\ "percent-difference" \notin {"table", "baseline", "comparison"}
      BY DEF Plots, Closing
    <3> HIDE DEF difference
    <3> QED BY <3>1, <3>2, OneNamed
  <2>2. CASE Len(rs) # 2
    <3>1. difference = <<>>
      BY <2>2
    <3>2. DOMAIN <<>> = {}
      OBVIOUS
    <3> HIDE DEF difference
    <3> QED BY <3>1, <3>2, EmptyIsSequence DEF Named
  <2> QED BY <2>1, <2>2
<1>12. Named(curves, {"latency.png", "effective-rate.png", "scaling.png"}, rs)
  <2> DEFINE one == <<Request(<<"latency.png">>, "latency", rs)>>
             two == <<Request(<<"effective-rate.png">>, "effective-rate", rs)>>
             three == <<Request(<<"scaling.png">>, "scaling", rs)>>
  <2>1. curves = one \o two \o three
    OBVIOUS
  <2>2. /\ {"latency.png", "effective-rate.png", "scaling.png"} \subseteq Plots
        /\ {"latency.png", "effective-rate.png", "scaling.png"} \cap Closing = {}
        /\ {"latency", "effective-rate", "scaling"} \cap {"table", "baseline", "comparison"} = {}
    BY DEF Plots, Closing
  <2>3. /\ Named(one, {"latency.png"}, rs) /\ Named(two, {"effective-rate.png"}, rs)
        /\ Named(three, {"scaling.png"}, rs)
    BY <2>2, OneNamed
  <2> HIDE DEF curves, one, two, three
  <2>4. Named(one \o two, {"latency.png"} \cup {"effective-rate.png"}, rs)
    BY <2>3, NamedCat
  <2>5. Named(one \o two \o three,
              ({"latency.png"} \cup {"effective-rate.png"}) \cup {"scaling.png"}, rs)
    <3>1. ({"latency.png"} \cup {"effective-rate.png"}) \cap {"scaling.png"} = {}
      OBVIOUS
    <3> QED BY <2>3, <2>4, <3>1, NamedCat
  <2>6. ({"latency.png"} \cup {"effective-rate.png"}) \cup {"scaling.png"}
          = {"latency.png", "effective-rate.png", "scaling.png"}
    OBVIOUS
  <2> QED BY <2>1, <2>5, <2>6
<1>13. Named(last, Closing, rs) /\ Len(last) = 2
  <2> DEFINE one == <<Request(<<"provenance.json">>, "table", rs)>>
             two == <<Request(<<"report.md">>, "table", rs)>>
  <2>1. last = one \o two /\ Len(last) = 2
    OBVIOUS
  <2>2. Named(one, {"provenance.json"}, rs) /\ Named(two, {"report.md"}, rs)
    <3>1. "provenance.json" \notin Plots /\ "report.md" \notin Plots
      BY DEF Plots
    <3> QED BY <3>1, OneNamed
  <2> HIDE DEF last, one, two
  <2>3. Named(one \o two, {"provenance.json"} \cup {"report.md"}, rs)
    BY <2>2, NamedCat
  <2>4. {"provenance.json"} \cup {"report.md"} = Closing
    BY DEF Closing
  <2> QED BY <2>1, <2>3, <2>4
<1> DEFINE opening == Opening(rs)
<1>14. Named(opening, Openings, rs) /\ Len(opening) = 5
  BY OpeningNamed
<1> HIDE DEF opening, tables, curves, difference, plots, phases, last
<1> DEFINE u1 == opening \o tables
           u2 == u1 \o curves
           u3 == u2 \o difference
           u4 == u3 \o plots
           u5 == u4 \o phases
           u6 == u5 \o last
           t1 == Openings \cup {"pair.csv"}
           t2 == t1 \cup {"latency.png", "effective-rate.png", "scaling.png"}
           t3 == t2 \cup {"percent-difference.png"}
           t4 == t3 \cup {"pair.png"}
           t5 == t4 \cup {"phase.png"}
           t6 == t5 \cup Closing
<1>15. t6 = Tags
  BY DEF Tags, Plots
<1>16. /\ Openings \cap {"pair.csv"} = {}
       /\ t1 \cap {"latency.png", "effective-rate.png", "scaling.png"} = {}
       /\ t2 \cap {"percent-difference.png"} = {} /\ t3 \cap {"pair.png"} = {}
       /\ t4 \cap {"phase.png"} = {} /\ t5 \cap Closing = {}
  BY DEF Openings, Closing
<1> HIDE DEF t1, t2, t3, t4, t5, t6
<1>17. Named(u1, t1, rs)
  BY <1>8, <1>14, <1>16, NamedCat DEF t1
<1>18. Named(u2, t2, rs)
  <2> HIDE DEF u1
  <2> QED BY <1>12, <1>16, <1>17, NamedCat DEF t2
<1>19. Named(u3, t3, rs)
  <2> HIDE DEF u2
  <2> QED BY <1>11, <1>16, <1>18, NamedCat DEF t3
<1>20. Named(u4, t4, rs)
  <2> HIDE DEF u3
  <2> QED BY <1>9, <1>16, <1>19, NamedCat DEF t4
<1>21. Named(u5, t5, rs)
  <2> HIDE DEF u4
  <2> QED BY <1>10, <1>16, <1>20, NamedCat DEF t5
<1>22. Named(u6, t6, rs)
  <2> HIDE DEF u5
  <2> QED BY <1>13, <1>16, <1>21, NamedCat DEF t6
<1>23. Requests(rs) = u6
  BY <1>1 DEF opening
<1> DEFINE Begins(u) == Len(u) >= 5 /\ \A i \in 1 .. 5 : u[i] = opening[i]
<1>24. \A s, t : IsSequence(s) /\ IsSequence(t) /\ Begins(s) => Begins(s \o t) /\ Len(s \o t) = Len(s) + Len(t)
  <2> HIDE DEF opening
  <2> SUFFICES ASSUME NEW s, NEW t, IsSequence(s), IsSequence(t), Begins(s)
               PROVE  Begins(s \o t) /\ Len(s \o t) = Len(s) + Len(t)
    OBVIOUS
  <2> DEFINE u == s \o t
  <2>1. /\ Len(u) = Len(s) + Len(t) /\ \A i \in 1 .. Len(s) : u[i] = s[i]
    BY CatIsSequence
  <2>2. Len(s) \in Nat /\ Len(t) \in Nat
    BY SequenceIs
  <2> HIDE DEF u
  <2>3. Begins(u) /\ Len(u) = Len(s) + Len(t)
    BY <2>1, <2>2
  <2> QED BY <2>3 DEF u
<1> HIDE DEF Begins
<1>25. /\ IsSequence(tables) /\ IsSequence(curves) /\ IsSequence(difference)
       /\ IsSequence(plots) /\ IsSequence(phases) /\ IsSequence(last)
       /\ IsSequence(opening) /\ Begins(opening)
  BY <1>8, <1>9, <1>10, <1>11, <1>12, <1>13, <1>14 DEF Named, Begins
<1>26. Begins(u1)
  BY <1>24, <1>25
<1>27. Begins(u2)
  <2> HIDE DEF u1
  <2> QED BY <1>17, <1>24, <1>25, <1>26 DEF Named
<1>28. Begins(u3)
  <2> HIDE DEF u2
  <2> QED BY <1>18, <1>24, <1>25, <1>27 DEF Named
<1>29. Begins(u4)
  <2> HIDE DEF u3
  <2> QED BY <1>19, <1>24, <1>25, <1>28 DEF Named
<1>30. Begins(u5)
  <2> HIDE DEF u4
  <2> QED BY <1>20, <1>24, <1>25, <1>29 DEF Named
<1>31. Begins(u6) /\ Len(u6) = Len(u5) + 2
  <2> HIDE DEF u5
  <2> QED BY <1>13, <1>21, <1>24, <1>25, <1>30 DEF Named
<1>32. Len(u5) \in Nat /\ Len(u5) >= 5
  <2> HIDE DEF u5
  <2> QED BY <1>21, <1>30, SequenceIs DEF Named, Begins
<1> HIDE DEF u5, u6
<1>33. Len(u6) > 5
  BY <1>31, <1>32
<1> QED BY <1>15, <1>22, <1>23, <1>31, <1>33 DEF opening, Begins

-----------------------------------------------------------------------------
(* What a report has written. *)

SortedNow == sorted_runs_for_output(runs)

Outputs == Requests(SortedNow)

\* How many of them are written or skipped.
Done == Len(Outputs) - Len(todo)

\* By the call at hand.
Written(file) == file \in DOMAIN out /\ out[file].call = current

Reporting == phase = "write" \/ (phase = "exited" /\ status = 0 /\ call.command = "report")

SameSizes(rs) == Len(rs) = 2 /\ Halos(rs[1]) = Halos(rs[Len(rs)])

\* Of a report that is not over, or has ended well: what is to be done is the rest
\* of the outputs, and each before it is written or noted as skipped; the tables
\* show all runs.
ProgressInv ==
  /\ IsSequence(todo) /\ Len(todo) <= Len(Outputs)
  /\ IF phase = "write" THEN todo # <<>> ELSE todo = <<>>
  /\ \A i \in 1 .. Len(todo) : todo[i] = Outputs[Done + i]
  /\ \A f \in DOMAIN out : Written(f) => \E j \in 1 .. Done : f = Outputs[j].file
  /\ \A f \in skipped : \E j \in 1 .. Done : f = Outputs[j].file
  /\ \A j \in 1 .. Done : Written(Outputs[j].file) <=> Outputs[j].file \notin skipped
  /\ \A j \in 1 .. Done :
       j <= 4 => Outputs[j].file \in DOMAIN out /\ out[Outputs[j].file] = Shown(SortedNow)
  /\ Done >= 5 => (Written(<<"comparison.csv">>) <=> SameSizes(SortedNow))

ReportInv ==
  /\ phase \in {"load", "loaded"} => skipped = {}
  /\ phase = "write" => call.command = "report"
  /\ Reporting => ProgressInv

\* A plot is never without a summary, nor is a file of the call at hand unless all
\* bundles were loaded.
OutInv ==
  /\ \A f \in DOMAIN out : out[f].call \in 1 .. current
  /\ phase \in {"idle", "load", "loaded"} => \A f \in DOMAIN out : ~Written(f)
  /\ \A f \in DOMAIN out : f[1] \in Plots => <<"summary.csv">> \in DOMAIN out
  /\ FilesAreOfOneReport
  /\ phase = "exited" /\ (status = 0 \/ \E f \in DOMAIN out : Written(f)) =>
       Len(runs) = Len(inputs)

-----------------------------------------------------------------------------
(* The steps. *)

\* A bundle that loads again has the measurements it had.
LEMMA Reloaded ==
  ASSUME KnownInv, NEW run, NEW path, LoadedFrom(run, path),
         run.results = Source(run.bundle).results, Outcome(Directory(path)) = "loaded"
  PROVE  /\ Loaded(Directory(path)).path = path
         /\ Measured(Loaded(Directory(path)).results) = Measured(run.results)
<1> DEFINE b == run.bundle
           d == tree[path]
           v == View(Directory(path))
<1>1. Directory(path).kind = "dir" /\ Directory(path).path = path
  BY DEF Directory
<1>2. DOMAIN v = DOMAIN d /\ \A file \in DOMAIN d : v[file] = d[file]
  BY <1>1 DEF View
<1>3. /\ Loaded(Directory(path)).path = path
      /\ Loaded(Directory(path)).results = Source(v).results
  BY <1>1 DEF Loaded, RunAt
<1>4. load_run(b) = "loaded" /\ load_run(v) = "loaded"
  BY LoadedNow DEF LoadedFrom, Outcome
<1>5. Part(b, d) /\ KnownBundle(d)
  BY DEF LoadedFrom, KnownInv
<1> HIDE DEF b, d, v
<1>6. /\ DOMAIN b \cap {"ghalo.json", "ghalo.csv"} # {}
      /\ DOMAIN v \cap {"ghalo.json", "ghalo.csv"} # {}
      /\ Source(b).state \notin {"mistyped", "malformed"}
      /\ Source(v).state \notin {"mistyped", "malformed"}
  BY <1>4 DEF load_run
<1>7. Measured(Source(v).results) = Measured(Source(b).results)
  <2>1. CASE "ghalo.json" \in DOMAIN b
    <3>1. "ghalo.json" \in DOMAIN d /\ b["ghalo.json"] = d["ghalo.json"]
      BY <1>5, <2>1 DEF Part
    <3>2. Source(v) = v["ghalo.json"] /\ Source(b) = b["ghalo.json"]
      BY <1>2, <2>1, <3>1 DEF Source
    <3> QED BY <1>2, <3>1, <3>2
  <2>2. CASE "ghalo.json" \notin DOMAIN b
    <3>1. Source(b) = b["ghalo.csv"] /\ "ghalo.csv" \in DOMAIN b
      BY <1>6, <2>2 DEF Source
    <3>2. "ghalo.csv" \in DOMAIN d /\ b["ghalo.csv"] = d["ghalo.csv"]
      BY <1>5, <3>1 DEF Part
    <3>3. CASE "ghalo.json" \notin DOMAIN d
      <4>1. Source(v) = v["ghalo.csv"]
        BY <1>2, <3>3 DEF Source
      <4> QED BY <1>2, <3>1, <3>2, <4>1
    <3>4. CASE "ghalo.json" \in DOMAIN d
      <4>1. Source(v) = d["ghalo.json"] /\ Source(b) = d["ghalo.csv"]
        BY <1>2, <3>1, <3>2, <3>4 DEF Source
      <4>2. KnownResults(d["ghalo.json"]) /\ KnownResults(d["ghalo.csv"])
        BY <1>5, <3>2, <3>4 DEF KnownBundle, Results
      <4>3. d["ghalo.json"].state = "read" /\ d["ghalo.csv"].state = "read"
        BY <1>6, <4>1, <4>2 DEF KnownResults
      <4>4. Results \subseteq DOMAIN d /\ \A file \in Results : d[file].state = "read"
        BY <3>2, <3>4, <4>3 DEF Results
      <4> QED BY <1>5, <4>1, <4>4 DEF KnownBundle
    <3> QED BY <3>3, <3>4
  <2> QED BY <2>1, <2>2
<1> QED BY <1>3, <1>7 DEF b

LEMMA CallsStep ==
  ASSUME CallsInv, LoadInv, ReportInv, [Next]_<<migrationVars, analysisVars>>
  PROVE  CallsInv'
<1>1. CASE UNCHANGED analysisVars
  BY <1>1 DEF CallsInv, analysisVars
<1>2. CASE Expand \/ AllLoaded \/ BeginReport \/ Interrupt
  <2>1. calls' = calls /\ current' = current /\ current <= Len(calls)
    BY <1>2 DEF Expand, AllLoaded, BeginReport, Interrupt, CallsInv
  <2>2. phase' \in {"load", "loaded", "write", "exited"} /\ status' \in {0, 1, 2, 130}
    BY <1>2 DEF Expand, AllLoaded, BeginReport, Interrupt, Exit, CallsInv
  <2> QED BY <2>1, <2>2 DEF CallsInv
<1>3. CASE Load
  <2> DEFINE outcome == Outcome(inputs[Len(runs) + 1])
  <2>1. outcome \in {"loaded", "error", "crash"}
    BY OutcomeIs
  <2>2. /\ outcome = "loaded" => UNCHANGED <<phase, status>>
        /\ outcome = "error" => Exit(2)
        /\ outcome = "crash" => Exit(1)
    BY <1>3 DEF Load
  <2>3. calls' = calls /\ current' = current /\ phase = "load"
    BY <1>3 DEF Load
  <2> HIDE DEF outcome
  <2> QED BY <2>1, <2>2, <2>3 DEF CallsInv, Exit
<1>4. CASE PrintRows
  <2>1. /\ calls' = calls /\ current' = current /\ phase = "loaded" /\ call.command # "report"
        /\ phase' = "exited" /\ status' = PrintedStatus
    BY <1>4 DEF PrintRows, Exit
  <2>2. current <= Len(calls)
    BY <2>1 DEF CallsInv
  <2> QED BY <2>1, <2>2, PrintedEnds DEF CallsInv
<1>5. CASE WriteOutput
  <2> DEFINE outcome == RequestOutcome(Head(todo))
  <2>1. calls' = calls /\ current' = current /\ phase = "write" /\ current <= Len(calls)
    BY <1>5 DEF WriteOutput, CallsInv
  <2>2. IF outcome \in {"error", "crash"} THEN Exit(ExitOf(outcome))
        ELSE IF Len(todo) = 1 THEN Exit(0) ELSE UNCHANGED <<phase, status>>
    BY <1>5 DEF WriteOutput, Attend
  <2>3. outcome \in {"error", "crash"} => ExitOf(outcome) \in {0, 1, 2}
    BY ExitStatus DEF Ends
  <2> HIDE DEF outcome
  <2> QED BY <2>1, <2>2, <2>3 DEF CallsInv, Exit
<1>6. CASE NextCall
  BY <1>6 DEF NextCall, CallsInv
<1> QED BY <1>1, <1>2, <1>3, <1>4, <1>5, <1>6 DEF Next, Analyse, Terminating, migrationVars, analysisVars

\* A step of the analyzer or one of a migration.
LEMMA StepIs ==
  ASSUME [Next]_<<migrationVars, analysisVars>>
  PROVE  \/ [MigrationNext]_migrationVars /\ UNCHANGED analysisVars
         \/ Analyse /\ UNCHANGED migrationVars
  BY DEF Next, Terminating

\* How a step of the analyzer changes the phase.
LEMMA AnalyseIs ==
  ASSUME Analyse
  PROVE  /\ calls' = calls
         /\ \/ phase' = phase
            \/ phase' \in {"idle", "load", "exited"}
            \/ phase' = "loaded" /\ Len(runs) = Len(inputs)
            \/ phase = "loaded"
<1>1. CASE Expand \/ AllLoaded \/ PrintRows \/ BeginReport \/ Interrupt \/ NextCall
  BY <1>1 DEF Expand, AllLoaded, PrintRows, BeginReport, Interrupt, NextCall, Exit
<1>2. CASE Load
  <2>1. Outcome(inputs[Len(runs) + 1]) \in {"loaded", "error", "crash"}
    BY OutcomeIs
  <2> QED BY <1>2, <2>1 DEF Load, Exit
<1>3. CASE WriteOutput
  <2> DEFINE outcome == RequestOutcome(Head(todo))
  <2>1. /\ calls' = calls
        /\ IF outcome \in {"error", "crash"} THEN Exit(ExitOf(outcome))
           ELSE IF Len(todo) = 1 THEN Exit(0) ELSE UNCHANGED <<phase, status>>
    BY <1>3 DEF WriteOutput, Attend
  <2> HIDE DEF outcome
  <2> QED BY <2>1 DEF Exit
<1> QED BY <1>1, <1>2, <1>3 DEF Analyse

LEMMA LoadStep ==
  ASSUME CallsInv, LoadInv, KnownInv, MigrationInv, [Next]_<<migrationVars, analysisVars>>
  PROVE  LoadInv'
<1>1. CASE [MigrationNext]_migrationVars /\ UNCHANGED analysisVars
  <2>1. Grows
    BY <1>1, MigrationStep
  <2>2. UNCHANGED <<inputs, runs, phase>>
    BY <1>1 DEF analysisVars
  <2>3. \A i \in DOMAIN runs : LoadedFrom(runs[i], inputs[i].path)'
    <3> SUFFICES ASSUME NEW i \in DOMAIN runs PROVE LoadedFrom(runs[i], inputs[i].path)'
      OBVIOUS
    <3>1. PICK run, path : run = runs[i] /\ path = inputs[i].path
      OBVIOUS
    <3>2. LoadedFrom(run, path)'
      BY <2>1, <3>1, LoadedStays DEF LoadInv
    <3> QED BY <2>2, <3>1, <3>2 DEF LoadedFrom
  <2> QED BY <2>2, <2>3 DEF LoadInv
<1>2. CASE Expand /\ UNCHANGED migrationVars
  <2> DEFINE parts == [i \in DOMAIN call.inputs |-> Expanded(call.inputs[i])]
  <2>1. inputs' = FlattenSeq(parts) /\ runs' = <<>> /\ phase' = "load" /\ current <= Len(calls)
    BY <1>2 DEF Expand
  <2>2. IsSequence(call.inputs)
    BY <2>1, TheCall
  <2>3. IsSequence(parts) /\ \A k \in DOMAIN parts : IsSequence(parts[k])
    <3>1. Len(call.inputs) \in Nat /\ DOMAIN call.inputs = 1 .. Len(call.inputs)
      BY <2>2, SequenceIs
    <3>2. parts = [i \in 1 .. Len(call.inputs) |-> parts[i]]
      BY <3>1
    <3>3. \A k \in DOMAIN parts : IsSequence(parts[k])
      BY ExpandedIs
    <3> HIDE DEF parts
    <3> QED BY <3>1, <3>2, <3>3, FunctionIsSequence
  <2> HIDE DEF parts
  <2>4. IsSequence(inputs') /\ IsSequence(runs') /\ Len(runs') = 0 /\ DOMAIN runs' = {}
    BY <2>1, <2>3, FlattenIsSequence, EmptyIsSequence
  <2>5. Len(inputs') \in Nat
    BY <2>4, SequenceIs
  <2> QED BY <2>1, <2>4, <2>5 DEF LoadInv
<1>3. CASE Load /\ UNCHANGED migrationVars
  <2> DEFINE input == inputs[Len(runs) + 1]
  <2>1. Outcome(input) \in {"loaded", "error", "crash"}
    BY OutcomeIs
  <2>2. /\ phase = "load" /\ Len(runs) < Len(inputs) /\ inputs' = inputs
        /\ Outcome(input) = "loaded" => runs' = Append(runs, Loaded(input)) /\ phase' = phase
        /\ Outcome(input) # "loaded" => runs' = runs /\ phase' = "exited"
    BY <1>3, <2>1 DEF Load, Exit
  <2>3. tree' = tree
    BY <1>3 DEF migrationVars
  <2>4. CASE Outcome(input) # "loaded"
    BY <2>2, <2>3, <2>4 DEF LoadInv, LoadedFrom
  <2>5. CASE Outcome(input) = "loaded"
    <3>1. LoadedFrom(Loaded(input), input.path)
      BY <2>5, LoadedNow
    <3>2. PICK run : run = Loaded(input)
      OBVIOUS
    <3>3. runs' = Append(runs, run)
      BY <2>2, <2>5, <3>2
    <3>4. /\ IsSequence(runs') /\ Len(runs') = Len(runs) + 1
          /\ \A i \in 1 .. Len(runs) : runs'[i] = runs[i]
          /\ runs'[Len(runs) + 1] = run
      BY <3>3, AppendIsSequence DEF LoadInv
    <3>5. /\ Len(runs) \in Nat /\ Len(inputs) \in Nat /\ DOMAIN runs = 1 .. Len(runs)
          /\ DOMAIN runs' = 1 .. Len(runs')
      BY <3>4, SequenceIs DEF LoadInv
    <3>6. \A i \in DOMAIN runs' : LoadedFrom(runs'[i], inputs[i].path)
      <4> SUFFICES ASSUME NEW i \in 1 .. Len(runs) + 1
                   PROVE  LoadedFrom(runs'[i], inputs[i].path)
        BY <3>4, <3>5
      <4>1. CASE i \in 1 .. Len(runs)
        BY <3>4, <3>5, <4>1 DEF LoadInv
      <4>2. CASE i = Len(runs) + 1
        BY <3>1, <3>2, <3>4, <4>2
      <4> QED BY <3>5, <4>1, <4>2
    <3>7. (\A i \in DOMAIN runs : LoadedFrom(runs[i], inputs[i].path))'
      BY <2>2, <2>3, <3>6 DEF LoadedFrom
    <3>8. Len(runs') <= Len(inputs') /\ phase' = "load" /\ IsSequence(inputs')
      BY <2>2, <2>5, <3>4, <3>5 DEF LoadInv
    <3> QED BY <3>4, <3>7, <3>8 DEF LoadInv
  <2> QED BY <2>4, <2>5
<1>4. CASE UNCHANGED <<inputs, runs>> /\ UNCHANGED migrationVars /\ Analyse
  <2>1. phase' \in {"loaded", "write"} => Len(runs) = Len(inputs)
    <3>1. \/ phase' = phase
          \/ phase' \in {"idle", "load", "exited"}
          \/ phase' = "loaded" /\ Len(runs) = Len(inputs)
          \/ phase = "loaded"
      BY <1>4, AnalyseIs
    <3> QED BY <3>1 DEF LoadInv
  <2>2. tree' = tree /\ inputs' = inputs /\ runs' = runs
    BY <1>4 DEF migrationVars
  <2> QED BY <2>1, <2>2 DEF LoadInv, LoadedFrom
<1>5. Analyse => Expand \/ Load \/ UNCHANGED <<inputs, runs>>
  BY DEF Analyse, AllLoaded, PrintRows, BeginReport, WriteOutput, Interrupt, NextCall
<1> QED BY <1>1, <1>2, <1>3, <1>4, <1>5, StepIs

LEMMA GivenStep ==
  ASSUME CallsInv, GivenInv, KnownInv, MigrationInv, [Next]_<<migrationVars, analysisVars>>
  PROVE  GivenInv'
<1>1. CASE [MigrationNext]_migrationVars /\ UNCHANGED analysisVars
  <2>1. UNCHANGED <<calls, current, inputs, phase>>
    BY <1>1 DEF analysisVars
  <2>2. ASSUME NEW x PROVE GivenBy(x)' \subseteq GivenBy(x)
    <3>1. CASE x.kind = "tree"
      <4>1. \A path : path.version = "" =>
              /\ path \in DOMAIN tree' <=> path \in DOMAIN tree
              /\ path \in DOMAIN tree => tree'[path] = tree[path]
        BY <1>1, FlatStays
      <4>2. GivenBy(x)' = {p \in DOMAIN tree' : /\ Under(x.path, p) /\ p.version = ""
                                                /\ "ghalo.json" \in DOMAIN tree'[p]}
        BY <3>1 DEF GivenBy
      <4>3. GivenBy(x) = {p \in DOMAIN tree : /\ Under(x.path, p) /\ p.version = ""
                                              /\ "ghalo.json" \in DOMAIN tree[p]}
        BY <3>1 DEF GivenBy
      <4> QED BY <4>1, <4>2, <4>3
    <3>2. CASE x.kind # "tree"
      BY <3>2 DEF GivenBy
    <3> QED BY <3>1, <3>2
  <2>3. ASSUME phase # "idle", NEW i \in DOMAIN call.inputs
        PROVE  GivenBy(call.inputs[i])' \subseteq {inputs[k].path : k \in DOMAIN inputs}
    <3>1. PICK x : x = call.inputs[i]
      OBVIOUS
    <3>2. GivenBy(x)' \subseteq {inputs[k].path : k \in DOMAIN inputs}
      BY <2>2, <2>3, <3>1 DEF GivenInv
    <3>3. call'.inputs[i] = x
      BY <2>1, <3>1 DEF call
    <3> QED BY <2>1, <3>2, <3>3 DEF GivenBy
  <2>4. call' = call
    BY <2>1 DEF call
  <2> QED BY <2>1, <2>3, <2>4 DEF GivenInv
<1>2. CASE Expand /\ UNCHANGED migrationVars
  <2> DEFINE parts == [i \in DOMAIN call.inputs |-> Expanded(call.inputs[i])]
             args1 == call.inputs
  <2>1. /\ inputs' = FlattenSeq(parts) /\ current <= Len(calls)
        /\ UNCHANGED <<calls, current, tree>>
    BY <1>2 DEF Expand, migrationVars
  <2>2. IsSequence(args1) /\ args1 # <<>> /\ call' = call
    BY <2>1, TheCall DEF call
  <2>3. Len(args1) \in Nat /\ DOMAIN args1 = 1 .. Len(args1) /\ Len(args1) # 0
    BY <2>2, SequenceIs
  <2>4. \A k \in DOMAIN args1 :
          /\ IsSequence(parts[k]) /\ parts[k] # <<>>
          /\ GivenBy(args1[k]) \subseteq {x.path : x \in ToSet(parts[k])}
    BY ExpandedIs
  <2>5. parts = [i \in 1 .. Len(args1) |-> parts[i]] /\ DOMAIN parts = 1 .. Len(args1)
    BY <2>3
  <2> HIDE DEF parts, args1
  <2>6. IsSequence(parts) /\ \A k \in DOMAIN parts : IsSequence(parts[k])
    BY <2>3, <2>4, <2>5, FunctionIsSequence
  <2>7. /\ IsSequence(inputs')
        /\ ToSet(inputs') = UNION {ToSet(parts[k]) : k \in DOMAIN parts}
    BY <2>1, <2>6, FlattenIsSequence
  <2>8. \A k \in DOMAIN args1 : GivenBy(args1[k]) \subseteq {inputs'[j].path : j \in DOMAIN inputs'}
    <3> SUFFICES ASSUME NEW k \in DOMAIN args1, NEW p \in GivenBy(args1[k])
                 PROVE  \E j \in DOMAIN inputs' : inputs'[j].path = p
      OBVIOUS
    <3>1. PICK x \in ToSet(parts[k]) : x.path = p
      BY <2>4
    <3>2. x \in ToSet(inputs')
      BY <2>3, <2>5, <2>7
    <3> QED BY <3>1, <3>2 DEF ToSet
  <2>9. inputs' # <<>>
    <3>1. 1 \in DOMAIN args1
      BY <2>3
    <3>2. parts[1] # <<>> /\ IsSequence(parts[1])
      BY <2>4, <3>1
    <3>3. Len(parts[1]) # 0 /\ Len(parts[1]) \in Nat /\ DOMAIN parts[1] = 1 .. Len(parts[1])
      BY <3>2, SequenceIs
    <3>4. parts[1][1] \in ToSet(parts[1])
      <4>1. 1 \in DOMAIN parts[1]
        BY <3>3
      <4> QED BY <4>1 DEF ToSet
    <3>5. parts[1][1] \in ToSet(inputs')
      BY <2>3, <2>5, <2>7, <3>1, <3>4
    <3> QED BY <3>5 DEF ToSet
  <2>10. \A k \in DOMAIN args1 : GivenBy(args1[k])' = GivenBy(args1[k])
    <3> SUFFICES ASSUME NEW k \in DOMAIN args1 PROVE GivenBy(args1[k])' = GivenBy(args1[k])
      OBVIOUS
    <3>1. PICK x : x = args1[k]
      OBVIOUS
    <3>2. GivenBy(x)' = GivenBy(x)
      BY <2>1 DEF GivenBy
    <3>3. args1'[k] = x
      BY <2>2, <3>1 DEF args1
    <3> QED BY <3>1, <3>2, <3>3 DEF GivenBy
  <2>11. args1' = args1
    BY <2>2 DEF args1
  <2>12. \A k \in DOMAIN args1' :
           GivenBy(args1[k])' \subseteq {inputs'[j].path : j \in DOMAIN inputs'}
    BY <2>8, <2>10, <2>11
  <2> QED BY <2>9, <2>12 DEF GivenInv, args1
<1>3. CASE Analyse /\ UNCHANGED <<migrationVars, inputs, current>> /\ phase # "idle"
  <2>1. UNCHANGED <<tree, inputs, current, calls>>
    BY <1>3, AnalyseIs DEF migrationVars
  <2>2. call' = call
    BY <2>1 DEF call
  <2>3. \A x : GivenBy(x)' = GivenBy(x)
    BY <2>1 DEF GivenBy
  <2>4. /\ inputs # <<>>
        /\ \A i \in DOMAIN call.inputs :
             GivenBy(call.inputs[i]) \subseteq {inputs[k].path : k \in DOMAIN inputs}
    BY <1>3 DEF GivenInv
  <2>5. \A i \in DOMAIN call.inputs : GivenBy(call.inputs[i])' = GivenBy(call.inputs[i])
    <3> SUFFICES ASSUME NEW i \in DOMAIN call.inputs
                 PROVE  GivenBy(call.inputs[i])' = GivenBy(call.inputs[i])
      OBVIOUS
    <3>1. PICK x : x = call.inputs[i]
      OBVIOUS
    <3>2. GivenBy(x)' = GivenBy(x)
      BY <2>3
    <3>3. call.inputs'[i] = x
      BY <2>2, <3>1
    <3> QED BY <3>1, <3>2, <3>3 DEF GivenBy
  <2> QED BY <2>1, <2>2, <2>4, <2>5 DEF GivenInv
<1>4. CASE NextCall
  BY <1>4 DEF NextCall, GivenInv
<1>5. Analyse => \/ Expand \/ NextCall
                 \/ UNCHANGED <<inputs, current>> /\ phase # "idle"
  BY DEF Analyse, Load, AllLoaded, PrintRows, BeginReport, WriteOutput, Interrupt
<1> QED BY <1>1, <1>2, <1>3, <1>4, <1>5, StepIs

LEMMA OutputsAre ==
  ASSUME KnownInv, LoadInv
  PROVE  /\ IsSequence(SortedNow) /\ Len(SortedNow) = Len(runs)
         /\ \A i \in DOMAIN SortedNow : SortedNow[i] \in ToSet(runs)
         /\ IsSequence(Outputs) /\ Len(Outputs) \in Nat /\ Len(Outputs) > 5
         /\ \A i \in 1 .. Len(Outputs) : Requested(Outputs[i], SortedNow)
         /\ \A i, j \in 1 .. Len(Outputs) : Outputs[i].file = Outputs[j].file => i = j
         /\ \A i \in 1 .. Len(Outputs) : Outputs[i].file[1] \in Closing \cup Plots => i > 5
         /\ \A i \in 1 .. 5 : Outputs[i] = Opening(SortedNow)[i]
<1>1. \A i \in DOMAIN runs : KnownRun(runs[i])
  BY LoadedRuns
<1>2. IsSequence(runs)
  BY DEF LoadInv
<1>3. /\ Len(runs) \in Nat /\ DOMAIN runs = 1 .. Len(runs)
  BY <1>2, SequenceIs
<1>4. PICK perm : /\ perm \in [1 .. Len(runs) -> 1 .. Len(runs)]
                  /\ SortedNow = [k \in 1 .. Len(runs) |-> runs[perm[k]]]
  <2>1. PICK perm : OutputOrder(perm, runs)
    BY <1>1, <1>2, SortedRuns
  <2> QED BY <2>1 DEF OutputOrder, SortedNow
<1>5. IsSequence(SortedNow) /\ Len(SortedNow) = Len(runs)
  BY <1>3, <1>4, FunctionIsSequence
<1>6. \A i \in DOMAIN SortedNow : SortedNow[i] \in ToSet(runs)
  BY <1>3, <1>4 DEF ToSet
<1>7. /\ Named(Outputs, Tags, SortedNow) /\ Len(Outputs) > 5
      /\ \A i \in 1 .. 5 : Outputs[i] = Opening(SortedNow)[i]
  BY <1>5, RequestsAre DEF Outputs
<1>8. IsSequence(Outputs)
  BY <1>7 DEF Named
<1>9. Len(Outputs) \in Nat /\ DOMAIN Outputs = 1 .. Len(Outputs)
  BY <1>8, SequenceIs
<1>10. /\ \A i \in 1 .. Len(Outputs) : Requested(Outputs[i], SortedNow)
       /\ \A i, j \in 1 .. Len(Outputs) : Outputs[i].file = Outputs[j].file => i = j
  BY <1>7, <1>9 DEF Named
<1>11. ASSUME NEW i \in 1 .. Len(Outputs), Outputs[i].file[1] \in Closing \cup Plots
       PROVE  i > 5
  <2> SUFFICES ASSUME i \in 1 .. 5 PROVE FALSE
    BY <1>9
  <2>1. Opening(SortedNow)[i].file[1] \in Openings
    <3>1. Named(Opening(SortedNow), Openings, SortedNow) /\ Len(Opening(SortedNow)) = 5
      BY <1>5, OpeningNamed
    <3>2. DOMAIN Opening(SortedNow) = 1 .. 5
      BY <3>1, SequenceIs DEF Named
    <3> QED BY <3>1, <3>2 DEF Named
  <2>2. Outputs[i].file[1] \in Openings
    BY <1>7, <2>1
  <2>3. Openings \cap (Closing \cup Plots) = {}
    BY DEF Openings, Closing, Plots
  <2> QED BY <1>11, <2>2, <2>3
<1> QED BY <1>5, <1>6, <1>7, <1>8, <1>9, <1>10, <1>11

\* What is written shows the runs as they were loaded, and a plot no others.
LEMMA ContentIs ==
  ASSUME CallsInv, KnownInv, LoadInv, current <= Len(calls),
         NEW q, Requested(q, SortedNow), RequestOutcome(q) = "ok"
  PROVE  /\ Content(q).call = current
         /\ q.kind \in {"table", "baseline", "comparison"} => Content(q) = Shown(q.runs)
         /\ q.kind \notin {"table", "baseline", "comparison"} =>
              Content(q).runs \subseteq Shown(SortedNow).runs
<1>1. Content(q).call = current
  BY DEF Content, Shown
<1>2. CASE q.kind \in {"table", "baseline", "comparison"}
  BY <1>1, <1>2 DEF Content
<1>3. CASE q.kind \notin {"table", "baseline", "comparison"}
  <2> DEFINE again == [i \in DOMAIN q.runs |-> Loaded(Directory(q.runs[i].path))]
             shown == SortedNow
  <2>1. Content(q) = Shown(again)
    BY <1>3 DEF Content
  <2>2. IsSequence(q.runs) /\ ToSet(q.runs) \subseteq ToSet(shown)
    BY DEF Requested
  <2>3. \A i \in DOMAIN q.runs : Outcome(Directory(q.runs[i].path)) = "loaded"
    BY <1>3, <2>2, RequestEnds
  <2>4. \A k \in DOMAIN shown : shown[k] \in ToSet(runs)
    BY OutputsAre
  <2> HIDE DEF shown
  <2>5. ASSUME NEW i \in DOMAIN q.runs
        PROVE  \E k \in DOMAIN shown : /\ again[i].path = shown[k].path
                                       /\ Measured(again[i].results) = Measured(shown[k].results)
    <3>1. q.runs[i] \in ToSet(shown)
      BY <2>2, <2>5 DEF ToSet
    <3>2. PICK k \in DOMAIN shown : shown[k] = q.runs[i]
      BY <3>1 DEF ToSet
    <3>3. PICK j \in DOMAIN runs : runs[j] = shown[k]
      BY <2>4 DEF ToSet
    <3>4. PICK run, path : run = runs[j] /\ path = inputs[j].path
      OBVIOUS
    <3>5. /\ LoadedFrom(run, path) /\ run.path = path
          /\ run.results = Source(run.bundle).results
      BY <3>4, LoadedRuns DEF LoadInv
    <3>6. q.runs[i].path = path
      BY <3>2, <3>3, <3>4, <3>5
    <3>7. Outcome(Directory(path)) = "loaded"
      BY <2>3, <3>6
    <3>8. /\ Loaded(Directory(path)).path = path
          /\ Measured(Loaded(Directory(path)).results) = Measured(run.results)
      BY <3>5, <3>7, Reloaded
    <3>9. again[i] = Loaded(Directory(path))
      BY <3>6
    <3> QED BY <3>3, <3>4, <3>5, <3>8, <3>9
  <2>6. Shown(again).runs = {<<again[i].path, Measured(again[i].results)>> : i \in DOMAIN q.runs}
    BY DEF Shown
  <2>7. Shown(shown).runs = {<<shown[k].path, Measured(shown[k].results)>> : k \in DOMAIN shown}
    BY DEF Shown
  <2> HIDE DEF again
  <2>8. Shown(again).runs \subseteq Shown(shown).runs
    BY <2>5, <2>6, <2>7
  <2> QED BY <1>1, <1>3, <2>1, <2>8 DEF shown
<1> QED BY <1>1, <1>2, <1>3

\* The first five outputs: four tables of all runs, and a comparison of two.
LEMMA TheOpening ==
  ASSUME KnownInv, LoadInv
  PROVE  /\ \A j \in 1 .. 5 : Outputs[j].runs = SortedNow
         /\ \A j \in 1 .. 4 : Outputs[j].kind \in {"table", "baseline"}
         /\ Outputs[5].kind = "comparison" /\ Outputs[5].file = <<"comparison.csv">>
         /\ Outputs[1].file = <<"summary.csv">> /\ Outputs[2].file = <<"summary.json">>
         /\ Outputs[3].file = <<"summary.md">> /\ Outputs[4].file = <<"scaling.csv">>
<1> DEFINE rs == SortedNow
           all == Opening(rs)
<1>1. /\ all[1] = Request(<<"summary.csv">>, "table", rs)
      /\ all[2] = Request(<<"summary.json">>, "table", rs)
      /\ all[3] = Request(<<"summary.md">>, "table", rs)
      /\ all[4] = Request(<<"scaling.csv">>, "baseline", rs)
      /\ all[5] = Request(<<"comparison.csv">>, "comparison", rs)
  BY DEF Opening
<1>2. \A j \in 1 .. 5 : Outputs[j] = all[j]
  BY OutputsAre
<1> HIDE DEF all, rs
<1>3. /\ Outputs[1] = Request(<<"summary.csv">>, "table", rs)
      /\ Outputs[2] = Request(<<"summary.json">>, "table", rs)
      /\ Outputs[3] = Request(<<"summary.md">>, "table", rs)
      /\ Outputs[4] = Request(<<"scaling.csv">>, "baseline", rs)
      /\ Outputs[5] = Request(<<"comparison.csv">>, "comparison", rs)
  BY <1>1, <1>2
<1>4. \A j \in 1 .. 5 : j = 1 \/ j = 2 \/ j = 3 \/ j = 4 \/ j = 5
  OBVIOUS
<1>5. \A j \in 1 .. 4 : j = 1 \/ j = 2 \/ j = 3 \/ j = 4
  OBVIOUS
<1> QED BY <1>3, <1>4, <1>5 DEF Request, rs

\* One output is dealt with.
LEMMA WriteIs ==
  ASSUME CallsInv, KnownInv, LoadInv, ReportInv, WriteOutput
  PROVE  LET q == Head(todo)
             outcome == RequestOutcome(q)
         IN /\ phase = "write" /\ Done + 1 \in 1 .. Len(Outputs) /\ q = Outputs[Done + 1]
            /\ Requested(q, SortedNow) /\ outcome \in Ends \cup {"skip"}
            /\ UNCHANGED <<calls, current, inputs, runs, SortedNow, Outputs>>
            /\ Done' = Done + 1 /\ IsSequence(todo') /\ Len(todo') = Len(todo) - 1
            /\ \A i \in 1 .. Len(todo') : todo'[i] = Outputs[Done' + i]
            /\ outcome = "ok" => /\ DOMAIN out' = DOMAIN out \cup {q.file}
                                 /\ out'[q.file] = Content(q)
                                 /\ \A f \in DOMAIN out \ {q.file} : out'[f] = out[f]
            /\ outcome # "ok" => out' = out
            /\ skipped' = IF outcome = "skip" THEN skipped \cup {q.file} ELSE skipped
            /\ outcome \in {"error", "crash"} => phase' = "exited" /\ status' # 0
            /\ outcome \in {"ok", "skip"} =>
                 IF Len(todo) = 1 THEN phase' = "exited" ELSE phase' = "write"
<1> DEFINE q == Head(todo)
           outcome == RequestOutcome(q)
           n == Len(Outputs) - Len(todo)
<1>1. phase = "write" /\ current <= Len(calls)
  BY DEF WriteOutput, CallsInv
<1>2. ProgressInv
  BY <1>1 DEF ReportInv, Reporting
<1>3. /\ IsSequence(todo) /\ Len(todo) <= Len(Outputs) /\ todo # <<>>
      /\ \A i \in 1 .. Len(todo) : todo[i] = Outputs[n + i]
  BY <1>1, <1>2 DEF ProgressInv, Done
<1>4. Len(Outputs) \in Nat /\ \A i \in 1 .. Len(Outputs) : Requested(Outputs[i], SortedNow)
  BY OutputsAre
<1>5. /\ q = todo[1] /\ IsSequence(Tail(todo)) /\ Len(Tail(todo)) = Len(todo) - 1
      /\ \A i \in 1 .. Len(todo) - 1 : Tail(todo)[i] = todo[i + 1]
  BY <1>3, TailIsSequence
<1>6. Len(todo) \in Nat /\ Len(todo) # 0
  BY <1>3, SequenceIs
<1>7. n \in Nat /\ n + 1 \in 1 .. Len(Outputs) /\ q = Outputs[n + 1]
  <2>1. 1 \in 1 .. Len(todo)
    BY <1>6
  <2> QED BY <1>3, <1>4, <1>5, <1>6, <2>1
<1>8. Requested(q, SortedNow)
  BY <1>4, <1>7
<1>9. outcome \in Ends \cup {"skip"}
  <2>1. IsSequence(q.runs)
    BY <1>8 DEF Requested
  <2> QED BY <1>1, <2>1, RequestEnds
<1>10. UNCHANGED <<calls, current, inputs, runs>> /\ todo' = Tail(todo)
  BY DEF WriteOutput
<1>11. SortedNow' = SortedNow /\ Outputs' = Outputs
  BY <1>10 DEF SortedNow, Outputs
<1>12. /\ out' = IF outcome = "ok" THEN With(out, q.file, Content(q)) ELSE out
       /\ skipped' = IF outcome = "skip" THEN skipped \cup {q.file} ELSE skipped
       /\ IF outcome \in {"error", "crash"} THEN Exit(ExitOf(outcome))
          ELSE IF Len(todo) = 1 THEN Exit(0) ELSE UNCHANGED <<phase, status>>
  BY DEF WriteOutput, Attend
<1>13. outcome \in {"error", "crash"} => phase' = "exited" /\ status' # 0
  <2> HIDE DEF outcome
  <2> QED BY <1>12, ExitStatus DEF Exit, Ends
<1> DEFINE c == Content(q)
<1>14. outcome = "ok" => /\ DOMAIN out' = DOMAIN out \cup {q.file}
                         /\ out'[q.file] = c
                         /\ \A f \in DOMAIN out \ {q.file} : out'[f] = out[f]
  <2> SUFFICES ASSUME outcome = "ok"
               PROVE  /\ DOMAIN out' = DOMAIN out \cup {q.file}
                      /\ out'[q.file] = c
                      /\ \A f \in DOMAIN out \ {q.file} : out'[f] = out[f]
    OBVIOUS
  <2>1. out' = With(out, q.file, c)
    BY <1>12
  <2> HIDE DEF q, c
  <2> QED BY <2>1 DEF With
<1>15. Done' = n + 1 /\ \A i \in 1 .. Len(todo') : todo'[i] = Outputs[n + 1 + i]
  <2>1. Done' = n + 1
    BY <1>4, <1>5, <1>6, <1>10, <1>11 DEF Done
  <2>2. ASSUME NEW i \in 1 .. Len(todo) - 1 PROVE Tail(todo)[i] = Outputs[n + 1 + i]
    <3>1. i + 1 \in 1 .. Len(todo) /\ n + (i + 1) = n + 1 + i
      BY <1>6, <1>7
    <3> QED BY <1>3, <1>5, <3>1
  <2> QED BY <1>5, <1>10, <2>1, <2>2
<1>16. outcome \in {"ok", "skip"} =>
         IF Len(todo) = 1 THEN phase' = "exited" ELSE phase' = "write"
  <2> HIDE DEF outcome
  <2> QED BY <1>1, <1>12 DEF Exit
<1> QED
  <2> HIDE DEF q, outcome
  <2>1. n = Done
    BY DEF Done
  <2> HIDE DEF n
  <2> QED BY <1>1, <1>5, <1>7, <1>8, <1>9, <1>10, <1>11, <1>12, <1>13, <1>14, <1>15, <1>16, <2>1
            DEF q, outcome, c

\* The progress of a report over one of its outputs.
LEMMA WriteProgress ==
  ASSUME CallsInv, KnownInv, LoadInv, ReportInv, WriteOutput, Reporting'
  PROVE  ProgressInv'
<1> DEFINE q == Head(todo)
           outcome == RequestOutcome(q)
           n == Done
<1>1. /\ phase = "write" /\ n + 1 \in 1 .. Len(Outputs) /\ q = Outputs[n + 1]
      /\ Requested(q, SortedNow) /\ outcome \in Ends \cup {"skip"}
      /\ UNCHANGED <<calls, current, inputs, runs, SortedNow, Outputs>>
      /\ Done' = n + 1 /\ IsSequence(todo') /\ Len(todo') = Len(todo) - 1
      /\ \A i \in 1 .. Len(todo') : todo'[i] = Outputs[Done' + i]
      /\ outcome = "ok" => /\ DOMAIN out' = DOMAIN out \cup {q.file}
                           /\ out'[q.file] = Content(q)
                           /\ \A f \in DOMAIN out \ {q.file} : out'[f] = out[f]
      /\ outcome # "ok" => out' = out
      /\ skipped' = IF outcome = "skip" THEN skipped \cup {q.file} ELSE skipped
      /\ outcome \in {"error", "crash"} => phase' = "exited" /\ status' # 0
      /\ outcome \in {"ok", "skip"} =>
           IF Len(todo) = 1 THEN phase' = "exited" ELSE phase' = "write"
  BY WriteIs
<1>2. current <= Len(calls)
  BY <1>1 DEF CallsInv
<1>3. ProgressInv
  BY <1>1 DEF ReportInv, Reporting
<1>4. outcome \in {"ok", "skip"}
  <2> HIDE DEF outcome
  <2> QED BY <1>1 DEF Reporting, Ends
<1>5. /\ IsSequence(q.runs) /\ (q.kind = "table" => outcome = "ok")
      /\ q.kind = "baseline" => outcome # "skip"
      /\ q.kind = "comparison" =>
           outcome = IF Len(q.runs) = 2 /\ Halos(q.runs[1]) = Halos(q.runs[Len(q.runs)])
                     THEN "ok" ELSE "skip"
  <2>1. IsSequence(q.runs)
    BY <1>1 DEF Requested
  <2> QED BY <1>2, <2>1, RequestEnds
<1>6. Content(q).call = current
  BY DEF Content, Shown
<1>7. q.kind \in {"table", "baseline"} => Content(q) = Shown(q.runs)
  BY DEF Content
<1>8. /\ \A j \in 1 .. 5 : Outputs[j].runs = SortedNow
      /\ \A j \in 1 .. 4 : Outputs[j].kind \in {"table", "baseline"}
      /\ Outputs[5].kind = "comparison" /\ Outputs[5].file = <<"comparison.csv">>
  BY TheOpening
<1>9. /\ Len(Outputs) \in Nat /\ Len(Outputs) > 5
      /\ \A i, j \in 1 .. Len(Outputs) : Outputs[i].file = Outputs[j].file => i = j
  BY OutputsAre
<1> DEFINE c == Content(q)
<1>10. Shown(SortedNow)' = Shown(SortedNow)
  BY <1>1 DEF Shown
<1>11. n \in Nat
  <2>1. IsSequence(todo)
    BY <1>3 DEF ProgressInv
  <2>2. Len(todo) \in Nat
    BY <2>1, SequenceIs
  <2> QED BY <1>1, <1>3, <1>9, <2>2 DEF ProgressInv, Done
<1> HIDE DEF n, c, outcome, q
<1>12. \A f : f # q.file => (f \in DOMAIN out' <=> f \in DOMAIN out)
                            /\ (f \in DOMAIN out => out'[f] = out[f])
  BY <1>1
<1>13. \A f : f # q.file => (Written(f)' <=> Written(f))
  BY <1>1, <1>12 DEF Written
<1>14. PICK name : name = q.file
  OBVIOUS
<1>15. outcome = "ok" => Written(name)' /\ out'[q.file] = c
  BY <1>1, <1>6, <1>14 DEF Written, c
<1>16. /\ \A f \in DOMAIN out : Written(f) => \E j \in 1 .. n : f = Outputs[j].file
       /\ \A f \in skipped : \E j \in 1 .. n : f = Outputs[j].file
       /\ \A j \in 1 .. n : Written(Outputs[j].file) <=> Outputs[j].file \notin skipped
       /\ \A j \in 1 .. n :
            j <= 4 => Outputs[j].file \in DOMAIN out /\ out[Outputs[j].file] = Shown(SortedNow)
       /\ n >= 5 => (Written(<<"comparison.csv">>) <=> SameSizes(SortedNow))
  BY <1>3 DEF ProgressInv, n
<1>17. ASSUME NEW j \in 1 .. n PROVE Outputs[j].file # q.file /\ j \in 1 .. n + 1
  <2>1. j \in 1 .. Len(Outputs) /\ j # n + 1
    BY <1>1, <1>9, <1>11
  <2> QED BY <1>1, <1>9, <1>11, <2>1
<1>18. q.file \notin skipped /\ ~(q.file \in DOMAIN out /\ Written(q.file))
  BY <1>16, <1>17
<1>19. \A f \in DOMAIN out' : Written(f)' => \E j \in 1 .. n + 1 : f = Outputs[j].file
  <2> SUFFICES ASSUME NEW f \in DOMAIN out', Written(f)', f # q.file
               PROVE  \E j \in 1 .. n + 1 : f = Outputs[j].file
    BY <1>1, <1>11
  <2>1. f \in DOMAIN out /\ Written(f)
    BY <1>12, <1>13
  <2>2. PICK j \in 1 .. n : f = Outputs[j].file
    BY <1>16, <2>1
  <2> QED BY <1>17, <2>2
<1>20. \A f \in skipped' : \E j \in 1 .. n + 1 : f = Outputs[j].file
  <2> SUFFICES ASSUME NEW f \in skipped', f # q.file
               PROVE  \E j \in 1 .. n + 1 : f = Outputs[j].file
    BY <1>1, <1>11
  <2>1. f \in skipped
    BY <1>1
  <2>2. PICK j \in 1 .. n : f = Outputs[j].file
    BY <1>16, <2>1
  <2> QED BY <1>17, <2>2
<1>21. ASSUME NEW j \in 1 .. n + 1 PROVE j = n + 1 \/ j \in 1 .. n
  BY <1>11
<1>22. ASSUME NEW j \in 1 .. n + 1
       PROVE  Written(Outputs[j].file)' <=> Outputs[j].file \notin skipped'
  <2>1. CASE j \in 1 .. n
    <3>1. Outputs[j].file # q.file
      BY <1>17, <2>1
    <3> QED BY <1>1, <1>13, <1>16, <2>1, <3>1
  <2>2. CASE j = n + 1 /\ outcome = "ok"
    BY <1>1, <1>15, <1>18, <1>14, <2>2
  <2>3. CASE j = n + 1 /\ outcome = "skip"
    <3>1. ~Written(name)'
      BY <1>1, <1>18, <1>14, <2>3 DEF Written
    <3> QED BY <1>1, <1>14, <2>3, <3>1
  <2> QED BY <1>4, <1>21, <2>1, <2>2, <2>3
<1>23. ASSUME NEW j \in 1 .. n + 1, j <= 4
       PROVE  Outputs[j].file \in DOMAIN out' /\ out'[Outputs[j].file] = Shown(SortedNow)
  <2>1. CASE j \in 1 .. n
    <3>1. Outputs[j].file # q.file
      BY <1>17, <2>1
    <3> QED BY <1>12, <1>16, <1>23, <2>1, <3>1
  <2>2. CASE j = n + 1
    <3>1. j \in 1 .. 4 /\ j \in 1 .. 5
      BY <1>11, <1>23, <2>2
    <3>2. q.kind \in {"table", "baseline"} /\ q.runs = SortedNow
      BY <1>1, <1>8, <2>2, <3>1
    <3>3. outcome = "ok" /\ c = Shown(SortedNow)
      BY <1>4, <1>5, <1>7, <3>2 DEF c
    <3> QED BY <1>1, <1>15, <2>2, <3>3
  <2> QED BY <1>21, <2>1, <2>2
<1>24. n + 1 >= 5 => (Written(<<"comparison.csv">>)' <=> SameSizes(SortedNow))
  <2> SUFFICES ASSUME n + 1 >= 5
               PROVE  Written(<<"comparison.csv">>)' <=> SameSizes(SortedNow)
    OBVIOUS
  <2>1. CASE n >= 5
    <3>1. 5 \in 1 .. n
      BY <1>11, <2>1
    <3>2. Outputs[5].file # q.file
      BY <1>17, <3>1
    <3> QED BY <1>8, <1>13, <1>16, <2>1, <3>2
  <2>2. CASE n = 4
    <3>1. q = Outputs[5] /\ 5 \in 1 .. 5
      BY <1>1, <2>2
    <3>2. q.kind = "comparison" /\ q.runs = SortedNow /\ q.file = <<"comparison.csv">>
      BY <1>8, <3>1
    <3>3. outcome = "ok" <=> SameSizes(SortedNow)
      BY <1>5, <3>2 DEF SameSizes
    <3>4. CASE outcome = "ok"
      BY <1>15, <1>14, <3>2, <3>3, <3>4
    <3>5. CASE outcome = "skip"
      <4>1. ~Written(name)'
        BY <1>1, <1>18, <1>14, <3>5 DEF Written
      <4> QED BY <1>14, <3>2, <3>3, <3>5, <4>1
    <3> QED BY <1>4, <3>4, <3>5
  <2> QED BY <1>11, <2>1, <2>2
<1>25. IF phase' = "write" THEN todo' # <<>> ELSE todo' = <<>>
  <2>1. Len(todo) = 1 <=> phase' = "exited"
    BY <1>1, <1>4
  <2>2. todo' = <<>> <=> Len(todo') = 0
    BY <1>1, SequenceIs
  <2>3. Len(todo) \in Nat
    <3>1. IsSequence(todo)
      BY <1>3 DEF ProgressInv
    <3> QED BY <3>1, SequenceIs
  <2>4. Len(todo) = 1 <=> Len(todo') = 0
    BY <1>1, <2>3
  <2>5. phase' = "exited" \/ phase' = "write"
    BY <1>1, <1>4
  <2> QED BY <2>1, <2>2, <2>4, <2>5
<1>26. Len(todo') <= Len(Outputs')
  <2>1. IsSequence(todo) /\ Len(todo) <= Len(Outputs)
    BY <1>3 DEF ProgressInv
  <2>2. Len(todo) \in Nat
    BY <2>1, SequenceIs
  <2> QED BY <1>1, <1>9, <2>1, <2>2
<1>27. /\ \A f \in DOMAIN out' : Written(f)' => \E j \in 1 .. Done' : f = Outputs'[j].file
       /\ \A f \in skipped' : \E j \in 1 .. Done' : f = Outputs'[j].file
       /\ \A j \in 1 .. Done' : Written(Outputs[j].file)' <=> Outputs'[j].file \notin skipped'
  BY <1>1, <1>19, <1>20, <1>22
<1> QED BY <1>1, <1>10, <1>23, <1>24, <1>25, <1>26, <1>27 DEF ProgressInv

LEMMA ReportStep ==
  ASSUME CallsInv, KnownInv, LoadInv, ReportInv, OutInv, [Next]_<<migrationVars, analysisVars>>
  PROVE  ReportInv'
<1>1. CASE UNCHANGED analysisVars
  <2>1. UNCHANGED <<calls, current, phase, runs, todo, skipped, out, status>>
    BY <1>1 DEF analysisVars
  <2>2. UNCHANGED <<SortedNow, Outputs, call>>
    BY <2>1 DEF SortedNow, Outputs, call
  <2>3. Done' = Done /\ Shown(SortedNow)' = Shown(SortedNow) /\ (Reporting' <=> Reporting)
    BY <2>1, <2>2 DEF Done, Shown, Reporting
  <2>4. \A f : Written(f)' <=> Written(f)
    BY <2>1 DEF Written
  <2>5. /\ Written(<<"comparison.csv">>)' <=> Written(<<"comparison.csv">>)
        /\ \A j : Written(Outputs[j].file)' <=> Written(Outputs[j].file)
    BY <2>1, <2>2 DEF Written
  <2>6. ProgressInv => ProgressInv'
    BY <2>1, <2>2, <2>3, <2>4, <2>5 DEF ProgressInv
  <2> QED BY <2>1, <2>2, <2>3, <2>6 DEF ReportInv
<1>2. CASE Expand \/ AllLoaded \/ Interrupt \/ NextCall
  <2>1. /\ phase' \in {"load", "loaded", "exited", "idle"}
        /\ phase' = "exited" => status' = 130
        /\ phase' \in {"load", "loaded"} => skipped' = {}
    BY <1>2 DEF Expand, AllLoaded, Interrupt, NextCall, Exit, ReportInv
  <2> QED BY <2>1 DEF ReportInv, Reporting
<1>3. CASE Load
  <2> DEFINE outcome == Outcome(inputs[Len(runs) + 1])
  <2>1. outcome \in {"loaded", "error", "crash"}
    BY OutcomeIs
  <2>2. /\ phase = "load" /\ skipped' = skipped
        /\ outcome = "loaded" => phase' = phase
        /\ outcome = "error" => Exit(2)
        /\ outcome = "crash" => Exit(1)
    BY <1>3 DEF Load
  <2> HIDE DEF outcome
  <2>3. skipped' = {} /\ (phase' = "load" \/ (phase' = "exited" /\ status' # 0))
    BY <2>1, <2>2 DEF Exit, ReportInv
  <2> QED BY <2>3 DEF ReportInv, Reporting
<1>4. CASE PrintRows
  <2>1. phase' = "exited" /\ call.command # "report" /\ calls' = calls /\ current' = current
    BY <1>4 DEF PrintRows, Exit
  <2>2. call'.command # "report"
    BY <2>1 DEF call
  <2> QED BY <2>1, <2>2 DEF ReportInv, Reporting
<1>5. CASE BeginReport
  <2>1. /\ phase = "loaded" /\ call.command = "report"
        /\ UNCHANGED <<calls, current, inputs, runs, skipped, out>>
        /\ \/ todo' = Outputs /\ phase' = "write"
           \/ phase' = "exited" /\ status' = 2
    BY <1>5 DEF BeginReport, Exit, Outputs, SortedNow
  <2>2. UNCHANGED <<SortedNow, Outputs, call>>
    BY <2>1 DEF SortedNow, Outputs, call
  <2>3. CASE phase' = "exited" /\ status' = 2
    BY <2>3 DEF ReportInv, Reporting
  <2>4. CASE todo' = Outputs /\ phase' = "write"
    <3>1. IsSequence(Outputs) /\ Len(Outputs) \in Nat /\ Len(Outputs) > 5
      BY OutputsAre
    <3>2. Done' = 0
      BY <2>2, <2>4, <3>1 DEF Done
    <3>3. todo' # <<>>
      BY <2>4, <3>1
    <3>4. \A f \in DOMAIN out' : ~(Written(f)')
      BY <2>1 DEF OutInv, Written
    <3>5. skipped' = {}
      BY <2>1 DEF ReportInv
    <3>6. \A i \in 1 .. Len(todo') : todo'[i] = Outputs'[Done' + i]
      BY <2>2, <2>4, <3>1, <3>2
    <3>7. ProgressInv'
      BY <2>2, <2>4, <3>1, <3>2, <3>3, <3>4, <3>5, <3>6 DEF ProgressInv
    <3> QED BY <2>1, <2>2, <2>4, <3>7 DEF ReportInv
  <2> QED BY <2>1, <2>3, <2>4
<1>6. CASE WriteOutput
  <2>1. /\ phase = "write" /\ UNCHANGED <<calls, current>>
        /\ phase' \in {"write", "exited"}
    <3> DEFINE outcome == RequestOutcome(Head(todo))
    <3>1. /\ phase = "write" /\ UNCHANGED <<calls, current>>
          /\ IF outcome \in {"error", "crash"} THEN Exit(ExitOf(outcome))
             ELSE IF Len(todo) = 1 THEN Exit(0) ELSE UNCHANGED <<phase, status>>
      BY <1>6 DEF WriteOutput, Attend
    <3> HIDE DEF outcome
    <3> QED BY <3>1 DEF Exit
  <2>2. call' = call /\ call.command = "report"
    BY <2>1 DEF call, ReportInv
  <2>3. Reporting' => ProgressInv'
    BY <1>6, WriteProgress
  <2> QED BY <2>1, <2>2, <2>3 DEF ReportInv
<1> QED BY <1>1, <1>2, <1>3, <1>4, <1>5, <1>6, StepIs DEF Analyse

\* Writing an output leaves the files of one report together.
LEMMA WriteTogether ==
  ASSUME CallsInv, KnownInv, LoadInv, ReportInv, OutInv, WriteOutput
  PROVE  /\ \A f \in DOMAIN out' : out'[f].call \in 1 .. current
         /\ \A f \in DOMAIN out' : f[1] \in Plots => <<"summary.csv">> \in DOMAIN out'
         /\ FilesAreOfOneReport'
<1> DEFINE q == Head(todo)
           outcome == RequestOutcome(q)
           n == Done
           c == Content(q)
           summary == <<"summary.csv">>
           Tables == {<<"summary.csv">>, <<"summary.json">>, <<"summary.md">>, <<"scaling.csv">>}
           Notes == {<<"provenance.json">>, <<"report.md">>}
<1>1. /\ phase = "write" /\ n + 1 \in 1 .. Len(Outputs) /\ q = Outputs[n + 1]
      /\ Requested(q, SortedNow)
      /\ UNCHANGED <<calls, current>>
      /\ outcome = "ok" => /\ DOMAIN out' = DOMAIN out \cup {q.file}
                           /\ out'[q.file] = c
                           /\ \A f \in DOMAIN out \ {q.file} : out'[f] = out[f]
      /\ outcome # "ok" => out' = out
  BY WriteIs
<1>2. current <= Len(calls) /\ current \in Nat \ {0}
  BY <1>1 DEF CallsInv
<1>3. ProgressInv
  BY <1>1 DEF ReportInv, Reporting
<1>4. outcome = "ok" =>
        /\ c.call = current
        /\ q.kind \in {"table", "baseline", "comparison"} => c = Shown(q.runs)
        /\ q.kind \notin {"table", "baseline", "comparison"} => c.runs \subseteq Shown(SortedNow).runs
  BY <1>1, <1>2, ContentIs
<1>5. /\ Outputs[1].file = <<"summary.csv">> /\ Outputs[2].file = <<"summary.json">>
      /\ Outputs[3].file = <<"summary.md">> /\ Outputs[4].file = <<"scaling.csv">>
  BY TheOpening
<1>6. /\ Len(Outputs) \in Nat /\ Len(Outputs) > 5
      /\ \A i, j \in 1 .. Len(Outputs) : Outputs[i].file = Outputs[j].file => i = j
      /\ \A i \in 1 .. Len(Outputs) : Outputs[i].file[1] \in Closing \cup Plots => i > 5
  BY OutputsAre
<1>7. /\ \A f \in DOMAIN out : out[f].call \in 1 .. current
      /\ \A f \in DOMAIN out : f[1] \in Plots => summary \in DOMAIN out
      /\ FilesAreOfOneReport
  BY DEF OutInv
<1>8. /\ \A file \in Notes \cap DOMAIN out : \A table \in Tables :
           /\ table \in DOMAIN out
           /\ out[table].call >= out[file].call
           /\ out[table].call = out[file].call => out[table].runs = out[file].runs
      /\ \A file \in DOMAIN out :
           file[1] \in Plots /\ out[file].call = out[summary].call =>
             out[file].runs \subseteq out[summary].runs
  BY <1>7 DEF FilesAreOfOneReport
<1>9. n \in Nat
  <2>1. IsSequence(todo)
    BY <1>3 DEF ProgressInv
  <2>2. Len(todo) \in Nat
    BY <2>1, SequenceIs
  <2> QED BY <1>1, <1>3, <1>6, <2>2 DEF ProgressInv, Done
<1>10. /\ \A f \in DOMAIN out : out[f].call = current => \E j \in 1 .. n : f = Outputs[j].file
       /\ \A j \in 1 .. n :
            j <= 4 => Outputs[j].file \in DOMAIN out /\ out[Outputs[j].file] = Shown(SortedNow)
  BY <1>3 DEF ProgressInv, Written
<1>11. \A t \in Tables : \E j \in 1 .. 4 : t = Outputs[j].file
  BY <1>5
<1>12. Requested(q, SortedNow) /\ (q.file[1] \in Closing \cup Plots => n + 1 > 5)
  BY <1>1, <1>6
<1>13. /\ \A f \in Notes : f[1] \in Closing
       /\ Shown(SortedNow).call = current
  BY DEF Closing, Shown
<1>14. CASE outcome # "ok"
  <2>1. out' = out /\ current' = current
    BY <1>1, <1>14
  <2> QED BY <1>7, <2>1 DEF FilesAreOfOneReport
<1>15. CASE outcome = "ok"
  <2> HIDE DEF n, c, outcome, Tables, Notes
  <2>1. /\ DOMAIN out' = DOMAIN out \cup {q.file} /\ out'[q.file] = c
        /\ \A f \in DOMAIN out \ {q.file} : out'[f] = out[f]
        /\ c.call = current
    BY <1>1, <1>4, <1>15
  <2>2. \A f \in DOMAIN out' : out'[f].call \in 1 .. current
    BY <1>2, <1>7, <2>1
  <2>3. ASSUME NEW j \in 1 .. n, j <= 4
        PROVE  /\ Outputs[j].file \in DOMAIN out' /\ Outputs[j].file # q.file
               /\ out'[Outputs[j].file] = Shown(SortedNow)
    <3>1. j \in 1 .. Len(Outputs) /\ j # n + 1
      BY <1>1, <1>6, <1>9
    <3>2. Outputs[j].file # q.file
      BY <1>1, <1>6, <3>1
    <3> QED BY <1>10, <2>1, <2>3, <3>2
  <2>4. summary = Outputs[1].file /\ (n >= 5 => 1 \in 1 .. n /\ \A j \in 1 .. 4 : j \in 1 .. n)
    BY <1>5, <1>9
  <2>5. \A f \in DOMAIN out' : f[1] \in Plots => summary \in DOMAIN out'
    <3> SUFFICES ASSUME NEW f \in DOMAIN out', f[1] \in Plots PROVE summary \in DOMAIN out'
      OBVIOUS
    <3>1. CASE f = q.file
      <4>1. n >= 5
        BY <1>9, <1>12, <3>1
      <4> QED BY <2>3, <2>4, <4>1
    <3>2. CASE f # q.file
      BY <1>7, <2>1, <3>2
    <3> QED BY <3>1, <3>2
  <2>6. ASSUME NEW file \in Notes \cap DOMAIN out', NEW table \in Tables
        PROVE  /\ table \in DOMAIN out'
               /\ out'[table].call >= out'[file].call
               /\ out'[table].call = out'[file].call => out'[table].runs = out'[file].runs
    <3>1. PICK j \in 1 .. 4 : table = Outputs[j].file
      BY <1>11
    <3>2. CASE file = q.file
      <4>1. q.file[1] \in Closing
        BY <1>13, <3>2
      <4>2. n >= 5
        BY <1>9, <1>12, <4>1
      <4>3. table \in DOMAIN out' /\ out'[table] = Shown(SortedNow)
        BY <2>3, <2>4, <3>1, <4>2
      <4>4. q.kind = "table" /\ q.runs = SortedNow
        BY <1>1, <4>1 DEF Requested
      <4>5. out'[file] = Shown(SortedNow)
        BY <1>4, <1>15, <2>1, <3>2, <4>4
      <4> QED BY <1>2, <1>13, <4>3, <4>5
    <3>3. CASE file # q.file /\ table = q.file
      <4>1. j = n + 1
        <5>1. j \in 1 .. Len(Outputs)
          BY <1>6
        <5> QED BY <1>1, <1>6, <3>1, <3>3, <5>1
      <4>2. file \in DOMAIN out /\ out'[file] = out[file] /\ out[file].call \in 1 .. current
        BY <1>7, <2>1, <3>3
      <4>3. out[file].call # current
        <5> SUFFICES ASSUME out[file].call = current PROVE FALSE
          OBVIOUS
        <5>1. PICK i \in 1 .. n : file = Outputs[i].file
          BY <1>10, <4>2
        <5>2. i \in 1 .. Len(Outputs) /\ Outputs[i].file[1] \in Closing
          BY <1>1, <1>6, <1>9, <1>13, <5>1
        <5>3. i > 5
          BY <1>6, <5>2
        <5> QED BY <1>9, <4>1, <5>3
      <4> QED BY <1>2, <2>1, <3>3, <4>2, <4>3
    <3>4. CASE file # q.file /\ table # q.file
      <4>1. file \in Notes \cap DOMAIN out
        BY <2>1, <3>4
      <4>2. table \in DOMAIN out
        BY <1>8, <4>1
      <4> QED BY <1>8, <2>1, <3>4, <4>1, <4>2
    <3> QED BY <3>2, <3>3, <3>4
  <2>7. ASSUME NEW file \in DOMAIN out', file[1] \in Plots, out'[file].call = out'[summary].call
        PROVE  out'[file].runs \subseteq out'[summary].runs
    <3>1. CASE file = q.file
      <4>1. n >= 5
        BY <1>9, <1>12, <2>7, <3>1
      <4>2. out'[summary] = Shown(SortedNow)
        BY <2>3, <2>4, <4>1
      <4>3. q.kind \notin {"table", "baseline", "comparison"}
        BY <1>1, <2>7, <3>1 DEF Requested
      <4> QED BY <1>4, <1>15, <2>1, <3>1, <4>2, <4>3
    <3>2. CASE file # q.file /\ summary = q.file
      <4>1. n + 1 = 1
        <5>1. 1 \in 1 .. Len(Outputs)
          BY <1>6
        <5> QED BY <1>1, <1>6, <2>4, <3>2, <5>1
      <4>2. file \in DOMAIN out /\ out[file].call = current
        BY <2>1, <2>7, <3>2
      <4>3. PICK i \in 1 .. n : file = Outputs[i].file
        BY <1>10, <4>2
      <4> QED BY <1>9, <4>1, <4>3
    <3>3. CASE file # q.file /\ summary # q.file
      <4>1. file \in DOMAIN out /\ summary \in DOMAIN out
        BY <1>7, <2>1, <2>7, <3>3
      <4> QED BY <1>8, <2>1, <2>7, <3>3, <4>1
    <3> QED BY <3>1, <3>2, <3>3
  <2>8. FilesAreOfOneReport'
    BY <2>6, <2>7 DEF FilesAreOfOneReport, Tables, Notes
  <2> QED BY <2>2, <2>5, <2>8
<1> QED BY <1>14, <1>15

LEMMA OutStep ==
  ASSUME CallsInv, KnownInv, LoadInv, ReportInv, OutInv, [Next]_<<migrationVars, analysisVars>>
  PROVE  OutInv'
<1>1. CASE UNCHANGED analysisVars
  BY <1>1 DEF analysisVars, OutInv, FilesAreOfOneReport, Written
<1>2. CASE Expand \/ AllLoaded \/ PrintRows \/ BeginReport \/ Interrupt
  <2>1. /\ UNCHANGED <<current, out>>
        /\ phase' \in {"load", "loaded"} => phase \in {"idle", "load", "loaded"}
        /\ phase' \in {"load", "loaded", "write", "exited"}
    BY <1>2 DEF Expand, AllLoaded, PrintRows, BeginReport, Interrupt, Exit
  <2>2. phase' = "exited" =>
          /\ UNCHANGED <<inputs, runs>>
          /\ phase \in {"loaded", "write"} \/ (phase = "load" /\ status' = 130)
    BY <1>2 DEF Expand, AllLoaded, PrintRows, BeginReport, Interrupt, Exit
  <2>3. phase' = "exited" /\ (status' = 0 \/ \E f \in DOMAIN out' : Written(f)') =>
          Len(runs') = Len(inputs')
    BY <2>1, <2>2 DEF OutInv, LoadInv, Written
  <2>4. phase' \in {"idle", "load", "loaded"} => \A f \in DOMAIN out' : ~(Written(f)')
    BY <2>1 DEF OutInv, Written
  <2>5. FilesAreOfOneReport'
    BY <2>1 DEF OutInv, FilesAreOfOneReport
  <2> QED BY <2>1, <2>3, <2>4, <2>5 DEF OutInv
<1>3. CASE Load
  <2> DEFINE outcome == Outcome(inputs[Len(runs) + 1])
  <2>1. outcome \in {"loaded", "error", "crash"}
    BY OutcomeIs
  <2>2. /\ phase = "load" /\ UNCHANGED <<current, out>>
        /\ outcome = "loaded" => phase' = phase
        /\ outcome = "error" => Exit(2)
        /\ outcome = "crash" => Exit(1)
    BY <1>3 DEF Load
  <2> HIDE DEF outcome
  <2>3. phase' = "load" \/ (phase' = "exited" /\ status' # 0)
    BY <2>1, <2>2 DEF Exit
  <2>4. \A f \in DOMAIN out' : ~(Written(f)')
    BY <2>2 DEF OutInv, Written
  <2>5. FilesAreOfOneReport'
    BY <2>2 DEF OutInv, FilesAreOfOneReport
  <2> QED BY <2>2, <2>3, <2>4, <2>5 DEF OutInv
<1>4. CASE NextCall
  <2>1. current' = current + 1 /\ phase' = "idle" /\ UNCHANGED out
    BY <1>4 DEF NextCall
  <2>2. current \in Nat
    BY DEF CallsInv
  <2>3. \A f \in DOMAIN out' : out'[f].call \in 1 .. current' /\ ~(Written(f)')
    BY <2>1, <2>2 DEF OutInv, Written
  <2>4. FilesAreOfOneReport'
    BY <2>1 DEF OutInv, FilesAreOfOneReport
  <2> QED BY <2>1, <2>3, <2>4 DEF OutInv
<1>5. CASE WriteOutput
  <2>1. /\ phase = "write" /\ UNCHANGED <<current, inputs, runs>>
        /\ phase' \in {"write", "exited"}
    <3> DEFINE outcome == RequestOutcome(Head(todo))
    <3>1. /\ phase = "write" /\ UNCHANGED <<current, inputs, runs>>
          /\ IF outcome \in {"error", "crash"} THEN Exit(ExitOf(outcome))
             ELSE IF Len(todo) = 1 THEN Exit(0) ELSE UNCHANGED <<phase, status>>
      BY <1>5 DEF WriteOutput, Attend
    <3> HIDE DEF outcome
    <3> QED BY <3>1 DEF Exit
  <2>2. Len(runs') = Len(inputs')
    BY <2>1 DEF LoadInv
  <2>3. /\ \A f \in DOMAIN out' : out'[f].call \in 1 .. current
        /\ \A f \in DOMAIN out' : f[1] \in Plots => <<"summary.csv">> \in DOMAIN out'
        /\ FilesAreOfOneReport'
    BY <1>5, WriteTogether
  <2> QED BY <2>1, <2>2, <2>3 DEF OutInv
<1> QED BY <1>1, <1>2, <1>3, <1>4, <1>5, StepIs DEF Analyse

-----------------------------------------------------------------------------
(* The inductive invariant of the analyzer beside the migrations. *)

AnalysisInv ==
  MigrationInv /\ KnownInv /\ CallsInv /\ LoadInv /\ GivenInv /\ ReportInv /\ OutInv

LEMMA InitAnalysis == ReportInit => AnalysisInv
<1> SUFFICES ASSUME ReportInit PROVE AnalysisInv
  OBVIOUS
<1>1. MigrationInit
  BY DEF ReportInit, MigrationInit
<1>2. PICK c \in Commands :
        /\ calls = c.calls
        /\ current = 1 /\ phase = "idle" /\ status = 0
        /\ inputs = <<>> /\ runs = <<>> /\ todo = <<>> /\ skipped = {}
        /\ out = [file \in {} |-> {}]
  BY DEF ReportInit
<1>3. DOMAIN out = {}
  BY <1>2
<1>4. IsSequence(runs) /\ IsSequence(inputs) /\ Len(runs) = 0 /\ Len(inputs) = 0 /\ DOMAIN runs = {}
  BY <1>2, EmptyIsSequence
<1>5. MigrationInv /\ KnownInv
  BY <1>1, InitMigrationInv, InitKnown
<1>6. CallsInv
  BY <1>2 DEF CallsInv
<1>7. LoadInv /\ GivenInv
  BY <1>2, <1>4 DEF LoadInv, GivenInv
<1>8. ReportInv
  BY <1>2 DEF ReportInv, Reporting
<1>9. OutInv
  BY <1>2, <1>3 DEF OutInv, FilesAreOfOneReport
<1> QED BY <1>5, <1>6, <1>7, <1>8, <1>9 DEF AnalysisInv

LEMMA AnalysisStep == AnalysisInv /\ [Next]_<<migrationVars, analysisVars>> => AnalysisInv'
<1> SUFFICES ASSUME AnalysisInv, [Next]_<<migrationVars, analysisVars>> PROVE AnalysisInv'
  OBVIOUS
<1>1. MigrationInv /\ KnownInv /\ CallsInv /\ LoadInv /\ GivenInv /\ ReportInv /\ OutInv
  BY DEF AnalysisInv
<1>2. [MigrationNext]_migrationVars
  BY StepIs
<1>3. MigrationInv' /\ KnownInv'
  BY <1>1, <1>2, MigrationStep, MigrationKnown
<1>4. CallsInv' /\ LoadInv'
  BY <1>1, CallsStep, LoadStep
<1>5. GivenInv'
  BY <1>1, GivenStep
<1>6. ReportInv' /\ OutInv'
  BY <1>1, ReportStep, OutStep
<1> QED BY <1>3, <1>4, <1>5, <1>6 DEF AnalysisInv

LEMMA AnalysisAlways == Spec => []AnalysisInv
  BY InitAnalysis, AnalysisStep, PTL DEF Spec

\* The states of the migrations and of the calls are those of the tools; every run
\* a call has loaded is valid, and a report that is not over has an output to write
\* (main of either tool, load_run, command_report).
THEOREM TypeCorrect == Spec => []TypeOK
<1>1. AnalysisInv => TypeOK
  <2> SUFFICES ASSUME AnalysisInv PROVE TypeOK
    OBVIOUS
  <2>1. MigrationInv /\ KnownInv /\ CallsInv /\ LoadInv /\ ReportInv
    BY DEF AnalysisInv
  <2>2. state \in [Migrations -> {"walk", "make", "copy", "done", "failed", "killed"}]
    BY <2>1 DEF KnownInv
  <2>3. \A m \in Migrations : state[m] = "copy" => dest[m] \in DOMAIN tree
    BY <2>1 DEF MigrationInv, PartsAreOfSources, PartIsOfSource
  <2>4. phase \in {"idle", "load", "loaded", "write", "exited"} /\ status \in {0, 1, 2, 130}
    BY <2>1 DEF CallsInv
  <2>5. Len(runs) <= Len(inputs) /\ \A i \in DOMAIN runs : Valid(runs[i].results)
    BY <2>1, LoadedRuns DEF LoadInv
  <2>6. phase = "write" => todo # <<>>
    BY <2>1 DEF ReportInv, Reporting, ProgressInv
  <2> QED BY <2>2, <2>3, <2>4, <2>5, <2>6 DEF TypeOK
<1> QED BY <1>1, AnalysisAlways, PTL

\* Whatever ends the reports, and while bundles are copied, the files of the output
\* directory are of one report as far as their call is one: the tables are not older
\* than provenance.json and report.md, and no plot shows what they do not
\* (command_report, command_plot).
THEOREM ReportsAreWhole == Spec => []FilesAreOfOneReport
<1>1. AnalysisInv => FilesAreOfOneReport
  BY DEF AnalysisInv, OutInv
<1> QED BY <1>1, AnalysisAlways, PTL

\* A call that ends well or has written anything has loaded all it was given, and a
\* report that ends well has written or noted each output (discover_inputs,
\* load_runs, command_report).
THEOREM NothingIsLost == Spec => []AllAccountedFor
<1>1. AnalysisInv => AllAccountedFor
  <2> SUFFICES ASSUME AnalysisInv PROVE AllAccountedFor
    OBVIOUS
  <2>1. MigrationInv /\ KnownInv /\ CallsInv /\ LoadInv /\ GivenInv /\ ReportInv /\ OutInv
    BY DEF AnalysisInv
  <2> DEFINE endsWell == phase = "exited" /\ status = 0
  <2>2. ASSUME endsWell \/ \E f \in DOMAIN out : Written(f)
        PROVE  \A i \in DOMAIN call.inputs :
                 GivenBy(call.inputs[i]) \subseteq {runs[k].path : k \in DOMAIN runs}
    <3>1. phase # "idle" /\ Len(runs) = Len(inputs)
      BY <2>1, <2>2 DEF OutInv, LoadInv, CallsInv
    <3>2. DOMAIN runs = DOMAIN inputs
      BY <2>1, <3>1, SequenceIs DEF LoadInv
    <3>3. \A k \in DOMAIN runs : runs[k].path = inputs[k].path
      BY <2>1, LoadedRuns
    <3>4. {inputs[k].path : k \in DOMAIN inputs} = {runs[k].path : k \in DOMAIN runs}
      BY <3>2, <3>3
    <3> QED BY <2>1, <3>1, <3>4 DEF GivenInv
  <2>3. ASSUME endsWell, call.command = "report"
        PROVE  /\ \A q \in ToSet(Outputs) : Written(q.file) <=> q.file \notin skipped
               /\ Written(<<"comparison.csv">>) <=> SameSizes(runs)
    <3>1. ProgressInv /\ phase # "write"
      BY <2>1, <2>3 DEF ReportInv, Reporting
    <3>2. IsSequence(Outputs) /\ Len(Outputs) \in Nat /\ Len(Outputs) > 5
      BY <2>1, OutputsAre
    <3>3. todo = <<>>
      BY <3>1 DEF ProgressInv
    <3>4. Done = Len(Outputs)
      BY <3>2, <3>3 DEF Done
    <3>5. \A q \in ToSet(Outputs) : Written(q.file) <=> q.file \notin skipped
      <4>1. DOMAIN Outputs = 1 .. Len(Outputs)
        BY <3>2, SequenceIs
      <4> QED BY <3>1, <3>4, <4>1 DEF ProgressInv, ToSet
    <3>6. Written(<<"comparison.csv">>) <=> SameSizes(SortedNow)
      BY <3>1, <3>2, <3>4 DEF ProgressInv
    <3>7. SameSizes(SortedNow) <=> SameSizes(runs)
      <4>1. \A i \in DOMAIN runs : KnownRun(runs[i])
        BY <2>1, LoadedRuns
      <4>2. IsSequence(runs)
        BY <2>1 DEF LoadInv
      <4>3. PICK perm : OutputOrder(perm, runs)
        BY <4>1, <4>2, SortedRuns
      <4>4. Len(SortedNow) = Len(runs)
        BY <2>1, OutputsAre
      <4>5. CASE Len(runs) = 2
        <5>1. perm \in [1 .. 2 -> 1 .. 2] /\ perm[1] # perm[2]
          BY <4>3, <4>5 DEF OutputOrder
        <5>2. SortedNow[1] = runs[perm[1]] /\ SortedNow[2] = runs[perm[2]]
          BY <4>3, <4>5 DEF OutputOrder, SortedNow
        <5>3. \/ perm[1] = 1 /\ perm[2] = 2
              \/ perm[1] = 2 /\ perm[2] = 1
          BY <5>1
        <5>4. Halos(SortedNow[1]) = Halos(SortedNow[2]) <=> Halos(runs[1]) = Halos(runs[2])
          BY <5>2, <5>3
        <5> QED BY <4>4, <4>5, <5>4 DEF SameSizes
      <4>6. CASE Len(runs) # 2
        BY <4>4, <4>6 DEF SameSizes
      <4> QED BY <4>5, <4>6
    <3> QED BY <3>5, <3>6, <3>7
  <2>4. Outputs = Requests(sorted_runs_for_output(runs))
    BY DEF Outputs, SortedNow
  <2> QED BY <2>2, <2>3, <2>4 DEF AllAccountedFor, GivenBy, Written, SameSizes
<1> QED BY <1>1, AnalysisAlways, PTL

-----------------------------------------------------------------------------
(* What the commands make of the runs. *)

LEMMA RunsPaired ==
  ASSUME IsSequence(runs) PROVE PairsAreComparable
<1> DEFINE ordered == sorted_runs_for_output(runs)
           pairs == percent_difference_pairs(ordered)
           D == DOMAIN ordered
           key == [i \in D |-> percent_difference_pair_key(ordered[i])]
           Same(i, j) == /\ ordered[i].backend = ordered[j].backend
                         /\ ordered[i].rccl_sync_mode = ordered[j].rccl_sync_mode
                         /\ ordered[i].path = ordered[j].path
           S == {p \in D \X D : After(p[1], p[2]) /\ key[p[1]] = key[p[2]] /\ ~Same(p[1], p[2])}
           Comparable(a, b) ==
             /\ Sizes(a) = Sizes(b) /\ a.nodes = b.nodes /\ a.ranks = b.ranks
             /\ a.rocm_version = b.rocm_version /\ a.system = b.system
             /\ a.cartesian = b.cartesian
           With2(i, j) == {n \in DOMAIN pairs : {pairs[n][1], pairs[n][2]} = {i, j}}
<1>1. PICK n \in Nat : DOMAIN runs = 1 .. n
  BY SequenceIs
<1>2. D = 1 .. n
  BY <1>1 DEF sorted_runs_for_output
<1>3. pairs = Ordered(S, Precedes)
  BY DEF percent_difference_pairs
<1>4. \A i, j \in D : <<i, j>> \in S <=>
        i < j /\ percent_difference_pair_key(ordered[i]) = percent_difference_pair_key(ordered[j])
              /\ ~Same(i, j)
  BY DEF After
<1>5. S \subseteq D \X D /\ \A p \in S : p[1] < p[2]
  BY DEF After
<1> HIDE DEF ordered, pairs, key, S
<1>6. /\ Cardinality(S) \in Nat
      /\ pairs \in [1 .. Cardinality(S) -> S]
      /\ \A x \in S : \E i \in 1 .. Cardinality(S) : pairs[i] = x
      /\ \A i, j \in 1 .. Cardinality(S) : pairs[i] = pairs[j] => i = j
  BY <1>2, <1>3, <1>5, PairsInOrder
<1>7. ASSUME NEW i \in D, NEW j \in D, i < j, ordered[i].path # ordered[j].path
      PROVE  Cardinality(With2(i, j)) = IF Comparable(ordered[i], ordered[j]) THEN 1 ELSE 0
  <2>1. <<i, j>> \in S <=> Comparable(ordered[i], ordered[j])
    BY <1>4, <1>7 DEF percent_difference_pair_key
  <2>2. With2(i, j) = {m \in 1 .. Cardinality(S) : pairs[m] = <<i, j>>}
    <3> SUFFICES ASSUME NEW m \in 1 .. Cardinality(S)
                 PROVE  {pairs[m][1], pairs[m][2]} = {i, j} <=> pairs[m] = <<i, j>>
      BY <1>6
    <3>1. pairs[m] \in S
      BY <1>6
    <3>2. PICK a \in 1 .. n, b \in 1 .. n : pairs[m] = <<a, b>>
      BY <1>2, <1>5, <3>1
    <3>3. a < b
      BY <1>5, <3>1, <3>2
    <3>4. i \in 1 .. n /\ j \in 1 .. n
      BY <1>2
    <3>5. {a, b} = {i, j} <=> a = i /\ b = j
      BY <1>7, <3>3, <3>4
    <3> QED BY <3>2, <3>5
  <2>3. CASE <<i, j>> \in S
    <3>1. PICK m \in 1 .. Cardinality(S) : pairs[m] = <<i, j>>
      BY <1>6, <2>3
    <3>2. With2(i, j) = {m}
      BY <1>6, <2>2, <3>1
    <3> QED BY <2>1, <2>3, <3>2, FS_Singleton
  <2>4. CASE <<i, j>> \notin S
    <3>1. \A m \in 1 .. Cardinality(S) : pairs[m] \in S
      BY <1>6
    <3>2. \A m \in 1 .. Cardinality(S) : pairs[m] # <<i, j>>
      BY <2>4, <3>1
    <3>3. With2(i, j) = {}
      <4> HIDE DEF With2
      <4> QED BY <2>2, <3>2
    <3> QED BY <2>1, <2>4, <3>3, FS_EmptySet
  <2> QED BY <2>3, <2>4
<1> QED BY <1>7 DEF PairsAreComparable, ordered, pairs

\* Of the bundles of a call, any two that can be compared are, in one pair of the
\* report, and no others (percent_difference_pairs on sorted_runs_for_output).
THEOREM PairsAreTheComparable == Spec => []PairsAreComparable
<1>1. AnalysisInv => PairsAreComparable
  BY RunsPaired DEF AnalysisInv, LoadInv
<1> QED BY <1>1, AnalysisAlways, PTL

\* A quotient that is known has no remainder.
LEMMA QuotientIs ==
  ASSUME NEW a \in Nat, NEW b \in Nat, Quotient(a, b) # 0
  PROVE  b # 0 /\ b * Quotient(a, b) = a
<1>1. b # 0 /\ a % b = 0 /\ Quotient(a, b) = a \div b
  BY DEF Quotient
<1>2. b > 0
  BY <1>1
<1>3. a = b * (a \div b) + (a % b)
  BY <1>2
<1>4. a \div b \in Int
  BY <1>2
<1>5. b * (a \div b) \in Int
  BY <1>4
<1> HIDE DEF Quotient
<1>6. b * (a \div b) = a
  BY <1>1, <1>3, <1>5
<1> QED BY <1>1, <1>6

LEMMA SixAreFinite ==
  ASSUME NEW a, NEW b, NEW c, NEW d, NEW e, NEW f
  PROVE  IsFiniteSet({a, b, c, d, e, f} \ {0}) /\ IsFiniteSet({a, b, c} \ {0})
<1>1. IsFiniteSet({a, b, c})
  <2>1. IsFiniteSet({a})
    BY FS_Singleton
  <2>2. IsFiniteSet({a} \cup {b})
    BY <2>1, FS_AddElement
  <2>3. IsFiniteSet(({a} \cup {b}) \cup {c})
    BY <2>2, FS_AddElement
  <2>4. ({a} \cup {b}) \cup {c} = {a, b, c}
    OBVIOUS
  <2> QED BY <2>3, <2>4
<1>2. IsFiniteSet({a, b, c, d, e, f})
  <2>1. IsFiniteSet({a, b, c} \cup {d})
    BY <1>1, FS_AddElement
  <2>2. IsFiniteSet(({a, b, c} \cup {d}) \cup {e})
    BY <2>1, FS_AddElement
  <2>3. IsFiniteSet((({a, b, c} \cup {d}) \cup {e}) \cup {f})
    BY <2>2, FS_AddElement
  <2>4. (({a, b, c} \cup {d}) \cup {e}) \cup {f} = {a, b, c, d, e, f}
    OBVIOUS
  <2> QED BY <2>3, <2>4
<1>3. {a, b, c} \ {0} \subseteq {a, b, c}
  OBVIOUS
<1>4. {a, b, c, d, e, f} \ {0} \subseteq {a, b, c, d, e, f}
  OBVIOUS
<1>5. IsFiniteSet({a, b, c} \ {0})
  BY <1>1, <1>3, FS_Subset
<1>6. IsFiniteSet({a, b, c, d, e, f} \ {0})
  BY <1>2, <1>4, FS_Subset
<1> QED BY <1>5, <1>6

\* What is said of the nodes and of the ranks of each decides both.
LEMMA RunEvidence ==
  ASSUME NEW path \in Paths, NEW bundle, KnownBundle(bundle), load_run(bundle) = "loaded"
  PROVE  LET run == RunAt(path, bundle)
             said == Cardinality(SaysNodes(run)) + Cardinality(SaysPerNode(run))
         IN /\ run.nodes # 0 \/ run.ranks_per_node # 0 => said # 0
            /\ said = 1 /\ run.nodes # 0 /\ run.ranks_per_node # 0 =>
                 run.nodes * run.ranks_per_node = run.ranks
<1> DEFINE run == [path |-> path, bundle |-> bundle, results |-> Source(bundle).results]
           r == RunAt(path, bundle)
           req == Value(run.bundle, "result-metadata.txt", "requested_nodes", 0)
           own == run.results[1].nodes
           sub == Value(run.bundle, "submission.txt", "nodes", 0)
           slurm == SlurmNodes(run)
           env == Value(run.bundle, "environment.txt", "nodes", 0)
           named == path_metadata(run).nodes
           w == nodes_without_derivation(run)
           p1 == run.results[1].perNode
           p2 == Value(run.bundle, "result-metadata.txt", "requested_ranks_per_node", 0)
           p3 == meta_value(run, "ranks_per_node", 0)
           k == ranks_per_node(run)
           n == nodes(run)
           all == ranks(run)
           SN == {req, own, sub, slurm, env, named} \ {0}
           SP == {p1, p2, p3} \ {0}
<1>1. run.path = path /\ run.bundle = bundle /\ run.results = Source(bundle).results
  OBVIOUS
<1>2. KnownResult(run.results[1])
  BY <1>1, SourceType
<1>3. /\ r.path = path /\ r.bundle = bundle /\ r.results = run.results
      /\ r.nodes = n /\ r.ranks = all /\ r.ranks_per_node = k
  BY DEF RunAt
<1>4. SlurmNodes(r) = slurm /\ path_metadata(r) = path_metadata(run)
      /\ meta_value(r, "ranks_per_node", 0) = p3
  BY <1>1, <1>3 DEF SlurmNodes, path_metadata, meta_value
<1>5. SaysNodes(r) = SN
  BY <1>1, <1>3, <1>4 DEF SaysNodes
<1>6. SaysPerNode(r) = SP
  BY <1>1, <1>3, <1>4 DEF SaysPerNode
<1> HIDE DEF run, r
<1>7. /\ req \in Nat /\ own \in Nat /\ sub \in Nat /\ slurm \in Nat /\ env \in Nat /\ named \in Nat
      /\ w \in Nat /\ p1 \in Nat /\ p2 \in Nat /\ p3 \in Nat /\ k \in Nat /\ n \in Nat /\ all \in Nat
      /\ Quotient(all, w) \in Nat /\ Quotient(all, k) \in Nat
  BY <1>1, <1>2, CountsOfRun, SlurmNodesType
<1>8. w = FirstCount(<<own, sub, slurm, env>>)
  BY DEF nodes_without_derivation
<1>9. k = FirstCount(<<p1, p2, p3, Quotient(all, w)>>)
  BY DEF ranks_per_node
<1>10. n = FirstCount(<<req, w, named, Quotient(all, k)>>)
  BY DEF nodes
<1> HIDE DEF req, own, sub, slurm, env, named, w, p1, p2, p3, k, n, all
<1>11. w = IF own # 0 THEN own ELSE IF sub # 0 THEN sub ELSE IF slurm # 0 THEN slurm ELSE env
  BY <1>8, FirstIs
<1>12. k = IF p1 # 0 THEN p1 ELSE IF p2 # 0 THEN p2 ELSE IF p3 # 0 THEN p3 ELSE Quotient(all, w)
  BY <1>9, FirstIs
<1>13. n = IF req # 0 THEN req ELSE IF w # 0 THEN w ELSE IF named # 0 THEN named
           ELSE Quotient(all, k)
  BY <1>10, FirstIs
<1>14. IsFiniteSet(SN) /\ IsFiniteSet(SP)
  BY SixAreFinite
<1>15. /\ SN = {} => w = 0 /\ (n # 0 => n = Quotient(all, k))
       /\ SP = {} => k = Quotient(all, w)
  BY <1>11, <1>12, <1>13
<1>16. \A x : SN = {x} => w \in {0, x} /\ (w = x => n = x)
  BY <1>11, <1>13
<1> HIDE DEF SN, SP
<1>17. /\ Cardinality(SN) \in Nat /\ Cardinality(SP) \in Nat
       /\ Cardinality(SN) = 0 => SN = {}
       /\ Cardinality(SP) = 0 => SP = {}
       /\ Cardinality(SN) = 1 => \E x : SN = {x}
  BY <1>14, FS_CardinalityType, FS_EmptySet, FS_Singleton
<1> DEFINE said == Cardinality(SN) + Cardinality(SP)
<1>18. ASSUME said = 0 PROVE n = 0 /\ k = 0
  <2>1. SN = {} /\ SP = {}
    BY <1>17, <1>18
  <2>2. w = 0 /\ k = Quotient(all, w)
    BY <1>15, <2>1
  <2>3. k = 0
    BY <2>2 DEF Quotient
  <2>4. Quotient(all, k) = 0
    BY <2>3 DEF Quotient
  <2> QED BY <1>15, <2>1, <2>3, <2>4
<1>19. ASSUME said = 1, n # 0, k # 0 PROVE n * k = all
  <2>1. CASE SN = {}
    <3>1. n = Quotient(all, k)
      BY <1>15, <1>19, <2>1
    <3>2. k * n = all
      BY <1>7, <1>19, <3>1, QuotientIs
    <3> QED BY <1>7, <3>2
  <2>2. CASE SN # {}
    <3>1. Cardinality(SN) # 0
      BY <1>14, <2>2, FS_EmptySet
    <3>2. Cardinality(SN) = 1 /\ Cardinality(SP) = 0
      BY <1>17, <1>19, <3>1
    <3>3. PICK x : SN = {x}
      BY <1>17, <3>2
    <3>4. k = Quotient(all, w)
      BY <1>15, <1>17, <3>2
    <3>5. w # 0 /\ w * k = all
      BY <1>7, <1>19, <3>4, QuotientIs
    <3>6. n = w
      BY <1>16, <3>3, <3>5
    <3> QED BY <3>5, <3>6
  <2> QED BY <2>1, <2>2
<1>20. /\ n # 0 \/ k # 0 => said # 0
       /\ said = 1 /\ n # 0 /\ k # 0 => n * k = all
  BY <1>18, <1>19
<1>21. /\ r.nodes # 0 \/ r.ranks_per_node # 0 =>
            Cardinality(SaysNodes(r)) + Cardinality(SaysPerNode(r)) # 0
       /\ Cardinality(SaysNodes(r)) + Cardinality(SaysPerNode(r)) = 1
            /\ r.nodes # 0 /\ r.ranks_per_node # 0 => r.nodes * r.ranks_per_node = r.ranks
  BY <1>3, <1>5, <1>6, <1>20
<1> QED BY <1>21 DEF r

\* Of every run that is loaded, the nodes are told by something, or by its ranks
\* and something that tells how many a node has; one number that is told divides
\* the ranks if the other follows from it (nodes, ranks_per_node).
THEOREM NodesAreNotGuessed == Spec => []NodesAreEvidenced
<1>1. AnalysisInv => NodesAreEvidenced
  <2> SUFFICES ASSUME AnalysisInv, NEW i \in DOMAIN runs
               PROVE  LET n == runs[i].nodes
                          perNode == runs[i].ranks_per_node
                          said == Cardinality(SaysNodes(runs[i])) + Cardinality(SaysPerNode(runs[i]))
                      IN /\ n # 0 \/ perNode # 0 => said # 0
                         /\ said = 1 /\ n # 0 /\ perNode # 0 => n * perNode = runs[i].ranks
    BY DEF NodesAreEvidenced
  <2>1. KnownInv /\ LoadInv
    BY DEF AnalysisInv
  <2> DEFINE run == runs[i]
             path == inputs[i].path
  <2>2. /\ run = RunAt(path, run.bundle) /\ load_run(run.bundle) = "loaded"
        /\ KnownRun(run) /\ run.path = path
    BY <2>1, LoadedRuns DEF LoadInv, LoadedFrom
  <2>3. path \in Paths /\ KnownBundle(run.bundle)
    BY <2>2 DEF KnownRun
  <2> HIDE DEF run, path
  <2>4. LET said == Cardinality(SaysNodes(run)) + Cardinality(SaysPerNode(run))
        IN /\ run.nodes # 0 \/ run.ranks_per_node # 0 => said # 0
           /\ said = 1 /\ run.nodes # 0 /\ run.ranks_per_node # 0 =>
                run.nodes * run.ranks_per_node = run.ranks
    BY <2>2, <2>3, RunEvidence
  <2> QED BY <2>4 DEF run
<1> QED BY <1>1, AnalysisAlways, PTL

InKeyOrder(s) ==
  \A i, j \in DOMAIN s :
    i < j => Precedes(run_output_sort_key(s[i]), run_output_sort_key(s[j]))

\* The same runs can be in the order of their keys in one way only.
LEMMA OneOrder ==
  ASSUME NEW n \in Nat, NEW s, NEW t,
         s = [i \in 1 .. n |-> s[i]], t = [i \in 1 .. n |-> t[i]], ToSet(s) = ToSet(t),
         \A x \in ToSet(s) : KnownRun(x), InKeyOrder(s), InKeyOrder(t)
  PROVE  s = t
<1>1. DOMAIN s = 1 .. n /\ DOMAIN t = 1 .. n
  OBVIOUS
<1>2. \A x \in ToSet(s) : run_output_sort_key(x) \in [1 .. 17 -> Int]
  BY RunKeyType, TupleIs
<1>3. \A x, y \in ToSet(s) :
        ~(Precedes(run_output_sort_key(x), run_output_sort_key(y))
            /\ Precedes(run_output_sort_key(y), run_output_sort_key(x)))
  <2>1. 17 \in Nat
    OBVIOUS
  <2> QED BY <1>2, <2>1, TuplesInOrder
<1>4. /\ \A k \in 1 .. n : s[k] \in ToSet(s) /\ t[k] \in ToSet(s)
      /\ \A k \in 1 .. n : \E j \in 1 .. n : t[k] = s[j]
      /\ \A k \in 1 .. n : \E j \in 1 .. n : s[k] = t[j]
  BY <1>1 DEF ToSet
<1>5. \A k \in 1 .. n : s[k] = t[k]
  <2> DEFINE S == {k \in 1 .. n : s[k] # t[k]}
  <2> SUFFICES ASSUME S # {} PROVE FALSE
    OBVIOUS
  <2>1. S \subseteq Nat
    OBVIOUS
  <2>2. PICK k \in S : \A x \in S : k <= x
    BY <2>1, LeastOf
  <2>3. k \in 1 .. n /\ s[k] # t[k] /\ \A j \in 1 .. n : j < k => s[j] = t[j]
    <3>1. \A j \in 1 .. n : j < k => j \notin S
      BY <2>2
    <3> QED BY <2>2, <3>1
  <2> HIDE DEF S
  <2>4. PICK j \in 1 .. n : t[k] = s[j]
    BY <1>4, <2>3
  <2>5. PICK m \in 1 .. n : s[k] = t[m]
    BY <1>4, <2>3
  <2>6. ~Precedes(run_output_sort_key(t[k]), run_output_sort_key(t[k]))
    BY <1>3, <1>4, <2>3
  <2>7. j > k
    <3>1. j # k
      BY <2>3, <2>4
    <3>2. ~(j < k)
      <4> SUFFICES ASSUME j < k PROVE FALSE
        OBVIOUS
      <4>1. t[j] = t[k]
        BY <2>3, <2>4
      <4>2. Precedes(run_output_sort_key(t[j]), run_output_sort_key(t[k]))
        BY <1>1, <2>3 DEF InKeyOrder
      <4> QED BY <2>6, <4>1, <4>2
    <3> QED BY <2>3, <3>1, <3>2
  <2>8. ~Precedes(run_output_sort_key(s[k]), run_output_sort_key(s[k]))
    BY <1>3, <1>4, <2>3
  <2>9. m > k
    <3>1. m # k
      BY <2>3, <2>5
    <3>2. ~(m < k)
      <4> SUFFICES ASSUME m < k PROVE FALSE
        OBVIOUS
      <4>1. s[m] = s[k]
        BY <2>3, <2>5
      <4>2. Precedes(run_output_sort_key(s[m]), run_output_sort_key(s[k]))
        BY <1>1, <2>3 DEF InKeyOrder
      <4> QED BY <2>8, <4>1, <4>2
    <3> QED BY <2>3, <3>1, <3>2
  <2>10. Precedes(run_output_sort_key(s[k]), run_output_sort_key(t[k]))
    <3>1. Precedes(run_output_sort_key(s[k]), run_output_sort_key(s[j]))
      BY <1>1, <2>3, <2>7 DEF InKeyOrder
    <3> QED BY <2>4, <3>1
  <2>11. Precedes(run_output_sort_key(t[k]), run_output_sort_key(s[k]))
    <3>1. Precedes(run_output_sort_key(t[k]), run_output_sort_key(t[m]))
      BY <1>1, <2>3, <2>9 DEF InKeyOrder
    <3> QED BY <2>5, <3>1
  <2> QED BY <1>3, <1>4, <2>3, <2>10, <2>11
<1> QED BY <1>5

\* Runs of different paths are in the order of their keys.
LEMMA SortedKeys ==
  ASSUME NEW rs, IsSequence(rs), \A i \in DOMAIN rs : KnownRun(rs[i]),
         \A i, j \in DOMAIN rs : rs[i].path = rs[j].path => i = j
  PROVE  LET ordered == sorted_runs_for_output(rs)
         IN /\ ordered = [i \in 1 .. Len(rs) |-> ordered[i]]
            /\ ToSet(ordered) = ToSet(rs) /\ InKeyOrder(ordered)
<1> DEFINE ordered == sorted_runs_for_output(rs)
           D == 1 .. Len(rs)
<1>1. DOMAIN rs = D /\ Len(rs) \in Nat
  BY SequenceIs
<1>2. PICK perm : OutputOrder(perm, rs)
  BY SortedRuns
<1>3. /\ perm \in [D -> D]
      /\ \A i \in D : \E k \in D : perm[k] = i
      /\ \A i, j \in D : perm[i] = perm[j] => i = j
      /\ ordered = [k \in D |-> rs[perm[k]]]
  BY <1>2 DEF OutputOrder
<1>4. \A i, j \in D : i < j =>
        \/ Precedes(run_output_sort_key(rs[perm[i]]), run_output_sort_key(rs[perm[j]]))
        \/ run_output_sort_key(rs[perm[i]]) = run_output_sort_key(rs[perm[j]])
  BY <1>2 DEF OutputOrder
<1> HIDE DEF ordered
<1>5. ordered = [k \in D |-> ordered[k]] /\ DOMAIN ordered = D
  BY <1>3
<1>6. \A k \in D : ordered[k] = rs[perm[k]] /\ perm[k] \in D
  BY <1>3
<1>7. ToSet(ordered) = ToSet(rs)
  <2>1. ASSUME NEW x \in ToSet(ordered) PROVE x \in ToSet(rs)
    <3>1. PICK k \in D : x = ordered[k]
      BY <1>5 DEF ToSet
    <3> QED BY <1>1, <1>6, <3>1 DEF ToSet
  <2>2. ASSUME NEW x \in ToSet(rs) PROVE x \in ToSet(ordered)
    <3>1. PICK i \in D : x = rs[i]
      BY <1>1 DEF ToSet
    <3>2. PICK k \in D : perm[k] = i
      BY <1>3
    <3> QED BY <1>5, <1>6, <3>1, <3>2 DEF ToSet
  <2> QED BY <2>1, <2>2
<1>8. ASSUME NEW a \in D, NEW b \in D, run_output_sort_key(rs[a]) = run_output_sort_key(rs[b])
      PROVE  a = b
  <2> DEFINE p == rs[a].path
             q == rs[b].path
  <2>1. p \in Paths /\ q \in Paths
    BY <1>1 DEF KnownRun
  <2>2. \A i \in 1 .. 7 : PathKey(p)[i] = PathKey(q)[i]
    <3>1. KnownRun(rs[a]) /\ KnownRun(rs[b])
      BY <1>1
    <3>2. \A i \in 1 .. 7 : run_output_sort_key(rs[a])[10 + i] = PathKey(p)[i]
      BY <3>1, RunKeyType
    <3>3. \A i \in 1 .. 7 : run_output_sort_key(rs[b])[10 + i] = PathKey(q)[i]
      BY <3>1, RunKeyType
    <3> QED BY <1>8, <3>2, <3>3
  <2>3. PathKey(p) \in [1 .. 7 -> Int] /\ PathKey(q) \in [1 .. 7 -> Int]
    BY <2>1, PathKeyType, TupleIs
  <2>4. PathKey(p) = PathKey(q)
    <3> DEFINE S == 1 .. 7
    <3>1. \A f, g \in [S -> Int] : (\A i \in S : f[i] = g[i]) => f = g
      <4> HIDE DEF S
      <4> QED OBVIOUS
    <3> HIDE DEF p, q
    <3> QED BY <2>2, <2>3, <3>1
  <2>5. p = q
    BY <2>1, <2>4, PathKeyOfOne
  <2> QED BY <1>1, <2>5
<1>9. InKeyOrder(ordered)
  <2> SUFFICES ASSUME NEW i \in D, NEW j \in D, i < j
               PROVE  Precedes(run_output_sort_key(ordered[i]), run_output_sort_key(ordered[j]))
    BY <1>5 DEF InKeyOrder
  <2>1. perm[i] \in D /\ perm[j] \in D /\ perm[i] # perm[j]
    <3>1. i # j
      BY <1>1
    <3> HIDE DEF D
    <3> QED BY <1>3, <3>1
  <2>2. run_output_sort_key(rs[perm[i]]) # run_output_sort_key(rs[perm[j]])
    BY <1>8, <2>1
  <2> QED BY <1>4, <1>6, <2>2
<1> QED BY <1>5, <1>7, <1>9 DEF ordered

\* The order does not depend on that of the arguments.
LEMMA SortedReverse ==
  ASSUME NEW rs, IsSequence(rs), \A i \in DOMAIN rs : KnownRun(rs[i]),
         \A i, j \in DOMAIN rs : rs[i].path = rs[j].path => i = j
  PROVE  sorted_runs_for_output(Reverse(rs)) = sorted_runs_for_output(rs)
<1> DEFINE back == Reverse(rs)
           n == Len(rs)
<1>1. DOMAIN rs = 1 .. n /\ n \in Nat
  BY SequenceIs
<1>2. back = [i \in 1 .. n |-> rs[(n - i) + 1]]
  BY DEF Reverse
<1> HIDE DEF back, n
<1>3. /\ back = [i \in 1 .. n |-> back[i]] /\ DOMAIN back = 1 .. n
      /\ \A i \in 1 .. n : back[i] = rs[(n - i) + 1] /\ (n - i) + 1 \in 1 .. n
  BY <1>1, <1>2
<1>4. IsSequence(back) /\ Len(back) = n
  BY <1>1, <1>3, FunctionIsSequence
<1>5. ToSet(back) = ToSet(rs)
  <2>1. ASSUME NEW x \in ToSet(back) PROVE x \in ToSet(rs)
    BY <1>1, <1>3 DEF ToSet
  <2>2. ASSUME NEW x \in ToSet(rs) PROVE x \in ToSet(back)
    <3>1. PICK i \in 1 .. n : x = rs[i]
      BY <1>1 DEF ToSet
    <3>2. (n - i) + 1 \in 1 .. n /\ (n - ((n - i) + 1)) + 1 = i
      BY <1>1
    <3>3. back[(n - i) + 1] = rs[i]
      BY <1>3, <3>2
    <3> QED BY <1>3, <3>1, <3>2, <3>3 DEF ToSet
  <2> QED BY <2>1, <2>2
<1>6. \A i \in DOMAIN back : KnownRun(back[i])
  BY <1>1, <1>3
<1>7. \A i, j \in DOMAIN back : back[i].path = back[j].path => i = j
  <2> SUFFICES ASSUME NEW i \in 1 .. n, NEW j \in 1 .. n, back[i].path = back[j].path
               PROVE  i = j
    BY <1>3
  <2>1. (n - i) + 1 = (n - j) + 1
    BY <1>1, <1>3
  <2> QED BY <1>1, <2>1
<1> DEFINE s == sorted_runs_for_output(back)
           t == sorted_runs_for_output(rs)
<1>8. /\ s = [i \in 1 .. n |-> s[i]] /\ ToSet(s) = ToSet(rs) /\ InKeyOrder(s)
  BY <1>4, <1>5, <1>6, <1>7, SortedKeys
<1>9. /\ t = [i \in 1 .. n |-> t[i]] /\ ToSet(t) = ToSet(rs) /\ InKeyOrder(t)
  BY SortedKeys DEF n
<1>10. \A x \in ToSet(rs) : KnownRun(x)
  BY DEF ToSet
<1> HIDE DEF s, t
<1>11. s = t
  BY <1>1, <1>8, <1>9, <1>10, OneOrder
<1> QED BY <1>11 DEF s, t, back

LEMMA PairPrecedes ==
  ASSUME NEW a \in Nat, NEW b \in Nat, NEW c \in Nat, NEW d \in Nat
  PROVE  /\ Precedes(<<a, b>>, <<c, d>>) <=> a < c \/ (a = c /\ b < d)
         /\ <<a, b>> = <<c, d>> <=> a = c /\ b = d
<1> DEFINE x == <<a, b>>
           y == <<c, d>>
<1>1. Len(x) = 2 /\ x[1] = a /\ x[2] = b /\ y[1] = c /\ y[2] = d
  OBVIOUS
<1>2. x = y <=> a = c /\ b = d
  OBVIOUS
<1> HIDE DEF x, y
<1>3. Precedes(x, y) <=> x[1] < y[1] \/ (x[2] < y[2] /\ x[1] = y[1])
  <2>1. Precedes(x, y) <=> \E i \in 1 .. 2 : x[i] < y[i] /\ \A j \in 1 .. i - 1 : x[j] = y[j]
    BY <1>1 DEF Precedes
  <2>2. \A i \in 1 .. 2 : i = 1 \/ i = 2
    OBVIOUS
  <2>3. \A j \in 1 .. 1 - 1 : FALSE
    OBVIOUS
  <2>4. \A j : j \in 1 .. 2 - 1 <=> j = 1
    OBVIOUS
  <2> QED BY <2>1, <2>2, <2>3, <2>4
<1> QED BY <1>1, <1>2, <1>3 DEF x, y

\* The baseline: of the runs whose nodes are known, or of all, the smallest.
LEMMA SmallestIs ==
  ASSUME NEW rs, IsSequence(rs), rs # <<>>,
         \A i \in DOMAIN rs : rs[i].nodes \in Nat /\ rs[i].ranks \in Nat
  PROVE  \E c \in DOMAIN rs :
           /\ smallest_nodes(rs) = rs[c]
           /\ \A i \in DOMAIN rs : rs[i].nodes # 0 => rs[c].nodes \in 1 .. rs[i].nodes
           /\ rs[c].nodes = 0 => \A i \in DOMAIN rs : rs[c].ranks <= rs[i].ranks
<1> DEFINE known == {i \in DOMAIN rs : rs[i].nodes # 0}
           least == [i \in DOMAIN rs |-> IF known # {} THEN rs[i].nodes ELSE 0]
           Key(i) == IF known # {} THEN <<rs[i].nodes, rs[i].ranks>> ELSE <<0, rs[i].ranks>>
           candidates == IF known # {} THEN known ELSE DOMAIN rs
           Smallest(i) == \A j \in candidates :
                            Precedes(Key(i), Key(j)) \/ (Key(i) = Key(j) /\ i <= j)
           c == CHOOSE i \in candidates : Smallest(i)
<1>1. DOMAIN rs = 1 .. Len(rs) /\ Len(rs) \in Nat /\ Len(rs) # 0
  BY SequenceIs
<1>2. candidates \subseteq DOMAIN rs /\ DOMAIN rs \subseteq Nat /\ candidates # {}
  <2>1. 1 \in DOMAIN rs
    BY <1>1
  <2> QED BY <1>1, <2>1
<1>3. \A i \in DOMAIN rs : least[i] \in Nat /\ Key(i) = <<least[i], rs[i].ranks>>
  OBVIOUS
<1>4. smallest_nodes(rs) = rs[c]
  BY DEF smallest_nodes
<1>5. /\ known # {} => candidates = known /\ \A i \in DOMAIN rs : least[i] = rs[i].nodes
      /\ known = {} => candidates = DOMAIN rs
      /\ \A i \in DOMAIN rs : i \in known <=> rs[i].nodes # 0
  OBVIOUS
<1> HIDE DEF known, least, candidates, Key
<1>6. \A i, j \in candidates :
        /\ Precedes(Key(i), Key(j)) <=>
             least[i] < least[j] \/ (least[i] = least[j] /\ rs[i].ranks < rs[j].ranks)
        /\ Key(i) = Key(j) <=> least[i] = least[j] /\ rs[i].ranks = rs[j].ranks
  <2> SUFFICES ASSUME NEW i \in candidates, NEW j \in candidates
               PROVE  /\ Precedes(Key(i), Key(j)) <=>
                           least[i] < least[j] \/ (least[i] = least[j] /\ rs[i].ranks < rs[j].ranks)
                      /\ Key(i) = Key(j) <=> least[i] = least[j] /\ rs[i].ranks = rs[j].ranks
    OBVIOUS
  <2>1. PICK a, b : a = least[i] /\ b = rs[i].ranks
    OBVIOUS
  <2>2. PICK d, e : d = least[j] /\ e = rs[j].ranks
    OBVIOUS
  <2>3. a \in Nat /\ b \in Nat /\ d \in Nat /\ e \in Nat
    BY <1>2, <1>3, <2>1, <2>2
  <2>4. Key(i) = <<a, b>> /\ Key(j) = <<d, e>>
    BY <1>2, <1>3, <2>1, <2>2
  <2>5. /\ Precedes(<<a, b>>, <<d, e>>) <=> a < d \/ (a = d /\ b < e)
        /\ <<a, b>> = <<d, e>> <=> a = d /\ b = e
    BY <2>3, PairPrecedes
  <2> QED BY <2>1, <2>2, <2>4, <2>5
<1>7. \E i \in candidates : Smallest(i)
  <2> DEFINE A == {least[i] : i \in candidates}
  <2>1. A \subseteq Nat /\ A # {}
    BY <1>2, <1>3
  <2>2. PICK a \in A : \A x \in A : a <= x
    BY <2>1, LeastOf
  <2> DEFINE B == {rs[i].ranks : i \in {j \in candidates : least[j] = a}}
  <2>3. B \subseteq Nat /\ B # {}
    BY <1>2, <2>2
  <2>4. PICK b \in B : \A x \in B : b <= x
    BY <2>3, LeastOf
  <2> DEFINE C == {i \in candidates : least[i] = a /\ rs[i].ranks = b}
  <2>5. C \subseteq Nat /\ C # {}
    BY <1>2, <2>4
  <2>6. PICK i \in C : \A x \in C : i <= x
    BY <2>5, LeastOf
  <2>7. i \in candidates /\ least[i] = a /\ rs[i].ranks = b
    BY <2>6
  <2>8. ASSUME NEW j \in candidates
        PROVE  Precedes(Key(i), Key(j)) \/ (Key(i) = Key(j) /\ i <= j)
    <3>1. a <= least[j] /\ (least[j] = a => b <= rs[j].ranks)
      BY <2>2, <2>4
    <3>2. least[j] = a /\ rs[j].ranks = b => i <= j
      BY <2>6
    <3>3. a \in Nat /\ b \in Nat /\ least[j] \in Nat /\ rs[j].ranks \in Nat
      BY <1>2, <1>3, <2>1, <2>3
    <3>4. \/ a < least[j]
          \/ a = least[j] /\ b < rs[j].ranks
          \/ a = least[j] /\ b = rs[j].ranks /\ i <= j
      BY <3>1, <3>2, <3>3
    <3> QED BY <1>6, <2>7, <3>4
  <2> QED BY <2>7, <2>8
<1>8. c \in candidates /\ Smallest(c)
  BY <1>7
<1> HIDE DEF c
<1>9. ASSUME NEW j \in candidates
      PROVE  least[c] <= least[j] /\ (least[c] = least[j] => rs[c].ranks <= rs[j].ranks)
  <2>1. least[c] \in Nat /\ least[j] \in Nat /\ rs[c].ranks \in Nat /\ rs[j].ranks \in Nat
    BY <1>2, <1>3, <1>8
  <2> QED BY <1>6, <1>8, <2>1
<1>10. c \in DOMAIN rs
  BY <1>2, <1>8
<1>11. CASE known # {}
  <2>1. \A i \in DOMAIN rs : rs[i].nodes # 0 => rs[c].nodes <= rs[i].nodes
    BY <1>5, <1>9, <1>10, <1>11
  <2>2. rs[c].nodes # 0 /\ rs[c].nodes \in Nat
    BY <1>5, <1>8, <1>10, <1>11
  <2>3. \A i \in DOMAIN rs : rs[i].nodes # 0 => rs[c].nodes \in 1 .. rs[i].nodes
    BY <2>1, <2>2
  <2> QED BY <1>4, <1>10, <2>2, <2>3
<1>12. CASE known = {}
  <2>1. \A i \in DOMAIN rs : rs[i].nodes = 0
    BY <1>5, <1>12
  <2>2. \A i \in DOMAIN rs : least[i] = 0
    BY <1>12 DEF least
  <2>3. \A i \in DOMAIN rs : rs[c].ranks <= rs[i].ranks
    BY <1>5, <1>9, <1>10, <1>12, <2>2
  <2> QED BY <1>4, <1>10, <2>1, <2>3
<1> QED BY <1>11, <1>12

\* As many paths as runs: no path twice.
LEMMA PathsDiffer ==
  ASSUME NEW rs, IsSequence(rs), Cardinality({rs[i].path : i \in DOMAIN rs}) = Len(rs)
  PROVE  \A i, j \in DOMAIN rs : rs[i].path = rs[j].path => i = j
<1>1. PICK n \in Nat : n = Len(rs) /\ DOMAIN rs = 1 .. n
  BY SequenceIs
<1> DEFINE T == {rs[i].path : i \in DOMAIN rs}
           f == [i \in 1 .. n |-> rs[i].path]
<1>2. IsFiniteSet(1 .. n) /\ Cardinality(1 .. n) = n
  BY FS_Interval
<1>3. f \in Surjection(1 .. n, T)
  BY <1>1 DEF Surjection
<1>4. Cardinality(1 .. n) = Cardinality(T)
  BY <1>1, <1>2
<1> HIDE DEF f, T
<1>5. f \in Injection(1 .. n, T)
  BY <1>2, <1>3, <1>4, FS_SurjSameCardinalityImpliesInj
<1>6. \A i, j \in 1 .. n : f[i] = f[j] => i = j
  BY <1>5 DEF Injection, IsInjective
<1> QED BY <1>1, <1>6 DEF f

\* The order of the output, and with it the baseline of a scaling and its rows, is
\* that of the runs, not of the arguments (sorted_runs_for_output, smallest_nodes,
\* scaling_rows, choose_scaling_x_axis).
THEOREM OutputIsInOrder == Spec => []RunsInOrder
<1>1. AnalysisInv => RunsInOrder
  <2> SUFFICES ASSUME AnalysisInv, phase = "loaded",
                      Cardinality({runs[i].path : i \in DOMAIN runs}) = Len(runs)
               PROVE  RunsInOrder
    BY DEF RunsInOrder
  <2> DEFINE ordered == sorted_runs_for_output(runs)
             baseline == smallest_nodes(ordered)
             rows == scaling_rows(runs, baseline)
  <2>1. KnownInv /\ LoadInv /\ GivenInv
    BY DEF AnalysisInv
  <2>2. IsSequence(runs) /\ IsSequence(inputs) /\ Len(runs) = Len(inputs) /\ inputs # <<>>
    BY <2>1 DEF LoadInv, GivenInv
  <2>3. \A i \in DOMAIN runs : KnownRun(runs[i])
    BY <2>1, LoadedRuns
  <2>4. \A i, j \in DOMAIN runs : runs[i].path = runs[j].path => i = j
    BY <2>2, PathsDiffer
  <2>5. sorted_runs_for_output(Reverse(runs)) = ordered
    BY <2>2, <2>3, <2>4, SortedReverse
  <2>6. ToSet(ordered) = ToSet(runs) /\ ordered = [i \in 1 .. Len(runs) |-> ordered[i]]
    BY <2>2, <2>3, <2>4, SortedKeys
  <2>7. Len(runs) \in Nat /\ Len(runs) # 0
    BY <2>2, SequenceIs
  <2>8. rows = UNION {{[run |-> i, nodes |-> ordered[i].nodes, ranks |-> ordered[i].ranks,
                        halo |-> r.halo, seconds |-> r.seconds,
                        base |-> At(baseline, r.halo).seconds] :
                       r \in {r \in ToSet(ordered[i].results) : r.halo \in Halos(baseline)}} :
                      i \in DOMAIN ordered}
    BY DEF scaling_rows
  <2> HIDE DEF ordered, rows
  <2>9. IsSequence(ordered) /\ Len(ordered) = Len(runs) /\ ordered # <<>>
    <3>1. IsSequence(ordered) /\ Len(ordered) = Len(runs)
      BY <2>6, <2>7, FunctionIsSequence
    <3> QED BY <2>7, <3>1, SequenceIs
  <2>10. /\ \A k \in DOMAIN ordered : \E i \in DOMAIN runs : ordered[k] = runs[i]
         /\ \A i \in DOMAIN runs : \E k \in DOMAIN ordered : runs[i] = ordered[k]
    <3>1. ASSUME NEW k \in DOMAIN ordered PROVE \E i \in DOMAIN runs : ordered[k] = runs[i]
      <4>1. ordered[k] \in ToSet(runs)
        BY <2>6 DEF ToSet
      <4> QED BY <4>1 DEF ToSet
    <3>2. ASSUME NEW i \in DOMAIN runs PROVE \E k \in DOMAIN ordered : runs[i] = ordered[k]
      <4>1. runs[i] \in ToSet(ordered)
        BY <2>6 DEF ToSet
      <4> QED BY <4>1 DEF ToSet
    <3> QED BY <3>1, <3>2
  <2>11. \A k \in DOMAIN ordered : ordered[k].nodes \in Nat /\ ordered[k].ranks \in Nat
    BY <2>3, <2>10 DEF KnownRun
  <2>12. PICK c \in DOMAIN ordered :
           /\ baseline = ordered[c]
           /\ \A i \in DOMAIN ordered : ordered[i].nodes # 0 => ordered[c].nodes \in 1 .. ordered[i].nodes
           /\ ordered[c].nodes = 0 => \A i \in DOMAIN ordered : ordered[c].ranks <= ordered[i].ranks
    BY <2>9, <2>11, SmallestIs
  <2> HIDE DEF baseline
  <2>13. \A i \in DOMAIN runs : runs[i].nodes # 0 => baseline.nodes \in 1 .. runs[i].nodes
    BY <2>10, <2>12
  <2>14. baseline.nodes = 0 => \A i \in DOMAIN runs : baseline.ranks <= runs[i].ranks
    BY <2>10, <2>12
  <2>15. ASSUME NEW h \in Halos(baseline)
         PROVE  \E row \in rows : row.halo = h /\ row.seconds = row.base /\ row.nodes = baseline.nodes
    <3> DEFINE r == At(baseline, h)
               row == [run |-> c, nodes |-> ordered[c].nodes, ranks |-> ordered[c].ranks,
                       halo |-> r.halo, seconds |-> r.seconds,
                       base |-> At(baseline, r.halo).seconds]
    <3>1. \E x \in ToSet(baseline.results) : x.halo = h
      BY DEF Halos, ToSet
    <3>2. r \in ToSet(baseline.results) /\ r.halo = h
      BY <3>1 DEF At
    <3>3. row \in rows
      <4>1. r \in ToSet(ordered[c].results) /\ r.halo \in Halos(baseline)
        BY <2>12, <3>2
      <4> DEFINE S == {x \in ToSet(ordered[c].results) : x.halo \in Halos(baseline)}
                 Row(x) == [run |-> c, nodes |-> ordered[c].nodes, ranks |-> ordered[c].ranks,
                            halo |-> x.halo, seconds |-> x.seconds,
                            base |-> At(baseline, x.halo).seconds]
      <4>2. {Row(x) : x \in S} \subseteq rows
        BY <2>8
      <4>3. r \in S
        BY <4>1
      <4> HIDE DEF r, S
      <4>4. Row(r) \in {Row(x) : x \in S}
        BY <4>3
      <4> QED BY <4>2, <4>4
    <3>4. row.halo = h /\ row.seconds = r.seconds /\ row.base = At(baseline, h).seconds
          /\ row.nodes = baseline.nodes
      BY <2>12, <3>2
    <3> QED BY <3>3, <3>4
  <2>16. ASSUME choose_scaling_x_axis(runs, "auto") = "nodes", NEW row \in rows
         PROVE  row.nodes # 0
    <3>1. \A i \in DOMAIN runs : runs[i].nodes # 0
      BY <2>16 DEF choose_scaling_x_axis
    <3>2. PICK i \in DOMAIN ordered : row.nodes = ordered[i].nodes
      BY <2>8
    <3> QED BY <2>10, <3>1, <3>2
  <2> QED BY <2>5, <2>13, <2>14, <2>15, <2>16 DEF RunsInOrder, ordered, baseline, rows
<1> QED BY <1>1, AnalysisAlways, PTL

-----------------------------------------------------------------------------
(* Phases. *)

\* What the phases under their names, the total and what they leave of it say.
LEMMA TotalIs ==
  ASSUME NEW r, NEW phases, NEW v, NEW total, r.phases = WithTotal(phases, v, total),
         "total_exchange" \notin DOMAIN phases,
         "total_minus_sum_of_phase_maxima" \notin DOMAIN phases
  PROVE  /\ \A name \in DOMAIN phases : Phase(r, name) = phases[name]
         /\ Phase(r, "total_exchange") = total
         /\ Phase(r, "total_minus_sum_of_phase_maxima") = total - SumFunction(v)
         /\ \A name : name \notin DOMAIN phases
                        /\ name \notin {"total_exchange", "total_minus_sum_of_phase_maxima",
                                        "unattributed"} => Phase(r, name) = 0
<1> DEFINE D == DOMAIN phases \cup {"total_exchange", "total_minus_sum_of_phase_maxima", "unattributed"}
<1>1. /\ DOMAIN r.phases = D
      /\ \A name \in D : r.phases[name] =
           IF name \in DOMAIN phases THEN phases[name]
           ELSE IF name = "total_exchange" THEN total ELSE total - SumFunction(v)
  BY DEF WithTotal
<1>2. \A name : Phase(r, name) = IF name \in D THEN r.phases[name] ELSE 0
  BY <1>1 DEF Phase
<1> QED BY <1>1, <1>2

LEMMA SumOfSeven ==
  ASSUME NEW v \in [1 .. 7 -> Nat]
  PROVE  SumFunction(v) = v[1] + v[2] + v[3] + v[4] + v[5] + v[6] + v[7]
<1>1. PICK t \in [0 .. 7 -> Nat] :
        t[0] = 0 /\ t[7] = SumFunction(v) /\ \A k \in 1 .. 7 : t[k] = t[k - 1] + v[k]
  <2> DEFINE n == 7
  <2>1. n \in Nat /\ v \in [1 .. n -> Nat]
    OBVIOUS
  <2> HIDE DEF n
  <2>2. \E t \in [0 .. n -> Nat] :
          t[0] = 0 /\ t[n] = SumFunction(v) /\ \A k \in 1 .. n : t[k] = t[k - 1] + v[k]
    BY <2>1, SumSteps
  <2> QED BY <2>2 DEF n
<1>2. /\ t[1] = t[0] + v[1] /\ t[2] = t[1] + v[2] /\ t[3] = t[2] + v[3] /\ t[4] = t[3] + v[4]
      /\ t[5] = t[4] + v[5] /\ t[6] = t[5] + v[6] /\ t[7] = t[6] + v[7]
  BY <1>1
<1>3. \A k \in 1 .. 7 : v[k] \in Nat
  OBVIOUS
<1> QED BY <1>1, <1>2, <1>3

LEMMA SumOfSix ==
  ASSUME NEW v \in [1 .. 6 -> Nat]
  PROVE  SumFunction(v) = v[1] + v[2] + v[3] + v[4] + v[5] + v[6]
<1>1. PICK t \in [0 .. 6 -> Nat] :
        t[0] = 0 /\ t[6] = SumFunction(v) /\ \A k \in 1 .. 6 : t[k] = t[k - 1] + v[k]
  <2> DEFINE n == 6
  <2>1. n \in Nat /\ v \in [1 .. n -> Nat]
    OBVIOUS
  <2> HIDE DEF n
  <2>2. \E t \in [0 .. n -> Nat] :
          t[0] = 0 /\ t[n] = SumFunction(v) /\ \A k \in 1 .. n : t[k] = t[k - 1] + v[k]
    BY <2>1, SumSteps
  <2> QED BY <2>2 DEF n
<1>2. /\ t[1] = t[0] + v[1] /\ t[2] = t[1] + v[2] /\ t[3] = t[2] + v[3]
      /\ t[4] = t[3] + v[4] /\ t[5] = t[4] + v[5] /\ t[6] = t[5] + v[6]
  BY <1>1
<1>3. \A k \in 1 .. 6 : v[k] \in Nat
  OBVIOUS
<1> QED BY <1>1, <1>2, <1>3

LEMMA SumOfFour ==
  ASSUME NEW v \in [1 .. 4 -> Nat]
  PROVE  SumFunction(v) = v[1] + v[2] + v[3] + v[4]
<1>1. PICK t \in [0 .. 4 -> Nat] :
        t[0] = 0 /\ t[4] = SumFunction(v) /\ \A k \in 1 .. 4 : t[k] = t[k - 1] + v[k]
  <2> DEFINE n == 4
  <2>1. n \in Nat /\ v \in [1 .. n -> Nat]
    OBVIOUS
  <2> HIDE DEF n
  <2>2. \E t \in [0 .. n -> Nat] :
          t[0] = 0 /\ t[n] = SumFunction(v) /\ \A k \in 1 .. n : t[k] = t[k - 1] + v[k]
    BY <2>1, SumSteps
  <2> QED BY <2>2 DEF n
<1>2. t[1] = t[0] + v[1] /\ t[2] = t[1] + v[2] /\ t[3] = t[2] + v[3] /\ t[4] = t[3] + v[4]
  BY <1>1
<1>3. \A k \in 1 .. 4 : v[k] \in Nat
  OBVIOUS
<1> QED BY <1>1, <1>2, <1>3

\* What the categories and the enqueue phases of a result add up to.
AddedUp(r) ==
  LET c == phase_categories(r)
  IN c.device_copy + c.communication + c.synchronization + c.remainder
       + (Phase(r, "north_south_communication_enqueue") + Phase(r, "transpose_copy_enqueue")
            + Phase(r, "east_west_communication_enqueue"))

\* The phases by their names, where a generic one is not zero.
LEMMA AddedUpIs ==
  ASSUME NEW r, HasGenericPhase(r)
  PROVE  AddedUp(r) =
           (Phase(r, "input_device_copy")
              + Or(Phase(r, "transpose_copy"), Phase(r, "transpose_device_copy")))
           + (Or(Phase(r, "north_south_communication"), Phase(r, "north_south_mpi"))
                + Or(Phase(r, "east_west_communication"), Phase(r, "east_west_mpi")))
           + (Phase(r, "north_south_sync")
                + Or(Phase(r, "transpose_sync"), Phase(r, "transpose_copy_sync"))
                + Phase(r, "east_west_sync") + Phase(r, "final_stream_sync"))
           + Phase(r, "total_minus_sum_of_phase_maxima")
           + (Phase(r, "north_south_communication_enqueue") + Phase(r, "transpose_copy_enqueue")
                + Phase(r, "east_west_communication_enqueue"))
  BY Zenon DEF AddedUp, phase_categories

LEMMA MpiHipAddsUp ==
  ASSUME NEW r, NEW v \in [1 .. 7 -> Nat], NEW total \in Int, total # 0,
         r.phases = mpi_hip_phases(v, total)
  PROVE  AddedUp(r) = total
<1> DEFINE phases ==
      [input_device_copy |-> v[1], north_south_sync |-> v[2], east_west_sync |-> v[3],
       north_south_mpi |-> v[4], transpose_device_copy |-> v[5],
       transpose_copy_sync |-> v[6], east_west_mpi |-> v[7],
       north_south_communication |-> v[4], transpose_copy |-> v[5],
       transpose_sync |-> v[6], east_west_communication |-> v[7]]
<1>1. r.phases = WithTotal(phases, v, total)
  BY DEF mpi_hip_phases
<1>2. DOMAIN phases = {"input_device_copy", "north_south_sync", "east_west_sync",
        "north_south_mpi", "transpose_device_copy", "transpose_copy_sync", "east_west_mpi",
        "north_south_communication", "transpose_copy", "transpose_sync",
        "east_west_communication"}
  OBVIOUS
<1>3. /\ phases["input_device_copy"] = v[1] /\ phases["north_south_sync"] = v[2]
      /\ phases["east_west_sync"] = v[3] /\ phases["north_south_mpi"] = v[4]
      /\ phases["transpose_device_copy"] = v[5] /\ phases["transpose_copy_sync"] = v[6]
      /\ phases["east_west_mpi"] = v[7] /\ phases["north_south_communication"] = v[4]
      /\ phases["transpose_copy"] = v[5] /\ phases["transpose_sync"] = v[6]
      /\ phases["east_west_communication"] = v[7]
  OBVIOUS
<1> HIDE DEF phases
<1>4. /\ \A name \in DOMAIN phases : Phase(r, name) = phases[name]
      /\ Phase(r, "total_exchange") = total
      /\ Phase(r, "total_minus_sum_of_phase_maxima") = total - SumFunction(v)
      /\ \A name : name \notin DOMAIN phases
                     /\ name \notin {"total_exchange", "total_minus_sum_of_phase_maxima",
                                     "unattributed"} => Phase(r, name) = 0
  BY <1>1, <1>2, TotalIs
<1>5. /\ Phase(r, "input_device_copy") = v[1] /\ Phase(r, "north_south_sync") = v[2]
      /\ Phase(r, "east_west_sync") = v[3] /\ Phase(r, "north_south_mpi") = v[4]
      /\ Phase(r, "transpose_device_copy") = v[5] /\ Phase(r, "transpose_copy_sync") = v[6]
      /\ Phase(r, "east_west_mpi") = v[7] /\ Phase(r, "north_south_communication") = v[4]
      /\ Phase(r, "transpose_copy") = v[5] /\ Phase(r, "transpose_sync") = v[6]
      /\ Phase(r, "east_west_communication") = v[7]
  BY <1>2, <1>3, <1>4
<1>6. /\ Phase(r, "final_stream_sync") = 0 /\ Phase(r, "transpose_copy_enqueue") = 0
      /\ Phase(r, "north_south_communication_enqueue") = 0
      /\ Phase(r, "east_west_communication_enqueue") = 0
  BY <1>2, <1>4
<1>7. HasGenericPhase(r)
  BY <1>4 DEF HasGenericPhase
<1>8. /\ v[1] \in Nat /\ v[2] \in Nat /\ v[3] \in Nat /\ v[4] \in Nat
      /\ v[5] \in Nat /\ v[6] \in Nat /\ v[7] \in Nat
  OBVIOUS
<1>9. AddedUp(r) = (v[1] + v[5]) + (v[4] + v[7]) + (v[2] + v[6] + v[3] + 0)
                     + (total - SumFunction(v)) + (0 + 0 + 0)
  BY <1>4, <1>5, <1>6, <1>7, AddedUpIs DEF Or
<1> QED BY <1>8, <1>9, SumOfSeven

LEMMA RcclAddsUp ==
  ASSUME NEW r, NEW v \in [1 .. 6 -> Nat], NEW total \in Int, total # 0,
         r.phases = rccl_phases(v, total)
  PROVE  AddedUp(r) = total
<1> DEFINE phases ==
      [north_south_communication |-> v[1],
       north_south_sync |-> v[2],
       transpose_copy |-> v[3],
       transpose_sync |-> v[4],
       east_west_communication |-> v[5],
       east_west_sync |-> v[6]]
<1>1. r.phases = WithTotal(phases, v, total)
  BY DEF rccl_phases
<1>2. DOMAIN phases = {"north_south_communication",
        "north_south_sync",
        "transpose_copy",
        "transpose_sync",
        "east_west_communication",
        "east_west_sync"}
  OBVIOUS
<1>3. /\ phases["north_south_communication"] = v[1]
      /\ phases["north_south_sync"] = v[2]
      /\ phases["transpose_copy"] = v[3]
      /\ phases["transpose_sync"] = v[4]
      /\ phases["east_west_communication"] = v[5]
      /\ phases["east_west_sync"] = v[6]
  OBVIOUS
<1> HIDE DEF phases
<1>4. /\ \A name \in DOMAIN phases : Phase(r, name) = phases[name]
      /\ Phase(r, "total_exchange") = total
      /\ Phase(r, "total_minus_sum_of_phase_maxima") = total - SumFunction(v)
      /\ \A name : name \notin DOMAIN phases
                     /\ name \notin {"total_exchange", "total_minus_sum_of_phase_maxima",
                                     "unattributed"} => Phase(r, name) = 0
  BY <1>1, <1>2, TotalIs
<1>5. /\ Phase(r, "north_south_communication") = v[1]
      /\ Phase(r, "north_south_sync") = v[2]
      /\ Phase(r, "transpose_copy") = v[3]
      /\ Phase(r, "transpose_sync") = v[4]
      /\ Phase(r, "east_west_communication") = v[5]
      /\ Phase(r, "east_west_sync") = v[6]
  BY <1>2, <1>3, <1>4
<1>6. /\ Phase(r, "input_device_copy") = 0
      /\ Phase(r, "transpose_device_copy") = 0
      /\ Phase(r, "north_south_mpi") = 0
      /\ Phase(r, "east_west_mpi") = 0
      /\ Phase(r, "transpose_copy_sync") = 0
      /\ Phase(r, "final_stream_sync") = 0
      /\ Phase(r, "north_south_communication_enqueue") = 0
      /\ Phase(r, "transpose_copy_enqueue") = 0
      /\ Phase(r, "east_west_communication_enqueue") = 0
  BY <1>2, <1>4
<1>7. HasGenericPhase(r)
  BY <1>4 DEF HasGenericPhase
<1>8. \A i \in 1 .. 6 : v[i] \in Nat
  OBVIOUS
<1>9. AddedUp(r) = (0 + v[3]) + (v[1] + v[5]) + (v[2] + v[4] + v[6] + 0)
                     + (total - SumFunction(v)) + (0 + 0 + 0)
  BY <1>4, <1>5, <1>6, <1>7, <1>8, AddedUpIs DEF Or
<1> QED BY <1>8, <1>9, SumOfSix

LEMMA StreamOrderedAddsUp ==
  ASSUME NEW r, NEW v \in [1 .. 4 -> Nat], NEW total \in Int, total # 0,
         r.phases = stream_ordered_phases(v, total)
  PROVE  AddedUp(r) = total
<1> DEFINE phases ==
      [north_south_communication_enqueue |-> v[1],
       transpose_copy_enqueue |-> v[2],
       east_west_communication_enqueue |-> v[3],
       final_stream_sync |-> v[4]]
<1>1. r.phases = WithTotal(phases, v, total)
  BY DEF stream_ordered_phases
<1>2. DOMAIN phases = {"north_south_communication_enqueue",
        "transpose_copy_enqueue",
        "east_west_communication_enqueue",
        "final_stream_sync"}
  OBVIOUS
<1>3. /\ phases["north_south_communication_enqueue"] = v[1]
      /\ phases["transpose_copy_enqueue"] = v[2]
      /\ phases["east_west_communication_enqueue"] = v[3]
      /\ phases["final_stream_sync"] = v[4]
  OBVIOUS
<1> HIDE DEF phases
<1>4. /\ \A name \in DOMAIN phases : Phase(r, name) = phases[name]
      /\ Phase(r, "total_exchange") = total
      /\ Phase(r, "total_minus_sum_of_phase_maxima") = total - SumFunction(v)
      /\ \A name : name \notin DOMAIN phases
                     /\ name \notin {"total_exchange", "total_minus_sum_of_phase_maxima",
                                     "unattributed"} => Phase(r, name) = 0
  BY <1>1, <1>2, TotalIs
<1>5. /\ Phase(r, "north_south_communication_enqueue") = v[1]
      /\ Phase(r, "transpose_copy_enqueue") = v[2]
      /\ Phase(r, "east_west_communication_enqueue") = v[3]
      /\ Phase(r, "final_stream_sync") = v[4]
  BY <1>2, <1>3, <1>4
<1>6. /\ Phase(r, "input_device_copy") = 0
      /\ Phase(r, "transpose_copy") = 0
      /\ Phase(r, "transpose_device_copy") = 0
      /\ Phase(r, "north_south_communication") = 0
      /\ Phase(r, "north_south_mpi") = 0
      /\ Phase(r, "east_west_communication") = 0
      /\ Phase(r, "east_west_mpi") = 0
      /\ Phase(r, "north_south_sync") = 0
      /\ Phase(r, "transpose_sync") = 0
      /\ Phase(r, "transpose_copy_sync") = 0
      /\ Phase(r, "east_west_sync") = 0
  BY <1>2, <1>4
<1>7. HasGenericPhase(r)
  BY <1>4 DEF HasGenericPhase
<1>8. \A i \in 1 .. 4 : v[i] \in Nat
  OBVIOUS
<1>9. AddedUp(r) = (0 + 0) + (0 + 0) + (0 + 0 + 0 + v[4])
                     + (total - SumFunction(v)) + (v[1] + v[2] + v[3])
  BY <1>4, <1>5, <1>6, <1>7, <1>8, AddedUpIs DEF Or
<1> QED BY <1>8, <1>9, SumOfFour

\* Of a result whose backend timed phases.
LEMMA PhasesAddUp ==
  ASSUME NEW r, KnownPhases(r), r.seconds \in Int, r.seconds > 0, DOMAIN r.phases # {}
  PROVE  AddedUp(r) = r.seconds
<1> DEFINE total == r.seconds
           mpiHip == <<"input_device_copy", "north_south_sync", "east_west_sync",
                       "north_south_mpi", "transpose_device_copy", "transpose_copy_sync",
                       "east_west_mpi">>
           rccl == <<"north_south_communication", "north_south_sync", "transpose_copy",
                     "transpose_sync", "east_west_communication", "east_west_sync">>
           streamOrdered == <<"north_south_communication_enqueue", "transpose_copy_enqueue",
                              "east_west_communication_enqueue", "final_stream_sync">>
           Timed(names) == [i \in DOMAIN names |-> Phase(r, names[i])]
<1>1. \/ ToSet(Timed(mpiHip)) \subseteq Nat /\ r.phases = mpi_hip_phases(Timed(mpiHip), total)
      \/ ToSet(Timed(rccl)) \subseteq Nat /\ r.phases = rccl_phases(Timed(rccl), total)
      \/ /\ ToSet(Timed(streamOrdered)) \subseteq Nat
         /\ r.phases = stream_ordered_phases(Timed(streamOrdered), total)
  BY Zenon DEF KnownPhases
<1>2. total \in Int /\ total # 0
  OBVIOUS
<1>3. DOMAIN mpiHip = 1 .. 7 /\ DOMAIN rccl = 1 .. 6 /\ DOMAIN streamOrdered = 1 .. 4
  OBVIOUS
<1> HIDE DEF total, mpiHip, rccl, streamOrdered
<1>4. ASSUME NEW names, NEW n \in Nat, DOMAIN names = 1 .. n, ToSet(Timed(names)) \subseteq Nat
      PROVE  Timed(names) \in [1 .. n -> Nat]
  <2>1. \A i \in 1 .. n : Timed(names)[i] \in ToSet(Timed(names))
    BY <1>4 DEF ToSet
  <2> QED BY <1>4, <2>1
<1> HIDE DEF Timed
<1>5. CASE ToSet(Timed(mpiHip)) \subseteq Nat /\ r.phases = mpi_hip_phases(Timed(mpiHip), total)
  <2>1. Timed(mpiHip) \in [1 .. 7 -> Nat]
    BY <1>3, <1>4, <1>5
  <2> QED BY <1>2, <1>5, <2>1, MpiHipAddsUp DEF total
<1>6. CASE ToSet(Timed(rccl)) \subseteq Nat /\ r.phases = rccl_phases(Timed(rccl), total)
  <2>1. Timed(rccl) \in [1 .. 6 -> Nat]
    BY <1>3, <1>4, <1>6
  <2> QED BY <1>2, <1>6, <2>1, RcclAddsUp DEF total
<1>7. CASE /\ ToSet(Timed(streamOrdered)) \subseteq Nat
           /\ r.phases = stream_ordered_phases(Timed(streamOrdered), total)
  <2>1. Timed(streamOrdered) \in [1 .. 4 -> Nat]
    BY <1>3, <1>4, <1>7
  <2> QED BY <1>2, <1>7, <2>1, StreamOrderedAddsUp DEF total
<1> QED BY <1>1, <1>5, <1>6, <1>7

\* Of every result that is loaded with phases, the categories, the phases in none
\* of them and the remainder make up the time of the exchange: no phase counts
\* under two of its names, and none is left out (phase_categories on what
\* phase_timing_result of each backend writes).
THEOREM CategoriesAreComplete == Spec => []CategoriesMakeUpExchange
<1>1. AnalysisInv => CategoriesMakeUpExchange
  <2> SUFFICES ASSUME AnalysisInv, NEW i \in DOMAIN runs, NEW r \in ToSet(runs[i].results),
                      DOMAIN r.phases # {}
               PROVE  AddedUp(r) = r.seconds
    BY Zenon DEF CategoriesMakeUpExchange, AddedUp
  <2>1. KnownRun(runs[i]) /\ Valid(runs[i].results)
    BY LoadedRuns DEF AnalysisInv
  <2>2. KnownResult(r)
    BY <2>1 DEF KnownRun
  <2>3. r.seconds > 0
    BY <2>1 DEF Valid, ToSet
  <2> QED BY <2>2, <2>3, PhasesAddUp DEF KnownResult
<1> QED BY <1>1, AnalysisAlways, PTL

-----------------------------------------------------------------------------
(* Aggregates. *)

\* Classes of the places up to N, which have equal keys and every place once.
Classes(classes, m, N, key) ==
  /\ m \in Nat /\ classes \in [1 .. m -> SUBSET (1 .. N)]
  /\ \A j \in 1 .. N : \E n \in 1 .. m : j \in classes[n]
  /\ \A n, k \in 1 .. m : \A j \in classes[n] : j \in classes[k] => n = k
  /\ \A n \in 1 .. m : \A i, j \in classes[n] : key[i] = key[j]

LEMMA GroupsAre ==
  ASSUME NEW N \in Nat, NEW ordered, DOMAIN ordered = 1 .. N, NEW key
  PROVE  \E classes, m : /\ Classes(classes, m, N, key)
                         /\ InGroups(ordered, key) = [n \in 1 .. m |-> Chosen(ordered, classes[n])]
<1> DEFINE F == {i \in 1 .. N : \A j \in 1 .. i - 1 : key[j] # key[i]}
           m == Cardinality(F)
           firsts == Ascending(F)
           classes == [n \in 1 .. m |-> {j \in 1 .. N : key[j] = key[firsts[n]]}]
<1>1. F \subseteq 1 .. N
  OBVIOUS
<1>2. /\ m \in Nat /\ firsts \in [1 .. m -> F]
      /\ \A x \in F : \E n \in 1 .. m : firsts[n] = x
      /\ \A n, k \in 1 .. m : firsts[n] < firsts[k] <=> n < k
  <2> HIDE DEF F
  <2> QED BY <1>1, PlacesInOrder
<1>3. InGroups(ordered, key) = [n \in 1 .. m |-> Chosen(ordered, classes[n])]
  <2>1. firsts = Ascending({i \in DOMAIN ordered : \A j \in 1 .. i - 1 : key[j] # key[i]})
    OBVIOUS
  <2>2. DOMAIN firsts = 1 .. m
    BY <1>2
  <2>3. InGroups(ordered, key) =
          [n \in DOMAIN firsts |-> Chosen(ordered, {j \in 1 .. N : key[j] = key[firsts[n]]})]
    BY <2>1 DEF InGroups
  <2> HIDE DEF firsts, m, F
  <2> QED BY <2>2, <2>3
<1>4. classes \in [1 .. m -> SUBSET (1 .. N)]
  OBVIOUS
<1>5. \A i, j \in F : key[i] = key[j] => i = j
  <2> SUFFICES ASSUME NEW i \in F, NEW j \in F, key[i] = key[j] PROVE i = j
    OBVIOUS
  <2>1. i \in 1 .. N /\ j \in 1 .. N
    BY <1>1
  <2>2. ~(i < j)
    <3>1. \A k \in 1 .. j - 1 : key[k] # key[j]
      OBVIOUS
    <3> HIDE DEF F
    <3> QED BY <2>1, <3>1
  <2>3. ~(j < i)
    <3>1. \A k \in 1 .. i - 1 : key[k] # key[i]
      OBVIOUS
    <3> HIDE DEF F
    <3> QED BY <2>1, <3>1
  <2> QED BY <2>1, <2>2, <2>3
<1>6. \A j \in 1 .. N : \E i \in F : key[i] = key[j]
  <2> SUFFICES ASSUME NEW j \in 1 .. N PROVE \E i \in F : key[i] = key[j]
    OBVIOUS
  <2> DEFINE S == {i \in 1 .. N : key[i] = key[j]}
  <2>1. S \subseteq Nat /\ S # {}
    OBVIOUS
  <2>2. PICK i \in S : \A k \in S : i <= k
    <3> HIDE DEF S
    <3> QED BY <2>1, LeastOf
  <2>3. i \in 1 .. N /\ key[i] = key[j]
    OBVIOUS
  <2>4. ASSUME NEW k \in 1 .. i - 1 PROVE key[k] # key[i]
    <3>1. k \in 1 .. N /\ ~(i <= k)
      BY <2>3
    <3>2. k \notin S
      BY <2>2, <3>1
    <3> QED BY <2>3, <3>1, <3>2
  <2>5. i \in F
    BY <2>3, <2>4
  <2> QED BY <2>3, <2>5
<1>7. \A n \in 1 .. m : \A j \in 1 .. N : j \in classes[n] <=> key[j] = key[firsts[n]]
  OBVIOUS
<1> HIDE DEF F, m, firsts, classes
<1>8. \A j \in 1 .. N : \E n \in 1 .. m : j \in classes[n]
  BY <1>2, <1>6, <1>7
<1>9. \A n, k \in 1 .. m : \A j \in classes[n] : j \in classes[k] => n = k
  <2> SUFFICES ASSUME NEW n \in 1 .. m, NEW k \in 1 .. m, NEW j \in classes[n], j \in classes[k]
               PROVE  n = k
    OBVIOUS
  <2>1. j \in 1 .. N
    BY <1>4
  <2>2. key[firsts[n]] = key[firsts[k]] /\ firsts[n] \in F /\ firsts[k] \in F
    BY <1>2, <1>7, <2>1
  <2>3. firsts[n] = firsts[k]
    BY <1>5, <2>2
  <2>4. firsts[n] \in Nat
    <3>1. firsts[n] \in 1 .. N
      BY <1>1, <2>2
    <3> QED BY <3>1
  <2>5. ~(n < k) /\ ~(k < n)
    BY <1>2, <2>3, <2>4
  <2> QED BY <1>2, <2>5
<1>10. \A n \in 1 .. m : \A i, j \in classes[n] : key[i] = key[j]
  <2> SUFFICES ASSUME NEW n \in 1 .. m, NEW i \in classes[n], NEW j \in classes[n]
               PROVE  key[i] = key[j]
    OBVIOUS
  <2>1. i \in 1 .. N /\ j \in 1 .. N
    BY <1>4
  <2> QED BY <1>7, <2>1
<1>11. Classes(classes, m, N, key)
  BY <1>2, <1>4, <1>8, <1>9, <1>10 DEF Classes
<1> QED BY <1>3, <1>11

\* What is chosen of g by some places.
ChosenFrom(g, S) ==
  /\ IsSequence(Chosen(g, S)) /\ Len(Chosen(g, S)) = Cardinality(S)
  /\ ToSet(Chosen(g, S)) = {g[k] : k \in S}

LEMMA ChosenFromPlaces ==
  ASSUME NEW n \in Nat, NEW g, NEW S, S \subseteq 1 .. n
  PROVE  ChosenFrom(g, S)
  BY ChosenIs DEF ChosenFrom

\* The quartiles of some values lie around their median.
LEMMA QuartilesAround ==
  ASSUME NEW n \in Nat, n > 0, NEW v \in [1 .. n -> Int]
  PROVE  /\ 100 * Min(ToSet(v)) <= Percentile100(v, 25)
         /\ Percentile100(v, 25) <= 50 * MedianTwice(v)
         /\ 50 * MedianTwice(v) <= Percentile100(v, 75)
         /\ Percentile100(v, 75) <= 100 * Max(ToSet(v))
<1> DEFINE s == Sorted(v)
           low == Min(ToSet(v))
           high == Max(ToSet(v))
           Around == /\ 100 * low <= Percentile100(v, 25)
                     /\ Percentile100(v, 25) <= 50 * MedianTwice(v)
                     /\ 50 * MedianTwice(v) <= Percentile100(v, 75)
                     /\ Percentile100(v, 75) <= 100 * high
<1>1. /\ s \in [1 .. n -> Int]
      /\ \E p \in [1 .. n -> 1 .. n] :
           /\ \A i \in 1 .. n : \E k \in 1 .. n : p[k] = i
           /\ \A k \in 1 .. n : s[k] = v[p[k]]
      /\ \A i, j \in 1 .. n : i <= j => s[i] <= s[j]
  BY SortedIs
<1>2. low \in Int /\ high \in Int /\ \A x \in ToSet(v) : low <= x /\ x <= high
  <2>1. IsFiniteSet(ToSet(v))
    <3>1. IsFiniteSet(1 .. n) /\ DOMAIN v = 1 .. n
      BY FS_Interval
    <3>2. ToSet(v) = {v[i] : i \in 1 .. n}
      BY DEF ToSet
    <3> QED BY <3>1, <3>2, ImageIsFinite
  <2>2. ToSet(v) \subseteq Int
    BY DEF ToSet
  <2>3. v[1] \in ToSet(v)
    BY DEF ToSet
  <2> QED BY <2>1, <2>2, <2>3, ExtremesOf
<1>3. Len(v) = n
  BY LenProperties
<1> HIDE DEF s, low, high
<1>4. \A i \in 1 .. n : s[i] \in Int /\ low <= s[i] /\ s[i] <= high
  <2> SUFFICES ASSUME NEW i \in 1 .. n PROVE s[i] \in Int /\ low <= s[i] /\ s[i] <= high
    OBVIOUS
  <2>1. PICK k \in 1 .. n : s[i] = v[k]
    BY <1>1
  <2>2. v[k] \in ToSet(v)
    BY DEF ToSet
  <2> QED BY <1>1, <1>2, <2>1, <2>2
<1>5. MedianTwice(v) = s[(n + 1) \div 2] + s[(n + 2) \div 2]
  BY <1>3 DEF MedianTwice, s
<1>6. PICK lower, weight, above, rest :
        /\ lower = ((n - 1) * 25) \div 100 /\ weight = ((n - 1) * 25) % 100
        /\ above = ((n - 1) * 75) \div 100 /\ rest = ((n - 1) * 75) % 100
  OBVIOUS
<1>12. /\ Percentile100(v, 25) =
            IF weight = 0 THEN 100 * s[lower + 1]
            ELSE (100 - weight) * s[lower + 1] + weight * s[lower + 2]
       /\ Percentile100(v, 75) =
            IF rest = 0 THEN 100 * s[above + 1]
            ELSE (100 - rest) * s[above + 1] + rest * s[above + 2]
  BY <1>3, <1>6 DEF Percentile100, s
<1>13. \A i, j \in 1 .. n : i <= j => s[i] <= s[j]
  BY <1>1
<1>15. low \in Int /\ high \in Int
  BY <1>2
<1>7. PICK m \in Nat : n = 4 * m + 1 \/ n = 4 * m + 2 \/ n = 4 * m + 3 \/ n = 4 * m + 4
  <2>1. (n - 1) \div 4 \in Nat
    OBVIOUS
  <2>2. \/ n = 4 * ((n - 1) \div 4) + 1 \/ n = 4 * ((n - 1) \div 4) + 2
        \/ n = 4 * ((n - 1) \div 4) + 3 \/ n = 4 * ((n - 1) \div 4) + 4
    OBVIOUS
  <2> QED BY <2>1, <2>2
<1>8. ASSUME n = 4 * m + 1 PROVE Around
  <2>1. /\ lower = m /\ weight = 0
        /\ above = 3 * m /\ rest = 0
        /\ (n + 1) \div 2 = 2 * m + 1 /\ (n + 2) \div 2 = 2 * m + 1
    BY <1>6, <1>8
  <2>2. /\ m + 1 \in 1 .. n /\ 2 * m + 1 \in 1 .. n /\ 3 * m + 1 \in 1 .. n
    BY <1>8
  <2>3. PICK a, b, c :
          /\ a = s[m + 1] /\ b = s[2 * m + 1] /\ c = s[3 * m + 1]
    OBVIOUS
  <2>4. /\ a \in Int /\ b \in Int /\ c \in Int
        /\ a <= b /\ b <= c
        /\ low <= a /\ c <= high
    <3>1. /\ a \in Int /\ b \in Int /\ c \in Int
      BY <1>4, <2>2, <2>3
    <3>2. a <= b /\ b <= c
      BY <1>13, <2>2, <2>3
    <3>3. low <= a /\ c <= high
      BY <1>4, <2>2, <2>3
    <3> QED BY <3>1, <3>2, <3>3
  <2>5. Percentile100(v, 25) = 100 * a
    BY <1>12, <2>1, <2>3
  <2>6. Percentile100(v, 75) = 100 * c
    BY <1>12, <2>1, <2>3
  <2>7. MedianTwice(v) = b + b
    BY <1>5, <2>1, <2>3
  <2> QED BY <1>15, <2>4, <2>5, <2>6, <2>7 DEF Around
<1>9. ASSUME n = 4 * m + 2 PROVE Around
  <2>1. /\ lower = m /\ weight = 25
        /\ above = 3 * m /\ rest = 75
        /\ (n + 1) \div 2 = 2 * m + 1 /\ (n + 2) \div 2 = 2 * m + 2
    BY <1>6, <1>9
  <2>2. /\ m + 1 \in 1 .. n /\ m + 2 \in 1 .. n /\ 2 * m + 1 \in 1 .. n
        /\ 2 * m + 2 \in 1 .. n /\ 3 * m + 1 \in 1 .. n /\ 3 * m + 2 \in 1 .. n
    BY <1>9
  <2>3. PICK a, b, c, d, e, f :
          /\ a = s[m + 1] /\ b = s[m + 2] /\ c = s[2 * m + 1]
          /\ d = s[2 * m + 2] /\ e = s[3 * m + 1] /\ f = s[3 * m + 2]
    OBVIOUS
  <2>4. /\ a \in Int /\ b \in Int /\ c \in Int /\ d \in Int /\ e \in Int /\ f \in Int
        /\ a <= c /\ b <= d /\ c <= d /\ c <= e /\ d <= f
        /\ low <= a /\ low <= b /\ e <= high /\ f <= high
    <3>1. /\ a \in Int /\ b \in Int /\ c \in Int /\ d \in Int /\ e \in Int /\ f \in Int
      BY <1>4, <2>2, <2>3
    <3>2. a <= c /\ b <= d /\ c <= d /\ c <= e /\ d <= f
      BY <1>13, <2>2, <2>3
    <3>3. low <= a /\ low <= b /\ e <= high /\ f <= high
      BY <1>4, <2>2, <2>3
    <3> QED BY <3>1, <3>2, <3>3
  <2>5. Percentile100(v, 25) = (100 - 25) * a + 25 * b
    BY <1>12, <2>1, <2>3
  <2>6. Percentile100(v, 75) = (100 - 75) * e + 75 * f
    BY <1>12, <2>1, <2>3
  <2>7. MedianTwice(v) = c + d
    BY <1>5, <2>1, <2>3
  <2> QED BY <1>15, <2>4, <2>5, <2>6, <2>7 DEF Around
<1>10. ASSUME n = 4 * m + 3 PROVE Around
  <2>1. /\ lower = m /\ weight = 50
        /\ above = 3 * m + 1 /\ rest = 50
        /\ (n + 1) \div 2 = 2 * m + 2 /\ (n + 2) \div 2 = 2 * m + 2
    BY <1>6, <1>10
  <2>2. /\ m + 1 \in 1 .. n /\ m + 2 \in 1 .. n /\ 2 * m + 2 \in 1 .. n
        /\ 3 * m + 1 + 1 \in 1 .. n /\ 3 * m + 1 + 2 \in 1 .. n
    BY <1>10
  <2>3. PICK a, b, c, d, e :
          /\ a = s[m + 1] /\ b = s[m + 2] /\ c = s[2 * m + 2]
          /\ d = s[3 * m + 1 + 1] /\ e = s[3 * m + 1 + 2]
    OBVIOUS
  <2>4. /\ a \in Int /\ b \in Int /\ c \in Int /\ d \in Int /\ e \in Int
        /\ a <= b /\ b <= c /\ c <= d /\ d <= e
        /\ low <= a /\ e <= high
    <3>1. /\ a \in Int /\ b \in Int /\ c \in Int /\ d \in Int /\ e \in Int
      BY <1>4, <2>2, <2>3
    <3>2. a <= b /\ b <= c /\ c <= d /\ d <= e
      BY <1>13, <2>2, <2>3
    <3>3. low <= a /\ e <= high
      BY <1>4, <2>2, <2>3
    <3> QED BY <3>1, <3>2, <3>3
  <2>5. Percentile100(v, 25) = (100 - 50) * a + 50 * b
    BY <1>12, <2>1, <2>3
  <2>6. Percentile100(v, 75) = (100 - 50) * d + 50 * e
    BY <1>12, <2>1, <2>3
  <2>7. MedianTwice(v) = c + c
    BY <1>5, <2>1, <2>3
  <2> QED BY <1>15, <2>4, <2>5, <2>6, <2>7 DEF Around
<1>11. ASSUME n = 4 * m + 4 PROVE Around
  <2>1. /\ lower = m /\ weight = 75
        /\ above = 3 * m + 2 /\ rest = 25
        /\ (n + 1) \div 2 = 2 * m + 2 /\ (n + 2) \div 2 = 2 * m + 3
    BY <1>6, <1>11
  <2>2. /\ m + 1 \in 1 .. n /\ m + 2 \in 1 .. n /\ 2 * m + 2 \in 1 .. n
        /\ 2 * m + 3 \in 1 .. n /\ 3 * m + 2 + 1 \in 1 .. n /\ 3 * m + 2 + 2 \in 1 .. n
    BY <1>11
  <2>3. PICK a, b, c, d, e, f :
          /\ a = s[m + 1] /\ b = s[m + 2] /\ c = s[2 * m + 2]
          /\ d = s[2 * m + 3] /\ e = s[3 * m + 2 + 1] /\ f = s[3 * m + 2 + 2]
    OBVIOUS
  <2>4. /\ a \in Int /\ b \in Int /\ c \in Int /\ d \in Int /\ e \in Int /\ f \in Int
        /\ a <= b /\ b <= c /\ c <= d /\ d <= e /\ e <= f
        /\ low <= a /\ f <= high
    <3>1. /\ a \in Int /\ b \in Int /\ c \in Int /\ d \in Int /\ e \in Int /\ f \in Int
      BY <1>4, <2>2, <2>3
    <3>2. a <= b /\ b <= c /\ c <= d /\ d <= e /\ e <= f
      BY <1>13, <2>2, <2>3
    <3>3. low <= a /\ f <= high
      BY <1>4, <2>2, <2>3
    <3> QED BY <3>1, <3>2, <3>3
  <2>5. Percentile100(v, 25) = (100 - 75) * a + 75 * b
    BY <1>12, <2>1, <2>3
  <2>6. Percentile100(v, 75) = (100 - 25) * e + 25 * f
    BY <1>12, <2>1, <2>3
  <2>7. MedianTwice(v) = c + d
    BY <1>5, <2>1, <2>3
  <2> QED BY <1>15, <2>4, <2>5, <2>6, <2>7 DEF Around
<1>14. Around
  BY <1>7, <1>8, <1>9, <1>10, <1>11
<1> QED BY <1>14 DEF Around, low, high

\* The sizes of some runs: each that one of them has, once.
SizesOf(sizes, m, g) ==
  /\ m \in Nat /\ DOMAIN sizes = 1 .. m
  /\ \A k \in 1 .. m : \E i \in DOMAIN g : sizes[k][2] \in Halos(g[i])
  /\ \A i \in DOMAIN g : \A h \in Halos(g[i]) : \E k \in 1 .. m : sizes[k][2] = h
  /\ \A k, l \in 1 .. m : sizes[k][2] = sizes[l][2] => k = l

LEMMA HalosAre ==
  ASSUME NEW run
  PROVE  \A h : h \in Halos(run) <=> \E r \in ToSet(run.results) : r.halo = h
  BY DEF Halos, ToSet

LEMMA SizesAre ==
  ASSUME NEW g, IsSequence(g), \A i \in DOMAIN g : KnownRun(g[i])
  PROVE  \E m : SizesOf(SizesInOrder(g), m, g)
<1> DEFINE D == DOMAIN g
           results == UNION {ToSet(g[i].results) : i \in D}
           all == {<<r.bytes, r.halo>> : r \in results}
           fewest == {x \in all : \A y \in all : y[2] = x[2] => x[1] <= y[1]}
           sizes == SizesInOrder(g)
           m == Cardinality(fewest)
<1>1. \A i \in D : /\ IsSequence(g[i].results)
                   /\ \A r \in ToSet(g[i].results) : r.bytes \in Int /\ r.halo \in Int
  BY DEF KnownRun, KnownResult
<1>2. IsFiniteSet(D)
  <2>1. Len(g) \in Nat /\ D = 1 .. Len(g)
    BY SequenceIs
  <2>2. \A n \in Nat : IsFiniteSet(1 .. n)
    BY FS_Interval
  <2> QED BY <2>1, <2>2
<1>3. IsFiniteSet(results)
  <2>1. ASSUME NEW i \in D PROVE IsFiniteSet(ToSet(g[i].results))
    <3> DEFINE s == g[i].results
    <3>1. Len(s) \in Nat /\ DOMAIN s = 1 .. Len(s)
      BY <1>1, SequenceIs
    <3>2. \A n \in Nat : IsFiniteSet(1 .. n)
      BY FS_Interval
    <3>3. IsFiniteSet(DOMAIN s)
      BY <3>1, <3>2
    <3>4. ToSet(s) = {s[k] : k \in DOMAIN s}
      BY DEF ToSet
    <3> HIDE DEF s
    <3>5. IsFiniteSet(ToSet(s))
      BY <3>3, <3>4, ImageIsFinite
    <3> QED BY <3>5 DEF s
  <2> DEFINE parts == {ToSet(g[i].results) : i \in D}
  <2>2. IsFiniteSet(parts)
    <3> DEFINE f == [i \in D |-> ToSet(g[i].results)]
    <3>1. parts = {f[i] : i \in D}
      OBVIOUS
    <3> HIDE DEF parts, f, D
    <3> QED BY <1>2, <3>1, ImageIsFinite
  <2>3. \A part \in parts : IsFiniteSet(part)
    BY <2>1
  <2> HIDE DEF parts
  <2>4. IsFiniteSet(UNION parts)
    BY <2>2, <2>3, FS_UNION
  <2> QED BY <2>4 DEF parts
<1>4. \A r : r \in results <=> \E i \in D : r \in ToSet(g[i].results)
  OBVIOUS
<1> HIDE DEF results
<1>5. \A r \in results : r.bytes \in Int /\ r.halo \in Int
  BY <1>1, <1>4
<1>6. IsFiniteSet(all)
  <2> DEFINE f == [r \in results |-> <<r.bytes, r.halo>>]
  <2>1. all = {f[r] : r \in results}
    OBVIOUS
  <2> HIDE DEF all, f
  <2> QED BY <1>3, <2>1, ImageIsFinite
<1>7. all \subseteq Int \X Int
  BY <1>5
<1>8. \A h : (\E x \in all : x[2] = h) <=> \E i \in D : h \in Halos(g[i])
  <2> SUFFICES ASSUME NEW h PROVE (\E x \in all : x[2] = h) <=> \E i \in D : h \in Halos(g[i])
    OBVIOUS
  <2>1. (\E x \in all : x[2] = h) <=> \E r \in results : r.halo = h
    <3>1. ASSUME NEW x \in all, x[2] = h PROVE \E r \in results : r.halo = h
      <4>1. PICK r \in results : x = <<r.bytes, r.halo>>
        OBVIOUS
      <4> QED BY <3>1, <4>1
    <3>2. ASSUME NEW r \in results, r.halo = h PROVE \E x \in all : x[2] = h
      <4>1. <<r.bytes, r.halo>> \in all /\ <<r.bytes, r.halo>>[2] = h
        BY <3>2
      <4> QED BY <4>1
    <3> QED BY <3>1, <3>2
  <2>2. (\E r \in results : r.halo = h) <=> \E i \in D : \E r \in ToSet(g[i].results) : r.halo = h
    BY <1>4
  <2> HIDE DEF all, D
  <2> QED BY <2>1, <2>2, HalosAre
<1>9. SizesInOrder(g) = Ordered(fewest, Precedes)
  BY DEF SizesInOrder, results
<1> HIDE DEF all
<1>10. fewest \subseteq all
  OBVIOUS
<1>11. \A x, y \in fewest : x[2] = y[2] => x = y
  <2> SUFFICES ASSUME NEW x \in fewest, NEW y \in fewest, x[2] = y[2] PROVE x = y
    OBVIOUS
  <2>1. x[1] <= y[1] /\ y[1] <= x[1]
    OBVIOUS
  <2>2. x \in Int \X Int /\ y \in Int \X Int
    BY <1>7, <1>10
  <2>3. x[1] = y[1]
    BY <2>1, <2>2
  <2> QED BY <2>2, <2>3
<1>12. \A x \in all : \E y \in fewest : y[2] = x[2]
  <2> SUFFICES ASSUME NEW x \in all PROVE \E y \in fewest : y[2] = x[2]
    OBVIOUS
  <2> DEFINE S == {y \in all : y[2] = x[2]}
             B == {y[1] : y \in S}
  <2>1. IsFiniteSet(B)
    <3>1. IsFiniteSet(S)
      BY <1>6, FS_Subset
    <3> DEFINE f == [y \in S |-> y[1]]
    <3>2. B = {f[y] : y \in S}
      OBVIOUS
    <3> HIDE DEF S, B, f
    <3> QED BY <3>1, <3>2, ImageIsFinite
  <2>2. B \subseteq Int /\ B # {}
    BY <1>7
  <2>3. Min(B) \in B /\ \A b \in B : Min(B) <= b
    <3> HIDE DEF B
    <3> QED BY <2>1, <2>2, ExtremesOf
  <2>4. PICK y \in S : y[1] = Min(B)
    BY <2>3
  <2>5. \A z \in all : z[2] = y[2] => y[1] <= z[1]
    <3> SUFFICES ASSUME NEW z \in all, z[2] = y[2] PROVE y[1] <= z[1]
      OBVIOUS
    <3>1. z[1] \in B
      BY <2>4
    <3> HIDE DEF B
    <3> QED BY <2>3, <2>4, <3>1
  <2>6. y \in fewest /\ y[2] = x[2]
    BY <2>4, <2>5
  <2> QED BY <2>6
<1> HIDE DEF fewest
<1>13. IsFiniteSet(fewest) /\ fewest \subseteq Int \X Int
  BY <1>6, <1>7, <1>10, FS_Subset
<1>14. /\ m \in Nat /\ sizes \in [1 .. m -> fewest]
       /\ \A x \in fewest : \E i \in 1 .. m : sizes[i] = x
       /\ \A i, j \in 1 .. m : sizes[i] = sizes[j] => i = j
  <2> DEFINE order == Ordered(fewest, Precedes)
  <2>1. /\ m \in Nat /\ order \in [1 .. m -> fewest]
        /\ \A x \in fewest : \E i \in 1 .. m : order[i] = x
        /\ \A i, j \in 1 .. m : /\ Precedes(order[i], order[j]) <=> i < j
                                /\ order[i] = order[j] => i = j
    BY <1>13, PairsAscend, Zenon
  <2>2. sizes = order
    BY <1>9
  <2> HIDE DEF order, sizes, m
  <2> QED BY <2>1, <2>2
<1> HIDE DEF m, sizes
<1>15. \A k \in 1 .. m : \E i \in D : sizes[k][2] \in Halos(g[i])
  <2> SUFFICES ASSUME NEW k \in 1 .. m PROVE \E i \in D : sizes[k][2] \in Halos(g[i])
    OBVIOUS
  <2>1. sizes[k] \in all
    BY <1>10, <1>14
  <2> HIDE DEF D
  <2> QED BY <1>8, <2>1
<1>16. \A i \in D : \A h \in Halos(g[i]) : \E k \in 1 .. m : sizes[k][2] = h
  <2> SUFFICES ASSUME NEW i \in D, NEW h \in Halos(g[i]) PROVE \E k \in 1 .. m : sizes[k][2] = h
    OBVIOUS
  <2>1. PICK x \in all : x[2] = h
    BY <1>8
  <2>2. PICK y \in fewest : y[2] = x[2]
    BY <1>12
  <2>3. PICK k \in 1 .. m : sizes[k] = y
    BY <1>14
  <2> QED BY <2>1, <2>2, <2>3
<1>17. \A k, l \in 1 .. m : sizes[k][2] = sizes[l][2] => k = l
  <2> SUFFICES ASSUME NEW k \in 1 .. m, NEW l \in 1 .. m, sizes[k][2] = sizes[l][2] PROVE k = l
    OBVIOUS
  <2>1. sizes[k] \in fewest /\ sizes[l] \in fewest
    BY <1>14
  <2> QED BY <1>11, <1>14, <2>1
<1>18. SizesOf(sizes, m, g)
  BY <1>14, <1>15, <1>16, <1>17 DEF SizesOf, D
<1> QED BY <1>18 DEF sizes

\* A row is of the runs of its group that have its size.
CountsRuns(row, ordered, C, h) ==
  LET having == {i \in C : h \in Halos(ordered[i])}
  IN /\ row.halo = h /\ row.count = Cardinality(having) /\ row.count \in Nat
     /\ having # {} =>
          /\ 100 * row.minimum <= row.q1 /\ row.q1 <= 50 * row.median2
          /\ 50 * row.median2 <= row.q3 /\ row.q3 <= 100 * row.maximum

LEMMA RowIs ==
  ASSUME NEW N \in Nat, NEW ordered, DOMAIN ordered = 1 .. N, \A i \in 1 .. N : KnownRun(ordered[i]),
         NEW C \in SUBSET (1 .. N), NEW n, NEW h
  PROVE  CountsRuns(AggregateRow(n, Chosen(ordered, C), h), ordered, C, h)
<1> DEFINE group == Chosen(ordered, C)
           S == {k \in DOMAIN group : h \in Halos(group[k])}
           runsOf == Chosen(group, S)
           values == [k \in DOMAIN runsOf |-> At(runsOf[k], h).seconds]
           having == {i \in C : h \in Halos(ordered[i])}
           row == AggregateRow(n, group, h)
           c == Cardinality(C)
           asc == Ascending(C)
<1>1. /\ c \in Nat /\ asc \in [1 .. c -> C]
      /\ \A x \in C : \E i \in 1 .. c : asc[i] = x
      /\ \A i, j \in 1 .. c : asc[i] < asc[j] <=> i < j
  BY PlacesInOrder
<1>2. group = [k \in 1 .. c |-> ordered[asc[k]]]
  BY DEF Chosen
<1> HIDE DEF group, c, asc
<1>3. S \subseteq 1 .. c /\ \A k \in 1 .. c : k \in S <=> h \in Halos(ordered[asc[k]])
  BY <1>2
<1>4. IsSequence(runsOf) /\ Len(runsOf) = Cardinality(S) /\ ToSet(runsOf) = {group[k] : k \in S}
  <2>1. S \subseteq 1 .. c /\ c \in Nat
    BY <1>1, <1>3
  <2> HIDE DEF S, having, row, values, runsOf
  <2>2. /\ IsSequence(Chosen(group, S)) /\ Len(Chosen(group, S)) = Cardinality(S)
        /\ ToSet(Chosen(group, S)) = {group[k] : k \in S}
    <3>1. ChosenFrom(group, S)
      BY <2>1, ChosenFromPlaces
    <3> QED BY <3>1 DEF ChosenFrom
  <2> QED BY <2>2, Zenon DEF runsOf
<1>5. Cardinality(having) = Cardinality(S) /\ Cardinality(S) \in Nat /\ (having # {} => S # {})
  <2> DEFINE f == [k \in S |-> asc[k]]
  <2>1. f \in [S -> having]
    BY <1>1, <1>3
  <2>2. \A y \in having : \E x \in S : f[x] = y
    <3> SUFFICES ASSUME NEW y \in having PROVE \E x \in S : f[x] = y
      OBVIOUS
    <3>1. PICK k \in 1 .. c : asc[k] = y
      BY <1>1
    <3> QED BY <1>3, <3>1
  <2>3. \A x, y \in S : f[x] = f[y] => x = y
    <3> SUFFICES ASSUME NEW x \in S, NEW y \in S, f[x] = f[y] PROVE x = y
      OBVIOUS
    <3>1. x \in 1 .. c /\ y \in 1 .. c /\ asc[x] = asc[y]
      BY <1>3
    <3>2. asc[x] \in Nat
      <4>1. asc[x] \in C
        BY <1>1, <3>1
      <4>2. asc[x] \in 1 .. N
        BY <4>1
      <4> QED BY <4>2
    <3>3. ~(x < y) /\ ~(y < x)
      BY <1>1, <3>1, <3>2
    <3> QED BY <1>1, <3>1, <3>3
  <2>4. IsFiniteSet(S)
    <3>1. IsFiniteSet(1 .. c)
      BY <1>1, FS_Interval
    <3> QED BY <1>3, <3>1, FS_Subset
  <2> HIDE DEF f, S, having
  <2>5. OneToOne(f, S, having)
    BY <2>1, <2>2, <2>3 DEF OneToOne
  <2> QED BY <2>2, <2>4, <2>5, SameCount, FS_CardinalityType
<1>6. /\ row.halo = h /\ row.count = Len(values)
      /\ row.minimum = Min(ToSet(values)) /\ row.maximum = Max(ToSet(values))
      /\ row.median2 = MedianTwice(values)
      /\ row.q1 = Percentile100(values, 25) /\ row.q3 = Percentile100(values, 75)
  BY DEF AggregateRow
<1> DEFINE size == Cardinality(S)
<1>7. DOMAIN runsOf = 1 .. size
  BY <1>4, SequenceIs
<1>8. ASSUME NEW k \in 1 .. size PROVE At(runsOf[k], h).seconds \in Int
  <2>1. runsOf[k] \in {group[i] : i \in S}
    BY <1>4, <1>7 DEF ToSet
  <2>2. PICK i \in S : runsOf[k] = group[i]
    BY <2>1
  <2>3. asc[i] \in 1 .. N /\ group[i] = ordered[asc[i]] /\ h \in Halos(ordered[asc[i]])
    BY <1>1, <1>2, <1>3, <2>2
  <2> DEFINE run == ordered[asc[i]]
  <2>4. KnownRun(run) /\ h \in Halos(run) /\ runsOf[k] = run
    BY <2>2, <2>3
  <2> HIDE DEF run
  <2>5. \E r \in ToSet(run.results) : r.halo = h
    BY <2>4, HalosAre
  <2>6. At(run, h) \in ToSet(run.results)
    BY <2>5 DEF At
  <2> QED BY <2>4, <2>6 DEF KnownRun, KnownResult
<1>9. values \in [1 .. size -> Int]
  <2> HIDE DEF runsOf, size
  <2> QED BY <1>7, <1>8
<1>10. Len(values) = size
  <2> HIDE DEF values, size
  <2> QED BY <1>5, <1>9, LenProperties DEF size
<1>11. ASSUME having # {} PROVE size > 0
  <2>1. IsFiniteSet(S)
    <3>1. IsFiniteSet(1 .. c)
      BY <1>1, FS_Interval
    <3> QED BY <1>3, <3>1, FS_Subset
  <2> HIDE DEF S, having
  <2>2. size # 0
    BY <1>5, <1>11, <2>1, FS_EmptySet
  <2> QED BY <1>5, <2>2
<1> HIDE DEF values, size, having, S, runsOf
<1>12. ASSUME having # {}
       PROVE  /\ 100 * row.minimum <= row.q1 /\ row.q1 <= 50 * row.median2
              /\ 50 * row.median2 <= row.q3 /\ row.q3 <= 100 * row.maximum
  <2>1. size \in Nat /\ size > 0
    BY <1>5, <1>11, <1>12 DEF size
  <2> HIDE DEF row
  <2> QED BY <1>6, <1>9, <2>1, QuartilesAround
<1>13. row.halo = h /\ row.count = Cardinality(having) /\ row.count \in Nat
  <2> HIDE DEF row
  <2> QED BY <1>5, <1>6, <1>10 DEF size
<1>14. CountsRuns(row, ordered, C, h)
  <2> HIDE DEF row
  <2> QED BY <1>12, <1>13 DEF CountsRuns, having
<1> QED BY <1>14 DEF row, group

\* One number among zeros, if it is there at all.
LEMMA OneCounts ==
  ASSUME NEW m \in Nat, NEW s, NEW k \in Nat, NEW c \in Nat,
         s = [i \in 1 .. m |-> IF i = k THEN c ELSE 0]
  PROVE  AddsTo(s, m, IF k \in 1 .. m THEN c ELSE 0)
<1> DEFINE u == s
<1>1. u \in [1 .. m -> Nat] /\ \A i \in 1 .. m : u[i] = IF i = k THEN c ELSE 0
  OBVIOUS
<1> HIDE DEF u
<1>2. PICK t \in [0 .. m -> Nat] :
        t[0] = 0 /\ t[m] = SumFunction(u) /\ \A i \in 1 .. m : t[i] = t[i - 1] + u[i]
  BY <1>1, SumSteps
<1> DEFINE G == {i \in 0 .. m : t[i] = IF k \in 1 .. i THEN c ELSE 0}
<1>3. 0 \in G
  BY <1>2
<1>4. ASSUME NEW i \in 1 .. m, i - 1 \in G PROVE i \in G
  <2>1. t[i - 1] = IF k \in 1 .. i - 1 THEN c ELSE 0
    BY <1>4
  <2>2. t[i] = t[i - 1] + IF i = k THEN c ELSE 0
    BY <1>1, <1>2
  <2>3. t[i] = IF k \in 1 .. i THEN c ELSE 0
    BY <2>1, <2>2
  <2> QED BY <2>3
<1>5. m \in G
  <2> HIDE DEF G
  <2>1. \A i \in 0 .. m : i \in G
    BY <1>3, <1>4, UpTo
  <2> QED BY <2>1
<1>6. AddsTo(u, m, IF k \in 1 .. m THEN c ELSE 0)
  BY <1>1, <1>2, <1>5 DEF AddsTo
<1> QED BY <1>6 DEF u

\* The counts of the rows of one size, and zeros for the others.
CountsOf(rows, h) == [i \in DOMAIN rows |-> IF rows[i].halo = h THEN rows[i].count ELSE 0]

\* What s and t are joined to.
JoinOf(s, t, u) ==
  /\ IsSequence(u) /\ Len(u) = Len(s) + Len(t)
  /\ (\A i \in 1 .. Len(s) : u[i] = s[i]) /\ \A i \in 1 .. Len(t) : u[Len(s) + i] = t[i]

LEMMA JoinIs ==
  ASSUME NEW s, IsSequence(s), NEW t, IsSequence(t)
  PROVE  JoinOf(s, t, s \o t)
  BY CatIsSequence DEF JoinOf

CountsJoin(s, t, h) == CountsOf(s \o t, h) = CountsOf(s, h) \o CountsOf(t, h)

LEMMA CountsJoined ==
  ASSUME NEW s, IsSequence(s), NEW t, IsSequence(t), NEW h
  PROVE  CountsJoin(s, t, h)
<1> DEFINE k == Len(s)
           n == Len(t)
           u == s \o t
           Count(row) == IF row.halo = h THEN row.count ELSE 0
           a == CountsOf(s, h)
           b == CountsOf(t, h)
           c == CountsOf(u, h)
<1>1. /\ k \in Nat /\ DOMAIN s = 1 .. k /\ n \in Nat /\ DOMAIN t = 1 .. n
  BY SequenceIs
<1>2. IsSequence(u) /\ Len(u) = k + n
  BY JoinIs DEF JoinOf
<1>3. (\A i \in 1 .. k : u[i] = s[i]) /\ \A i \in 1 .. n : u[k + i] = t[i]
  BY JoinIs DEF JoinOf
<1>4. DOMAIN u = 1 .. k + n
  BY <1>2, SequenceIs
<1>5. a = [i \in 1 .. k |-> Count(s[i])] /\ b = [i \in 1 .. n |-> Count(t[i])]
  BY <1>1 DEF CountsOf
<1>6. c = [i \in 1 .. k + n |-> Count(u[i])]
  BY <1>4 DEF CountsOf
<1> HIDE DEF a, b, c, u, Count, k, n
<1>7. IsSequence(a) /\ Len(a) = k /\ IsSequence(b) /\ Len(b) = n
  <2>1. a = [i \in 1 .. k |-> a[i]] /\ b = [i \in 1 .. n |-> b[i]]
    BY <1>5
  <2> QED BY <1>1, <2>1, FunctionIsSequence
<1>8. IsSequence(c) /\ Len(c) = k + n
  <2>1. c = [i \in 1 .. k + n |-> c[i]] /\ k + n \in Nat
    BY <1>1, <1>6
  <2> QED BY <2>1, FunctionIsSequence
<1> DEFINE d == a \o b
<1>9. JoinOf(a, b, d)
  BY <1>7, JoinIs
<1>10. /\ IsSequence(d) /\ Len(d) = k + n
       /\ \A i \in 1 .. k : d[i] = a[i]
       /\ \A i \in 1 .. n : d[k + i] = b[i]
  BY <1>7, <1>9 DEF JoinOf
<1> HIDE DEF d
<1>11. \A i \in 1 .. Len(c) : c[i] = d[i]
  <2> SUFFICES ASSUME NEW i \in 1 .. k + n PROVE c[i] = d[i]
    BY <1>8
  <2>1. c[i] = Count(u[i])
    BY <1>6
  <2>2. CASE i <= k
    <3>1. i \in 1 .. k
      BY <1>1, <2>2
    <3> QED BY <1>3, <1>5, <1>10, <2>1, <3>1
  <2>3. CASE ~(i <= k)
    <3>1. PICK j \in 1 .. n : i = k + j
      <4>1. i - k \in 1 .. n /\ i = k + (i - k)
        BY <1>1, <2>3
      <4> QED BY <4>1
    <3>2. d[i] = b[j] /\ u[i] = t[j]
      BY <1>3, <1>10, <3>1
    <3> QED BY <1>5, <2>1, <3>2
  <2> QED BY <2>2, <2>3
<1>12. c = d
  BY <1>8, <1>10, <1>11, SameSequence
<1> QED BY <1>12 DEF CountsJoin, a, b, c, d, u

\* Some numbers that add up to total.
AddUpTo(s, total) == \E m : AddsTo(s, m, total)

\* Rows that count the members of one group each, count those of all.
LEMMA CountsAdd ==
  ASSUME NEW X, IsFiniteSet(X), NEW M \in Nat, NEW group, \A x \in X : group[x] \in 1 .. M,
         NEW h, NEW seqs, IsSequence(seqs), Len(seqs) = M, \A k \in 1 .. M : IsSequence(seqs[k]),
         \A k \in 1 .. M : AddUpTo(CountsOf(seqs[k], h), Cardinality(Share(X, group, k)))
  PROVE  SumFunction(CountsOf(FlattenSeq(seqs), h)) = Cardinality(X)
<1>1. DOMAIN seqs = 1 .. M
  BY SequenceIs
<1>2. PICK f : /\ f[0] = <<>> /\ f[M] = FlattenSeq(seqs)
               /\ \A k \in 0 .. M : IsSequence(f[k])
               /\ \A k \in 1 .. M : f[k] = f[k - 1] \o seqs[k]
  BY <1>1, FlattenSteps
<1>3. \A x \in X : group[x] \in Nat
  OBVIOUS
<1> DEFINE G == {k \in 0 .. M : AddUpTo(CountsOf(f[k], h), Cardinality(Shares(X, group, k)))}
<1>4. 0 \in G
  <2>1. Shares(X, group, 0) = {}
    BY DEF Shares
  <2>2. Cardinality({}) = 0
    BY FS_EmptySet
  <2>3. CountsOf(<<>>, h) = <<>>
    BY DEF CountsOf
  <2>4. AddsTo(CountsOf(f[0], h), 0, Cardinality(Shares(X, group, 0)))
    BY <1>2, <2>1, <2>2, <2>3, NothingAdds, Zenon
  <2> QED BY <2>4 DEF AddUpTo
<1>5. ASSUME NEW k \in 1 .. M, k - 1 \in G PROVE k \in G
  <2> DEFINE a == CountsOf(f[k - 1], h)
             b == CountsOf(seqs[k], h)
             x == Cardinality(Shares(X, group, k - 1))
             y == Cardinality(Share(X, group, k))
  <2>1. k - 1 \in Nat /\ k - 1 + 1 = k /\ k - 1 \in 0 .. M
    OBVIOUS
  <2>2. Cardinality(Shares(X, group, k - 1 + 1)) = x + Cardinality(Share(X, group, k - 1 + 1))
    BY <1>3, <2>1, SharesGrow
  <2>3. Cardinality(Shares(X, group, k)) = x + y
    BY <2>1, <2>2
  <2>4. AddUpTo(a, x) /\ AddUpTo(b, y)
    BY <1>5
  <2>5. CountsOf(f[k], h) = a \o b
    <3> DEFINE s == f[k - 1]
               t == seqs[k]
    <3>1. IsSequence(s) /\ IsSequence(t) /\ f[k] = s \o t
      BY <1>2, <2>1
    <3> HIDE DEF s, t
    <3>2. CountsJoin(s, t, h)
      BY <3>1, CountsJoined
    <3> QED BY <3>1, <3>2 DEF CountsJoin, s, t
  <2> HIDE DEF a, b, x, y
  <2>6. PICK m : AddsTo(a, m, x)
    BY <2>4 DEF AddUpTo
  <2>7. PICK n : AddsTo(b, n, y)
    BY <2>4 DEF AddUpTo
  <2>8. AddsTo(a \o b, m + n, x + y)
    BY <2>6, <2>7, CatAdds
  <2>9. AddUpTo(CountsOf(f[k], h), Cardinality(Shares(X, group, k)))
    BY <2>3, <2>5, <2>8 DEF AddUpTo
  <2>10. k \in 0 .. M
    OBVIOUS
  <2> QED BY <2>9, <2>10
<1>6. M \in G
  <2> HIDE DEF G
  <2>1. \A k \in 0 .. M : k \in G
    BY <1>4, <1>5, UpTo
  <2> QED BY <2>1
<1>7. Shares(X, group, M) = X
  BY DEF Shares
<1>8. AddUpTo(CountsOf(FlattenSeq(seqs), h), Cardinality(X))
  BY <1>2, <1>6, <1>7
<1> QED BY <1>8 DEF AddUpTo, AddsTo

\* The rows of groups of runs.
LEMMA RowsOfGroups ==
  ASSUME NEW N \in Nat, NEW ordered, DOMAIN ordered = 1 .. N, \A i \in 1 .. N : KnownRun(ordered[i]),
         NEW key, NEW classes, NEW m, Classes(classes, m, N, key),
         NEW groups, groups = [n \in 1 .. m |-> Chosen(ordered, classes[n])]
  PROVE  /\ \A h : SumFunction(CountsOf(aggregate_rows(groups), h))
                     = Cardinality({i \in 1 .. N : h \in Halos(ordered[i])})
         /\ \A i \in DOMAIN aggregate_rows(groups) :
              LET row == aggregate_rows(groups)[i]
              IN /\ 100 * row.minimum <= row.q1 /\ row.q1 <= 50 * row.median2
                 /\ 50 * row.median2 <= row.q3 /\ row.q3 <= 100 * row.maximum
<1> DEFINE Around(row) == /\ 100 * row.minimum <= row.q1 /\ row.q1 <= 50 * row.median2
                          /\ 50 * row.median2 <= row.q3 /\ row.q3 <= 100 * row.maximum
           sizes == [n \in 1 .. m |-> SizesInOrder(groups[n])]
           seqs == [n \in 1 .. m |->
                      [k \in DOMAIN sizes[n] |-> AggregateRow(n, groups[n], sizes[n][k][2])]]
           Having(n, h) == {i \in classes[n] : h \in Halos(ordered[i])}
           rows == aggregate_rows(groups)
<1>1. /\ m \in Nat /\ classes \in [1 .. m -> SUBSET (1 .. N)]
      /\ \A j \in 1 .. N : \E n \in 1 .. m : j \in classes[n]
      /\ \A n, k \in 1 .. m : \A j \in classes[n] : j \in classes[k] => n = k
  BY DEF Classes
<1>2. rows = FlattenSeq(seqs)
  <2>1. DOMAIN groups = 1 .. m
    OBVIOUS
  <2>2. aggregate_rows(groups) =
          FlattenSeq([n \in 1 .. m |->
            [k \in DOMAIN SizesInOrder(groups[n]) |->
               AggregateRow(n, groups[n], SizesInOrder(groups[n])[k][2])]])
    BY <2>1 DEF aggregate_rows
  <2>3. \A n \in 1 .. m : sizes[n] = SizesInOrder(groups[n])
    OBVIOUS
  <2> HIDE DEF sizes
  <2>4. seqs = [n \in 1 .. m |->
            [k \in DOMAIN SizesInOrder(groups[n]) |->
               AggregateRow(n, groups[n], SizesInOrder(groups[n])[k][2])]]
    BY <2>3
  <2> HIDE DEF seqs
  <2> QED BY <2>2, <2>4
<1>3. ASSUME NEW n \in 1 .. m
      PROVE  /\ groups[n] = Chosen(ordered, classes[n]) /\ IsSequence(groups[n])
             /\ ToSet(groups[n]) = {ordered[i] : i \in classes[n]}
             /\ \A i \in DOMAIN groups[n] : KnownRun(groups[n][i])
  <2>1. groups[n] = Chosen(ordered, classes[n]) /\ classes[n] \subseteq 1 .. N
    BY <1>1
  <2>2. IsSequence(groups[n]) /\ ToSet(groups[n]) = {ordered[i] : i \in classes[n]}
    BY <2>1, ChosenIs
  <2>3. \A i \in DOMAIN groups[n] : groups[n][i] \in ToSet(groups[n])
    BY DEF ToSet
  <2> QED BY <2>1, <2>2, <2>3
<1>4. \A n \in 1 .. m : \E l : SizesOf(sizes[n], l, groups[n])
  <2> SUFFICES ASSUME NEW n \in 1 .. m PROVE \E l : SizesOf(sizes[n], l, groups[n])
    OBVIOUS
  <2> DEFINE g == groups[n]
  <2>1. IsSequence(g) /\ \A i \in DOMAIN g : KnownRun(g[i])
    BY <1>3
  <2> HIDE DEF g
  <2>2. \E l : SizesOf(SizesInOrder(g), l, g)
    BY <2>1, SizesAre
  <2> QED BY <2>2 DEF g
<1>5. \A n \in 1 .. m : seqs[n] = [k \in DOMAIN sizes[n] |->
                                     AggregateRow(n, groups[n], sizes[n][k][2])]
  OBVIOUS
<1>6. DOMAIN seqs = 1 .. m /\ IsSequence(seqs) /\ Len(seqs) = m
  <2>1. seqs = [n \in 1 .. m |-> seqs[n]]
    OBVIOUS
  <2> HIDE DEF seqs
  <2> QED BY <1>1, <2>1, FunctionIsSequence
<1> HIDE DEF sizes, seqs, rows, Around
<1>7. ASSUME NEW n \in 1 .. m, NEW l, SizesOf(sizes[n], l, groups[n])
      PROVE  /\ l \in Nat /\ IsSequence(seqs[n]) /\ Len(seqs[n]) = l /\ DOMAIN seqs[n] = 1 .. l
             /\ \A k \in 1 .. l :
                  /\ seqs[n][k].halo = sizes[n][k][2]
                  /\ seqs[n][k].count = Cardinality(Having(n, sizes[n][k][2]))
                  /\ seqs[n][k].count \in Nat
                  /\ Around(seqs[n][k])
  <2>1. l \in Nat /\ DOMAIN sizes[n] = 1 .. l
    BY <1>7 DEF SizesOf
  <2>2. seqs[n] = [k \in 1 .. l |-> AggregateRow(n, groups[n], sizes[n][k][2])]
    BY <1>5, <2>1
  <2>3. IsSequence(seqs[n]) /\ Len(seqs[n]) = l
    <3>1. seqs[n] = [k \in 1 .. l |-> seqs[n][k]]
      BY <2>2
    <3> QED BY <2>1, <3>1, FunctionIsSequence
  <2>4. ASSUME NEW k \in 1 .. l
        PROVE  /\ seqs[n][k].halo = sizes[n][k][2]
               /\ seqs[n][k].count = Cardinality(Having(n, sizes[n][k][2]))
               /\ seqs[n][k].count \in Nat
               /\ Around(seqs[n][k])
    <3> DEFINE h == sizes[n][k][2]
               C == classes[n]
               row == AggregateRow(n, Chosen(ordered, C), h)
    <3>1. seqs[n][k] = row
      BY <1>3, <2>2
    <3>2. C \in SUBSET (1 .. N)
      BY <1>1
    <3>3. Having(n, h) # {}
      <4>1. PICK i \in DOMAIN groups[n] : h \in Halos(groups[n][i])
        BY <1>7 DEF SizesOf
      <4>2. groups[n][i] \in ToSet(groups[n])
        BY DEF ToSet
      <4>3. PICK j \in classes[n] : groups[n][i] = ordered[j]
        BY <1>3, <4>2
      <4> HIDE DEF h
      <4> QED BY <4>1, <4>3
    <3> HIDE DEF h, C
    <3>4. /\ row.halo = h /\ row.count = Cardinality({i \in C : h \in Halos(ordered[i])})
          /\ row.count \in Nat
          /\ {i \in C : h \in Halos(ordered[i])} # {} => Around(row)
      <4>1. CountsRuns(row, ordered, C, h)
        BY <3>2, RowIs
      <4> HIDE DEF row
      <4> QED BY <4>1 DEF CountsRuns, Around
    <3> HIDE DEF row
    <3>5. {i \in C : h \in Halos(ordered[i])} = Having(n, h)
      BY DEF C
    <3>6. /\ row.halo = h /\ row.count = Cardinality(Having(n, h)) /\ row.count \in Nat
          /\ Around(row)
      BY <3>3, <3>4, <3>5
    <3> HIDE DEF Having
    <3> QED BY <3>1, <3>6 DEF h
  <2> QED BY <2>1, <2>2, <2>3, <2>4
<1>8. ASSUME NEW n \in 1 .. m, NEW h
      PROVE  AddUpTo(CountsOf(seqs[n], h), Cardinality(Having(n, h)))
  <2>1. PICK l : SizesOf(sizes[n], l, groups[n])
    BY <1>4
  <2>2. /\ l \in Nat /\ DOMAIN seqs[n] = 1 .. l
        /\ \A k \in 1 .. l : /\ seqs[n][k].halo = sizes[n][k][2]
                             /\ seqs[n][k].count = Cardinality(Having(n, sizes[n][k][2]))
                             /\ seqs[n][k].count \in Nat
    BY <1>7, <2>1
  <2> DEFINE counts == CountsOf(seqs[n], h)
             c == Cardinality(Having(n, h))
  <2>3. counts = [i \in 1 .. l |-> IF seqs[n][i].halo = h THEN seqs[n][i].count ELSE 0]
    BY <2>2 DEF CountsOf
  <2>4. CASE \E k \in 1 .. l : sizes[n][k][2] = h
    <3>1. PICK k \in 1 .. l : sizes[n][k][2] = h
      BY <2>4
    <3>2. \A i \in 1 .. l : sizes[n][i][2] = h => i = k
      BY <2>1, <3>1 DEF SizesOf
    <3>3. c \in Nat
      BY <2>2, <3>1
    <3>4. seqs[n][k].halo = h /\ seqs[n][k].count = c
      BY <2>2, <3>1
    <3> HIDE DEF counts, c, Having
    <3>5. counts = [i \in 1 .. l |-> IF i = k THEN c ELSE 0]
      <4>1. \A i \in 1 .. l : (IF seqs[n][i].halo = h THEN seqs[n][i].count ELSE 0)
                                = IF i = k THEN c ELSE 0
        BY <2>2, <3>1, <3>2, <3>4
      <4> QED BY <2>3, <4>1
    <3>6. AddsTo(counts, l, IF k \in 1 .. l THEN c ELSE 0)
      <4>1. k \in Nat
        BY <2>2
      <4> QED BY <2>2, <3>3, <3>5, <4>1, OneCounts
    <3>7. AddsTo(counts, l, c)
      BY <3>1, <3>6
    <3> QED BY <3>7 DEF AddUpTo, counts, c
  <2>5. CASE ~\E k \in 1 .. l : sizes[n][k][2] = h
    <3>1. Having(n, h) = {}
      <4> SUFFICES ASSUME NEW j \in classes[n], h \in Halos(ordered[j]) PROVE FALSE
        OBVIOUS
      <4>1. ordered[j] \in ToSet(groups[n])
        BY <1>3
      <4>2. PICK i \in DOMAIN groups[n] : groups[n][i] = ordered[j]
        BY <4>1 DEF ToSet
      <4>3. \E k \in 1 .. l : sizes[n][k][2] = h
        BY <2>1, <4>2 DEF SizesOf
      <4> QED BY <2>5, <4>3
    <3>2. c = 0
      <4> HIDE DEF Having
      <4> QED BY <3>1, FS_EmptySet
    <3> HIDE DEF counts, c, Having
    <3>3. counts = [i \in 1 .. l |-> IF i = 0 THEN 0 ELSE 0]
      <4>1. \A i \in 1 .. l : (IF seqs[n][i].halo = h THEN seqs[n][i].count ELSE 0)
                                = IF i = 0 THEN 0 ELSE 0
        BY <2>2, <2>5
      <4> QED BY <2>3, <4>1
    <3>4. AddsTo(counts, l, IF 0 \in 1 .. l THEN 0 ELSE 0)
      <4>1. 0 \in Nat
        OBVIOUS
      <4> QED BY <2>2, <3>3, <4>1, OneCounts
    <3>5. AddsTo(counts, l, c)
      BY <3>2, <3>4
    <3> QED BY <3>5 DEF AddUpTo, counts, c
  <2> QED BY <2>4, <2>5
<1>9. \A n \in 1 .. m : IsSequence(seqs[n])
  <2> SUFFICES ASSUME NEW n \in 1 .. m PROVE IsSequence(seqs[n])
    OBVIOUS
  <2>1. PICK l : SizesOf(sizes[n], l, groups[n])
    BY <1>4
  <2> QED BY <1>7, <2>1
<1>10. ASSUME NEW h
       PROVE  SumFunction(CountsOf(rows, h)) = Cardinality({i \in 1 .. N : h \in Halos(ordered[i])})
  <2> DEFINE X == {i \in 1 .. N : h \in Halos(ordered[i])}
             group == [i \in 1 .. N |-> CHOOSE n \in 1 .. m : i \in classes[n]]
  <2>1. IsFiniteSet(X)
    <3>1. IsFiniteSet(1 .. N) /\ X \subseteq 1 .. N
      BY FS_Interval
    <3> QED BY <3>1, FS_Subset
  <2>2. \A i \in 1 .. N : group[i] \in 1 .. m /\ i \in classes[group[i]]
    BY <1>1
  <2> HIDE DEF group
  <2>3. \A n \in 1 .. m : Share(X, group, n) = Having(n, h)
    <3> SUFFICES ASSUME NEW n \in 1 .. m PROVE Share(X, group, n) = Having(n, h)
      OBVIOUS
    <3>1. classes[n] \subseteq 1 .. N
      BY <1>1
    <3>2. \A i \in 1 .. N : group[i] = n <=> i \in classes[n]
      BY <1>1, <2>2
    <3> QED BY <3>1, <3>2 DEF Share
  <2>4. \A n \in 1 .. m : AddUpTo(CountsOf(seqs[n], h), Cardinality(Share(X, group, n)))
    BY <1>8, <2>3
  <2>5. \A x \in X : group[x] \in 1 .. m
    BY <2>2
  <2> HIDE DEF X, Having
  <2>6. SumFunction(CountsOf(FlattenSeq(seqs), h)) = Cardinality(X)
    BY <1>1, <1>6, <1>9, <2>1, <2>4, <2>5, CountsAdd
  <2> QED BY <1>2, <2>6 DEF X
<1>11. ASSUME NEW i \in DOMAIN rows PROVE Around(rows[i])
  <2> DEFINE flat == FlattenSeq(seqs)
  <2>1. /\ IsSequence(flat)
        /\ \A j \in 1 .. Len(flat) :
             \E n \in DOMAIN seqs : \E k \in DOMAIN seqs[n] : flat[j] = seqs[n][k]
    BY <1>6, <1>9, FlattenOf
  <2> HIDE DEF flat
  <2>2. DOMAIN flat = 1 .. Len(flat) /\ rows = flat
    BY <1>2, <2>1, SequenceIs DEF flat
  <2>3. PICK n \in 1 .. m : \E k \in DOMAIN seqs[n] : rows[i] = seqs[n][k]
    BY <1>6, <2>1, <2>2
  <2>4. PICK k \in DOMAIN seqs[n] : rows[i] = seqs[n][k]
    BY <2>3
  <2>5. PICK l : SizesOf(sizes[n], l, groups[n])
    BY <1>4
  <2>6. DOMAIN seqs[n] = 1 .. l /\ \A j \in 1 .. l : Around(seqs[n][j])
    BY <1>7, <2>5
  <2> QED BY <2>4, <2>6
<1> QED BY <1>10, <1>11 DEF rows, Around

\* The runs of a call, in output order, in groups.
LEMMA AggregatesAre ==
  ASSUME KnownInv, LoadInv, phase = "loaded"
  PROVE  LET groups == Groups(sorted_runs_for_output(runs), call.allowMixed, call.groupBy)
         IN /\ RowsAddUp(aggregate_rows(groups))
            /\ call.groupBy = {} =>
                 \A n \in DOMAIN groups : \A a, b \in ToSet(groups[n]) :
                   Sizes(a) = Sizes(b) /\ a.ranks = b.ranks /\ a.backend = b.backend
<1> DEFINE ordered == sorted_runs_for_output(runs)
           key == [i \in DOMAIN ordered |-> KeyOf(ordered[i], call.allowMixed, call.groupBy)]
           groups == Groups(ordered, call.allowMixed, call.groupBy)
           N == Len(runs)
           rows == aggregate_rows(groups)
<1>1. IsSequence(runs) /\ \A i \in DOMAIN runs : KnownRun(runs[i])
  BY LoadedRuns DEF LoadInv
<1>2. N \in Nat /\ DOMAIN runs = 1 .. N
  BY <1>1, SequenceIs
<1>3. PICK perm : OutputOrder(perm, runs)
  BY <1>1, SortedRuns
<1>4. /\ perm \in [1 .. N -> 1 .. N]
      /\ \A i \in 1 .. N : \E k \in 1 .. N : perm[k] = i
      /\ \A i, j \in 1 .. N : perm[i] = perm[j] => i = j
      /\ ordered = [k \in 1 .. N |-> runs[perm[k]]]
  BY <1>3 DEF OutputOrder
<1>5. groups = InGroups(ordered, key)
  BY DEF Groups
<1>6. \A i \in DOMAIN ordered : key[i] = KeyOf(ordered[i], call.allowMixed, call.groupBy)
  OBVIOUS
<1> HIDE DEF ordered, key, groups, N, rows
<1>7. DOMAIN ordered = 1 .. N /\ \A i \in 1 .. N : ordered[i] = runs[perm[i]] /\ KnownRun(ordered[i])
  BY <1>1, <1>2, <1>4
<1>8. PICK classes, m : /\ Classes(classes, m, N, key)
                        /\ groups = [n \in 1 .. m |-> Chosen(ordered, classes[n])]
  BY <1>2, <1>5, <1>7, GroupsAre
<1>9. /\ \A h : SumFunction(CountsOf(rows, h)) = Cardinality({i \in 1 .. N : h \in Halos(ordered[i])})
      /\ \A i \in DOMAIN rows :
           /\ 100 * rows[i].minimum <= rows[i].q1 /\ rows[i].q1 <= 50 * rows[i].median2
           /\ 50 * rows[i].median2 <= rows[i].q3 /\ rows[i].q3 <= 100 * rows[i].maximum
  BY <1>2, <1>7, <1>8, RowsOfGroups DEF rows
<1>10. ASSUME NEW h
       PROVE  Cardinality({i \in 1 .. N : h \in Halos(ordered[i])})
                = Cardinality({i \in DOMAIN runs : h \in Halos(runs[i])})
  <2> DEFINE A == {i \in 1 .. N : h \in Halos(ordered[i])}
             B == {i \in 1 .. N : h \in Halos(runs[i])}
             f == [i \in A |-> perm[i]]
  <2>1. IsFiniteSet(A)
    <3>1. IsFiniteSet(1 .. N) /\ A \subseteq 1 .. N
      BY <1>2, FS_Interval
    <3> QED BY <3>1, FS_Subset
  <2>2. f \in [A -> B]
    BY <1>4, <1>7
  <2>3. \A y \in B : \E x \in A : f[x] = y
    <3> SUFFICES ASSUME NEW y \in B PROVE \E x \in A : f[x] = y
      OBVIOUS
    <3>1. PICK k \in 1 .. N : perm[k] = y
      BY <1>4
    <3>2. k \in A
      BY <1>7, <3>1
    <3> QED BY <3>1, <3>2
  <2>4. \A x, y \in A : f[x] = f[y] => x = y
    BY <1>4
  <2>5. B = {i \in DOMAIN runs : h \in Halos(runs[i])}
    BY <1>2
  <2> HIDE DEF A, B, f
  <2>6. OneToOne(f, A, B)
    BY <2>2, <2>3, <2>4 DEF OneToOne
  <2>7. Cardinality(B) = Cardinality(A)
    BY <2>1, <2>6, SameCount
  <2> QED BY <2>5, <2>7 DEF A
<1>11. RowsAddUp(rows)
  <2>1. \A h : SumFunction([i \in DOMAIN rows |-> IF rows[i].halo = h THEN rows[i].count ELSE 0])
                 = Cardinality({i \in DOMAIN runs : h \in Halos(runs[i])})
    BY <1>9, <1>10 DEF CountsOf
  <2> QED BY <1>9, <2>1 DEF RowsAddUp
<1>12. ASSUME call.groupBy = {}, NEW n \in DOMAIN groups,
              NEW a \in ToSet(groups[n]), NEW b \in ToSet(groups[n])
       PROVE  Sizes(a) = Sizes(b) /\ a.ranks = b.ranks /\ a.backend = b.backend
  <2>1. n \in 1 .. m /\ groups[n] = Chosen(ordered, classes[n])
    BY <1>8
  <2>2. /\ classes[n] \subseteq 1 .. N /\ \A i, j \in classes[n] : key[i] = key[j]
    BY <1>8, <2>1 DEF Classes
  <2>3. ToSet(groups[n]) = {ordered[i] : i \in classes[n]}
    BY <1>2, <2>1, <2>2, ChosenIs
  <2>4. PICK i \in classes[n] : a = ordered[i]
    BY <2>3
  <2>5. PICK j \in classes[n] : b = ordered[j]
    BY <2>3
  <2>6. key[i] = <<"compatible", compatibility_key(a)>> /\ key[j] = <<"compatible", compatibility_key(b)>>
    BY <1>6, <1>7, <1>12, <2>2, <2>4, <2>5 DEF KeyOf
  <2>7. compatibility_key(a) = compatibility_key(b)
    BY <2>2, <2>4, <2>5, <2>6
  <2> QED BY <2>7 DEF compatibility_key
<1>13. RowsAddUp(rows) /\ (call.groupBy = {} =>
         \A n \in DOMAIN groups : \A a, b \in ToSet(groups[n]) :
           Sizes(a) = Sizes(b) /\ a.ranks = b.ranks /\ a.backend = b.backend)
  BY <1>11, <1>12
<1> QED BY <1>13 DEF rows, groups, ordered

\* Every result of the runs of a call is counted in one row of its aggregate: the
\* groups have every run once, and a group has every size of its runs once.  The
\* quartiles of a row lie around its median, also of one, two or three values; and
\* runs of different bytes, ranks or backends are in different groups unless
\* --group-by asks for it (aggregate_rows, percentile, compatibility_key).
THEOREM AggregatesAreComplete == Spec => []AggregatesAddUp
<1>1. AnalysisInv => AggregatesAddUp
  BY AggregatesAre DEF AnalysisInv, AggregatesAddUp
<1> QED BY <1>1, AnalysisAlways, PTL

-----------------------------------------------------------------------------
(* Copies. *)

\* The words of a backend are one or two.
LEMMA TheBackendWords ==
  ASSUME NEW backend \in DOMAIN BackendWords
  PROVE  \E n \in {1, 2} : Len(BackendWords[backend]) = n /\ DOMAIN BackendWords[backend] = 1 .. n
  BY DEF BackendWords

\* A label is not empty, and its places are numbered.
LEMMA LabelIs ==
  ASSUME NEW label \in ToSet(Labels)
  PROVE  /\ label \in Seq(STRING) /\ Len(label) \in Nat /\ Len(label) > 0
         /\ DOMAIN label = 1 .. Len(label)
<1>1. PICK i \in DOMAIN Labels : label = Labels[i]
  BY DEF ToSet
<1>2. Labels \in Seq(Seq(STRING))
  BY WordsAssumption
<1>3. label \in Seq(STRING)
  BY <1>1, <1>2, LenProperties, ElementOfSeq
<1>4. label # <<>>
  BY WordsAssumption
<1> QED BY <1>3, <1>4, LenProperties, EmptySeq

\* What is left of a label begins after some words of the backend.
Shortened(label, words, d, rest) ==
  /\ d \in Nat /\ d < Len(label) /\ \A i \in 1 .. d : label[i] \in words
  /\ DOMAIN rest = 1 .. Len(label) - d
  /\ \A i \in 1 .. Len(label) - d : rest[i] = label[i + d]

LEMMA NormalizeIs ==
  ASSUME NEW label \in ToSet(Labels), NEW backend \in DOMAIN BackendWords
  PROVE  \E d : Shortened(label, ToSet(BackendWords[backend]), d, normalize_label(label, backend))
<1> DEFINE words == BackendWords[backend]
           n == Len(words)
           l == Len(label)
           Repeated(k) == k * n < l /\ \A i \in 1 .. k * n : label[i] = words[((i - 1) % n) + 1]
           k == CHOOSE x \in 0 .. l : Repeated(x) /\ ~Repeated(x + 1)
           d == k * n
<1>1. n \in {1, 2} /\ DOMAIN words = 1 .. n
  BY TheBackendWords
<1>2. l \in Nat /\ l > 0 /\ label \in Seq(STRING) /\ DOMAIN label = 1 .. l
  BY LabelIs
<1>3. normalize_label(label, backend) = SubSeq(label, d + 1, l)
  BY DEF normalize_label
<1> HIDE DEF words, n, l
<1>4. \E x \in 0 .. l : Repeated(x) /\ ~Repeated(x + 1)
  <2> SUFFICES ASSUME \A x \in 0 .. l : Repeated(x) => Repeated(x + 1) PROVE FALSE
    OBVIOUS
  <2> DEFINE G == {x \in 0 .. l : Repeated(x)}
  <2>1. 0 \in G
    <3>1. 0 * n = 0
      BY <1>1
    <3> QED BY <1>2, <3>1
  <2>2. \A x \in 1 .. l : x - 1 \in G => x \in G
    <3> SUFFICES ASSUME NEW x \in 1 .. l, x - 1 \in G PROVE x \in G
      OBVIOUS
    <3>1. x - 1 \in 0 .. l /\ Repeated(x - 1)
      OBVIOUS
    <3>2. Repeated(x - 1 + 1)
      BY <3>1
    <3>3. x - 1 + 1 = x
      OBVIOUS
    <3> HIDE DEF Repeated
    <3> QED BY <3>2, <3>3
  <2>3. l \in G
    <3> HIDE DEF G
    <3>1. \A x \in 0 .. l : x \in G
      BY <1>2, <2>1, <2>2, UpTo
    <3> QED BY <1>2, <3>1
  <2>4. l * n < l
    BY <2>3
  <2>5. l * 1 = l /\ l * 2 = l + l
    BY <1>2
  <2> QED BY <1>1, <1>2, <2>4, <2>5
<1>5. k \in 0 .. l /\ Repeated(k)
  BY <1>4
<1> HIDE DEF k
<1>6. d \in Nat
  BY <1>1, <1>2, <1>5
<1>7. d < l /\ \A i \in 1 .. d : label[i] = words[((i - 1) % n) + 1]
  BY <1>5
<1> HIDE DEF d
<1>8. \A i \in 1 .. d : label[i] \in ToSet(words)
  <2> SUFFICES ASSUME NEW i \in 1 .. d PROVE label[i] \in ToSet(words)
    OBVIOUS
  <2>1. ((i - 1) % n) + 1 \in 1 .. n
    BY <1>1, <1>6
  <2> QED BY <1>1, <1>7, <2>1 DEF ToSet
<1>9. /\ Len(SubSeq(label, d + 1, l)) = l - d
      /\ SubSeq(label, d + 1, l) \in Seq(STRING)
      /\ \A i \in 1 .. l - d : SubSeq(label, d + 1, l)[i] = label[i + d]
  <2> DEFINE a == d + 1
  <2>1. a \in 1 .. l + 1 /\ l \in a - 1 .. Len(label) /\ (a <= l => a \in 1 .. Len(label))
    BY <1>2, <1>6, <1>7 DEF l
  <2>2. /\ SubSeq(label, a, l) \in Seq(STRING)
        /\ Len(SubSeq(label, a, l)) = IF a <= l THEN l - a + 1 ELSE 0
        /\ \A i \in 1 .. l - a + 1 : SubSeq(label, a, l)[i] = label[a + i - 1]
    BY <1>2, <2>1, SubSeqProperties
  <2> QED BY <1>2, <1>6, <1>7, <2>2
<1>10. DOMAIN SubSeq(label, d + 1, l) = 1 .. l - d
  BY <1>9, LenProperties
<1>11. Shortened(label, ToSet(words), d, SubSeq(label, d + 1, l))
  BY <1>6, <1>7, <1>8, <1>9, <1>10 DEF Shortened, l
<1> QED BY <1>3, <1>11 DEF words

\* A count that is said in a label is said in what is left of it.
LEMMA CountStays ==
  ASSUME NEW name, NEW short, NEW words, NEW d, NEW counts,
         name.label \in ToSet(Labels), name.suffix = 1, short.suffix = 1,
         Shortened(name.label, words, d, short.label), words \cap DOMAIN counts = {}
  PROVE  parse_count(short, counts) = parse_count(name, counts)
<1> DEFINE a == name.label
           b == short.label
           l == Len(a)
           A == {i \in DOMAIN a : a[i] \in DOMAIN counts}
           B == {i \in DOMAIN b : b[i] \in DOMAIN counts}
           x == CHOOSE i \in A : \A j \in A : i <= j
           y == CHOOSE i \in B : \A j \in B : i <= j
<1>1. l \in Nat /\ DOMAIN a = 1 .. l
  BY LabelIs
<1>2. /\ d \in Nat /\ d < l /\ DOMAIN b = 1 .. l - d
      /\ \A i \in 1 .. d : a[i] \in words
      /\ \A i \in 1 .. l - d : b[i] = a[i + d]
  BY DEF Shortened
<1>3. parse_count(name, counts) = IF A = {} THEN 0 ELSE counts[a[x]]
  <2>1. A = {i \in DOMAIN a : a[i] \in DOMAIN counts /\ ~(i = Len(a) /\ name.suffix > 1)}
    OBVIOUS
  <2> QED BY <2>1 DEF parse_count
<1>4. parse_count(short, counts) = IF B = {} THEN 0 ELSE counts[b[y]]
  <2>1. B = {i \in DOMAIN b : b[i] \in DOMAIN counts /\ ~(i = Len(b) /\ short.suffix > 1)}
    OBVIOUS
  <2> QED BY <2>1 DEF parse_count
<1> HIDE DEF a, b, l
<1>5. \A i \in A : i \in 1 .. l /\ i > d /\ i - d \in B
  <2> SUFFICES ASSUME NEW i \in A PROVE i \in 1 .. l /\ i > d /\ i - d \in B
    OBVIOUS
  <2>1. i \in 1 .. l /\ a[i] \in DOMAIN counts
    BY <1>1
  <2>2. i \notin 1 .. d
    BY <1>2, <2>1
  <2>3. i > d /\ i - d \in 1 .. l - d /\ (i - d) + d = i
    BY <1>1, <1>2, <2>1, <2>2
  <2>4. b[i - d] = a[i]
    BY <1>2, <2>3
  <2> QED BY <1>2, <2>1, <2>3, <2>4
<1>6. \A i \in B : i \in 1 .. l - d /\ i + d \in A /\ b[i] = a[i + d]
  <2> SUFFICES ASSUME NEW i \in B PROVE i \in 1 .. l - d /\ i + d \in A /\ b[i] = a[i + d]
    OBVIOUS
  <2>1. i \in 1 .. l - d /\ b[i] \in DOMAIN counts
    BY <1>2
  <2>2. i + d \in 1 .. l /\ b[i] = a[i + d]
    BY <1>1, <1>2, <2>1
  <2> QED BY <1>1, <2>1, <2>2
<1>7. CASE B = {}
  <2>1. A = {}
    BY <1>5, <1>7
  <2> QED BY <1>3, <1>4, <1>7, <2>1
<1>8. CASE B # {}
  <2>1. A # {}
    BY <1>6, <1>8
  <2>2. A \subseteq Nat /\ B \subseteq Nat
    BY <1>1, <1>2
  <2>3. x \in A /\ \A j \in A : x <= j
    <3>1. \E i \in A : \A j \in A : i <= j
      BY <2>1, <2>2, LeastOf
    <3> QED BY <3>1
  <2>4. y \in B /\ \A j \in B : y <= j
    <3>1. \E i \in B : \A j \in B : i <= j
      BY <1>8, <2>2, LeastOf
    <3> QED BY <3>1
  <2> HIDE DEF x, y, A, B
  <2>5. x \in 1 .. l /\ y \in 1 .. l - d /\ x - d \in B /\ y + d \in A /\ b[y] = a[y + d]
    BY <1>5, <1>6, <2>3, <2>4
  <2>6. x = y + d
    <3>1. x <= y + d /\ y <= x - d
      BY <2>3, <2>4, <2>5
    <3> QED BY <1>1, <1>2, <2>5, <3>1
  <2> QED BY <1>3, <1>4, <1>8, <2>1, <2>5, <2>6
<1> QED BY <1>7, <1>8

\* A word that is none of the backend's is in a label if it is in what is left.
LEMMA WordStays ==
  ASSUME NEW label \in ToSet(Labels), NEW rest, NEW words, NEW d, NEW word,
         Shortened(label, words, d, rest), word \notin words
  PROVE  (\E i \in DOMAIN rest : rest[i] = word) <=> \E i \in DOMAIN label : label[i] = word
<1> DEFINE l == Len(label)
<1>1. l \in Nat /\ DOMAIN label = 1 .. l
  BY LabelIs
<1>2. /\ d \in Nat /\ d < l /\ DOMAIN rest = 1 .. l - d
      /\ \A i \in 1 .. d : label[i] \in words
      /\ \A i \in 1 .. l - d : rest[i] = label[i + d]
  BY DEF Shortened
<1> HIDE DEF l
<1>3. ASSUME NEW i \in DOMAIN rest, rest[i] = word PROVE \E j \in DOMAIN label : label[j] = word
  <2>1. i + d \in 1 .. l /\ label[i + d] = word
    BY <1>1, <1>2, <1>3
  <2> QED BY <1>1, <2>1
<1>4. ASSUME NEW i \in DOMAIN label, label[i] = word PROVE \E j \in DOMAIN rest : rest[j] = word
  <2>1. i \in 1 .. l /\ i \notin 1 .. d
    BY <1>1, <1>2, <1>4
  <2>2. i - d \in 1 .. l - d /\ (i - d) + d = i
    BY <1>1, <1>2, <2>1
  <2>3. rest[i - d] = word
    BY <1>2, <1>4, <2>2
  <2> QED BY <1>2, <2>2, <2>3
<1> QED BY <1>3, <1>4

\* A copy that got the first name: what unique_destination makes of a path.
FirstCopy(path, bundle, copy) ==
  LET inferred == infer_bundle(path, bundle)
  IN /\ copy.system = inferred.system /\ copy.version = inferred.version
     /\ copy.name = [stamp |-> path.name.stamp, backend |-> inferred.backend,
                     label |-> inferred.label, suffix |-> 1]

Says(name, word) == \E i \in DOMAIN name.label : name.label[i] = word

ModeSaid(name) ==
  IF name.backend # "rccl" THEN ""
  ELSE IF Says(name, "stream-ordered") THEN "stream-ordered"
  ELSE IF Says(name, "conservative") THEN "conservative" ELSE ""

Name(path) == IF path.name.stamp # "unknown" THEN path.name ELSE NoName

\* What the name in a path says of the run.
LEMMA PathSays ==
  ASSUME NEW path, path.version = "" \/ IsVersion(path.version)
  PROVE  /\ infer_path_metadata(path).stamp = Name(path).stamp
         /\ infer_path_metadata(path).nodes = parse_count(Name(path), NodesIn)
         /\ infer_path_metadata(path).ranks = parse_count(Name(path), RanksIn)
         /\ infer_path_metadata(path).mode = ModeSaid(Name(path))
         /\ path.version = "" => infer_path_metadata(path).rocm = NoVersion
  BY DEF infer_path_metadata, Name, IsVersion, ModeSaid, Says

\* The names of a flat bundle and of its copy.
LEMMA SameName ==
  ASSUME NEW name, NEW short, NEW words, NEW d,
         name.label \in ToSet(Labels), name.suffix = 1, short.suffix = 1,
         Shortened(name.label, words, d, short.label),
         words \cap DOMAIN NodesIn = {}, words \cap DOMAIN RanksIn = {},
         "stream-ordered" \notin words, "conservative" \notin words,
         ToSet(name.label) \cap {"stream-ordered", "conservative"} # {} =>
           short.backend = name.backend
  PROVE  /\ parse_count(short, NodesIn) = parse_count(name, NodesIn)
         /\ parse_count(short, RanksIn) = parse_count(name, RanksIn)
         /\ ModeSaid(short) = ModeSaid(name)
<1>1. parse_count(short, NodesIn) = parse_count(name, NodesIn)
  BY CountStays
<1>2. parse_count(short, RanksIn) = parse_count(name, RanksIn)
  BY CountStays
<1>3. \A word \in {"stream-ordered", "conservative"} : Says(short, word) <=> Says(name, word)
  BY WordStays DEF Says
<1>4. CASE Says(name, "stream-ordered") \/ Says(name, "conservative")
  <2>1. ToSet(name.label) \cap {"stream-ordered", "conservative"} # {}
    BY <1>4 DEF Says, ToSet
  <2> QED BY <1>1, <1>2, <1>3, <2>1 DEF ModeSaid
<1>5. CASE ~(Says(name, "stream-ordered") \/ Says(name, "conservative"))
  BY <1>1, <1>2, <1>3, <1>5 DEF ModeSaid
<1> QED BY <1>4, <1>5

\* The words of each backend, none of which says a mode.
LEMMA WordsAre ==
  ASSUME NEW backend \in DOMAIN BackendWords
  PROVE  ToSet(BackendWords[backend]) \in {{"mpi"}, {"rccl"}, {"mpi", "hip"}, {"unknown"}}
<1>1. ASSUME NEW x PROVE ToSet(<<x>>) = {x}
  <2>1. DOMAIN <<x>> = {1} /\ <<x>>[1] = x
    OBVIOUS
  <2> QED BY <2>1 DEF ToSet
<1>2. ASSUME NEW x, NEW y PROVE ToSet(<<x, y>>) = {x, y}
  <2>1. DOMAIN <<x, y>> = {1, 2} /\ <<x, y>>[1] = x /\ <<x, y>>[2] = y
    OBVIOUS
  <2> QED BY <2>1 DEF ToSet
<1>3. /\ DOMAIN BackendWords = {"mpi", "rccl", "mpi_hip", "unknown"}
      /\ BackendWords["mpi"] = <<"mpi">> /\ BackendWords["rccl"] = <<"rccl">>
      /\ BackendWords["mpi_hip"] = <<"mpi", "hip">> /\ BackendWords["unknown"] = <<"unknown">>
  BY DEF BackendWords
<1> QED BY <1>1, <1>2, <1>3

\* The path of a copy says of the run what that of the flat bundle says.
LEMMA SamePathMetadata ==
  ASSUME NEW path \in Paths, NEW bundle, KnownBundle(bundle), path.version = "",
         KnownFlat(path, bundle), NEW copy, FirstCopy(path, bundle, copy),
         copy.version \notin {"", "none"}
  PROVE  /\ infer_path_metadata(copy).nodes = infer_path_metadata(path).nodes
         /\ infer_path_metadata(copy).ranks = infer_path_metadata(path).ranks
         /\ infer_path_metadata(copy).stamp = infer_path_metadata(path).stamp
         /\ infer_path_metadata(copy).mode = infer_path_metadata(path).mode
         /\ infer_path_metadata(path).rocm = NoVersion
<1>1. PICK inferred : inferred = infer_bundle(path, bundle)
  OBVIOUS
<1>2. PICK name, short : name = path.name /\ short = copy.name
  OBVIOUS
<1>3. /\ name.label \in ToSet(Labels) /\ name.suffix = 1
      /\ name.stamp # "unknown" /\ ToSet(name.label) \cap {"stream-ordered", "conservative"} # {} =>
           inferred.backend = name.backend
  BY <1>1, <1>2 DEF Paths, KnownFlat
<1>4. /\ short.stamp = name.stamp /\ short.backend = inferred.backend
      /\ short.label = inferred.label /\ short.suffix = 1
  <2>1. short = [stamp |-> name.stamp, backend |-> inferred.backend,
                 label |-> inferred.label, suffix |-> 1]
    BY <1>1, <1>2, Zenon DEF FirstCopy
  <2>2. PICK a, b : a = inferred.backend /\ b = inferred.label
    OBVIOUS
  <2>3. short = [stamp |-> name.stamp, backend |-> a, label |-> b, suffix |-> 1]
    BY <2>1, <2>2, Zenon
  <2>4. short.stamp = name.stamp /\ short.backend = a /\ short.label = b /\ short.suffix = 1
    BY <2>3
  <2> QED BY <2>2, <2>4, Zenon
<1>5. inferred.backend \in DOMAIN BackendWords
  BY <1>1, InferredType
<1>6. inferred.label = normalize_label(name.label, inferred.backend)
  <2> DEFINE first == First(bundle)
             f == CHOOSE r \in first : TRUE
             backend == IF first # {} THEN f.backend
                        ELSE Value(bundle, "system-resolution.txt", "backend", path.name.backend)
             category == Value(bundle, "result-metadata.txt", "result_category",
                               infer_category(path.name.label, first))
             rocm == FirstVersion(<<IF first # {} THEN f.rocm ELSE NoVersion,
                       Value(bundle, "result-metadata.txt", "rocm_version", NoVersion),
                       Value(bundle, "result-metadata.txt", "loaded_rocm_module", NoVersion)>>)
             sys == Value(bundle, "system-resolution.txt", "active_system", path.system)
             known == IF category \in CATEGORIES THEN category ELSE "repeatability"
  <2>1. inferred = [system |-> sys, version |-> normalize_rocm(rocm), category |-> known,
                    backend |-> backend, label |-> normalize_label(path.name.label, backend)]
    BY <1>1 DEF infer_bundle
  <2> HIDE DEF backend, known, rocm, sys
  <2>2. inferred.backend = backend /\ inferred.label = normalize_label(path.name.label, backend)
    BY <2>1
  <2> QED BY <1>2, <2>2
<1>7. PICK words : words = ToSet(BackendWords[inferred.backend])
  OBVIOUS
<1>8. PICK d : Shortened(name.label, words, d, short.label)
  BY <1>3, <1>4, <1>5, <1>6, <1>7, NormalizeIs
<1>9. words \cap DOMAIN NodesIn = {} /\ words \cap DOMAIN RanksIn = {}
  BY <1>5, <1>7, WordsAssumption
<1>10. "stream-ordered" \notin words /\ "conservative" \notin words
  <2>1. words \in {{"mpi"}, {"rccl"}, {"mpi", "hip"}, {"unknown"}}
    BY <1>5, <1>7, WordsAre
  <2> QED BY <2>1
<1>11. /\ path.version = "" \/ IsVersion(path.version)
       /\ copy.version = "" \/ IsVersion(copy.version)
  BY DEF IsVersion
<1>12. CASE name.stamp = "unknown"
  <2>1. Name(path) = NoName /\ Name(copy) = NoName
    BY <1>2, <1>4, <1>12 DEF Name
  <2> QED BY <1>11, <2>1, PathSays
<1>13. CASE name.stamp # "unknown"
  <2>1. Name(path) = name /\ Name(copy) = short
    BY <1>2, <1>4, <1>13 DEF Name
  <2>2. /\ parse_count(short, NodesIn) = parse_count(name, NodesIn)
        /\ parse_count(short, RanksIn) = parse_count(name, RanksIn)
        /\ ModeSaid(short) = ModeSaid(name)
    BY <1>3, <1>4, <1>8, <1>9, <1>10, <1>13, SameName
  <2> QED BY <1>4, <1>11, <2>1, <2>2, PathSays
<1> QED BY <1>12, <1>13

\* The first of three versions.
LEMMA FirstVersionIs ==
  ASSUME NEW a, NEW b, NEW x
  PROVE  FirstVersion(<<a, b, x>>) =
           IF a[2] # "" THEN a ELSE IF b[2] # "" THEN b ELSE IF x[2] # "" THEN x ELSE NoVersion
<1> DEFINE t == <<a, b, x>>
           Given(v) == v[2] # ""
           given == {i \in DOMAIN t : Given(t[i])}
           k == CHOOSE i \in given : \A j \in given : i <= j
<1>1. DOMAIN t = 1 .. 3 /\ t[1] = a /\ t[2] = b /\ t[3] = x
  OBVIOUS
<1>2. FirstVersion(t) = IF given = {} THEN NoVersion ELSE t[k]
  BY DEF FirstVersion
<1> HIDE DEF t, Given
<1>3. given # {} => k \in given /\ \A j \in given : k <= j
  <2>1. given \subseteq Nat
    BY <1>1
  <2>2. given # {} => \E i \in given : \A j \in given : i <= j
    BY <2>1, LeastOf
  <2> QED BY <2>2
<1>4. given \subseteq 1 .. 3 /\ \A i \in 1 .. 3 : i \in given <=> Given(t[i])
  BY <1>1
<1> HIDE DEF k, given
<1> SUFFICES FirstVersion(t) = IF Given(a) THEN a ELSE IF Given(b) THEN b
                               ELSE IF Given(x) THEN x ELSE NoVersion
  BY DEF t, Given
<1>5. CASE Given(a)
  <2>1. 1 \in given
    BY <1>1, <1>4, <1>5
  <2>2. k = 1
    <3>1. k \in given /\ k <= 1
      BY <1>3, <2>1
    <3>2. k \in 1 .. 3
      BY <1>4, <3>1
    <3> QED BY <2>1, <3>1, <3>2
  <2> QED BY <1>1, <1>2, <1>5, <2>1, <2>2
<1>6. CASE ~Given(a) /\ Given(b)
  <2>1. 1 \notin given /\ 2 \in given
    BY <1>1, <1>4, <1>6
  <2>2. k = 2
    <3>1. k \in given /\ k <= 2
      BY <1>3, <2>1
    <3>2. k \in 1 .. 3
      BY <1>4, <3>1
    <3> QED BY <2>1, <3>1, <3>2
  <2> QED BY <1>1, <1>2, <1>6, <2>1, <2>2
<1>7. CASE ~Given(a) /\ ~Given(b) /\ Given(x)
  <2>1. 1 \notin given /\ 2 \notin given /\ 3 \in given
    BY <1>1, <1>4, <1>7
  <2>2. k = 3
    <3>1. k \in given /\ k <= 3
      BY <1>3, <2>1
    <3>2. k \in 1 .. 3
      BY <1>4, <3>1
    <3> QED BY <2>1, <3>1, <3>2
  <2> QED BY <1>1, <1>2, <1>7, <2>1, <2>2
<1>8. CASE ~Given(a) /\ ~Given(b) /\ ~Given(x)
  <2>1. 1 \notin given /\ 2 \notin given /\ 3 \notin given
    BY <1>1, <1>4, <1>8
  <2>2. given = {}
    BY <1>4, <2>1
  <2> QED BY <1>1, <1>2, <1>8, <2>2
<1> QED BY <1>5, <1>6, <1>7, <1>8

\* A third version counts only if the others are empty.
LEMMA FirstOfThree ==
  ASSUME NEW a, NEW b, NEW c, FirstVersion(<<a, b, NoVersion>>) # NoVersion
  PROVE  FirstVersion(<<a, b, c>>) = FirstVersion(<<a, b, NoVersion>>)
<1>1. NoVersion[2] = ""
  BY DEF NoVersion
<1> QED BY <1>1, FirstVersionIs

\* The system is first looked for where a copy has it from.
LEMMA SystemFirst ==
  ASSUME NEW run, NEW system0,
         NEW default, default = Value(run.bundle, "system-resolution.txt", "active_system", system0)
  PROVE  meta_value(run, "active_system", default) = meta_value(run, "active_system", system0)
<1> DEFINE having == {i \in DOMAIN MetadataFiles :
             /\ MetadataFiles[i] \in DOMAIN run.bundle
             /\ "active_system" \in DOMAIN run.bundle[MetadataFiles[i]]}
<1>1. \A d : meta_value(run, "active_system", d) =
               IF having = {} THEN d ELSE run.bundle[MetadataFiles[Min(having)]]["active_system"]
  BY DEF meta_value
<1>2. 1 \in DOMAIN MetadataFiles /\ MetadataFiles[1] = "system-resolution.txt"
  BY DEF MetadataFiles
<1>3. having = {} => default = system0
  BY <1>2 DEF Value
<1> HIDE DEF having
<1> QED BY <1>1, <1>3

ReadsLike(copied, original) ==
  /\ copied.results = original.results /\ copied.nodes = original.nodes
  /\ copied.ranks = original.ranks /\ copied.ranks_per_node = original.ranks_per_node
  /\ copied.system = original.system
  /\ copied.rccl_sync_mode = original.rccl_sync_mode
  /\ copied.timestamp = original.timestamp
  /\ original.rocm_version # NoVersion => copied.rocm_version = original.rocm_version

\* A copy with the first name is read like its flat bundle.
LEMMA CopyIsRead ==
  ASSUME NEW path \in Paths, NEW bundle, KnownBundle(bundle), path.version = "",
         KnownFlat(path, bundle), NEW copy, FirstCopy(path, bundle, copy),
         copy.version \notin {"", "none"}
  PROVE  ReadsLike(RunAt(copy, bundle), RunAt(path, bundle))
<1>1. PICK a, b : /\ a = [path |-> path, bundle |-> bundle, results |-> Source(bundle).results]
                  /\ b = [path |-> copy, bundle |-> bundle, results |-> Source(bundle).results]
  OBVIOUS
<1>2. PICK original, copied : original = RunAt(path, bundle) /\ copied = RunAt(copy, bundle)
  OBVIOUS
<1>3. /\ original.results = a.results /\ original.nodes = nodes(a) /\ original.ranks = ranks(a)
      /\ original.ranks_per_node = ranks_per_node(a) /\ original.system = system(a)
      /\ original.rccl_sync_mode = rccl_sync_mode(a) /\ original.timestamp = timestamp(a)
      /\ original.rocm_version = rocm_version(a)
  BY <1>1, <1>2 DEF RunAt
<1>4. /\ copied.results = b.results /\ copied.nodes = nodes(b) /\ copied.ranks = ranks(b)
      /\ copied.ranks_per_node = ranks_per_node(b) /\ copied.system = system(b)
      /\ copied.rccl_sync_mode = rccl_sync_mode(b) /\ copied.timestamp = timestamp(b)
      /\ copied.rocm_version = rocm_version(b)
  BY <1>1, <1>2 DEF RunAt
<1>5. /\ a.path = path /\ b.path = copy /\ a.bundle = bundle /\ b.bundle = bundle
      /\ b.results = a.results
  BY <1>1
<1>6. /\ path_metadata(b).nodes = path_metadata(a).nodes
      /\ path_metadata(b).ranks = path_metadata(a).ranks
      /\ path_metadata(b).stamp = path_metadata(a).stamp
      /\ path_metadata(b).mode = path_metadata(a).mode
      /\ path_metadata(a).rocm = NoVersion
  <2>1. path_metadata(a) = infer_path_metadata(path) /\ path_metadata(b) = infer_path_metadata(copy)
    BY <1>5 DEF path_metadata
  <2>2. /\ infer_path_metadata(copy).nodes = infer_path_metadata(path).nodes
        /\ infer_path_metadata(copy).ranks = infer_path_metadata(path).ranks
        /\ infer_path_metadata(copy).stamp = infer_path_metadata(path).stamp
        /\ infer_path_metadata(copy).mode = infer_path_metadata(path).mode
        /\ infer_path_metadata(path).rocm = NoVersion
    BY SamePathMetadata
  <2> QED BY <2>1, <2>2
<1>7. ASSUME NEW key, NEW default PROVE meta_value(b, key, default) = meta_value(a, key, default)
  BY <1>5 DEF meta_value
<1>8. ranks(b) = ranks(a)
  BY <1>5, <1>6 DEF ranks
<1>9. SlurmNodes(b) = SlurmNodes(a)
  BY <1>5 DEF SlurmNodes
<1>10. nodes_without_derivation(b) = nodes_without_derivation(a)
  BY <1>5, <1>9 DEF nodes_without_derivation
<1>11. ranks_per_node(b) = ranks_per_node(a)
  BY <1>5, <1>7, <1>8, <1>10 DEF ranks_per_node
<1>12. nodes(b) = nodes(a)
  BY <1>5, <1>6, <1>8, <1>10, <1>11 DEF nodes
<1>13. system(b) = system(a)
  <2>1. copy.system = Value(bundle, "system-resolution.txt", "active_system", path.system)
    <3>1. copy.system = infer_bundle(path, bundle).system
      BY DEF FirstCopy
    <3> QED BY <3>1 DEF infer_bundle
  <2>2. system(b) = meta_value(a, "active_system", copy.system)
    BY <1>5, <1>7 DEF system
  <2>3. meta_value(a, "active_system", copy.system) = meta_value(a, "active_system", path.system)
    <3>1. copy.system = Value(a.bundle, "system-resolution.txt", "active_system", path.system)
      BY <1>5, <2>1, Zenon
    <3> QED BY <3>1, SystemFirst
  <2> QED BY <1>5, <2>2, <2>3 DEF system
<1>14. rccl_sync_mode(b) = rccl_sync_mode(a) /\ timestamp(b) = timestamp(a)
  BY <1>5, <1>6, <1>7 DEF rccl_sync_mode, timestamp
<1>15. rocm_version(a) # NoVersion => rocm_version(b) = rocm_version(a)
  <2>1. PICK v1, v2 : v1 = a.results[1].rocm /\ v2 = meta_value(a, "rocm_version", NoVersion)
    OBVIOUS
  <2>2. rocm_version(a) = FirstVersion(<<v1, v2, NoVersion>>)
    BY <1>6, <2>1 DEF rocm_version
  <2>3. rocm_version(b) = FirstVersion(<<v1, v2, path_metadata(b).rocm>>)
    BY <1>5, <1>7, <2>1 DEF rocm_version
  <2> QED BY <2>2, <2>3, FirstOfThree
<1>16. ReadsLike(copied, original)
  BY <1>3, <1>4, <1>5, <1>8, <1>11, <1>12, <1>13, <1>14, <1>15 DEF ReadsLike
<1> QED BY <1>2, <1>16

\* A destination of a path, whichever suffix it got.
MadeOf(path, bundle, copy) ==
  LET inferred == infer_bundle(path, bundle)
  IN /\ copy.system = inferred.system /\ copy.version = inferred.version
     /\ copy.name = [stamp |-> path.name.stamp, backend |-> inferred.backend,
                     label |-> inferred.label, suffix |-> copy.name.suffix]

\* With the suffix 1 that is the first copy.
LEMMA FirstIsMade ==
  ASSUME NEW path, NEW bundle, NEW copy, MadeOf(path, bundle, copy), copy.name.suffix = 1
  PROVE  FirstCopy(path, bundle, copy)
  BY Zenon DEF MadeOf, FirstCopy

\* unique_destination chooses a suffix, and nothing else.
LEMMA DestinationIsMade ==
  ASSUME NEW path
  PROVE  MadeOf(path, tree[path], unique_destination(path))
<1>1. ASSUME NEW n PROVE MadeOf(path, tree[path], Candidate(path, n))
  <2>1. PICK inferred : inferred = infer_bundle(path, tree[path])
    OBVIOUS
  <2>2. PICK stamp, backend, label :
          stamp = path.name.stamp /\ backend = inferred.backend /\ label = inferred.label
    OBVIOUS
  <2>3. PICK name : name = [stamp |-> stamp, backend |-> backend, label |-> label, suffix |-> n]
    OBVIOUS
  <2>4. name.suffix = n
    BY <2>3
  <2>5. PICK copy : copy = Candidate(path, n)
    OBVIOUS
  <2>6. copy = [system |-> inferred.system, version |-> inferred.version,
                category |-> inferred.category, name |-> name]
    BY <2>1, <2>2, <2>3, <2>5, Zenon DEF Candidate
  <2>7. copy.system = inferred.system /\ copy.version = inferred.version /\ copy.name = name
    BY <2>6
  <2>8. copy.name = [stamp |-> stamp, backend |-> backend, label |-> label,
                     suffix |-> copy.name.suffix]
    BY <2>3, <2>4, <2>7, Zenon
  <2> QED BY <2>1, <2>2, <2>5, <2>7, <2>8, Zenon DEF MadeOf
<1> QED BY <1>1 DEF unique_destination

\* Flat bundles are as they are known to be, and what is copied of them goes,
\* and went, to a destination made of them.
FlatInv ==
  /\ \A path \in DOMAIN tree : path.version = "" => KnownFlat(path, tree[path])
  /\ \A m \in Migrations : state[m] \in {"make", "copy"} /\ source[m].version = "" =>
       MadeOf(source[m], tree[source[m]], dest[m])
  /\ \A m \in Migrations : \A x \in copies[m] : x[1].version = "" =>
       MadeOf(x[1], tree[x[1]], x[2])

LEMMA InitFlat == MigrationInit => FlatInv
<1> SUFFICES ASSUME NEW c \in Commands, MigrationInitOf(c)
             PROVE FlatInv
  BY DEF MigrationInit
<1>1. tree = c.tree
  BY DEF MigrationInitOf
<1>2. \A path \in DOMAIN tree : path.version = "" => KnownFlat(path, tree[path])
  BY <1>1, TreesAssumption
<1>3. \A m \in Migrations : state[m] \in {"walk", "done"} /\ copies[m] = {}
  BY DEF MigrationInitOf
<1> QED BY <1>2, <1>3 DEF FlatInv

\* Where a step of a migration gets its source, its destination and its copies from.
LEMMA StepOfCopies ==
  ASSUME MigrationInv, [MigrationNext]_migrationVars
  PROVE  /\ \A n \in Migrations : state'[n] \in {"make", "copy"} =>
              \/ state[n] \in {"make", "copy"} /\ source'[n] = source[n] /\ dest'[n] = dest[n]
              \/ source'[n] \in DOMAIN tree /\ dest'[n] = unique_destination(source'[n])
         /\ \A n \in Migrations : \A x \in copies'[n] :
              x \in copies[n] \/ (state[n] = "copy" /\ x = <<source[n], dest[n]>>)
<1> USE DEF Goto
<1>1. Domains
  BY DEF MigrationInv
<1>2. CASE UNCHANGED migrationVars
  BY <1>2 DEF migrationVars
<1>3. ASSUME NEW m \in Migrations, Visit(m)
      PROVE  /\ copies' = copies
             /\ \A n \in Migrations : state'[n] \in {"make", "copy"} =>
                  \/ state[n] \in {"make", "copy"} /\ source'[n] = source[n] /\ dest'[n] = dest[n]
                  \/ source'[n] \in DOMAIN tree /\ dest'[n] = unique_destination(source'[n])
  <2>1. PICK path \in listed[m] :
          IF IsBundle(path) /\ apply[m]
          THEN /\ source' = [source EXCEPT ![m] = path]
               /\ dest' = [dest EXCEPT ![m] = unique_destination(path)]
               /\ state' = [state EXCEPT ![m] = "make"]
          ELSE UNCHANGED <<source, dest, state>>
    BY <1>3 DEF Visit
  <2>2. copies' = copies
    BY <1>3 DEF Visit
  <2>3. CASE ~(IsBundle(path) /\ apply[m])
    BY <2>1, <2>2, <2>3
  <2>4. CASE IsBundle(path) /\ apply[m]
    <3>1. path \in DOMAIN tree
      BY <2>4 DEF IsBundle
    <3>2. \A n \in Migrations : n # m =>
            state'[n] = state[n] /\ source'[n] = source[n] /\ dest'[n] = dest[n]
      BY <1>1, <2>1, <2>4 DEF Domains
    <3>3. source'[m] = path /\ dest'[m] = unique_destination(path)
      BY <1>1, <2>1, <2>4 DEF Domains
    <3> QED BY <2>2, <3>1, <3>2, <3>3
  <2> QED BY <2>3, <2>4
<1>4. ASSUME NEW m \in Migrations, Copied(m)
      PROVE  /\ \A n \in Migrations : state'[n] \in {"make", "copy"} =>
                  state[n] \in {"make", "copy"} /\ source'[n] = source[n] /\ dest'[n] = dest[n]
             /\ \A n \in Migrations : \A x \in copies'[n] :
                  x \in copies[n] \/ (state[n] = "copy" /\ x = <<source[n], dest[n]>>)
  <2>1. /\ state[m] = "copy" /\ copies' = [copies EXCEPT ![m] = @ \cup {<<source[m], dest[m]>>}]
        /\ state' = [state EXCEPT ![m] = "walk"] /\ UNCHANGED <<source, dest>>
    BY <1>4 DEF Copied
  <2>2. \A n \in Migrations : state'[n] \in {"make", "copy"} => state'[n] = state[n]
    BY <1>1, <2>1 DEF Domains
  <2>3. \A n \in Migrations : \A x \in copies'[n] :
          x \in copies[n] \/ (n = m /\ x = <<source[n], dest[n]>>)
    BY <1>1, <2>1 DEF Domains
  <2> QED BY <2>1, <2>2, <2>3
<1>5. ASSUME NEW m \in Migrations,
             TakeArgument(m) \/ MakeDirectory(m) \/ CopyFile(m) \/ Finish(m) \/ Kill(m)
      PROVE  /\ copies' = copies
             /\ \A n \in Migrations : state'[n] \in {"make", "copy"} =>
                  state[n] \in {"make", "copy"} /\ source'[n] = source[n] /\ dest'[n] = dest[n]
  <2>1. UNCHANGED <<source, dest, copies>>
    BY <1>5 DEF TakeArgument, MakeDirectory, CopyFile, Finish, Kill
  <2>2. \/ state' = state
        \/ state[m] = "make" /\ state' = [state EXCEPT ![m] = "copy"]
        \/ \E label \in {"done", "killed", "failed"} : state' = [state EXCEPT ![m] = label]
    BY <1>5 DEF TakeArgument, MakeDirectory, CopyFile, Finish, Kill
  <2>3. \A n \in Migrations : state'[n] \in {"make", "copy"} => state[n] \in {"make", "copy"}
    BY <1>1, <2>2 DEF Domains
  <2> QED BY <2>1, <2>3
<1>6. CASE MigrationNext
  <2>1. PICK m \in Migrations : Migrate(m)
    BY <1>6 DEF MigrationNext
  <2>2. CASE Visit(m)
    BY <1>3, <2>2
  <2>3. CASE Copied(m)
    BY <1>4, <2>3
  <2>4. CASE TakeArgument(m) \/ MakeDirectory(m) \/ CopyFile(m) \/ Finish(m) \/ Kill(m)
    BY <1>5, <2>4
  <2> QED BY <2>1, <2>2, <2>3, <2>4 DEF Migrate
<1> QED BY <1>2, <1>6

LEMMA FlatStep ==
  ASSUME MigrationInv, FlatInv, [MigrationNext]_migrationVars
  PROVE  FlatInv'
<1>1. ASSUME NEW path, path.version = ""
      PROVE  /\ path \in DOMAIN tree' <=> path \in DOMAIN tree
             /\ path \in DOMAIN tree => tree'[path] = tree[path]
  BY <1>1, FlatStays
<1>2. ASSUME NEW path \in DOMAIN tree', path.version = "" PROVE KnownFlat(path, tree'[path])
  BY <1>1, <1>2 DEF FlatInv
<1>3. ASSUME NEW m \in Migrations, state'[m] \in {"make", "copy"}, source'[m].version = ""
      PROVE  MadeOf(source'[m], tree'[source'[m]], dest'[m])
  <2>1. CASE state[m] \in {"make", "copy"} /\ source'[m] = source[m] /\ dest'[m] = dest[m]
    <3>1. source[m] \in DOMAIN tree
      BY <2>1 DEF MigrationInv, CopiesAreVersioned
    <3>2. tree'[source[m]] = tree[source[m]]
      BY <1>1, <1>3, <2>1, <3>1
    <3>3. MadeOf(source[m], tree[source[m]], dest[m])
      BY <1>3, <2>1 DEF FlatInv
    <3> QED BY <2>1, <3>2, <3>3
  <2>2. CASE source'[m] \in DOMAIN tree /\ dest'[m] = unique_destination(source'[m])
    <3>1. tree'[source'[m]] = tree[source'[m]]
      BY <1>1, <1>3, <2>2
    <3>2. MadeOf(source'[m], tree[source'[m]], unique_destination(source'[m]))
      BY DestinationIsMade
    <3> QED BY <2>2, <3>1, <3>2
  <2> QED BY <1>3, <2>1, <2>2, StepOfCopies
<1>4. ASSUME NEW m \in Migrations, NEW x \in copies'[m], x[1].version = ""
      PROVE  MadeOf(x[1], tree'[x[1]], x[2])
  <2>1. CASE x \in copies[m]
    <3>1. x[1] \in DOMAIN tree
      BY <2>1 DEF MigrationInv, CopiesAreLeftAlone
    <3>2. tree'[x[1]] = tree[x[1]]
      BY <1>1, <1>4, <3>1
    <3>3. MadeOf(x[1], tree[x[1]], x[2])
      BY <1>4, <2>1 DEF FlatInv
    <3> QED BY <3>2, <3>3
  <2>2. CASE state[m] = "copy" /\ x = <<source[m], dest[m]>>
    <3>1. x[1] = source[m] /\ x[2] = dest[m]
      BY <2>2
    <3>2. source[m] \in DOMAIN tree
      BY <2>2 DEF MigrationInv, CopiesAreVersioned
    <3>3. tree'[source[m]] = tree[source[m]]
      BY <1>1, <1>4, <3>1, <3>2
    <3>4. MadeOf(source[m], tree[source[m]], dest[m])
      BY <1>4, <2>2, <3>1 DEF FlatInv
    <3> QED BY <3>1, <3>3, <3>4
  <2> QED BY <2>1, <2>2, StepOfCopies
<1> QED BY <1>2, <1>3, <1>4 DEF FlatInv

\* A copy that got the first name is read like the flat bundle it was made of:
\* the same results, nodes, ranks, mode, time and system, and a version where the
\* original had one (infer_bundle and normalize_label against infer_path_metadata).
THEOREM CopiesReadAlike == Spec => []CopyReadsLikeOriginal
<1>1. ReportInit => FlatInv
  BY InitFlat DEF ReportInit, MigrationInit
<1>2. AnalysisInv /\ FlatInv /\ [Next]_<<migrationVars, analysisVars>> => FlatInv'
  BY FlatStep, StepIs DEF AnalysisInv
<1>3. AnalysisInv /\ FlatInv => CopyReadsLikeOriginal
  <2> SUFFICES ASSUME AnalysisInv, FlatInv PROVE CopyReadsLikeOriginal
    OBVIOUS
  <2> SUFFICES ASSUME NEW m \in Migrations, NEW x \in copies[m], x[1].version = "",
                      x[2].version # "none", x[2].name.suffix = 1
               PROVE  LET original == RunAt(x[1], tree[x[1]])
                          copy == RunAt(x[2], tree[x[2]])
                      IN /\ <<copy.results, copy.nodes, copy.ranks, copy.ranks_per_node,
                              copy.system, copy.rccl_sync_mode, copy.timestamp>>
                              = <<original.results, original.nodes, original.ranks,
                                  original.ranks_per_node, original.system,
                                  original.rccl_sync_mode, original.timestamp>>
                         /\ original.rocm_version # NoVersion =>
                              copy.rocm_version = original.rocm_version
    BY DEF CopyReadsLikeOriginal
  <2>1. PICK path, copy, bundle : path = x[1] /\ copy = x[2] /\ bundle = tree[x[1]]
    OBVIOUS
  <2>2. path \in DOMAIN tree
    BY <2>1 DEF AnalysisInv, MigrationInv, CopiesAreLeftAlone
  <2>3. tree[x[2]] = bundle
    BY <2>1 DEF AnalysisInv, MigrationInv, CopiesAreWhole
  <2>4. path \in Paths /\ KnownBundle(bundle)
    BY <2>1, <2>2 DEF AnalysisInv, KnownInv
  <2>5. KnownFlat(path, bundle)
    BY <2>1, <2>2 DEF FlatInv
  <2>6. MadeOf(path, bundle, copy)
    BY <2>1 DEF FlatInv
  <2>7. FirstCopy(path, bundle, copy)
    BY <2>1, <2>6, FirstIsMade
  <2>8. copy.version # ""
    <3>1. copy.version = infer_bundle(path, bundle).version
      BY <2>6 DEF MadeOf
    <3>2. infer_bundle(path, bundle).version # ""
      BY VersionIsSpelled DEF infer_bundle
    <3> QED BY <3>1, <3>2
  <2>9. path.version = "" /\ copy.version \notin {"", "none"}
    BY <2>1, <2>8
  <2>10. PICK original, copied : original = RunAt(path, bundle) /\ copied = RunAt(copy, bundle)
    OBVIOUS
  <2>11. ReadsLike(copied, original)
    BY <2>4, <2>5, <2>7, <2>9, <2>10, CopyIsRead
  <2>12. RunAt(x[1], tree[x[1]]) = original /\ RunAt(x[2], tree[x[2]]) = copied
    BY <2>1, <2>3, <2>10
  <2> QED BY <2>11, <2>12 DEF ReadsLike
<1> QED BY <1>1, <1>2, <1>3, AnalysisAlways, PTL DEF Spec

=============================================================================
