----------------------------- MODULE Migration -----------------------------
(***************************************************************************)
(* migrate_results.py: result bundles of the flat layout are copied into   *)
(* results/<system>/rocm-<version>/<category>/.  Several migrations may    *)
(* run at once, each may be killed at any point and another follow it.     *)
(*                                                                         *)
(* tree maps the paths of the bundles to their files, and a file is its    *)
(* content: of ghalo.json and ghalo.csv whether it can be read and the     *)
(* results, of the other files the values by their keys.  A file is copied *)
(* whole or not at all.                                                    *)
(***************************************************************************)
EXTENDS ResultPaths, FiniteSets

CONSTANTS
  Migrations,   \* the processes
  Commands      \* [tree, run]: a tree, and by process its args and whether to apply

\* A bundle is a function, from its files to their contents.
ASSUME CommandsAssumption ==
  \A c \in Commands : \A path \in DOMAIN c.tree :
    c.tree[path] = [file \in DOMAIN c.tree[path] |-> c.tree[path][file]]

VARIABLES
  tree,
  state,     \* state[m]: "walk", "make", "copy", "done", "failed" or "killed"
  args,      \* args[m]: its arguments, [kind, path]: a bundle's or a directory's
  next,      \* next[m]: the argument it is at
  apply,     \* apply[m]: whether bundles are copied
  listed,    \* listed[m]: bundles of the argument, not visited yet
  source,    \* source[m]: the bundle being copied
  dest,      \* dest[m]: where to
  left,      \* left[m]: its files that are not copied yet
  copies     \* copies[m]: the copies completed, <<source, destination>>

migrationVars == <<tree, state, args, next, apply, listed, source, dest, left, copies>>

Results == {"ghalo.json", "ghalo.csv"}

-----------------------------------------------------------------------------
\* The first result; load_json takes an unreadable file for an empty one.
First(bundle) ==
  IF "ghalo.json" \notin DOMAIN bundle THEN {}
  ELSE IF bundle["ghalo.json"].state # "malformed" /\ Len(bundle["ghalo.json"].results) > 0
  THEN {bundle["ghalo.json"].results[1]} ELSE {}

\* A word stands for all that contain it.
infer_category(label, first) ==
  LET Says(words) == \E i \in DOMAIN label : label[i] \in words
  IN IF \E r \in first : DOMAIN r.phases # {} THEN "phase-timing"
     ELSE IF \E r \in first : r.validation THEN "validation"
     ELSE IF Says({"phase"}) THEN "phase-timing"
     ELSE IF Says({"valid", "smoke"}) THEN "validation"
     ELSE IF Says({"scaling"}) \/ (Len(label) > 1 /\ label[1] = "scale") THEN "scaling"
     ELSE "repeatability"

CATEGORIES == {"validation", "scaling", "repeatability", "phase-timing"}

\* What the results, then the metadata, then the name say of a bundle.
infer_bundle(path, bundle) ==
  LET first == First(bundle)
      category == Value(bundle, "result-metadata.txt", "result_category",
                        infer_category(path.name.label, first))
      backend == IF first # {} THEN (CHOOSE r \in first : TRUE).backend
                 ELSE Value(bundle, "system-resolution.txt", "backend", path.name.backend)
      rocm == FirstVersion(<<IF first # {} THEN (CHOOSE r \in first : TRUE).rocm ELSE NoVersion,
                             Value(bundle, "result-metadata.txt", "rocm_version", NoVersion),
                             Value(bundle, "result-metadata.txt", "loaded_rocm_module", NoVersion)>>)
  IN [system |-> Value(bundle, "system-resolution.txt", "active_system", path.system),
      version |-> normalize_rocm(rocm),
      category |-> IF category \in CATEGORIES THEN category ELSE "repeatability",
      backend |-> backend,
      label |-> normalize_label(path.name.label, backend)]

Candidate(path, n) ==
  LET inferred == infer_bundle(path, tree[path])
  IN [system |-> inferred.system, version |-> inferred.version, category |-> inferred.category,
      name |-> [stamp |-> path.name.stamp, backend |-> inferred.backend,
                label |-> inferred.label, suffix |-> n]]

\* The first name that is free when it is looked for.
unique_destination(path) ==
  Candidate(path, CHOOSE n \in 1 .. Cardinality(DOMAIN tree) + 1 :
                    /\ Candidate(path, n) \notin DOMAIN tree
                    /\ \A k \in 1 .. n - 1 : Candidate(path, k) \in DOMAIN tree)

IsBundle(path) == path \in DOMAIN tree /\ DOMAIN tree[path] \cap Results # {}

\* The directories in dir whose name begins with a time stamp.
Children(dir) ==
  {path \in DOMAIN tree : /\ path.system = dir.system /\ path.version = dir.version
                          /\ path.category = dir.category /\ path.name.stamp # "unknown"}

Bundles(arg) == IF arg.kind = "bundle" THEN {arg.path} \cap DOMAIN tree ELSE Children(arg.path)

With(f, x, value) == [y \in DOMAIN f \cup {x} |-> IF y = x THEN value ELSE f[y]]

Nothing == [file \in {} |-> {}]

-----------------------------------------------------------------------------
\* A process without arguments is one that is not started.
MigrationInitOf(c) ==
  /\ tree = c.tree
  /\ args = [m \in Migrations |-> c.run[m].args]
  /\ next = [m \in Migrations |-> 1]
  /\ apply = [m \in Migrations |-> c.run[m].apply]
  /\ state = [m \in Migrations |-> IF c.run[m].args = <<>> THEN "done" ELSE "walk"]
  /\ listed = [m \in Migrations |-> {}]
  /\ source = [m \in Migrations |-> {}] /\ dest = [m \in Migrations |-> {}]
  /\ left = [m \in Migrations |-> {}] /\ copies = [m \in Migrations |-> {}]

MigrationInit == \E c \in Commands : MigrationInitOf(c)

Goto(m, label) == state' = [state EXCEPT ![m] = label]

\* candidate_bundles is a generator: an argument is looked at when those before
\* it have been copied.  Its bundles are visited in any order.
TakeArgument(m) ==
  /\ state[m] = "walk" /\ listed[m] = {} /\ next[m] <= Len(args[m])
  /\ listed' = [listed EXCEPT ![m] = Bundles(args[m][next[m]])]
  /\ next' = [next EXCEPT ![m] = @ + 1]
  /\ UNCHANGED <<tree, state, args, apply, source, dest, left, copies>>

\* What is no bundle is passed over.  A dry run only prints the destination.
Visit(m) ==
  /\ state[m] = "walk"
  /\ \E path \in listed[m] :
       /\ listed' = [listed EXCEPT ![m] = @ \ {path}]
       /\ IF IsBundle(path) /\ apply[m]
          THEN /\ source' = [source EXCEPT ![m] = path]
               /\ dest' = [dest EXCEPT ![m] = unique_destination(path)]
               /\ Goto(m, "make")
          ELSE UNCHANGED <<source, dest, state>>
  /\ UNCHANGED <<tree, args, next, apply, left, copies>>

\* Fault: copytree may write into a directory that exists.
MakeDirectoryOrShare(m) ==
  /\ state[m] = "make"
  /\ tree' = With(tree, dest[m], IF dest[m] \in DOMAIN tree THEN tree[dest[m]] ELSE Nothing)
  /\ left' = [left EXCEPT ![m] = DOMAIN tree[source[m]]]
  /\ Goto(m, "copy")
  /\ UNCHANGED <<args, next, apply, listed, source, dest, copies>>

\* copytree makes the directory, or raises FileExistsError, which nobody
\* catches: the migration ends.
MakeDirectory(m) ==
  /\ state[m] = "make"
  /\ IF dest[m] \in DOMAIN tree
     THEN Goto(m, "failed") /\ UNCHANGED <<tree, left>>
     ELSE /\ tree' = With(tree, dest[m], Nothing)
          /\ left' = [left EXCEPT ![m] = DOMAIN tree[source[m]]]
          /\ Goto(m, "copy")
  /\ UNCHANGED <<args, next, apply, listed, source, dest, copies>>

CopyFile(m) ==
  /\ state[m] = "copy"
  /\ \E file \in left[m] :
       /\ tree' = [tree EXCEPT ![dest[m]] = With(@, file, tree[source[m]][file])]
       /\ left' = [left EXCEPT ![m] = @ \ {file}]
  /\ UNCHANGED <<state, args, next, apply, listed, source, dest, copies>>

\* Fault: the bundle is moved.
CopiedAndRemoved(m) ==
  /\ state[m] = "copy" /\ left[m] = {}
  /\ copies' = [copies EXCEPT ![m] = @ \cup {<<source[m], dest[m]>>}]
  /\ tree' = [path \in DOMAIN tree \ {source[m]} |-> tree[path]]
  /\ Goto(m, "walk")
  /\ UNCHANGED <<args, next, apply, listed, source, dest, left>>

Copied(m) ==
  /\ state[m] = "copy" /\ left[m] = {}
  /\ copies' = [copies EXCEPT ![m] = @ \cup {<<source[m], dest[m]>>}]
  /\ Goto(m, "walk")
  /\ UNCHANGED <<tree, args, next, apply, listed, source, dest, left>>

Finish(m) ==
  /\ state[m] = "walk" /\ listed[m] = {} /\ next[m] > Len(args[m])
  /\ Goto(m, "done")
  /\ UNCHANGED <<tree, args, next, apply, listed, source, dest, left, copies>>

Kill(m) ==
  /\ state[m] \in {"walk", "make", "copy"}
  /\ Goto(m, "killed")
  /\ UNCHANGED <<tree, args, next, apply, listed, source, dest, left, copies>>

Migrate(m) ==
  \/ TakeArgument(m) \/ Visit(m) \/ MakeDirectory(m) \/ CopyFile(m) \/ Copied(m)
  \/ Finish(m) \/ Kill(m)

MigrationNext == \E m \in Migrations : Migrate(m)

MigrationSpec == MigrationInit /\ [][MigrationNext]_migrationVars

-----------------------------------------------------------------------------
(* Properties. *)

\* No migration, however many run and whatever becomes of them, takes away or
\* changes a file of a bundle, an original or a copy (copytree never merges).
NeverOverwrites ==
  [][\A path \in DOMAIN tree :
       /\ path \in DOMAIN tree'
       /\ \A file \in DOMAIN tree[path] :
            file \in DOMAIN tree'[path] /\ tree'[path][file] = tree[path][file]]_migrationVars

\* A completed copy of a flat bundle is that bundle, and it is the copy of one
\* migration and of one bundle.
CopiesAreWhole ==
  /\ \A m \in Migrations : \A x \in copies[m] :
       x[1].version = "" => tree[x[2]] = tree[x[1]]
  /\ \A m, n \in Migrations : \A x \in copies[m], y \in copies[n] :
       x[2] = y[2] => m = n /\ x = y

=============================================================================
