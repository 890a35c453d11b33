----------------------------- MODULE ResultPaths -----------------------------
(***************************************************************************)
(* The paths of result bundles, as migrate_results.py makes them and as    *)
(* ghalo_analyze.py reads them.                                            *)
(*                                                                         *)
(* A path is results/<system>/<name> in the old, flat layout, with version *)
(* and category "", or results/<system>/rocm-<version>/<category>/<name>.  *)
(* A name is <stamp>_<backend>_<label>, followed by _<suffix> when suffix  *)
(* is above 1; its stamp is "unknown" when the name is not of that form,   *)
(* and then it is all label.  A label is the sequence of its words, joined *)
(* by dashes.  A version is spelled with a prefix: <<"rocm-", "7.0.2">>.   *)
(***************************************************************************)
EXTENDS Integers, Sequences

CONSTANTS
  NodesIn,    \* the words that give a number of nodes, like 2node, to it
  RanksIn     \* the words that give a number of ranks, to it

NoVersion == <<"", "">>

\* The words of a backend's name, by which a label may begin.
BackendWords ==
  [mpi |-> <<"mpi">>, rccl |-> <<"rccl">>, mpi_hip |-> <<"mpi", "hip">>, unknown |-> <<"unknown">>]

\* The first of the spelled versions that is not empty.
FirstVersion(versions) ==
  LET given == {i \in DOMAIN versions : versions[i][2] # ""}
  IN IF given = {} THEN NoVersion
     ELSE versions[CHOOSE i \in given : \A j \in given : i <= j]

\* What a file says under a key.  A key with an empty value is left out of it.
Value(bundle, file, key, default) ==
  IF file \in DOMAIN bundle
  THEN IF key \in DOMAIN bundle[file] THEN bundle[file][key] ELSE default
  ELSE default

-----------------------------------------------------------------------------
(* migrate_results.py *)

normalize_rocm(spelled) == IF spelled[2] = "" THEN "none" ELSE spelled[2]

\* The label without the backend's name in front of it, however often.
normalize_label(label, backend) ==
  LET words == BackendWords[backend]
      n == Len(words)
      Repeated(k) == k * n < Len(label)
                       /\ \A i \in 1 .. k * n : label[i] = words[((i - 1) % n) + 1]
      k == CHOOSE x \in 0 .. Len(label) : Repeated(x) /\ ~Repeated(x + 1)
  IN SubSeq(label, k * n + 1, Len(label))

-----------------------------------------------------------------------------
(* ghalo_analyze.py *)

\* What VERSION_RE matches, digits with dots: here every word but those that
\* stand for no version.  CPU runs are under rocm-none.
IsVersion(version) == version \notin {"", "none"}

\* The first word with a count.  The pattern ends at a word boundary, which
\* there is none of between the last word and the underscore of a suffix.
parse_count(name, counts) ==
  LET Counts(i) == name.label[i] \in DOMAIN counts
                     /\ ~(i = Len(name.label) /\ name.suffix > 1)
      found == {i \in DOMAIN name.label : Counts(i)}
  IN IF found = {} THEN 0
     ELSE counts[name.label[CHOOSE i \in found : \A j \in found : i <= j]]

NoName == [stamp |-> "", backend |-> "", label |-> <<>>, suffix |-> 1]

\* Fault: the layout with versions is not known.
infer_flat_path_metadata(path) ==
  LET name == IF path.version = "" /\ path.name.stamp # "unknown" THEN path.name ELSE NoName
  IN [rocm |-> NoVersion, suite |-> "", stamp |-> name.stamp, backend |-> name.backend,
      nodes |-> parse_count(name, NodesIn), ranks |-> parse_count(name, RanksIn), mode |-> ""]

\* The run's name is the directory below the category; if the one below the
\* system is no version, that one is taken for the name, and it is not one.
infer_path_metadata(path) ==
  LET versioned == IsVersion(path.version)
      named == (path.version = "" \/ versioned) /\ path.name.stamp # "unknown"
      name == IF named THEN path.name ELSE NoName
      Says(word) == \E i \in DOMAIN name.label : name.label[i] = word
  IN [rocm |-> IF versioned THEN <<"rocm-", path.version>> ELSE NoVersion,
      suite |-> IF versioned THEN path.category ELSE "",
      stamp |-> name.stamp,
      backend |-> name.backend,
      nodes |-> parse_count(name, NodesIn),
      ranks |-> parse_count(name, RanksIn),
      mode |-> IF name.backend # "rccl" THEN ""
               ELSE IF Says("stream-ordered") THEN "stream-ordered"
               ELSE IF Says("conservative") THEN "conservative" ELSE ""]

=============================================================================
