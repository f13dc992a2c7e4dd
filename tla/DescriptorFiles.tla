--------------------------- MODULE DescriptorFiles ---------------------------
(***************************************************************************)
(* emit/descset.py, emit_descriptor_set: the descriptor files of an        *)
(* extraction become one set, each name once; and validate/roundtrip.py,   *)
(* roundtrip_descriptor_set: the files of the set are added to a pool,     *)
(* which takes a file only after its dependencies, whatever their order.   *)
(***************************************************************************)
EXTENDS Naturals, Sequences, FiniteSets, SequencesExt, Functions

CONSTANTS
  FileNames,     \* every name, sorted, each once
  NoFile,
  MaxFiles, MaxSize

VARIABLES
  given,      \* the descriptors: [name, deps, body, size]; NoFile may be a name
  files,      \* the set, in the order of its file
  pool,       \* names added
  pending,    \* the files of this pass
  tried,      \* how many of them
  deferred,   \* those the pool refused
  packing     \* "given" | "packed" | "resolved" | "unresolved" | "refused"

ASSUME FileNamesAssumption == FileNames \in Seq(ToSet(FileNames)) /\ IsInjective(FileNames)

filesVars == <<given, files, pool, pending, tried, deferred, packing>>

FilesInit(inputs) ==
  /\ given \in inputs
  /\ files = <<>> /\ pool = {} /\ pending = <<>> /\ tried = 0 /\ deferred = <<>>
  /\ packing = "given"

Names(s) == {s[k].name : k \in DOMAIN s}
Size(s) == FoldLeft(LAMBDA n, file : n + file.size, 0, s)

\* Two files of one name must be the same file.
Consistent(s) == \A k, l \in DOMAIN s : s[k].name = s[l].name => s[k] = s[l]

Packable ==
  /\ Len(given) <= MaxFiles
  /\ \A k \in DOMAIN given : given[k].name # NoFile
  /\ Size(given) <= MaxSize   \* duplicates count
  /\ Consistent(given)

Precedes(m, n) == \E k, l \in DOMAIN FileNames : k < l /\ FileNames[k] = m /\ FileNames[l] = n

\* One file of each name, in the order of the names.
Pack ==
  /\ packing = "given" /\ Packable
  /\ LET names == Names(given) IN
     files' \in {s \in [1..Cardinality(names) -> ToSet(given)] :
                  /\ Names(s) = names
                  /\ \A k, l \in DOMAIN s : k < l => Precedes(s[k].name, s[l].name)}
  /\ pending' = files'
  /\ packing' = "packed"
  /\ UNCHANGED <<given, pool, tried, deferred>>

RefuseFiles ==
  /\ packing = "given" /\ ~Packable
  /\ packing' = "refused"
  /\ UNCHANGED <<given, files, pool, pending, tried, deferred>>

\* pool.Add raises TypeError while a dependency is missing.
TryFile ==
  /\ packing = "packed" /\ tried < Len(pending)
  /\ LET file == pending[tried + 1] IN
     IF file.deps \subseteq pool
     THEN pool' = pool \union {file.name} /\ UNCHANGED deferred
     ELSE deferred' = Append(deferred, file) /\ UNCHANGED pool
  /\ tried' = tried + 1
  /\ UNCHANGED <<given, files, pending, packing>>

StuckOnce == deferred # <<>>   \* mutant: the first pass must add every file

\* A pass that added nothing: no other pass would.
Stuck == pending # <<>> /\ Len(deferred) = Len(pending)

EndPass ==
  /\ packing = "packed" /\ tried = Len(pending)
  /\ IF Stuck THEN packing' = "unresolved" /\ UNCHANGED <<pending, deferred>>
     ELSE /\ packing' = IF deferred = <<>> THEN "resolved" ELSE "packed"
          /\ pending' = deferred /\ deferred' = <<>>
  /\ tried' = 0
  /\ UNCHANGED <<given, files, pool>>

FilesNext == Pack \/ RefuseFiles \/ TryFile \/ EndPass
FilesSpec(inputs) == FilesInit(inputs) /\ [][FilesNext]_filesVars

-----------------------------------------------------------------------------
\* Names that are closed have every file whose dependencies they have; the
\* least of them are the files that depend on nothing but files of the set.
Closed(names) == \A k \in DOMAIN files : files[k].deps \subseteq names => files[k].name \in names
Grounded == {name \in Names(files) : \A names \in SUBSET Names(files) : Closed(names) => name \in names}

(* The order of the files decides nothing: the pool ends with every file   *)
(* whose dependencies can be met and the round trip gives up only if there *)
(* is another; it never ends without the set being what was recovered      *)
(* (roundtrip_descriptor_set, emit_descriptor_set).                        *)
FilesResolved ==
  /\ packing \in {"resolved", "unresolved"} =>
       /\ pool = Grounded
       /\ packing = "resolved" <=> pool = Names(files)
  /\ packing \notin {"given", "refused"} => ToSet(files) = ToSet(given) /\ IsInjective(files)
  /\ Len(deferred) <= Cardinality(Names(files) \ pool)
=============================================================================
