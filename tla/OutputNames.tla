---------------------------- MODULE OutputNames ----------------------------
(***************************************************************************)
(* cli.py, _output_names: the file name of every schema that an extraction *)
(* writes.  A name that another schema or a file of the report holds,      *)
(* whatever its case, gets the package in front of it, and then numbers    *)
(* behind it; a name the file system would refuse fails the extraction.    *)
(***************************************************************************)
EXTENDS Naturals, Sequences

CONSTANTS
  Key(_),            \* str.casefold
  Packaged(_),       \* a name with its schema's package in front
  Numbered(_, _),    \* a name with a number behind its stem
  Unsafe(_),         \* longer than 255 bytes, or not fit for a file
  Reserved,          \* the keys of the report's own files
  Requests           \* the extractions: sequences of [name, hasPackage]

VARIABLES
  schemas,   \* to be named
  names,     \* given so far
  seen,      \* and their keys
  attempt,   \* the form tried next: 0 the plain name, 1 the package, n a number
  naming     \* "going" | "done" | "failed"

namesVars == <<schemas, names, seen, attempt, naming>>

NamesInit ==
  /\ schemas \in Requests
  /\ names = <<>> /\ seen = {} /\ attempt = 0
  /\ naming = "going"

Current == schemas[Len(names) + 1]
Candidate ==
  CASE attempt = 0 -> Current.name
    [] attempt = 1 -> Packaged(Current.name)
    [] OTHER -> Numbered(IF Current.hasPackage THEN Packaged(Current.name) ELSE Current.name, attempt)

TakenExact(name) == Key(name) \in Reserved \/ \E n \in DOMAIN names : names[n] = name   \* mutant: case counts

\* in reserved or in seen
Taken(name) == Key(name) \in Reserved \/ Key(name) \in seen

-----------------------------------------------------------------------------
\* _safe_output_name raises, also for a name only made longer to be unique.
Refuse ==
  /\ naming = "going" /\ Len(names) < Len(schemas)
  /\ Unsafe(Candidate)
  /\ naming' = "failed"
  /\ UNCHANGED <<schemas, names, seen, attempt>>

Give ==
  /\ naming = "going" /\ Len(names) < Len(schemas)
  /\ ~Unsafe(Candidate) /\ ~Taken(Candidate)
  /\ names' = Append(names, Candidate)
  /\ seen' = seen \union {Key(Candidate)}
  /\ attempt' = 0
  /\ UNCHANGED <<schemas, naming>>

\* The package is tried once, if there is one; then the numbers from 2 on.
TryNext ==
  /\ naming = "going" /\ Len(names) < Len(schemas)
  /\ ~Unsafe(Candidate) /\ Taken(Candidate)
  /\ attempt' = CASE attempt = 0 /\ Current.hasPackage -> 1
                  [] attempt = 0 /\ ~Current.hasPackage -> 2
                  [] OTHER -> attempt + 1
  /\ UNCHANGED <<schemas, names, seen, naming>>

Finish ==
  /\ naming = "going" /\ Len(names) = Len(schemas)
  /\ naming' = "done"
  /\ UNCHANGED <<schemas, names, seen, attempt>>

NamesNext == Refuse \/ Give \/ TryNext \/ Finish
NamesSpec == NamesInit /\ [][NamesNext]_namesVars

-----------------------------------------------------------------------------
(* No two schemas of an extraction get one file, on a file system that     *)
(* ignores case either, and none gets a file of the report: publishing one *)
(* would overwrite the other (_output_names, _disambiguated_output_name).  *)
NamesFree ==
  /\ \A n \in DOMAIN names : Key(names[n]) \notin Reserved
  /\ \A n, m \in DOMAIN names : n # m => Key(names[n]) # Key(names[m])
=============================================================================
