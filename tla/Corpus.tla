------------------------------- MODULE Corpus -------------------------------
(***************************************************************************)
(* bench/corpus.py: materialize brings every artifact of a manifest into a *)
(* cache directory, by its SHA-256.  Two benchmarks may share the cache,   *)
(* and nothing locks it: each step below is one access to the file system  *)
(* between which the other process may run.                                *)
(*                                                                         *)
(* A file is "good" when it has the digest the manifest names and "bad"    *)
(* when it has another; "blocked" is a path materialize refuses to touch:  *)
(* a symlink, no regular file, or larger than the limit.                   *)
(***************************************************************************)
EXTENDS Naturals, FiniteSets

CONSTANTS
  Procs,        \* processes that share the cache
  Artifacts,    \* how many artifacts the manifest names
  MaxMishaps    \* bound on failed calls, interrupts and deaths

ASSUME CorpusAssumption == Artifacts \in Nat \ {0} /\ MaxMishaps \in Nat

VARIABLES
  honest,    \* the origin serves what the manifest names
  clean,     \* no path was blocked when the first process started
  cache,     \* [1..Artifacts -> what the path holds]
  pc,        \* [Procs -> the next access]
  at,        \* [Procs -> the artifact it is at]
  temp,      \* [Procs -> its hidden temporary file]
  mishaps

corpusVars == <<honest, clean, cache, pc, at, temp, mishaps>>

CorpusEnded == {"returned", "raised", "dead"}

CorpusInit ==
  /\ honest \in BOOLEAN
  /\ cache \in [1..Artifacts -> {"none", "good", "bad", "blocked"}]
  /\ clean = \A a \in 1..Artifacts : cache[a] # "blocked"
  /\ pc = [p \in Procs |-> "idle"]
  /\ at = [p \in Procs |-> 1]
  /\ temp = [p \in Procs |-> "none"]
  /\ mishaps = 0

Goes(p, label) == pc' = [pc EXCEPT ![p] = label]
Mishap == mishaps < MaxMishaps /\ mishaps' = mishaps + 1
NoMishap == UNCHANGED mishaps

Start(p) ==
  /\ pc[p] = "idle" /\ Goes(p, "lookup")
  /\ UNCHANGED <<honest, clean, cache, at, temp, mishaps>>

\* is_symlink() and exists() of the artifact's path.
Lookup(p) ==
  /\ pc[p] = "lookup"
  /\ \/ NoMishap /\ Goes(p, IF cache[at[p]] = "none" THEN "copy" ELSE "hash")
     \/ Mishap /\ Goes(p, "raised")
  /\ UNCHANGED <<honest, clean, cache, at, temp>>

\* sha256(output) of the file found: it may be another one by now, or gone.
Hash(p) ==
  /\ pc[p] = "hash"
  /\ \/ /\ NoMishap
        /\ Goes(p, CASE cache[at[p]] = "good" -> "verify"
                     [] cache[at[p]] = "bad" -> "copy"
                     [] OTHER -> "raised")
     \/ Mishap /\ Goes(p, "raised")
  /\ UNCHANGED <<honest, clean, cache, at, temp>>

\* _copy_artifact up to the fsync of its temporary file; the copy may stop
\* at the size limit, and a dishonest origin may send anything.
Copy(p) ==
  /\ pc[p] = "copy"
  /\ \/ /\ NoMishap /\ Goes(p, "place")
        /\ \E c \in IF honest THEN {"good"} ELSE {"good", "bad"} :
             temp' = [temp EXCEPT ![p] = c]
     \/ /\ IF honest THEN Mishap ELSE NoMishap
        /\ temp' = [temp EXCEPT ![p] = "partial"] /\ Goes(p, "drop")
  /\ UNCHANGED <<honest, clean, cache, at>>

PlacePartial(p) ==   \* mutant: a copy that stopped is kept
  /\ pc[p] \in {"place", "drop"}
  /\ cache' = [cache EXCEPT ![at[p]] = temp[p]]
  /\ temp' = [temp EXCEPT ![p] = "none"]
  /\ NoMishap /\ Goes(p, "verify")
  /\ UNCHANGED <<honest, clean, at>>

\* temporary.replace(output), then fsync of the directory.
Place(p) ==
  /\ pc[p] = "place"
  /\ LET Moved == /\ cache' = [cache EXCEPT ![at[p]] = temp[p]]
                  /\ temp' = [temp EXCEPT ![p] = "none"]
     IN \/ NoMishap /\ Moved /\ Goes(p, "verify")
        \/ Mishap /\ Moved /\ Goes(p, "raised")
        \/ Mishap /\ UNCHANGED <<cache, temp>> /\ Goes(p, "drop")
  /\ UNCHANGED <<honest, clean, at>>

\* The finally block of _copy_artifact.
Drop(p) ==
  /\ pc[p] = "drop" /\ Goes(p, "raised")
  /\ \/ NoMishap /\ temp' = [temp EXCEPT ![p] = "none"]
     \/ Mishap /\ UNCHANGED temp
  /\ UNCHANGED <<honest, clean, cache, at>>

VerifyLax(p) ==   \* mutant: what was copied is not hashed again
  /\ pc[p] = "verify" /\ NoMishap
  /\ IF at[p] = Artifacts THEN Goes(p, "returned") /\ UNCHANGED at
     ELSE Goes(p, "lookup") /\ at' = [at EXCEPT ![p] = @ + 1]
  /\ UNCHANGED <<honest, clean, cache, temp>>

\* The digest that counts; then the next artifact.
Verify(p) ==
  /\ pc[p] = "verify"
  /\ \/ /\ NoMishap /\ cache[at[p]] = "good"
        /\ IF at[p] = Artifacts THEN Goes(p, "returned") /\ UNCHANGED at
           ELSE Goes(p, "lookup") /\ at' = [at EXCEPT ![p] = @ + 1]
     \/ /\ NoMishap /\ cache[at[p]] # "good" /\ UNCHANGED at
        /\ Goes(p, IF cache[at[p]] = "bad" THEN "discard" ELSE "raised")
     \/ Mishap /\ Goes(p, "raised") /\ UNCHANGED at
  /\ UNCHANGED <<honest, clean, cache, temp>>

\* output.unlink(missing_ok=True), whatever the path holds by now.
Discard(p) ==
  /\ pc[p] = "discard" /\ Goes(p, "raised")
  /\ \/ NoMishap /\ cache' = [cache EXCEPT ![at[p]] = "none"]
     \/ Mishap /\ UNCHANGED cache
  /\ UNCHANGED <<honest, clean, at, temp>>

Die(p) ==
  /\ pc[p] \notin CorpusEnded \union {"idle"}
  /\ Mishap /\ Goes(p, "dead")
  /\ UNCHANGED <<honest, clean, cache, at, temp>>

Materialize(p) ==
  \/ Start(p) \/ Lookup(p) \/ Hash(p) \/ Copy(p) \/ Place(p) \/ Drop(p) \/ Verify(p) \/ Discard(p)

CorpusNext == \E p \in Procs : Materialize(p) \/ Die(p)

CorpusSpec == CorpusInit /\ [][CorpusNext]_corpusVars

-----------------------------------------------------------------------------
(* With an honest origin, a cached file that is good stays good however    *)
(* the steps of two benchmarks interleave and wherever one is killed: the  *)
(* digest a benchmark verified is the digest of what it scores later.      *)
GoodStays ==
  [][honest => \A a \in 1..Artifacts : cache[a] = "good" => cache'[a] = "good"]_cache

(* With an honest origin and nothing failing, no benchmark fails because   *)
(* of what the other does; and with any origin, a benchmark that had the   *)
(* cache for itself returns only if every artifact has its digest, and     *)
(* leaves no half-written file in the cache (materialize).                 *)
Materialized ==
  /\ honest /\ clean /\ mishaps = 0 => \A p \in Procs : pc[p] # "raised"
  /\ \A p \in Procs :
       pc[p] = "returned" /\ (\A q \in Procs \ {p} : pc[q] = "idle") =>
         \A a \in 1..Artifacts : cache[a] = "good"
  /\ \A a \in 1..Artifacts : cache[a] # "partial"
=============================================================================
