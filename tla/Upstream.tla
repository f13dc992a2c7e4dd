------------------------------ MODULE Upstream ------------------------------
(***************************************************************************)
(* bench/upstream.py: materialize_source puts the pinned sources of a      *)
(* project under one directory, either by downloading its files one by one *)
(* or by downloading an archive into a cache and unpacking it.  Both build *)
(* a hidden staging directory and move it into place as a whole.           *)
(*                                                                         *)
(* A path is a sequence of names.  The archive is the sequence of its      *)
(* members; `files` is the manifest's list.  An archive in the cache is    *)
(* "good" when it has the pinned size and digest.                          *)
(***************************************************************************)
EXTENDS Naturals, Sequences, FiniteSets, SequencesExt

CONSTANTS
  Builders,      \* processes that materialize the same source
  Manifests,     \* the lists of file paths a manifest may give, <<>> for an archive
  Bundles,       \* what the archive may contain
  MaxBytes,      \* the limit on what an archive expands to
  MaxTroubles    \* bound on failed calls and deaths

ASSUME SourceAssumption ==
  /\ Builders # {} /\ MaxTroubles \in Nat
  /\ \A list \in Manifests \union Bundles : list \in Seq(ToSet(list))

VARIABLES
  manifest, bundle,
  trusty,     \* the origin serves what was pinned
  archive,    \* what the archive's path in the cache holds
  root,       \* {} if the source's directory is not there, {tree} if it is and
              \* tree are the files under it
  stage,      \* [Builders -> the files in its staging directory]
  upc, step,  \* [Builders -> its next step, and the file or member it is at]
  troubles

upstreamVars == <<manifest, bundle, trusty, archive, root, stage, upc, step, troubles>>
given == <<manifest, bundle, trusty>>

SourceEnded == {"returned", "raised", "dead"}

-----------------------------------------------------------------------------
(* validate_source_manifest: what it accepts as `files`.                   *)

\* Each path is compared with those before it.
Conflicts(path, earlier) ==
  \E e \in earlier : IsPrefix(e, path) \/ IsPrefix(path, e)

Accepted(list) ==
  list # <<>> /\ \A n \in DOMAIN list : ~Conflicts(list[n], {list[m] : m \in 1..(n - 1)})

-----------------------------------------------------------------------------
(* extract: the members of an archive.                                     *)

IsFile(m) == m.kind = "file"

\* The checks of the first pass over the archive; a total is checked at each member.
BundleAccepted(members) ==
  LET bytes(n) == FoldLeft(LAMBDA sum, m : IF IsFile(m) THEN sum + m.size ELSE sum,
                           0, SubSeq(members, 1, n))
  IN /\ members # <<>>
     /\ \A m \in ToSet(members) : m.path # <<>> /\ m.kind \in {"file", "dir"}
     /\ \A n \in DOMAIN members : bytes(n) <= MaxBytes
     /\ \A n, o \in DOMAIN members : n # o => members[n].path # members[o].path
     /\ Cardinality({members[n].path[1] : n \in DOMAIN members}) = 1

\* What the source's directory must hold in the end.
Wanted == IF manifest # <<>> THEN ToSet(manifest)
          ELSE {m.path : m \in {n \in ToSet(bundle) : IsFile(n)}}

\* open(path, "xb") after mkdir of the parents: neither the path nor a parent
\* may be a file, and the path not a directory.
Writable(path, tree) ==
  ~\E f \in tree : IsPrefix(f, path) \/ IsPrefix(path, f)

-----------------------------------------------------------------------------
UpstreamInit ==
  /\ manifest \in Manifests /\ (manifest = <<>> \/ Accepted(manifest))
  /\ bundle \in IF manifest = <<>> THEN Bundles ELSE {<<>>}
  /\ trusty \in BOOLEAN
  /\ archive \in IF manifest = <<>> THEN {"none", "good", "bad"} ELSE {"none"}
  /\ root = {}
  /\ stage = [b \in Builders |-> {}]
  /\ upc = [b \in Builders |-> IF manifest = <<>> THEN "lookup" ELSE "check"]
  /\ step = [b \in Builders |-> 1]
  /\ troubles = 0

Turns(b, label) == upc' = [upc EXCEPT ![b] = label]
Trouble == troubles < MaxTroubles /\ troubles' = troubles + 1
Fine == UNCHANGED troubles

\* download: the cached archive is used if its size and its digest are right.
LookupArchive(b) ==
  /\ upc[b] = "lookup"
  /\ \/ Fine /\ Turns(b, IF archive = "good" THEN "check" ELSE "fetch")
     \/ Trouble /\ Turns(b, "raised")
  /\ UNCHANGED <<given, archive, root, stage, step>>

\* The download goes to a temporary file, which replaces the cached archive
\* only after its size and its digest were checked.
FetchArchive(b) ==
  /\ upc[b] = "fetch"
  /\ \/ Fine /\ archive' = "good" /\ Turns(b, "check")
     \/ ~trusty /\ Fine /\ Turns(b, "raised") /\ UNCHANGED archive
     \/ Trouble /\ Turns(b, "raised") /\ archive' \in {archive, "good"}
  /\ UNCHANGED <<given, root, stage, step>>

\* root.exists(), then mkdtemp.
MakeStage(b) ==
  /\ upc[b] = "check"
  /\ \/ Fine /\ Turns(b, IF root # {} THEN "raised"
                         ELSE IF manifest = <<>> /\ ~BundleAccepted(bundle) THEN "discard" ELSE "fill")
     \/ Trouble /\ Turns(b, "raised")
  /\ UNCHANGED <<given, archive, root, stage, step>>

Advance(b, last) ==
  IF step[b] = last THEN Turns(b, "swap") /\ UNCHANGED step
  ELSE step' = [step EXCEPT ![b] = @ + 1] /\ UNCHANGED upc

\* The next file of the manifest, downloaded into the staging directory.
DownloadFile(b) ==
  /\ upc[b] = "fill" /\ manifest # <<>>
  /\ LET path == manifest[step[b]] IN
     \/ /\ Fine /\ Writable(path, stage[b])
        /\ stage' = [stage EXCEPT ![b] = @ \union {path}]
        /\ Advance(b, Len(manifest))
     \/ /\ IF Writable(path, stage[b]) /\ trusty THEN Trouble ELSE Fine
        /\ Turns(b, "discard") /\ UNCHANGED <<stage, step>>
  /\ UNCHANGED <<given, archive, root>>

\* Members are unpacked in their order, directories too.
MemberFits(b) ==
  LET m == bundle[step[b]] IN
  \A n \in 1..(step[b] - 1) :
    /\ IsFile(bundle[n]) => ~IsPrefix(bundle[n].path, m.path)
    /\ IsFile(m) => ~IsPrefix(m.path, bundle[n].path)

\* The next member of the archive, written with its declared size.
UnpackMember(b) ==
  /\ upc[b] = "fill" /\ manifest = <<>>
  /\ LET m == bundle[step[b]] IN
     \/ /\ Fine /\ MemberFits(b)
        /\ stage' = [stage EXCEPT ![b] = IF IsFile(m) THEN @ \union {m.path} ELSE @]
        /\ Advance(b, Len(bundle))
     \/ /\ IF MemberFits(b) THEN Trouble ELSE Fine
        /\ Turns(b, "discard") /\ UNCHANGED <<stage, step>>
  /\ UNCHANGED <<given, archive, root>>

SwapOver(b) ==   \* mutant: the files are moved one by one
  /\ upc[b] = "swap" /\ Fine
  /\ \E path \in Wanted : root' = {UNION root \union {path}} /\ (Turns(b, "returned") \/ UNCHANGED upc)
  /\ UNCHANGED <<given, archive, stage, step>>

\* _sync_tree, then staging.replace(root), which fails if another process has
\* put its own there meanwhile; after it, the parent is synced.
Swap(b) ==
  /\ upc[b] = "swap"
  /\ \/ Fine /\ root = {} /\ root' = {stage[b]} /\ stage' = [stage EXCEPT ![b] = {}] /\ Turns(b, "returned")
     \/ Fine /\ root # {} /\ Turns(b, "discard") /\ UNCHANGED <<root, stage>>
     \/ Trouble /\ Turns(b, "discard") /\ UNCHANGED <<root, stage>>
     \/ Trouble /\ root = {} /\ root' = {stage[b]} /\ stage' = [stage EXCEPT ![b] = {}] /\ Turns(b, "discard")
  /\ UNCHANGED <<given, archive, step>>

\* except BaseException: rmtree(staging), and the exception goes on.
DiscardStage(b) ==
  /\ upc[b] = "discard" /\ Fine
  /\ stage' = [stage EXCEPT ![b] = {}]
  /\ Turns(b, "raised")
  /\ UNCHANGED <<given, archive, root, step>>

BuilderDies(b) ==
  /\ upc[b] \notin SourceEnded
  /\ Trouble /\ Turns(b, "dead")
  /\ UNCHANGED <<given, archive, root, stage, step>>

UpstreamNext ==
  \E b \in Builders :
    \/ LookupArchive(b) \/ FetchArchive(b) \/ MakeStage(b) \/ DownloadFile(b)
    \/ UnpackMember(b) \/ Swap(b) \/ DiscardStage(b) \/ BuilderDies(b)

UpstreamSpec == UpstreamInit /\ [][UpstreamNext]_upstreamVars

-----------------------------------------------------------------------------
(* Under the source's directory is nothing or everything, whatever fails   *)
(* and whoever races; of the processes that build it at most one reports   *)
(* success.  If nothing fails, a manifest that was accepted is one that    *)
(* can be built, and one of the processes has built it; and a good archive *)
(* in the cache is never replaced by a bad one, whatever the origin sends. *)
SourceWhole ==
  /\ root \subseteq {Wanted}
  /\ Cardinality({b \in Builders : upc[b] = "returned"}) <= 1
  /\ (\A b \in Builders : upc[b] \in SourceEnded) /\ troubles = 0 /\ trusty /\ manifest # <<>> =>
       \E b \in Builders : upc[b] = "returned"
  /\ archive = "bad" => \A b \in Builders : upc[b] \in {"lookup", "fetch"} \union SourceEnded
=============================================================================
