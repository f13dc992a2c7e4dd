---------------------------- MODULE Bench_proofs ----------------------------
(***************************************************************************)
(* Theorems about Corpus, Upstream and Metrics, for any set of processes   *)
(* that share a cache or build a source, any number of artifacts, any      *)
(* manifests and archives, any number of mishaps, and any schemas.         *)
(***************************************************************************)
EXTENDS Corpus, Upstream, Metrics, FiniteSetTheorems, WellFoundedInduction, TLAPS

-----------------------------------------------------------------------------
(* Corpus.                                                                 *)

Labels == {"idle", "lookup", "hash", "copy", "place", "drop", "verify", "discard"} \union CorpusEnded

\* The types; `clean` is what it says of the first state, and nothing blocks
\* a path later.
CacheTypes ==
  /\ honest \in BOOLEAN /\ clean \in BOOLEAN
  /\ cache \in [1..Artifacts -> {"none", "good", "bad", "blocked"}]
  /\ pc \in [Procs -> Labels]
  /\ at \in [Procs -> 1..Artifacts]
  /\ temp \in [Procs -> {"none", "good", "bad", "partial"}]
  /\ mishaps \in Nat
  /\ clean => \A a \in 1..Artifacts : cache[a] # "blocked"

\* What is moved into place is a whole copy, and a good one from an honest origin.
WholeCopies ==
  \A p \in Procs : pc[p] = "place" => /\ temp[p] \in {"good", "bad"}
                                      /\ honest => temp[p] = "good"

\* With an honest origin nothing is ever discarded, for what is verified is
\* good; so a path found taken stays taken, and only mishaps lead to the
\* finally block or to an exception.
HonestCache ==
  honest =>
    \A p \in Procs :
      /\ pc[p] # "discard"
      /\ pc[p] = "hash" => cache[at[p]] # "none"
      /\ pc[p] = "verify" => cache[at[p]] = "good"
      /\ pc[p] = "drop" => mishaps > 0
      /\ clean /\ pc[p] = "raised" => mishaps > 0

\* A process that is alone leaves the artifacts behind it good.
Alone(p) == \A q \in Procs \ {p} : pc[q] = "idle"
BehindGood ==
  \A p \in Procs : Alone(p) =>
    \A a \in 1..Artifacts : a < at[p] \/ pc[p] = "returned" => cache[a] = "good"

CacheInv == CacheTypes /\ WholeCopies /\ HonestCache /\ BehindGood

(* The invariant holds of every cache a benchmark may find (materialize). *)
LEMMA CacheInit == CorpusInit => CacheInv
<1> SUFFICES ASSUME CorpusInit PROVE CacheInv
  OBVIOUS
<1>1. honest \in BOOLEAN /\ clean \in BOOLEAN
  BY Zenon DEF CorpusInit
<1>2. clean => \A a \in 1..Artifacts : cache[a] # "blocked"
  BY Zenon DEF CorpusInit
<1>3. CacheTypes
  BY CorpusAssumption, <1>1, <1>2 DEF CorpusInit, CacheTypes, Labels
<1> QED
  BY <1>3 DEF CorpusInit, CacheInv, CacheTypes, WholeCopies, HonestCache, BehindGood

\* One step of one process, whatever it is.
LEMMA CacheStep == CacheInv /\ [CorpusNext]_corpusVars => CacheInv'
<1> SUFFICES ASSUME CacheInv, [CorpusNext]_corpusVars PROVE CacheInv'
  OBVIOUS
<1> USE CorpusAssumption
<1>1. CASE UNCHANGED corpusVars
  BY <1>1 DEF CacheInv, CacheTypes, WholeCopies, HonestCache, BehindGood, Alone, corpusVars
<1>2. ASSUME NEW p \in Procs, Materialize(p) \/ Die(p) PROVE CacheInv'
  <2> USE DEF Goes, Mishap, NoMishap, Labels, CorpusEnded
  <2>a. CacheTypes /\ WholeCopies /\ HonestCache /\ BehindGood
    BY DEF CacheInv
  <2>b. /\ pc[p] \in Labels /\ at[p] \in 1..Artifacts /\ cache[at[p]] \in {"none", "good", "bad", "blocked"}
        /\ clean => cache[at[p]] # "blocked"
    BY <2>a DEF CacheTypes
  <2>c. /\ pc \in [Procs -> Labels] /\ at \in [Procs -> 1..Artifacts] /\ mishaps \in Nat
        /\ cache \in [1..Artifacts -> {"none", "good", "bad", "blocked"}]
        /\ temp \in [Procs -> {"none", "good", "bad", "partial"}]
    BY <2>a DEF CacheTypes
  <2>1. CacheTypes'
    <3>1. CASE Start(p) \/ Lookup(p) \/ Hash(p) \/ Die(p)
      <4>1. CASE Start(p)
        BY <2>a, <4>1 DEF CacheTypes, Start
      <4>2. CASE Lookup(p) \/ Hash(p)
        <5>1. \E l \in {"copy", "hash", "verify", "raised"} : pc' = [pc EXCEPT ![p] = l]
          BY <4>2 DEF Lookup, Hash
        <5>2. mishaps' \in {mishaps, mishaps + 1} /\ UNCHANGED <<honest, clean, cache, at, temp>>
          BY <4>2 DEF Lookup, Hash
        <5>3. pc' \in [Procs -> Labels] /\ mishaps' \in Nat
          BY <2>c, <5>1, <5>2
        <5> QED
          BY <2>a, <5>2, <5>3 DEF CacheTypes
      <4>3. CASE Die(p)
        BY <2>a, <4>3 DEF CacheTypes, Die
      <4> QED
        BY <3>1, <4>1, <4>2, <4>3
    <3>2. CASE Copy(p) \/ Drop(p)
      <4>1. \E c \in {"none", "good", "bad", "partial"}, l \in {"place", "drop", "raised"} :
              temp' \in {temp, [temp EXCEPT ![p] = c]} /\ pc' = [pc EXCEPT ![p] = l]
        BY <3>2 DEF Copy, Drop
      <4>2. mishaps' \in {mishaps, mishaps + 1} /\ UNCHANGED <<honest, clean, cache, at>>
        BY <3>2 DEF Copy, Drop
      <4>3. UNCHANGED <<honest, clean, cache>> => (clean' => \A a \in 1..Artifacts : cache'[a] # "blocked")
        BY <2>a DEF CacheTypes
      <4>4. temp' \in [Procs -> {"none", "good", "bad", "partial"}] /\ pc' \in [Procs -> Labels] /\ mishaps' \in Nat
        BY <2>c, <4>1, <4>2
      <4> QED
        BY <2>a, <4>2, <4>3, <4>4 DEF CacheTypes
    <3>3. CASE Place(p)
      <4>1. \E c \in {"good", "bad"}, l \in {"verify", "drop", "raised"} :
              /\ cache' \in {cache, [cache EXCEPT ![at[p]] = c]}
              /\ temp' \in {temp, [temp EXCEPT ![p] = "none"]}
              /\ pc' = [pc EXCEPT ![p] = l]
        BY <2>a, <3>3 DEF WholeCopies, Place
      <4>2. mishaps' \in {mishaps, mishaps + 1} /\ UNCHANGED <<honest, clean, at>>
        BY <3>3 DEF Place
      <4>3. clean' => \A a \in 1..Artifacts : cache'[a] # "blocked"
        BY <2>a, <4>1, <4>2 DEF CacheTypes
      <4>4. cache' \in [1..Artifacts -> {"none", "good", "bad", "blocked"}]
        BY <2>a, <2>b, <4>1 DEF CacheTypes
      <4> QED
        BY <2>a, <4>1, <4>2, <4>3, <4>4 DEF CacheTypes
    <3>4. CASE Verify(p)
      BY <2>a, <2>b, <3>4 DEF CacheTypes, Verify
    <3>5. CASE Discard(p)
      BY <2>a, <2>b, <3>5 DEF CacheTypes, Discard
    <3> QED
      BY <1>2, <3>1, <3>2, <3>3, <3>4, <3>5 DEF Materialize
  <2>2. WholeCopies'
    <3>1. CASE Copy(p)
      BY <2>a, <3>1 DEF CacheTypes, WholeCopies, Copy
    <3>2. CASE Place(p) \/ Drop(p)
      BY <2>a, <3>2 DEF CacheTypes, WholeCopies, Place, Drop
    <3>3. CASE Start(p) \/ Lookup(p) \/ Hash(p) \/ Verify(p) \/ Discard(p) \/ Die(p)
      BY <2>a, <2>b, <3>3 DEF CacheTypes, WholeCopies, Start, Lookup, Hash, Verify, Discard, Die
    <3> QED
      BY <1>2, <3>1, <3>2, <3>3 DEF Materialize
  <2>3. HonestCache'
    <3>0. honest' = honest /\ clean' = clean
      BY <1>2 DEF Materialize, Start, Lookup, Hash, Copy, Place, Drop, Verify, Discard, Die
    <3> SUFFICES ASSUME honest, NEW q \in Procs
                 PROVE  /\ pc'[q] # "discard"
                        /\ pc'[q] = "hash" => cache'[at'[q]] # "none"
                        /\ pc'[q] = "verify" => cache'[at'[q]] = "good"
                        /\ pc'[q] = "drop" => mishaps' > 0
                        /\ clean /\ pc'[q] = "raised" => mishaps' > 0
      BY <3>0 DEF HonestCache
    <3>1. \A r \in {p, q} :
            /\ pc[r] # "discard"
            /\ pc[r] = "hash" => cache[at[r]] # "none"
            /\ pc[r] = "verify" => cache[at[r]] = "good"
            /\ pc[r] = "drop" => mishaps > 0
            /\ clean /\ pc[r] = "raised" => mishaps > 0
      BY <2>a DEF HonestCache
    <3>2. CASE Start(p)
      BY <2>b, <2>c, <3>1, <3>2 DEF Start
    <3>8. CASE Lookup(p)
      <4>1. UNCHANGED cache /\ mishaps' >= mishaps
        BY <2>c, <3>8 DEF Lookup
      <4>2. CASE q # p
        BY <2>c, <3>1, <3>8, <4>1, <4>2 DEF Lookup
      <4>3. CASE q = p
        BY <2>b, <2>c, <3>1, <3>8, <4>1, <4>3 DEF Lookup
      <4> QED
        BY <4>2, <4>3
    <3>3. CASE Hash(p)
      <4>1. UNCHANGED cache /\ mishaps' >= mishaps
        BY <2>c, <3>3 DEF Hash
      <4>2. CASE q # p
        BY <2>c, <3>1, <3>3, <4>1, <4>2 DEF Hash
      <4>3. CASE q = p
        BY <2>b, <2>c, <3>1, <3>3, <4>1, <4>3 DEF Hash
      <4> QED
        BY <4>2, <4>3
    <3>9. CASE Die(p)
      <4>1. UNCHANGED cache /\ mishaps' >= mishaps
        BY <2>c, <3>9 DEF Die
      <4>2. CASE q # p
        BY <2>c, <3>1, <3>9, <4>1, <4>2 DEF Die
      <4>3. CASE q = p
        BY <2>b, <2>c, <3>1, <3>9, <4>1, <4>3 DEF Die
      <4> QED
        BY <4>2, <4>3
    <3>4. CASE Copy(p)
      BY <2>b, <2>c, <3>1, <3>4 DEF Copy
    <3>5. CASE Drop(p)
      BY <2>b, <2>c, <3>1, <3>5 DEF Drop
    <3>6. CASE Place(p)
      BY <2>a, <2>b, <3>1, <3>6 DEF CacheTypes, WholeCopies, Place
    <3>7. CASE Verify(p)
      <4>1. UNCHANGED cache /\ mishaps' >= mishaps
        BY <2>c, <3>7 DEF Verify
      <4>2. CASE q # p
        BY <2>c, <3>1, <3>7, <4>1, <4>2 DEF Verify
      <4>3. CASE q = p
        BY <2>b, <2>c, <3>1, <3>7, <4>1, <4>3 DEF Verify
      <4> QED
        BY <4>2, <4>3
    <3>10. CASE Discard(p)
      BY <3>1, <3>10 DEF Discard
    <3> QED
      BY <1>2, <3>2, <3>3, <3>4, <3>5, <3>6, <3>7, <3>8, <3>9, <3>10 DEF Materialize
  <2>4. BehindGood'
    <3> SUFFICES ASSUME NEW q \in Procs, Alone(q)', NEW x \in 1..Artifacts,
                        x < at'[q] \/ pc'[q] = "returned"
                 PROVE  cache'[x] = "good"
      BY DEF BehindGood
    <3>0. /\ pc'[p] # "idle"
          /\ \A r \in Procs \ {p} : pc'[r] = pc[r] /\ at'[r] = at[r]
      BY <1>2, <2>a DEF CacheTypes, Materialize, Start, Lookup, Hash, Copy, Place, Drop, Verify, Discard, Die
    <3>1. q = p
      BY <3>0 DEF Alone
    <3>2. x < at[p] \/ pc[p] = "returned" => cache[x] = "good"
      BY <3>0, <3>1, <2>a DEF BehindGood, Alone
    <3>3. CASE Start(p) \/ Lookup(p) \/ Hash(p) \/ Copy(p) \/ Drop(p) \/ Die(p)
      BY <2>a, <3>1, <3>2, <3>3 DEF CacheTypes, Start, Lookup, Hash, Copy, Drop, Die
    <3>4. CASE Place(p) \/ Discard(p)
      BY <2>a, <2>b, <3>1, <3>2, <3>4 DEF CacheTypes, Place, Discard
    <3>5. CASE Verify(p)
      BY <2>a, <2>b, <3>1, <3>2, <3>5 DEF CacheTypes, Verify
    <3> QED
      BY <1>2, <3>3, <3>4, <3>5 DEF Materialize
  <2> QED
    BY <2>1, <2>2, <2>3, <2>4 DEF CacheInv
<1> QED
  BY <1>1, <1>2 DEF CorpusNext

(* The invariant holds whatever the processes that share the cache do. *)
LEMMA CacheInvariant == CorpusSpec => []CacheInv
  BY CacheInit, CacheStep, PTL DEF CorpusSpec

(* However many benchmarks share the cache: with an honest origin and      *)
(* nothing failing none of them fails, one that is alone returns only with *)
(* every artifact good, and no half-written file is ever in the cache.     *)
THEOREM CacheMaterialized == CorpusSpec => []Materialized
<1>1. CacheInv => Materialized
  BY DEF CacheInv, CacheTypes, HonestCache, BehindGood, Alone, Materialized
<1> QED
  BY CacheInvariant, <1>1, PTL

(* With an honest origin no step of any benchmark, nor its death, takes a  *)
(* good artifact away.                                                     *)
THEOREM GoodForGood == CorpusSpec => GoodStays
<1> DEFINE Kept == honest => \A a \in 1..Artifacts : cache[a] = "good" => cache'[a] = "good"
<1>1. CacheInv /\ [CorpusNext]_corpusVars => [Kept]_cache
  <2> SUFFICES ASSUME CacheInv, NEW p \in Procs, Materialize(p) \/ Die(p) PROVE Kept \/ cache' = cache
    BY DEF CorpusNext, corpusVars
  <2>1. CASE Place(p) \/ Discard(p)
    BY <2>1 DEF CacheInv, CacheTypes, WholeCopies, HonestCache, Place, Discard, Goes
  <2>2. CASE Start(p) \/ Lookup(p) \/ Hash(p) \/ Copy(p) \/ Drop(p) \/ Verify(p) \/ Die(p)
    BY <2>2 DEF Start, Lookup, Hash, Copy, Drop, Verify, Die
  <2> QED
    BY <2>1, <2>2 DEF Materialize
<1> QED
  BY CacheInvariant, <1>1, PTL DEF CorpusSpec, GoodStays
-----------------------------------------------------------------------------
(* Upstream.                                                               *)

SourceLabels == {"lookup", "fetch", "check", "fill", "swap", "discard"} \union SourceEnded

\* The files a builder must have in its staging directory before file or member n.
Before(n) == IF manifest # <<>> THEN {manifest[m] : m \in 1..(n - 1)}
             ELSE {bundle[m].path : m \in {k \in 1..(n - 1) : IsFile(bundle[k])}}

Count == IF manifest # <<>> THEN Len(manifest) ELSE Len(bundle)

SourceTypes ==
  /\ manifest \in Manifests /\ (manifest = <<>> \/ Accepted(manifest))
  /\ bundle \in Bundles \union {<<>>}
  /\ upc \in [Builders -> SourceLabels]
  /\ step \in [Builders -> Nat]
  /\ stage = [b \in Builders |-> stage[b]]
  /\ troubles \in Nat

\* What is staged is what comes before the file or member a builder is at.
Staged ==
  \A b \in Builders :
    /\ upc[b] \in {"lookup", "fetch"} => manifest = <<>>
    /\ upc[b] \in {"lookup", "fetch", "check"} => step[b] = 1 /\ stage[b] = {}
    /\ upc[b] = "fill" => step[b] \in 1..Count /\ stage[b] = Before(step[b])
    /\ upc[b] = "swap" => stage[b] = Wanted

\* The directory is there whole or not at all, and one builder moved it there.
PlacedOnce ==
  /\ root \subseteq {Wanted}
  /\ \A b \in Builders : upc[b] = "returned" => root # {}
  /\ \A b, c \in Builders : upc[b] = "returned" /\ upc[c] = "returned" => b = c

\* With an honest origin and without a failure only a builder that came late fails.
OnlyLate ==
  troubles = 0 /\ trusty /\ manifest # <<>> =>
    /\ root # {} => \E b \in Builders : upc[b] = "returned"
    /\ \A b \in Builders : upc[b] \in {"discard", "raised", "dead"} => root # {}

GoodArchive ==
  archive = "bad" => \A b \in Builders : upc[b] \in {"lookup", "fetch"} \union SourceEnded

SourceInv == SourceTypes /\ Staged /\ PlacedOnce /\ OnlyLate /\ GoodArchive
(* What is given does not change what must hold of it. *)
LEMMA GivenStays ==
  ASSUME UNCHANGED given
  PROVE  /\ UNCHANGED <<manifest, bundle, trusty>> /\ Wanted' = Wanted /\ Count' = Count
         /\ \A n : Before(n)' = Before(n)
  BY DEF given, Wanted, Count, Before

(* Files and members are numbered from 1. *)
LEMMA Numbered ==
  ASSUME SourceTypes
  PROVE  /\ manifest # <<>> => Count \in Nat \ {0} /\ DOMAIN manifest = 1..Count
         /\ manifest = <<>> => Count \in Nat /\ DOMAIN bundle = 1..Count
<1>1. <<>> \in Seq({})
  OBVIOUS
<1>2. \E any : manifest \in Seq(any)
  BY SourceAssumption DEF SourceTypes, SourceAssumption
<1>3. \E any : bundle \in Seq(any)
  BY <1>1, SourceAssumption DEF SourceTypes, SourceAssumption
<1>4. CASE manifest # <<>>
  BY <1>2, <1>4 DEF Count
<1>5. CASE manifest = <<>>
  BY <1>3, <1>5 DEF Count
<1>6. QED
  BY <1>4, <1>5
(* Once everything is staged it is what must be there. *)
LEMMA AllStaged == ASSUME SourceTypes PROVE Before(Count + 1) = Wanted
<1>1. CASE manifest # <<>>
  <2>1. 1..((Count + 1) - 1) = DOMAIN manifest
    BY <1>1, Numbered
  <2>2. QED
    BY <1>1, <2>1 DEF Before, Wanted, ToSet
<1>2. CASE manifest = <<>>
  <2>1. 1..((Count + 1) - 1) = DOMAIN bundle
    BY <1>2, Numbered
  <2>2. Wanted = {m.path : m \in {n \in {bundle[k] : k \in DOMAIN bundle} : IsFile(n)}}
    BY <1>2 DEF Wanted, ToSet
  <2>3. Before(Count + 1) = {bundle[m].path : m \in {k \in DOMAIN bundle : IsFile(bundle[k])}}
    BY <1>2, <2>1 DEF Before
  <2>4. QED
    BY <2>2, <2>3
<1>3. QED
  BY <1>1, <1>2

(* A manifest that was accepted can be built: no file is in another's way. *)
LEMMA FilesFit ==
  ASSUME SourceTypes, manifest # <<>>, NEW n \in 1..Count
  PROVE  Writable(manifest[n], Before(n))
<1>1. n \in DOMAIN manifest /\ Accepted(manifest)
  BY Numbered DEF SourceTypes
<1>2. QED
  BY <1>1 DEF Accepted, Conflicts, Writable, Before

(* An archive that was accepted has members. *)
LEMMA HasMembers == ASSUME SourceTypes, manifest = <<>>, BundleAccepted(bundle) PROVE 1 \in 1..Count
<1>1. bundle # <<>>
  BY DEF BundleAccepted
<1>2. Count # 0
  <2>1. <<>> \in Seq({})
    OBVIOUS
  <2>2. \E any : bundle \in Seq(any)
    BY <2>1, SourceAssumption DEF SourceTypes, SourceAssumption
  <2>3. QED
    BY <1>1, <2>2 DEF Count
<1>3. QED
  BY <1>2, Numbered

(* download looks at the cached archive.                                   *)
LEMMA LookupArchiveStep == ASSUME SourceInv, NEW b \in Builders, LookupArchive(b) PROVE SourceInv'
<1> USE DEF SourceInv
<1>1. /\ UNCHANGED <<manifest, bundle, trusty>> /\ Wanted' = Wanted /\ Count' = Count
      /\ \A n : Before(n)' = Before(n)
      /\ UNCHANGED <<archive, root, stage, step>> /\ upc[b] = "lookup"
      /\ \E label : /\ Turns(b, label)
                     /\ \/ Fine /\ label = "check" /\ archive = "good"
                        \/ Fine /\ label = "fetch"
                        \/ Trouble /\ label = "raised"
      /\ manifest = <<>>
  BY GivenStays DEF LookupArchive, Staged
<1>2. SourceTypes'
  BY <1>1 DEF SourceTypes, Turns, Fine, Trouble, SourceLabels, SourceEnded
<1>3. Staged'
  BY <1>1 DEF Staged, SourceTypes, Turns, Fine, Trouble
<1>4. PlacedOnce'
  BY <1>1 DEF PlacedOnce, SourceTypes, Turns, Fine, Trouble
<1>5. OnlyLate'
  BY <1>1 DEF OnlyLate, SourceTypes, Turns, Fine, Trouble
<1>6. GoodArchive'
  BY <1>1 DEF GoodArchive, SourceTypes, Turns, Fine, Trouble, SourceEnded
<1>7. QED
  BY <1>2, <1>3, <1>4, <1>5, <1>6

(* download fetches the archive; what it caches is good.                   *)
LEMMA FetchArchiveStep == ASSUME SourceInv, NEW b \in Builders, FetchArchive(b) PROVE SourceInv'
<1> USE DEF SourceInv
<1>1. /\ UNCHANGED <<manifest, bundle, trusty>> /\ Wanted' = Wanted /\ Count' = Count
      /\ \A n : Before(n)' = Before(n)
      /\ UNCHANGED <<root, stage, step>> /\ upc[b] = "fetch"
      /\ \E label \in {"check", "raised"} : Turns(b, label) /\ (label = "check" => archive' = "good")
      /\ archive' \in {archive, "good"} /\ troubles' \in Nat
      /\ manifest = <<>>
  BY GivenStays DEF FetchArchive, Staged, Fine, Trouble, SourceTypes
<1>2. SourceTypes'
  BY <1>1 DEF SourceTypes, Turns, SourceLabels, SourceEnded
<1>3. Staged'
  BY <1>1 DEF Staged, SourceTypes, Turns
<1>4. PlacedOnce'
  BY <1>1 DEF PlacedOnce, SourceTypes, Turns
<1>5. OnlyLate'
  BY <1>1 DEF OnlyLate, SourceTypes, Turns
<1>6. GoodArchive'
  BY <1>1 DEF GoodArchive, SourceTypes, Turns, SourceEnded
<1>7. QED
  BY <1>2, <1>3, <1>4, <1>5, <1>6

(* The staging directory is made unless the directory is there.            *)
LEMMA MakeStageStep == ASSUME SourceInv, NEW b \in Builders, MakeStage(b) PROVE SourceInv'
<1> USE DEF SourceInv
<1>1. /\ UNCHANGED <<manifest, bundle, trusty>> /\ Wanted' = Wanted /\ Count' = Count
      /\ \A n : Before(n)' = Before(n)
      /\ UNCHANGED <<archive, root, stage, step>> /\ upc[b] = "check"
      /\ \E label : /\ Turns(b, label)
                     /\ \/ Fine /\ label = "raised" /\ root # {}
                        \/ Fine /\ label = "discard" /\ manifest = <<>>
                        \/ Fine /\ label = "fill" /\ (manifest = <<>> => BundleAccepted(bundle))
                        \/ Trouble /\ label = "raised"
  BY GivenStays DEF MakeStage
<1>2. Before(1) = {}
  BY DEF Before
<1>3. upc[b] = "check" /\ upc'[b] = "fill" => 1 \in 1..Count
  BY <1>1, Numbered, HasMembers DEF Turns, Fine, Trouble, SourceTypes
<1>4. SourceTypes'
  BY <1>1 DEF SourceTypes, Turns, Fine, Trouble, SourceLabels, SourceEnded
<1>5. Staged'
  BY <1>1, <1>2, <1>3 DEF Staged, SourceTypes, Turns, Fine, Trouble
<1>6. PlacedOnce'
  BY <1>1 DEF PlacedOnce, SourceTypes, Turns, Fine, Trouble
<1>7. OnlyLate'
  BY <1>1 DEF OnlyLate, SourceTypes, Turns, Fine, Trouble
<1>8. GoodArchive'
  BY <1>1 DEF GoodArchive, SourceTypes, Turns, Fine, Trouble, SourceEnded
<1>9. QED
  BY <1>2, <1>3, <1>4, <1>5, <1>6, <1>7, <1>8

(* A builder puts its directory in place, or finds another there.          *)
LEMMA SwapStep == ASSUME SourceInv, NEW b \in Builders, Swap(b) PROVE SourceInv'
<1> USE DEF SourceInv
<1>1. /\ UNCHANGED <<manifest, bundle, trusty>> /\ Wanted' = Wanted /\ Count' = Count
      /\ \A n : Before(n)' = Before(n)
      /\ UNCHANGED <<archive, step>> /\ upc[b] = "swap" /\ stage[b] = Wanted
      /\ \/ Fine /\ root = {} /\ root' = {Wanted} /\ stage' = [stage EXCEPT ![b] = {}] /\ Turns(b, "returned")
         \/ Fine /\ root # {} /\ Turns(b, "discard") /\ UNCHANGED <<root, stage>>
         \/ Trouble /\ Turns(b, "discard") /\ UNCHANGED <<root, stage>>
         \/ Trouble /\ root = {} /\ root' = {Wanted} /\ stage' = [stage EXCEPT ![b] = {}] /\ Turns(b, "discard")
  BY GivenStays DEF Swap, Staged
<1>2. SourceTypes'
  BY <1>1 DEF SourceTypes, Turns, Fine, Trouble, SourceLabels, SourceEnded
<1>3. Staged'
  BY <1>1 DEF Staged, SourceTypes, Turns, Fine, Trouble
<1>4. PlacedOnce'
  BY <1>1 DEF PlacedOnce, SourceTypes, Turns, Fine, Trouble
<1>5. OnlyLate'
  BY <1>1 DEF OnlyLate, SourceTypes, Turns, Fine, Trouble
<1>6. GoodArchive'
  BY <1>1 DEF GoodArchive, SourceTypes, Turns, Fine, Trouble, SourceEnded
<1>7. QED
  BY <1>2, <1>3, <1>4, <1>5, <1>6

(* A builder that failed removes what it staged.                           *)
LEMMA DiscardStageStep == ASSUME SourceInv, NEW b \in Builders, DiscardStage(b) PROVE SourceInv'
<1> USE DEF SourceInv
<1>1. /\ UNCHANGED <<manifest, bundle, trusty>> /\ Wanted' = Wanted /\ Count' = Count
      /\ \A n : Before(n)' = Before(n)
      /\ UNCHANGED <<archive, root, step, troubles>> /\ upc[b] = "discard"
      /\ stage' = [stage EXCEPT ![b] = {}] /\ Turns(b, "raised")
  BY GivenStays DEF DiscardStage, Fine
<1>2. SourceTypes'
  BY <1>1 DEF SourceTypes, Turns, SourceLabels, SourceEnded
<1>3. Staged'
  BY <1>1 DEF Staged, SourceTypes, Turns
<1>4. PlacedOnce'
  BY <1>1 DEF PlacedOnce, SourceTypes, Turns
<1>5. OnlyLate'
  BY <1>1 DEF OnlyLate, SourceTypes, Turns
<1>6. GoodArchive'
  BY <1>1 DEF GoodArchive, SourceTypes, Turns, SourceEnded
<1>7. QED
  BY <1>2, <1>3, <1>4, <1>5, <1>6

(* A builder dies.                                                         *)
LEMMA BuilderDiesStep == ASSUME SourceInv, NEW b \in Builders, BuilderDies(b) PROVE SourceInv'
<1> USE DEF SourceInv
<1>1. /\ UNCHANGED <<manifest, bundle, trusty>> /\ Wanted' = Wanted /\ Count' = Count
      /\ \A n : Before(n)' = Before(n)
      /\ UNCHANGED <<archive, root, stage, step>>
      /\ upc[b] # "returned" /\ Turns(b, "dead") /\ troubles' \in Nat \ {0}
  BY GivenStays DEF BuilderDies, SourceEnded, Trouble, SourceTypes
<1>2. SourceTypes'
  BY <1>1 DEF SourceTypes, Turns, SourceLabels, SourceEnded
<1>3. Staged'
  BY <1>1 DEF Staged, SourceTypes, Turns
<1>4. PlacedOnce'
  BY <1>1 DEF PlacedOnce, SourceTypes, Turns
<1>5. OnlyLate'
  BY <1>1 DEF OnlyLate, SourceTypes, Turns
<1>6. GoodArchive'
  BY <1>1 DEF GoodArchive, SourceTypes, Turns, SourceEnded
<1>7. QED
  BY <1>2, <1>3, <1>4, <1>5, <1>6

(* One more file or member is staged. *)
LEMMA FillsStep ==
  ASSUME SourceInv, NEW b \in Builders, upc[b] = "fill", UNCHANGED <<given, archive, root, troubles>>,
         stage' = [stage EXCEPT ![b] = Before(step[b] + 1)], Advance(b, Count)
  PROVE  SourceInv'
<1> USE DEF SourceInv
<1>1. /\ UNCHANGED <<manifest, bundle, trusty>> /\ Wanted' = Wanted /\ Count' = Count
      /\ \A n : Before(n)' = Before(n)
  BY GivenStays
<1>2. step[b] \in 1..Count /\ Count \in Nat
  BY Numbered DEF Staged
<1>3. \/ step[b] = Count /\ upc' = [upc EXCEPT ![b] = "swap"] /\ step' = step
      \/ step[b] # Count /\ upc' = upc /\ step' = [step EXCEPT ![b] = @ + 1]
  BY DEF Advance, Turns
<1>4. SourceTypes'
  <2>1. upc' \in [Builders -> SourceLabels] /\ step' \in [Builders -> Nat]
    BY <1>2, <1>3 DEF SourceTypes, SourceLabels
  <2>2. stage' = [c \in Builders |-> stage'[c]]
    BY DEF SourceTypes
  <2>3. QED
    BY <1>1, <2>1, <2>2 DEF SourceTypes
<1>5. Staged'
  <2>1. CASE step[b] = Count /\ upc' = [upc EXCEPT ![b] = "swap"] /\ step' = step
    <3>1. stage' = [stage EXCEPT ![b] = Wanted]
      BY <2>1, AllStaged
    <3>2. QED
      BY <1>1, <2>1, <3>1 DEF Staged, SourceTypes
  <2>2. CASE step[b] # Count /\ upc' = upc /\ step' = [step EXCEPT ![b] = @ + 1]
    <3>1. step[b] + 1 \in 1..Count
      BY <1>2, <2>2
    <3>2. QED
      BY <1>1, <2>2, <3>1 DEF Staged, SourceTypes
  <2>3. QED
    BY <1>3, <2>1, <2>2
<1>6. PlacedOnce'
  BY <1>1, <1>3 DEF PlacedOnce, SourceTypes
<1>7. OnlyLate'
  BY <1>1, <1>3 DEF OnlyLate, SourceTypes
<1>8. GoodArchive'
  BY <1>3 DEF GoodArchive, SourceTypes, SourceEnded
<1>9. QED
  BY <1>4, <1>5, <1>6, <1>7, <1>8

(* Staging a file or a member fails, and not for an accepted manifest      *)
(* whose files an honest origin serves, unless a call fails.               *)
LEMMA GivesUpStep ==
  ASSUME SourceInv, NEW b \in Builders, upc[b] = "fill", UNCHANGED <<given, archive, root, stage, step>>,
         Turns(b, "discard"), Trouble \/ (Fine /\ (manifest = <<>> \/ ~trusty))
  PROVE  SourceInv'
<1> USE DEF SourceInv
<1>1. /\ UNCHANGED <<manifest, bundle, trusty>> /\ Wanted' = Wanted /\ Count' = Count
      /\ \A n : Before(n)' = Before(n)
  BY GivenStays
<1>2. troubles' \in Nat /\ (troubles' = 0 => troubles = 0 /\ (manifest = <<>> \/ ~trusty))
  BY DEF Trouble, Fine, SourceTypes
<1>3. SourceTypes'
  BY <1>1, <1>2 DEF SourceTypes, Turns, SourceLabels
<1>4. Staged'
  BY <1>1 DEF Staged, SourceTypes, Turns
<1>5. PlacedOnce'
  BY <1>1 DEF PlacedOnce, SourceTypes, Turns
<1>6. OnlyLate'
  BY <1>1, <1>2 DEF OnlyLate
<1>7. GoodArchive'
  BY DEF GoodArchive, SourceTypes, Turns, SourceEnded
<1>8. QED
  BY <1>3, <1>4, <1>5, <1>6, <1>7

(* The next file of a manifest. *)
LEMMA DownloadFileStep == ASSUME SourceInv, NEW b \in Builders, DownloadFile(b) PROVE SourceInv'
<1> DEFINE path == manifest[step[b]]
<1>1. /\ upc[b] = "fill" /\ manifest # <<>> /\ UNCHANGED <<given, archive, root>>
      /\ step[b] \in 1..Count /\ stage[b] = Before(step[b]) /\ Len(manifest) = Count
  BY DEF DownloadFile, SourceInv, Staged, Count
<1>2. Writable(path, stage[b])
  BY <1>1, FilesFit DEF SourceInv
<1>3. CASE Fine /\ stage' = [stage EXCEPT ![b] = @ \union {path}] /\ Advance(b, Len(manifest))
  <2>1. 1..((step[b] + 1) - 1) = 1..(step[b] - 1) \union {step[b]}
    BY <1>1, Numbered DEF SourceInv
  <2>2. Before(step[b] + 1) = Before(step[b]) \union {path}
    BY <1>1, <2>1 DEF Before
  <2>3. stage' = [stage EXCEPT ![b] = Before(step[b] + 1)]
    BY <1>1, <1>3, <2>2
  <2>4. QED
    BY <1>1, <1>3, <2>3, FillsStep DEF Fine
<1>4. CASE (IF Writable(path, stage[b]) /\ trusty THEN Trouble ELSE Fine)
           /\ Turns(b, "discard") /\ UNCHANGED <<stage, step>>
  BY <1>1, <1>2, <1>4, GivesUpStep
<1>5. QED
  BY <1>3, <1>4 DEF DownloadFile

(* The next member of an archive. *)
LEMMA UnpackMemberStep == ASSUME SourceInv, NEW b \in Builders, UnpackMember(b) PROVE SourceInv'
<1> DEFINE m == bundle[step[b]]
<1>1. /\ upc[b] = "fill" /\ manifest = <<>> /\ UNCHANGED <<given, archive, root>>
      /\ step[b] \in 1..Count /\ stage[b] = Before(step[b]) /\ Len(bundle) = Count
  BY DEF UnpackMember, SourceInv, Staged, Count
<1>2. CASE Fine /\ stage' = [stage EXCEPT ![b] = IF IsFile(m) THEN @ \union {m.path} ELSE @]
           /\ Advance(b, Len(bundle))
  <2>1. 1..((step[b] + 1) - 1) = 1..(step[b] - 1) \union {step[b]}
    BY <1>1, Numbered DEF SourceInv
  <2>2. Before(step[b] + 1) = IF IsFile(m) THEN Before(step[b]) \union {m.path} ELSE Before(step[b])
    BY <1>1, <2>1 DEF Before
  <2>3. stage' = [stage EXCEPT ![b] = Before(step[b] + 1)]
    BY <1>1, <1>2, <2>2
  <2>4. QED
    BY <1>1, <1>2, <2>3, FillsStep DEF Fine
<1>3. CASE (IF MemberFits(b) THEN Trouble ELSE Fine) /\ Turns(b, "discard") /\ UNCHANGED <<stage, step>>
  BY <1>1, <1>3, GivesUpStep
<1>4. QED
  BY <1>2, <1>3 DEF UnpackMember

(* The invariant of a source that is being built. *)
LEMMA SourceInvariant == UpstreamSpec => []SourceInv
<1>1. UpstreamInit => SourceInv
  <2> SUFFICES ASSUME UpstreamInit PROVE SourceInv
    OBVIOUS
  <2>1. SourceTypes
    BY DEF UpstreamInit, SourceTypes, SourceLabels
  <2>2. Staged /\ PlacedOnce /\ OnlyLate /\ GoodArchive
    BY DEF UpstreamInit, Staged, PlacedOnce, OnlyLate, GoodArchive
  <2>3. QED
    BY <2>1, <2>2 DEF SourceInv
<1>2. SourceInv /\ [UpstreamNext]_upstreamVars => SourceInv'
  <2> SUFFICES ASSUME SourceInv, [UpstreamNext]_upstreamVars PROVE SourceInv'
    OBVIOUS
  <2>1. CASE UNCHANGED upstreamVars
    <3>1. UNCHANGED <<manifest, bundle, trusty, archive, root, stage, upc, step, troubles>>
      BY <2>1 DEF upstreamVars
    <3>2. Wanted' = Wanted /\ Count' = Count /\ \A n : Before(n)' = Before(n)
      BY <3>1, GivenStays DEF given
    <3>3. QED
      BY <3>1, <3>2 DEF SourceInv, SourceTypes, Staged, PlacedOnce, OnlyLate, GoodArchive
  <2>2. QED
    BY <2>1, LookupArchiveStep, FetchArchiveStep, MakeStageStep, DownloadFileStep, UnpackMemberStep, SwapStep,
       DiscardStageStep, BuilderDiesStep DEF UpstreamNext
<1>3. QED
  BY <1>1, <1>2, PTL DEF UpstreamSpec

(* For any processes, manifests, archives and mishaps: under a source's    *)
(* directory is nothing or everything, at most one process reports it, one *)
(* does if nothing fails, and only a good archive is unpacked              *)
(* (materialize_source, download and extract).                             *)
THEOREM SourceBuiltWhole == UpstreamSpec => []SourceWhole
<1>1. SourceInv => SourceWhole
  <2> SUFFICES ASSUME SourceInv PROVE SourceWhole
    OBVIOUS
  <2> DEFINE done == {b \in Builders : upc[b] = "returned"}
  <2>1. Cardinality(done) <= 1
    <3>1. done = {} \/ \E b \in Builders : done = {b}
      BY DEF SourceInv, PlacedOnce
    <3>2. QED
      BY <3>1, FS_EmptySet, FS_Singleton
  <2>2. ASSUME \A b \in Builders : upc[b] \in SourceEnded, troubles = 0, trusty, manifest # <<>>
        PROVE  \E b \in Builders : upc[b] = "returned"
    <3>1. PICK b \in Builders : TRUE
      BY SourceAssumption DEF SourceAssumption
    <3>2. QED
      BY <2>2, <3>1 DEF SourceInv, PlacedOnce, OnlyLate, SourceEnded
  <2>3. QED
    BY <2>1, <2>2 DEF SourceInv, PlacedOnce, GoodArchive, SourceWhole
<1>2. QED
  BY SourceInvariant, <1>1, PTL

-----------------------------------------------------------------------------
(* Loops.  What they compute is a function on the numbers up to that of    *)
(* their steps, which exists (LoopRuns) and of which things are shown by   *)
(* induction: the numbers it holds for are a set, and the least number not *)
(* in a set exists because < is well-founded.                              *)

(* Any set of numbers has a least one. *)
LEMMA LeastNumber == ASSUME NEW S \in SUBSET Nat, S # {} PROVE \E m \in S : \A n \in S : m <= n
<1>1. PICK m \in S : \A n \in S : ~(<<n, m>> \in OpToRel(<, Nat))
  BY NatLessThanWellFounded, WFMin
<1>2. \A n \in S : ~(n < m)
  BY <1>1 DEF OpToRel
<1>3. QED
  BY <1>2

(* Induction up to a number, for the members of a set. *)
LEMMA Induction ==
  ASSUME NEW N \in Nat, NEW S, 0 \in S, \A n \in 1..N : n - 1 \in S => n \in S
  PROVE  \A n \in 0..N : n \in S
<1>1. SUFFICES ASSUME (0..N) \ S # {} PROVE FALSE
  OBVIOUS
<1>2. PICK m \in (0..N) \ S : \A n \in (0..N) \ S : m <= n
  <2>1. (0..N) \ S \in SUBSET Nat
    OBVIOUS
  <2>2. QED
    BY <1>1, <2>1, LeastNumber
<1>3. m \in 1..N /\ m - 1 \in 0..N
  BY <1>2
<1>4. m - 1 \in S
  BY <1>2, <1>3
<1>5. QED
  BY <1>2, <1>3, <1>4

(* A loop of N steps, each of which depends on the one before, has a run. *)
LoopRun(f, N, X, base, body) ==
  /\ f \in [0..N -> X]
  /\ f[0] = base
  /\ \A n \in 1..N : f[n] = body[n][f[n - 1]]

LEMMA LoopRuns ==
  ASSUME NEW N \in Nat, NEW X, NEW base \in X, NEW body, \A n \in 1..N : \A x \in X : body[n][x] \in X
  PROVE  \E f : LoopRun(f, N, X, base, body)
<1> DEFINE Runs(m) == \E f \in [0..m -> X] : f[0] = base /\ \A n \in 1..m : f[n] = body[n][f[n - 1]]
           S == {m \in 0..N : Runs(m)}
<1>1. 0 \in S
  <2> DEFINE g == [n \in 0..0 |-> base]
  <2>1. g \in [0..0 -> X] /\ g[0] = base /\ \A n \in 1..0 : g[n] = body[n][g[n - 1]]
    OBVIOUS
  <2> HIDE DEF g
  <2>2. Runs(0)
    BY <2>1
  <2>3. QED
    BY <2>2
<1>2. ASSUME NEW m \in 1..N, m - 1 \in S PROVE m \in S
  <2>1. PICK f \in [0..(m - 1) -> X] : f[0] = base /\ \A n \in 1..(m - 1) : f[n] = body[n][f[n - 1]]
    BY <1>2
  <2> DEFINE g == [n \in 0..m |-> IF n = m THEN body[m][f[m - 1]] ELSE f[n]]
  <2>2. f[m - 1] \in X /\ body[m][f[m - 1]] \in X
    BY <2>1
  <2>3. g \in [0..m -> X]
    BY <2>1, <2>2
  <2>4. g[0] = base /\ \A n \in 1..m : g[n] = body[n][g[n - 1]]
    BY <2>1, <2>2
  <2> HIDE DEF g
  <2>5. Runs(m)
    BY <2>3, <2>4
  <2>6. QED
    BY <2>5
<1>3. N \in S
  <2> HIDE DEF S
  <2>1. \A n \in 0..N : n \in S
    BY <1>1, <1>2, Induction
  <2>2. QED
    BY <2>1
<1>4. QED
  BY <1>3 DEF LoopRun

-----------------------------------------------------------------------------
(* Metrics.                                                                *)

Pairs(t, r) == (1..Len(t)) \X (1..Len(r))
Rest(t, r) == (1..Len(r)) \ {m[2] : m \in NamedMatches(t, r)}
Candidates(t, r, n) == {o \in Rest(t, r) : Signature(r[o]) = Signature(t[n])}
Proceeds(t, r, matches, n) ==
  IF \E m \in NamedMatches(t, r) : m[1] = n THEN matches ELSE SignatureMatch(matches, n, Candidates(t, r, n))

(* A signature match adds at most one pair, of a message that is left.     *)
LEMMA SignatureMatchAdds ==
  ASSUME NEW t \in Seq(Shapes), NEW r \in Seq(Shapes), NEW matches, NEW n \in 1..Len(t)
  PROVE  \/ SignatureMatch(matches, n, Candidates(t, r, n)) = matches
         \/ \E o \in Candidates(t, r, n) :
              /\ \A m \in matches : m[2] # o
              /\ SignatureMatch(matches, n, Candidates(t, r, n)) = matches \union {<<n, o>>}
<1> DEFINE left == Candidates(t, r, n) \ {m[2] : m \in matches}
           o == CHOOSE o \in left : TRUE
<1>1. SUFFICES ASSUME Cardinality(left) = 1
               PROVE  /\ o \in Candidates(t, r, n) /\ \A m \in matches : m[2] # o
                      /\ SignatureMatch(matches, n, Candidates(t, r, n)) = matches \union {<<n, o>>}
  BY DEF SignatureMatch
<1>2. left # {}
  BY <1>1, FS_EmptySet
<1>3. o \in left
  BY <1>2
<1>4. SignatureMatch(matches, n, Candidates(t, r, n)) = matches \union {<<n, o>>}
  BY <1>1 DEF SignatureMatch
<1>5. QED
  BY <1>3, <1>4

(* The matches are what is left by a loop over the truths.                 *)
LEMMA MatchesLoop ==
  ASSUME NEW t \in Seq(Shapes), NEW r \in Seq(Shapes)
  PROVE  \E f : /\ f[0] = NamedMatches(t, r)
                /\ \A n \in 1..Len(t) : f[n] = Proceeds(t, r, f[n - 1], n)
                /\ Matches(t, r) = f[Len(t)]
<1> DEFINE X == SUBSET Pairs(t, r)
           N == Len(t)
           body == [n \in 1..N |-> [x \in X |-> Proceeds(t, r, x, n)]]
           Runs(f) == f = [n \in 0..N |-> IF n = 0 THEN NamedMatches(t, r) ELSE Proceeds(t, r, f[n - 1], n)]
<1>1. N \in Nat /\ DOMAIN t = 1..Len(t) /\ DOMAIN r = 1..Len(r) /\ NamedMatches(t, r) \in X
  BY DEF NamedMatches, Pairs
<1>2. \A n \in 1..N : \A x \in X : Proceeds(t, r, x, n) \in X
  <2>1. SUFFICES ASSUME NEW n \in 1..N, NEW x \in X PROVE SignatureMatch(x, n, Candidates(t, r, n)) \in X
    BY DEF Proceeds
  <2>2. \A o \in Candidates(t, r, n) : x \union {<<n, o>>} \in X
    BY DEF Candidates, Rest, Pairs
  <2>3. QED
    BY <2>2, SignatureMatchAdds
<1>3. \A n \in 1..N : \A x \in X : body[n][x] \in X
  BY <1>2
<1>4. PICK f : LoopRun(f, N, X, NamedMatches(t, r), body)
  <2> HIDE DEF body, X, N
  <2>1. N \in Nat /\ NamedMatches(t, r) \in X
    BY <1>1
  <2>2. QED
    BY <2>1, <1>3, LoopRuns
<1>5. Runs(f)
  <2>1. ASSUME NEW n \in 1..N PROVE f[n] = Proceeds(t, r, f[n - 1], n)
    <3>1. n - 1 \in 0..N
      BY <1>1
    <3>2. f[n - 1] \in X
      BY <1>4, <3>1 DEF LoopRun
    <3>3. QED
      BY <1>4, <3>2 DEF LoopRun
  <2>2. \A n \in 0..N : f[n] = IF n = 0 THEN NamedMatches(t, r) ELSE Proceeds(t, r, f[n - 1], n)
    BY <1>1, <1>4, <2>1 DEF LoopRun
  <2>3. QED
    BY <1>4, <2>2 DEF LoopRun
<1> DEFINE g == CHOOSE g : Runs(g)
<1>6. Runs(g)
  BY <1>5
<1>7. Matches(t, r) = g[N]
  BY <1>1 DEF Matches, Proceeds, Candidates, Rest
<1>8. g[0] = NamedMatches(t, r) /\ \A n \in 1..N : g[n] = Proceeds(t, r, g[n - 1], n)
  <2> HIDE DEF g
  <2>1. \A n \in 0..N : g[n] = IF n = 0 THEN NamedMatches(t, r) ELSE Proceeds(t, r, g[n - 1], n)
    BY <1>6
  <2>2. QED
    BY <1>1, <2>1
<1>9. QED
  BY <1>7, <1>8

-----------------------------------------------------------------------------
\* What _match_messages keeps up: nothing is matched twice, a namesake is
\* matched with its namesake, and beyond those it has come to the n-th truth.
OneToOne(matches) == \A m, o \in matches : (m[1] = o[1] \/ m[2] = o[2]) => m = o
Justified(t, r, matches) ==
  \A m \in matches : \/ m \in NamedMatches(t, r)
                     \/ m[2] \in Candidates(t, r, m[1]) /\ \A o \in NamedMatches(t, r) : o[1] # m[1]
GoodMatches(t, r, matches, n) ==
  /\ NamedMatches(t, r) \subseteq matches /\ matches \subseteq Pairs(t, r)
  /\ OneToOne(matches) /\ Justified(t, r, matches)
  /\ \A m \in matches \ NamedMatches(t, r) : m[1] <= n

(* Names of a schema that was loaded are unique, so are namesakes.         *)
LEMMA NamesakesGood ==
  ASSUME NEW t \in Seq(Shapes), NEW r \in Seq(Shapes), Loadable(t), Loadable(r)
  PROVE  GoodMatches(t, r, NamedMatches(t, r), 0)
<1>1. DOMAIN t = 1..Len(t) /\ DOMAIN r = 1..Len(r)
  OBVIOUS
<1>2. OneToOne(NamedMatches(t, r))
  BY DEF OneToOne, NamedMatches, Loadable
<1>3. NamedMatches(t, r) \subseteq Pairs(t, r)
  BY <1>1 DEF NamedMatches, Pairs
<1>4. QED
  BY <1>2, <1>3 DEF GoodMatches, Justified

(* The next truth is matched with a message that is left, or not at all.   *)
LEMMA ProceedsGood ==
  ASSUME NEW t \in Seq(Shapes), NEW r \in Seq(Shapes), NEW matches, NEW n \in 1..Len(t), GoodMatches(t, r, matches, n - 1)
  PROVE  GoodMatches(t, r, Proceeds(t, r, matches, n), n)
<1>1. Len(t) \in Nat /\ n \in Int
  OBVIOUS
<1>2. GoodMatches(t, r, matches, n)
  <2>1. \A m \in matches : m[1] \in Int
    BY DEF GoodMatches, Pairs
  <2>2. \A m \in matches \ NamedMatches(t, r) : m[1] <= n
    BY <1>1, <2>1 DEF GoodMatches
  <2>3. QED
    BY <2>2 DEF GoodMatches
<1>3. ASSUME \A m \in NamedMatches(t, r) : m[1] # n,
             NEW o \in Candidates(t, r, n), \A m \in matches : m[2] # o
      PROVE  GoodMatches(t, r, matches \union {<<n, o>>}, n)
  <2>1. \A m \in matches : m[1] # n
    <3>1. \A m \in matches \ NamedMatches(t, r) : m[1] \in Int /\ m[1] <= n - 1
      BY DEF GoodMatches, Pairs
    <3>2. \A m \in matches \ NamedMatches(t, r) : m[1] # n
      BY <1>1, <3>1
    <3>3. QED
      BY <1>3, <3>2
  <2>2. OneToOne(matches \union {<<n, o>>})
    BY <1>3, <2>1 DEF GoodMatches, OneToOne
  <2>3. Justified(t, r, matches \union {<<n, o>>})
    BY <1>3 DEF GoodMatches, Justified
  <2>4. o \in 1..Len(r)
    BY DEF Candidates, Rest
  <2>5. matches \union {<<n, o>>} \subseteq Pairs(t, r)
    BY <2>4 DEF GoodMatches, Pairs
  <2>6. \A m \in (matches \union {<<n, o>>}) \ NamedMatches(t, r) : m[1] <= n
    BY <1>1, <1>2 DEF GoodMatches
  <2>7. QED
    BY <2>2, <2>3, <2>5, <2>6 DEF GoodMatches
<1>4. QED
  BY <1>2, <1>3, SignatureMatchAdds DEF Proceeds

(* So the matches of two schemas are good. *)
LEMMA MatchesGood ==
  ASSUME NEW t \in Seq(Shapes), NEW r \in Seq(Shapes), Loadable(t), Loadable(r)
  PROVE  GoodMatches(t, r, Matches(t, r), Len(t))
<1>1. PICK f : /\ f[0] = NamedMatches(t, r)
               /\ \A n \in 1..Len(t) : f[n] = Proceeds(t, r, f[n - 1], n)
               /\ Matches(t, r) = f[Len(t)]
  BY MatchesLoop
<1> DEFINE S == {n \in 0..Len(t) : GoodMatches(t, r, f[n], n)}
<1>2. Len(t) \in Nat
  OBVIOUS
<1>3. 0 \in S
  BY <1>1, <1>2, NamesakesGood
<1>4. \A n \in 1..Len(t) : n - 1 \in S => n \in S
  BY <1>1, <1>2, ProceedsGood
<1>5. Len(t) \in S
  <2> HIDE DEF S
  <2>1. \A n \in 0..Len(t) : n \in S
    BY <1>2, <1>3, <1>4, Induction
  <2>2. QED
    BY <1>2, <2>1
<1>6. QED
  BY <1>1, <1>5

-----------------------------------------------------------------------------
(* Counting.  As many things as there are in all messages can be counted,  *)
(* and no more of them are shared.                                         *)
LEMMA AllFinite ==
  ASSUME NEW N \in Nat, NEW parts, DOMAIN parts = 1..N, \A n \in 1..N : IsFiniteSet(parts[n])
  PROVE  IsFiniteSet(All(parts))
<1> DEFINE those(n) == {<<n, x>> : x \in parts[n]}
           f == [n \in 1..N |-> those(n)]
           T == {those(n) : n \in 1..N}
<1>1. \A n \in 1..N : IsFiniteSet(those(n))
  <2>1. SUFFICES ASSUME NEW n \in 1..N PROVE IsFiniteSet(those(n))
    OBVIOUS
  <2> DEFINE g == [x \in parts[n] |-> <<n, x>>]
  <2>2. g \in Surjection(parts[n], those(n))
    BY DEF Surjection
  <2>3. QED
    BY <2>2, FS_Surjection
<1>2. IsFiniteSet(T)
  <2>1. f \in Surjection(1..N, T)
    BY DEF Surjection
  <2> HIDE DEF f, T
  <2>2. 1 \in Int /\ N \in Int
    OBVIOUS
  <2>3. IsFiniteSet(1..N)
    BY <2>2, FS_Interval
  <2>4. QED
    BY <2>1, <2>3, FS_Surjection
<1>3. \A S \in T : IsFiniteSet(S)
  BY <1>1
<1>4. All(parts) = UNION T
  BY DEF All
<1>5. QED
  <2> HIDE DEF T
  <2>1. QED
    BY <1>2, <1>3, <1>4, FS_UNION

(* What one message shares with the one it is matched with is among what   *)
(* is expected of it, and among what is there.                             *)
LEMMA SharedAtMost ==
  ASSUME NEW N \in Nat, NEW M \in Nat, NEW expected, NEW actual,
         DOMAIN expected = 1..N, DOMAIN actual = 1..M,
         \A n \in 1..N : IsFiniteSet(expected[n]), \A n \in 1..M : IsFiniteSet(actual[n]),
         NEW matches \in SUBSET ((1..N) \X (1..M)), OneToOne(matches)
  PROVE  /\ IsFiniteSet(Shared(matches, expected, actual))
         /\ Cardinality(Shared(matches, expected, actual)) <= Cardinality(All(expected))
         /\ Cardinality(Shared(matches, expected, actual)) <= Cardinality(All(actual))
<1> DEFINE S == Shared(matches, expected, actual)
           f == [p \in S |-> <<p[1][1], p[2]>>]
           g == [p \in S |-> <<p[1][2], p[2]>>]
<1>1. \A p \in S : /\ p[1] \in matches /\ p = <<p[1], p[2]>>
                   /\ p[2] \in expected[p[1][1]] /\ p[2] \in actual[p[1][2]]
  BY DEF Shared
<1>2. f \in Injection(S, All(expected))
  <2> HIDE DEF S
  <2>1. f \in [S -> All(expected)]
    BY <1>1 DEF All
  <2>2. IsInjective(f)
    BY <1>1 DEF IsInjective, OneToOne
  <2>3. QED
    BY <2>1, <2>2 DEF Injection
<1>3. g \in Injection(S, All(actual))
  <2> HIDE DEF S
  <2>1. g \in [S -> All(actual)]
    BY <1>1 DEF All
  <2>2. IsInjective(g)
    BY <1>1 DEF IsInjective, OneToOne
  <2>3. QED
    BY <2>1, <2>2 DEF Injection
<1>4. QED
  <2> HIDE DEF f, g
  <2>1. IsFiniteSet(All(expected)) /\ IsFiniteSet(All(actual))
    BY AllFinite
  <2>2. QED
    BY <1>2, <1>3, <2>1, FS_Injection

(* A schema shares all with itself. *)
LEMMA SharedWithItself ==
  ASSUME NEW N \in Nat, NEW parts, DOMAIN parts = 1..N, \A n \in 1..N : IsFiniteSet(parts[n]),
         NEW matches, matches = {<<n, n>> : n \in 1..N}
  PROVE  Cardinality(Shared(matches, parts, parts)) = Cardinality(All(parts))
<1> DEFINE S == Shared(matches, parts, parts)
           f == [p \in All(parts) |-> <<<<p[1], p[1]>>, p[2]>>]
<1>1. f \in Injection(All(parts), S)
  <2>1. ASSUME NEW p \in All(parts) PROVE <<<<p[1], p[1]>>, p[2]>> \in S
    <3>1. p[1] \in 1..N /\ p[2] \in parts[p[1]]
      BY DEF All
    <3>2. <<p[1], p[1]>> \in matches
      BY <3>1
    <3>3. ASSUME NEW m \in matches, p[2] \in parts[m[1]] \intersect parts[m[2]] PROVE <<m, p[2]>> \in S
      BY <3>3 DEF Shared
    <3>4. QED
      BY <3>1, <3>2, <3>3
  <2>2. IsInjective(f)
    BY DEF IsInjective, All
  <2>3. f \in [All(parts) -> S]
    BY <2>1
  <2>4. QED
    BY <2>2, <2>3 DEF Injection
<1>2. /\ IsFiniteSet(S) /\ Cardinality(S) <= Cardinality(All(parts)) /\ IsFiniteSet(All(parts))
  <2>1. matches \in SUBSET ((1..N) \X (1..N)) /\ OneToOne(matches)
    BY DEF OneToOne
  <2>2. QED
    BY <2>1, SharedAtMost, AllFinite
<1>3. Cardinality(All(parts)) <= Cardinality(S)
  <2> HIDE DEF f, S
  <2>1. QED
    BY <1>1, <1>2, FS_Injection
<1>4. Cardinality(S) \in Nat /\ Cardinality(All(parts)) \in Nat
  BY <1>2, FS_CardinalityType
<1>5. QED
  BY <1>2, <1>3, <1>4

-----------------------------------------------------------------------------
\* What a score must be, and be if the schema says what the truth says.
Fair(score, ok, same) ==
  /\ score.num <= score.den
  /\ ~ok => score.num = 0 /\ score.den > 0
  /\ ok /\ same => score.num = score.den

(* A part of a whole makes a fair score. *)
LEMMA PartIsFair ==
  ASSUME NEW ok \in BOOLEAN, NEW same \in BOOLEAN, NEW num \in Nat, NEW den \in Nat, num <= den, same => num = den
  PROVE  Fair(Score(ok, num, den), ok, same)
BY DEF Fair, Score

(* And so is one of two parts. *)
LEMMA SumIsFair ==
  ASSUME NEW a \in Nat, NEW b \in Nat, NEW c \in Nat, NEW d \in Nat, a <= c, b <= d,
         NEW ok \in BOOLEAN, NEW same \in BOOLEAN, same => a = c /\ b = d
  PROVE  Fair(Score(ok, a + b, c + d), ok, same)
<1>1. a + b \in Nat /\ c + d \in Nat /\ a + b <= c + d /\ (same => a + b = c + d)
  OBVIOUS
<1>2. QED
  BY <1>1, PartIsFair

(* Of schemas that load, the parts that are counted are finite. *)
LEMMA PartsFinite ==
  ASSUME MetricsAssumption, NEW s \in Seq(Shapes)
  PROVE  /\ Len(s) \in Nat /\ DOMAIN FieldsOf(s) = 1..Len(s) /\ DOMAIN OneofsOf(s) = 1..Len(s) /\ DOMAIN EnumsOf(s) = 1..Len(s)
         /\ \A n \in 1..Len(s) : IsFiniteSet(FieldsOf(s)[n]) /\ IsFiniteSet(OneofsOf(s)[n]) /\ IsFiniteSet(EnumsOf(s)[n])
         /\ IsFiniteSet(Nested(s))
<1>1. Len(s) \in Nat /\ DOMAIN s = 1..Len(s)
  OBVIOUS
<1>2. \A n \in 1..Len(s) : IsFiniteSet(Numbers(s[n])) /\ IsFiniteSet(s[n].enum)
  BY DEF MetricsAssumption, Numbers
<1>3. ASSUME NEW n \in 1..Len(s) PROVE IsFiniteSet(OneofGroups(s[n]))
  <2>1. OneofGroups(s[n]) \in SUBSET SUBSET Numbers(s[n])
    BY DEF OneofGroups
  <2>2. IsFiniteSet(SUBSET Numbers(s[n]))
    BY <1>2, FS_SUBSET
  <2>3. QED
    BY <2>1, <2>2, FS_Subset
<1>4. IsFiniteSet(Nested(s))
  <2>1. 1 \in Int /\ Len(s) \in Int /\ Nested(s) \in SUBSET (1..Len(s))
    BY <1>1 DEF Nested
  <2>2. QED
    BY <2>1, FS_Interval, FS_Subset
<1>5. QED
  BY <1>1, <1>2, <1>3, <1>4 DEF FieldsOf, OneofsOf, EnumsOf

(* The matches of a schema with itself, if all its messages have a name.   *)
LEMMA MatchesItself ==
  ASSUME NEW t \in Seq(Shapes), Loadable(t), \A n \in DOMAIN t : t[n].name # NoName
  PROVE  Matches(t, t) = {<<n, n>> : n \in 1..Len(t)}
<1>1. DOMAIN t = 1..Len(t)
  OBVIOUS
<1>2. NamedMatches(t, t) = {<<n, n>> : n \in 1..Len(t)}
  BY <1>1 DEF NamedMatches, Loadable
<1>3. GoodMatches(t, t, Matches(t, t), Len(t))
  BY MatchesGood
<1>4. ASSUME NEW m \in Matches(t, t) PROVE m \in NamedMatches(t, t)
  <2>1. m[1] \in 1..Len(t) /\ m = <<m[1], m[2]>>
    BY <1>3 DEF GoodMatches, Pairs
  <2>2. <<m[1], m[1]>> \in NamedMatches(t, t)
    BY <1>2, <2>1
  <2>3. QED
    BY <1>3, <2>2 DEF GoodMatches, Justified
<1>5. QED
  BY <1>2, <1>3, <1>4 DEF GoodMatches

(* The values of the enums outside messages are finitely many. *)
LEMMA TopFinite ==
  ASSUME MetricsAssumption, NEW e \in TopEnums
  PROVE  IsFiniteSet(All(e))
<1> DEFINE parts == {{<<n, x>> : x \in e[n]} : n \in DOMAIN e}
<1>1. IsFiniteSet(DOMAIN e) /\ \A n \in DOMAIN e : IsFiniteSet(e[n])
  BY DEF MetricsAssumption
<1>2. IsFiniteSet(parts)
  <2> DEFINE f == [n \in DOMAIN e |-> {<<n, x>> : x \in e[n]}]
  <2>1. f \in Surjection(DOMAIN e, parts)
    BY DEF Surjection
  <2>2. QED
    BY <1>1, <2>1, FS_Surjection
<1>3. ASSUME NEW n \in DOMAIN e PROVE IsFiniteSet({<<n, x>> : x \in e[n]})
  <2> DEFINE f == [x \in e[n] |-> <<n, x>>]
  <2>1. f \in Surjection(e[n], {<<n, x>> : x \in e[n]})
    BY DEF Surjection
  <2>2. QED
    BY <1>1, <2>1, FS_Surjection
<1>4. QED
  BY <1>2, <1>3, FS_UNION DEF All

\* The recovered schema says what the truth says, in a way it can be told.
SaysTheSame(t, r, top) ==
  t = r /\ top.truth = top.recovered /\ \A n \in DOMAIN t : t[n].name # NoName
Trips == {round \in [passed : Nat, total : Nat] : round.passed <= round.total}

(* Every score is fair, that of the round trips if none failed. *)
LEMMA ScoresFair ==
  ASSUME MetricsAssumption, NEW t \in Seq(Shapes), NEW r \in Seq(Shapes), Loadable(t), Loadable(r), NEW ok \in BOOLEAN,
         NEW top \in [truth : TopEnums, recovered : TopEnums], NEW round \in Trips
  PROVE  \A metric \in DOMAIN Scores(t, r, top, ok, round) :
           Fair(Scores(t, r, top, ok, round)[metric], ok,
                SaysTheSame(t, r, top) /\ (metric = "roundTrip" => round.passed = round.total))
<1> DEFINE matches == Matches(t, r)
           matched == Shared(matches, FieldsOf(t), FieldsOf(r))
           Expected(p) == t[p[1][1]].fields[p[2]]
           Actual(p) == r[p[1][2]].fields[p[2]]
           wires == {p \in matched : Expected(p).wire = Actual(p).wire}
           says == {p \in matched : Expected(p).says = Actual(p).says}
           rightly == RightlyNested(t, r, matches)
           oneofs == Shared(matches, OneofsOf(t), OneofsOf(r))
           values == Shared(matches, EnumsOf(t), EnumsOf(r))
           same == SaysTheSame(t, r, top)
           shared == All(top.truth) \intersect All(top.recovered)
<1>0. same => t = r /\ top.truth = top.recovered /\ \A n \in DOMAIN t : t[n].name # NoName
  BY DEF SaysTheSame
<1>1. /\ Len(t) \in Nat /\ Len(r) \in Nat /\ DOMAIN t = 1..Len(t)
      /\ matches \in SUBSET ((1..Len(t)) \X (1..Len(r))) /\ OneToOne(matches)
  <2>1. GoodMatches(t, r, Matches(t, r), Len(t))
    BY MatchesGood
  <2>2. QED
    BY <2>1 DEF GoodMatches, Pairs
<1>2. same => matches = {<<n, n>> : n \in 1..Len(t)}
  BY <1>0, MatchesItself
<1>18. /\ IsFiniteSet(shared) /\ IsFiniteSet(All(top.truth)) /\ Cardinality(shared) <= Cardinality(All(top.truth))
       /\ same => Cardinality(shared) = Cardinality(All(top.truth))
  <2>1. IsFiniteSet(All(top.truth))
    BY TopFinite
  <2>2. shared \in SUBSET All(top.truth) /\ (same => shared = All(top.truth))
    BY <1>0
  <2>3. QED
    BY <2>1, <2>2, FS_Subset
<1> HIDE DEF matches, same, shared
<1>3. /\ IsFiniteSet(matched) /\ IsFiniteSet(All(FieldsOf(t))) /\ IsFiniteSet(All(FieldsOf(r)))
      /\ Cardinality(matched) <= Cardinality(All(FieldsOf(t)))
      /\ Cardinality(matched) <= Cardinality(All(FieldsOf(r)))
      /\ same => Cardinality(matched) = Cardinality(All(FieldsOf(t)))
  BY <1>0, <1>1, <1>2, PartsFinite, AllFinite, SharedAtMost, SharedWithItself
<1>4. /\ IsFiniteSet(oneofs) /\ IsFiniteSet(All(OneofsOf(t)))
      /\ Cardinality(oneofs) <= Cardinality(All(OneofsOf(t)))
      /\ same => Cardinality(oneofs) = Cardinality(All(OneofsOf(t)))
  BY <1>0, <1>1, <1>2, PartsFinite, AllFinite, SharedAtMost, SharedWithItself
<1>5. /\ IsFiniteSet(values) /\ IsFiniteSet(All(EnumsOf(t)))
      /\ Cardinality(values) <= Cardinality(All(EnumsOf(t)))
      /\ same => Cardinality(values) = Cardinality(All(EnumsOf(t)))
  BY <1>0, <1>1, <1>2, PartsFinite, AllFinite, SharedAtMost, SharedWithItself
<1>6. /\ IsFiniteSet(rightly) /\ IsFiniteSet(Nested(t))
      /\ Cardinality(rightly) <= Cardinality(Nested(t))
      /\ same => Cardinality(rightly) = Cardinality(Nested(t))
  <2>1. IsFiniteSet(Nested(t)) /\ rightly \in SUBSET Nested(t)
    BY PartsFinite DEF RightlyNested
  <2>2. ASSUME same PROVE rightly = Nested(t)
    <3>1. \A n \in Nested(t) : t[n].name # NoName /\ <<n, n>> \in matches /\ r[n].parent = t[n].parent
      BY <1>0, <1>1, <1>2, <2>2 DEF Nested
    <3>2. QED
      BY <3>1 DEF RightlyNested
  <2>3. QED
    BY <2>1, <2>2, FS_Subset
<1>7. /\ IsFiniteSet(wires) /\ Cardinality(wires) <= Cardinality(matched)
      /\ same => Cardinality(wires) = Cardinality(matched)
  <2>1. same => \A p \in matched : Expected(p) = Actual(p)
    <3>1. \A p \in matched : p[1] \in matches
      BY DEF Shared
    <3>2. same => \A m \in matches : m[1] = m[2]
      BY <1>2
    <3>3. QED
      BY <1>0, <3>1, <3>2
  <2> HIDE DEF matched
  <2>2. wires \in SUBSET matched /\ (same => wires = matched)
    BY <2>1
  <2>3. QED
    BY <1>3, <2>2, FS_Subset
<1>8. /\ IsFiniteSet(says) /\ Cardinality(says) <= Cardinality(matched)
      /\ same => Cardinality(says) = Cardinality(matched)
  <2>1. same => \A p \in matched : Expected(p) = Actual(p)
    <3>1. \A p \in matched : p[1] \in matches
      BY DEF Shared
    <3>2. same => \A m \in matches : m[1] = m[2]
      BY <1>2
    <3>3. QED
      BY <1>0, <3>1, <3>2
  <2> HIDE DEF matched
  <2>2. says \in SUBSET matched /\ (same => says = matched)
    BY <2>1
  <2>3. QED
    BY <1>3, <2>2, FS_Subset
<1>9. same => Cardinality(All(FieldsOf(t))) = Cardinality(All(FieldsOf(r)))
  BY <1>0
<1> HIDE DEF matched, wires, says, rightly, oneofs, values
<1>10. /\ Cardinality(matched) \in Nat /\ Cardinality(wires) \in Nat /\ Cardinality(says) \in Nat
       /\ Cardinality(rightly) \in Nat /\ Cardinality(oneofs) \in Nat /\ Cardinality(values) \in Nat
       /\ Cardinality(All(FieldsOf(t))) \in Nat /\ Cardinality(All(FieldsOf(r))) \in Nat
       /\ Cardinality(All(OneofsOf(t))) \in Nat /\ Cardinality(All(EnumsOf(t))) \in Nat /\ Cardinality(Nested(t)) \in Nat
       /\ Cardinality(shared) \in Nat /\ Cardinality(All(top.truth)) \in Nat
  BY <1>3, <1>4, <1>5, <1>6, <1>7, <1>8, <1>18, FS_CardinalityType
<1>11. same \in BOOLEAN
  BY DEF same, SaysTheSame
<1>12. /\ Fair(Score(ok, Cardinality(matched), Cardinality(All(FieldsOf(t)))), ok, same)
       /\ Fair(Score(ok, Cardinality(matched), Cardinality(All(FieldsOf(r)))), ok, same)
  BY <1>3, <1>9, <1>10, <1>11, PartIsFair
<1>13. /\ Fair(Score(ok, Cardinality(wires), Cardinality(matched)), ok, same)
       /\ Fair(Score(ok, Cardinality(says), Cardinality(matched)), ok, same)
  BY <1>7, <1>8, <1>10, <1>11, PartIsFair
<1>14. Fair(Score(ok, Cardinality(rightly) + Cardinality(oneofs), Cardinality(Nested(t)) + Cardinality(All(OneofsOf(t)))), ok, same)
  <2> DEFINE a == Cardinality(rightly)
             b == Cardinality(oneofs)
             c == Cardinality(Nested(t))
             d == Cardinality(All(OneofsOf(t)))
  <2>1. a \in Nat /\ b \in Nat /\ c \in Nat /\ d \in Nat
    BY <1>10
  <2>2. a <= c /\ b <= d /\ (same => a = c) /\ (same => b = d)
    BY <1>4, <1>6
  <2> HIDE DEF a, b, c, d
  <2>3. Fair(Score(ok, a + b, c + d), ok, same)
    BY <2>1, <2>2, <1>11, SumIsFair
  <2>4. QED
    BY <2>3 DEF a, b, c, d
<1>19. Fair(Score(ok, Cardinality(shared) + Cardinality(values), Cardinality(All(top.truth)) + Cardinality(All(EnumsOf(t)))), ok, same)
  <2> DEFINE a == Cardinality(shared)
             b == Cardinality(values)
             c == Cardinality(All(top.truth))
             d == Cardinality(All(EnumsOf(t)))
  <2>1. a \in Nat /\ b \in Nat /\ c \in Nat /\ d \in Nat
    BY <1>10
  <2>2. a <= c /\ b <= d /\ (same => a = c) /\ (same => b = d)
    BY <1>5, <1>18
  <2> HIDE DEF a, b, c, d
  <2>3. Fair(Score(ok, a + b, c + d), ok, same)
    BY <2>1, <2>2, <1>11, SumIsFair
  <2>4. QED
    BY <2>3 DEF a, b, c, d
<1>20. Fair(Score(ok, 1, 1), ok, same)
  BY <1>11, PartIsFair
<1>21. Fair(Score(ok, round.passed, round.total), ok, same /\ round.passed = round.total)
  BY <1>11, PartIsFair DEF Trips
<1> DEFINE scores == Scores(t, r, top, ok, round)
<1>15. /\ DOMAIN scores = {"recall", "precision", "wire", "says", "structure", "enums", "compile", "roundTrip"}
       /\ scores["recall"] = Score(ok, Cardinality(matched), Cardinality(All(FieldsOf(t))))
       /\ scores["precision"] = Score(ok, Cardinality(matched), Cardinality(All(FieldsOf(r))))
       /\ scores["wire"] = Score(ok, Cardinality(wires), Cardinality(matched))
       /\ scores["says"] = Score(ok, Cardinality(says), Cardinality(matched))
       /\ scores["structure"] = Score(ok, Cardinality(rightly) + Cardinality(oneofs), Cardinality(Nested(t)) + Cardinality(All(OneofsOf(t))))
       /\ scores["enums"] = Score(ok, Cardinality(shared) + Cardinality(values), Cardinality(All(top.truth)) + Cardinality(All(EnumsOf(t))))
       /\ scores["compile"] = Score(ok, 1, 1)
       /\ scores["roundTrip"] = Score(ok, round.passed, round.total)
  BY DEF Scores, matches, matched, wires, says, rightly, oneofs, values, shared
<1>16. \A metric \in DOMAIN scores :
         Fair(scores[metric], ok, same /\ (metric = "roundTrip" => round.passed = round.total))
  <2> HIDE DEF scores
  <2>1. \A metric \in DOMAIN scores \ {"roundTrip"} : Fair(scores[metric], ok, same)
    BY <1>12, <1>13, <1>14, <1>15, <1>19, <1>20
  <2>2. Fair(scores["roundTrip"], ok, same /\ round.passed = round.total)
    BY <1>15, <1>21
  <2>3. QED
    BY <2>1, <2>2 DEF Fair
<1>17. QED
  BY <1>16 DEF same

-----------------------------------------------------------------------------
\* The schemas load, and a report is the one of their scores.
ReportInv ==
  /\ truth \in Seq(Shapes) /\ recovered \in Seq(Shapes) /\ Loadable(truth) /\ Loadable(recovered)
  /\ enums \in [truth : TopEnums, recovered : TopEnums] /\ trips \in Trips
  /\ compiled \in BOOLEAN
  /\ report = <<>> \/ report = Scores(truth, recovered, enums, compiled, trips)

(* A report is what was scored, or there is none. *)
LEMMA ReportInvariant ==
  ASSUME NEW CONSTANT maxMessages \in Nat, NEW CONSTANT tops \in SUBSET TopEnums, NEW CONSTANT maxTrips \in Nat
  PROVE  MetricsSpec(maxMessages, tops, maxTrips) => []ReportInv
<1>1. MetricsInit(maxMessages, tops, maxTrips) => ReportInv
  <2> SUFFICES ASSUME MetricsInit(maxMessages, tops, maxTrips) PROVE ReportInv
    OBVIOUS
  <2>1. \A s \in BoundedSeq(Shapes, maxMessages) : s \in Seq(Shapes)
    BY DEF BoundedSeq, SeqOf
  <2>2. trips \in Trips /\ enums \in [truth : TopEnums, recovered : TopEnums]
    BY DEF MetricsInit, Trips
  <2>3. QED
    BY <2>1, <2>2 DEF MetricsInit, ReportInv
<1>2. ReportInv /\ [ScoreTarget]_metricsVars => ReportInv'
  BY DEF ReportInv, ScoreTarget, metricsVars
<1>3. QED
  BY <1>1, <1>2, PTL DEF MetricsSpec

(* For any schemas, made of any messages: no message is credited twice, a  *)
(* message of the truth gets its namesake before any other, no metric      *)
(* exceeds 1, a recovery that does not compile scores 0 everywhere, and    *)
(* one that says what the truth says scores 1, but for the round trips     *)
(* that failed (score_target).                                             *)
THEOREM ScoredFairly ==
  ASSUME NEW CONSTANT maxMessages \in Nat, NEW CONSTANT tops \in SUBSET TopEnums, NEW CONSTANT maxTrips \in Nat
  PROVE  MetricsSpec(maxMessages, tops, maxTrips) => []FairlyScored
<1>1. ReportInv => FairlyScored
  <2> SUFFICES ASSUME ReportInv, DOMAIN report # {} PROVE FairlyScored
    BY DEF FairlyScored
  <2> DEFINE matches == Matches(truth, recovered)
             same == SaysTheSame(truth, recovered, enums)
  <2>1. report = Scores(truth, recovered, enums, compiled, trips)
    BY DEF ReportInv
  <2>2. GoodMatches(truth, recovered, matches, Len(truth))
    BY MatchesGood DEF ReportInv
  <2>3. \A metric \in DOMAIN report :
          Fair(report[metric], compiled, same /\ (metric = "roundTrip" => trips.passed = trips.total))
    BY <2>1, MetricsAssumption, ScoresFair DEF ReportInv
  <2> HIDE DEF matches
  <2>4. /\ \A m, o \in matches : (m[1] = o[1] \/ m[2] = o[2]) => m = o
        /\ NamedMatches(truth, recovered) \subseteq matches
    BY <2>2 DEF GoodMatches, OneToOne
  <2>5. \A m \in matches :
          \/ truth[m[1]].name = recovered[m[2]].name /\ truth[m[1]].name # NoName
          \/ Signature(truth[m[1]]) = Signature(recovered[m[2]])
    BY <2>2 DEF GoodMatches, Justified, NamedMatches, Candidates
  <2>6. QED
    BY <2>3, <2>4, <2>5 DEF FairlyScored, Fair, matches, SaysTheSame
<1>2. QED
  BY ReportInvariant, <1>1, PTL
=============================================================================
