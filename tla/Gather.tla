------------------------------- MODULE Gather -------------------------------
(***************************************************************************)
(* cli.py _find with container/apk.py, extract/descriptor.py and           *)
(* extract/gozip.py: the members of an archive -- and of the jar inside an *)
(* AAR -- are read within limits, and their bytes searched for serialized  *)
(* file descriptors, also in gzip members, and in gzip members of those.   *)
(*                                                                         *)
(* An entry is [name, length, kind, safe, size, readable, data, inside]:   *)
(* length that of its name, size the declared one, inside the entries of   *)
(* a jar.  Bytes are tokens: [kind, value, payload, whole] with kind       *)
(* "name" or "body" (a field of a descriptor, value the name or the        *)
(* field's rank), "gzip" or "noise".                                       *)
(***************************************************************************)
EXTENDS Integers, Sequences, FiniteSets, SequencesExt, FiniteSetsExt

CONSTANTS
  MaxEntries, MaxNames, MaxScan, MaxMember,                \* of an archive
  MaxCandidates, MaxBoundaries, MaxAttempts,               \* of a blob
  MaxInflated, MaxMembers, MaxGzipDepth,                   \* of its gzip members
  Blobs              \* the bytes there may be, in a member or inflated

\* The limits are checked (ValueError).
Positive ==
  /\ {MaxEntries, MaxNames, MaxScan, MaxMember} \subseteq Nat \ {0}
  /\ {MaxCandidates, MaxBoundaries, MaxAttempts, MaxInflated, MaxMembers, MaxGzipDepth} \subseteq Nat \ {0}

\* What inflates is bytes too.
Inflatable ==
  \A data \in Blobs :
    /\ data \in Seq(ToSet(data))
    /\ \A k \in DOMAIN data : data[k].kind = "gzip" => data[k].payload \in Blobs

ASSUME GatherAssumption == Positive /\ Inflatable

VARIABLES
  archive,           \* the input: [aar, entries]
  opened,            \* the entries of the zip file now read, outer or jar
  inJar, unread,     \* the indexes of the entries selected and not read yet
  found,             \* descriptors: sequences of tokens
  bytes,             \* history: declared sizes of what was read from this zip file
  gathering          \* "going" | "reading" | "done" | "refused"

gatherVars == <<archive, opened, inJar, unread, found, bytes, gathering>>

Scanned == {"dex", "native", "asset", "class"}
JarName == "classes.jar"
NoLimit == {}

-----------------------------------------------------------------------------
(* scan_descriptors.  At a name the longest run of fields is tried first   *)
(* that parses to itself: one name, and the other fields in order.         *)
IsField(token) == token.kind \in {"name", "body"}
RunEnd(data, at) == Max({n \in at..Len(data) : \A k \in at..n : IsField(data[k])})
Canonical(data, at, end) ==
  /\ end > at
  /\ \A k \in (at + 1)..end : data[k].kind = "body"
  /\ \A k \in (at + 1)..(end - 1) : data[k].value <= data[k + 1].value

\* What one candidate costs and finds: [attempts, end], end 0 if nothing.
Tried(data, at, allowed) ==
  LET last == Min({RunEnd(data, at), at + MaxBoundaries - 1})
      good == {n \in at..last : Canonical(data, at, n)}
      needed == IF good = {} THEN last - at + 1 ELSE last - Max(good) + 1
  IN [attempts |-> Min({needed, allowed}),
      end |-> IF good # {} /\ needed <= allowed THEN Max(good) ELSE 0]

\* One name: a candidate, unless there were too many.
Offer(data, state, at) ==
  IF state.candidates >= MaxCandidates \/ state.attempts >= MaxAttempts
  THEN [state EXCEPT !.limits = @ \union {"candidates"}]
  ELSE LET tried == Tried(data, at, MaxAttempts - state.attempts)
       IN [candidates |-> state.candidates + 1, attempts |-> state.attempts + tried.attempts,
           limits |-> state.limits
             \union (IF RunEnd(data, at) - at + 1 > MaxBoundaries THEN {"boundaries"} ELSE {})
             \union (IF state.attempts + tried.attempts = MaxAttempts THEN {"candidates"} ELSE {}),
           found |-> state.found \union (IF tried.end = 0 THEN {} ELSE {SubSeq(data, at, tried.end)})]

ScanDescriptors(data) ==
  LET scanned[n \in 0..Len(data)] ==
        IF n = 0 THEN [candidates |-> 0, attempts |-> 0, limits |-> NoLimit, found |-> {}]
        ELSE IF data[n].kind = "name" THEN Offer(data, scanned[n - 1], n)
        ELSE scanned[n - 1]
  IN scanned[Len(data)]

(* _scan_gzip.  The budget is one for every level; the members are counted *)
(* at each.  A member that is cut short is paid for and not searched, and  *)
(* one that is damaged (zlib.error) is one cut short with nothing to pay   *)
(* for; `below` is the search one level deeper.                            *)
Unsearched(budget) == [stopped |-> FALSE, members |-> 0, budget |-> budget, limits |-> NoLimit, found |-> {}]

Inflate(token, state, below) ==
  LET left == state.budget - Len(token.payload)
      plain == ScanDescriptors(token.payload)
      nested == below[token.payload][left]
  IN IF state.stopped \/ state.budget = 0 \/ state.members = MaxMembers \/ left < 0
     THEN [state EXCEPT !.stopped = TRUE, !.limits = @ \union {"gzip"}]
     ELSE IF ~token.whole THEN [state EXCEPT !.budget = left, !.members = @ + 1]
     ELSE [stopped |-> FALSE, members |-> state.members + 1, budget |-> nested.budget,
           limits |-> state.limits \union plain.limits \union nested.limits,
           found |-> state.found \union plain.found \union nested.found]

SearchMembers(data, budget, below) ==
  LET searched[n \in 0..Len(data)] ==
        IF n = 0 THEN Unsearched(budget)
        ELSE IF data[n].kind = "gzip" THEN Inflate(data[n], searched[n - 1], below)
        ELSE searched[n - 1]
  IN searched[Len(data)]

ScanGzip[depth \in 0..MaxGzipDepth] ==
  [data \in Blobs |-> [budget \in 0..MaxInflated |->
     IF depth = 0 THEN Unsearched(budget) ELSE SearchMembers(data, budget, ScanGzip[depth - 1])]]

Findings(data) == ScanDescriptors(data).found \union ScanGzip[MaxGzipDepth][data][MaxInflated].found

-----------------------------------------------------------------------------
(* _inventory_from_zip and select: refused, or what is scanned.            *)
Sums(sizes) == LET sum[n \in 0..Len(sizes)] == IF n = 0 THEN 0 ELSE sum[n - 1] + sizes[n] IN sum
Total(sizes) == Sums(sizes)[Len(sizes)]

Inventoried(entries) ==
  /\ Len(entries) <= MaxEntries
  /\ Total([k \in DOMAIN entries |-> entries[k].length]) <= MaxNames
  /\ \A e \in ToSet(entries) : e.kind # "directory" => e.safe
  /\ \A k, l \in DOMAIN entries :
       k < l /\ "directory" \notin {entries[k].kind, entries[l].kind} => entries[k].name # entries[l].name

Selected(entries) == {k \in DOMAIN entries : entries[k].kind \in Scanned}
Sizes(entries) == [k \in DOMAIN entries |-> IF k \in Selected(entries) THEN entries[k].size ELSE 0]
Affordable(entries) == Total(Sizes(entries)) <= MaxScan

Readable(e) == e.readable /\ e.size <= MaxMember

\* A zip file; the entries of a jar are those of one too.
ZipFile(entries) ==
  /\ entries \in Seq(ToSet(entries))
  /\ \A e \in ToSet(entries) : e.length \in Nat /\ e.size \in Nat /\ e.data \in Blobs
Archive(a) == ZipFile(a.entries) /\ \A e \in ToSet(a.entries) : e.name = JarName => ZipFile(e.inside)

GatherInit(archives) ==
  /\ archive \in archives
  /\ opened = archive.entries /\ inJar = FALSE /\ unread = {}
  /\ found = {} /\ bytes = 0 /\ gathering = "going"

Open ==
  /\ gathering = "going" /\ Inventoried(opened) /\ Affordable(opened)
  /\ unread' = Selected(opened)
  /\ bytes' = 0
  /\ gathering' = "reading"
  /\ UNCHANGED <<archive, opened, inJar, found>>

\* One bad member, or one limit, and the whole command fails.
RefuseArchive ==
  /\ \/ gathering = "going" /\ ~(Inventoried(opened) /\ Affordable(opened))
     \/ gathering = "reading" /\ unread # {} /\ ~Readable(opened[Min(unread)])
  /\ gathering' = "refused"
  /\ UNCHANGED <<archive, opened, inJar, unread, found, bytes>>

ByName(all, new) == {d \in new : \A e \in all : e[1] # d[1]}   \* mutant: a name is found once

\* The same bytes under one name are one finding; other bytes another.
New(all, new) == new \ all

ReadMember ==
  /\ gathering = "reading" /\ unread # {} /\ Readable(opened[Min(unread)])
  /\ found' = found \union New(found, Findings(opened[Min(unread)].data))
  /\ bytes' = bytes + opened[Min(unread)].size
  /\ unread' = unread \ {Min(unread)}
  /\ UNCHANGED <<archive, opened, inJar, gathering>>

JarsOf(entries) == {e \in ToSet(entries) : e.name = JarName /\ e.kind # "directory"}
MoreToOpen == archive.aar /\ ~inJar /\ JarsOf(opened) # {}

\* _find_nested_jar
OpenJar ==
  /\ gathering = "reading" /\ unread = {} /\ MoreToOpen
  /\ inJar' = TRUE
  /\ IF \E e \in JarsOf(opened) : Readable(e)
     THEN opened' = (CHOOSE e \in JarsOf(opened) : TRUE).inside /\ gathering' = "going"
     ELSE gathering' = "refused" /\ UNCHANGED opened
  /\ UNCHANGED <<archive, unread, found, bytes>>

EndGather ==
  /\ gathering = "reading" /\ unread = {} /\ ~MoreToOpen
  /\ gathering' = "done"
  /\ UNCHANGED <<archive, opened, inJar, unread, found, bytes>>

GatherNext == Open \/ RefuseArchive \/ ReadMember \/ OpenJar \/ EndGather

GatherSpec(archives) == GatherInit(archives) /\ [][GatherNext]_gatherVars

-----------------------------------------------------------------------------
(* The blobs a descriptor may be in: a scanned member's bytes, and what    *)
(* the whole gzip members inflate to, MaxGzipDepth levels down.            *)
Whole(data) == {k \in DOMAIN data : data[k].kind = "gzip" /\ data[k].whole}
Inside[depth \in 0..MaxGzipDepth] ==
  [data \in Blobs |->
     {data} \union (IF depth = 0 THEN {} ELSE UNION {Inside[depth - 1][data[k].payload] : k \in Whole(data)})]
BlobsOf(entries) == {e.data : e \in {x \in ToSet(entries) : x.kind \in Scanned}}
AllBlobs ==
  BlobsOf(archive.entries) \union (IF archive.aar THEN UNION {BlobsOf(e.inside) : e \in JarsOf(archive.entries)} ELSE {})

\* The descriptors of a blob: a name, and the fields in order that follow it.
Complete(data, at, end) ==
  data[at].kind = "name" /\ Canonical(data, at, end) /\ ~(end < Len(data) /\ Canonical(data, at, end + 1))
Written(data) ==
  {SubSeq(data, p[1], p[2]) : p \in {q \in (DOMAIN data) \X (DOMAIN data) : Complete(data, q[1], q[2])}}

WithinLimits(data) ==
  ScanDescriptors(data).limits = NoLimit /\ ScanGzip[MaxGzipDepth][data][MaxInflated].limits = NoLimit

(* A finished search has found every descriptor that is anywhere in the    *)
(* input, each version of a file separately, unless a limit of its blob    *)
(* was reached; it has invented none, cut none short and joined none to    *)
(* what follows; and no zip file was read beyond its budget.  Descriptors  *)
(* have no length of their own (extract/descriptor.py:115), so where one   *)
(* ends is a guess that only the comparison with its own bytes confirms.   *)
NothingOverlooked ==
  /\ gathering = "done" =>
       \A data \in AllBlobs : WithinLimits(data) => UNION {Written(b) : b \in Inside[MaxGzipDepth][data]} \subseteq found
  /\ \A d \in found :
       \E data \in AllBlobs :
         \E b \in Inside[MaxGzipDepth][data] :
           \/ d \in Written(b)
           \/ Len(d) = MaxBoundaries /\ \E w \in Written(b) : IsPrefix(d, w)
  /\ bytes <= MaxScan
=============================================================================
