--------------------------- MODULE Reconcile_proofs ---------------------------
(***************************************************************************)
(* Theorems about what becomes of the recoveries: the reconciliation, for  *)
(* any contents, slots and ranks and any number of recoveries merged; the  *)
(* names of the files, for any names, reserved keys and requests and       *)
(* whatever casefold, packages and numbers do to a name; and the           *)
(* descriptor files, for any number of them, in any order and with any     *)
(* dependencies.                                                           *)
(***************************************************************************)
EXTENDS Reconcile, OutputNames, DescriptorFiles, FiniteSetTheorems, TLAPS

-----------------------------------------------------------------------------
(* Reconcile.                                                              *)

\* What is merged, and what is kept at each slot.
KeptTypes ==
  /\ merged \in Seq(Recoveries)
  /\ DOMAIN fieldAt = Slots /\ DOMAIN methodAt = Slots
  /\ \A s \in Slots : DOMAIN methodAt[s] = {"says", "flags", "rank"}
  /\ enumAt.values \in [Slots -> Maybe]
  /\ DOMAIN enumAt = {"values", "rank"}

\* What has had a source has a list, and no two things share one.
ListsApart ==
  /\ listOf \in [Things -> Lists \union {NoList}]
  /\ lists \in [Lists -> Counts]
  /\ \A x, y \in Things : listOf[x] = listOf[y] /\ listOf[x] # NoList => x = y
  /\ \A x \in Things : listOf[x] = NoList <=> SourcesOf(x) = {}

\* seen_lists remembers no list that nothing holds: a list that comes later
\* has an address it does not know.  What it remembers is what is there.
CacheTrue ==
  \A l \in DOMAIN cached :
    /\ \E x \in Things : l = listOf[x] /\ l # NoList
    /\ cached[l] = InList(l)
    /\ \A p \in Places : lists[l][p] <= 1

\* The evidence of one thing; two sources have been through the cache.
Evidenced(x) ==
  SourcesOf(x) # {} =>
    /\ InList(listOf[x]) = UNION {Evidence(merged[k]) : k \in SourcesOf(x)}
    /\ (\E j, k \in SourcesOf(x) : j # k) => listOf[x] \in DOMAIN cached

ListInv == ListsApart /\ CacheTrue /\ \A x \in Things : Evidenced(x)

\* The three properties depend on each other: that nothing is dropped needs
\* to know that a thing without a list has had no source.
MergeInv == KeptTypes /\ ListInv /\ FieldsPreferBest /\ NothingDropped

(* A reconciliation starts in the invariant. *)
LEMMA MergeStarts == MergeInit => MergeInv
<1> SUFFICES ASSUME MergeInit PROVE MergeInv
  OBVIOUS
<1>1. KeptTypes
  BY DEF MergeInit, KeptTypes, Absent, Maybe
<1>2. DOMAIN merged = {}
  BY DEF MergeInit
<1>3. \A x : SourcesOf(x) = {}
  BY <1>2 DEF SourcesOf
<1>4. ListsApart
  BY <1>3 DEF MergeInit, ListsApart, Counts, Lists, NoList
<1>5. CacheTrue
  BY DEF MergeInit, CacheTrue
<1>6. FieldsPreferBest
  BY <1>3 DEF MergeInit, FieldsPreferBest
<1>7. NothingDropped
  BY <1>2 DEF MergeInit, NothingDropped
<1> QED
  BY <1>1, <1>3, <1>4, <1>5, <1>6, <1>7 DEF MergeInv, ListInv, Evidenced

Newest == Len(merged) + 1

\* The item merged is the last source; the others stay what they were.
LEMMA Appended ==
  ASSUME merged \in Seq(Recoveries), NEW item \in Recoveries, Take(item)
  PROVE  /\ merged' \in Seq(Recoveries)
         /\ Newest \in Nat /\ Newest \notin DOMAIN merged
         /\ DOMAIN merged' = DOMAIN merged \union {Newest}
         /\ merged'[Newest] = item
         /\ \A k \in DOMAIN merged : merged'[k] = merged[k] /\ k \in Nat /\ k < Newest
  BY DEF Take, Newest

\* It is a source of its own thing only.
LEMMA SourceAdded ==
  ASSUME merged \in Seq(Recoveries), NEW item \in Recoveries, Take(item), NEW x
  PROVE  /\ SourcesOf(x)' = IF Thing(item) = x THEN SourcesOf(x) \union {Newest} ELSE SourcesOf(x)
         /\ \A k \in SourcesOf(x) : k \in DOMAIN merged /\ merged'[k] = merged[k]
  BY Appended DEF SourcesOf

(* What a source may say of a field, a method or an enum. *)
LEMMA ItemTypes ==
  ASSUME NEW item \in Recoveries
  PROVE  /\ item.rank \in Nat /\ item.kind \in {"field", "method", "enum"}
         /\ item.kind # "enum" => item.slot \in Slots /\ item.says \in Contents
         /\ item.kind = "enum" => item.values \in [Slots -> Maybe]
         /\ item.evidence \in Counts /\ Thing(item) \in Things
<1>1. CASE item \in Single
  BY <1>1, ReconcileAssumption DEF Single, Thing, Things
<1>2. CASE item \in EnumItem
  BY <1>2, ReconcileAssumption DEF EnumItem, Thing, Things
<1> QED
  BY <1>1, <1>2 DEF Recoveries

\* What a thing is known by.
LEMMA ThingOf ==
  ASSUME NEW item \in Recoveries, NEW s \in Slots
  PROVE  /\ Thing(item) = <<"field", s>> <=> item.kind = "field" /\ item.slot = s
         /\ Thing(item) = <<"method", s>> <=> item.kind = "method" /\ item.slot = s
         /\ Thing(item) = <<"enum", 0>> <=> item.kind = "enum"
         /\ <<"field", s>> \in Things /\ <<"method", s>> \in Things /\ <<"enum", 0>> \in Things
  BY ItemTypes DEF Thing, Things

\* Only what has had a source is known.
LEMMA KnownHasSource ==
  ASSUME ListInv, NEW item \in Recoveries
  PROVE  AlreadyKept(item) <=> SourcesOf(Thing(item)) # {}
  BY ItemTypes DEF ListInv, ListsApart, AlreadyKept

-----------------------------------------------------------------------------
\* The evidence of a new thing is the list that it brings.
LEMMA NewEvidence ==
  ASSUME merged \in Seq(Recoveries), ListInv, NEW item \in Recoveries, Take(item), ~AlreadyKept(item)
  PROVE  ListInv'
<1> DEFINE x == Thing(item)
<1>0. x \in Things /\ item.evidence \in Counts
  BY ItemTypes
<1>1. PICK l \in Lists : /\ Unheld(l)
                         /\ listOf' = [listOf EXCEPT ![x] = l]
                         /\ lists' = [lists EXCEPT ![l] = item.evidence]
                         /\ cached' = cached
  BY DEF Take, TakeEvidence
<1>2. l # NoList /\ \A y \in Things : listOf[y] # l
  BY <1>1 DEF Unheld, Lists, NoList
<1>3. SourcesOf(x) = {} /\ listOf[x] = NoList
  BY <1>0, KnownHasSource DEF AlreadyKept
<1>4. SourcesOf(x)' = {Newest} /\ merged'[Newest] = item
  BY <1>3, SourceAdded, Appended
<1>5. ASSUME NEW y \in Things, y # x
      PROVE  /\ SourcesOf(y)' = SourcesOf(y) /\ listOf'[y] = listOf[y]
             /\ \A k \in SourcesOf(y) : merged'[k] = merged[k]
             /\ listOf[y] # NoList => listOf[y] \in Lists /\ lists'[listOf[y]] = lists[listOf[y]]
  BY <1>0, <1>1, <1>2, <1>5, SourceAdded DEF ListInv, ListsApart
<1>6. listOf'[x] = l /\ lists'[l] = item.evidence
  BY <1>0, <1>1 DEF ListInv, ListsApart
<1>7. ListsApart'
  <2>1. listOf' \in [Things -> Lists \union {NoList}] /\ lists' \in [Lists -> Counts]
    BY <1>0, <1>1 DEF ListInv, ListsApart
  <2>2. \A y, z \in Things : listOf'[y] = listOf'[z] /\ listOf'[y] # NoList => y = z
    BY <1>2, <1>5, <1>6 DEF ListInv, ListsApart
  <2>3. \A y \in Things : listOf'[y] = NoList <=> SourcesOf(y)' = {}
    BY <1>2, <1>4, <1>5, <1>6 DEF ListInv, ListsApart
  <2> QED
    BY <2>1, <2>2, <2>3 DEF ListsApart
<1>8. CacheTrue'
  <2> SUFFICES ASSUME NEW m \in DOMAIN cached
               PROVE  /\ \E y \in Things : m = listOf'[y] /\ m # NoList
                      /\ cached[m] = InList(m)'
                      /\ \A p \in Places : lists'[m][p] <= 1
    BY <1>1 DEF CacheTrue
  <2>1. PICK y \in Things : m = listOf[y] /\ m # NoList
    BY DEF ListInv, CacheTrue
  <2>2. y # x
    BY <1>3, <2>1
  <2>3. lists'[m] = lists[m] /\ m = listOf'[y]
    BY <1>5, <2>1, <2>2
  <2> QED
    BY <2>1, <2>3 DEF ListInv, CacheTrue, InList
<1>9. ASSUME NEW y \in Things PROVE Evidenced(y)'
  <2>1. CASE y = x
    <3>1. InList(l)' = Evidence(item)
      BY <1>6 DEF InList, Evidence
    <3>2. UNION {Evidence(merged'[k]) : k \in {Newest}} = Evidence(item)
      BY <1>4
    <3> QED
      BY <1>4, <1>6, <2>1, <3>1, <3>2 DEF Evidenced, Evidence
  <2>2. CASE y # x /\ SourcesOf(y) # {}
    <3>1. listOf[y] # NoList
      BY <2>2 DEF ListInv, ListsApart
    <3>2. InList(listOf[y])' = InList(listOf[y])
      BY <1>5, <2>2, <3>1 DEF InList
    <3>3. UNION {Evidence(merged'[k]) : k \in SourcesOf(y)} = UNION {Evidence(merged[k]) : k \in SourcesOf(y)}
      BY <1>5, <2>2
    <3> QED
      BY <1>1, <1>5, <2>2, <3>2, <3>3 DEF ListInv, Evidenced, Evidence
  <2>3. CASE y # x /\ SourcesOf(y) = {}
    BY <1>5, <2>3 DEF Evidenced
  <2> QED
    BY <2>1, <2>2, <2>3
<1> QED
  BY <1>7, <1>8, <1>9 DEF ListInv

\* What _merge_unique leaves in a list.
LEMMA Unique ==
  ASSUME ListInv, NEW item \in Recoveries, NEW l \in Lists
  PROVE  /\ Extended(l, item) \in Counts
         /\ Seen(l) = InList(l)
         /\ \A p \in Places : Extended(l, item)[p] <= 1
         /\ \A p \in Places : Extended(l, item)[p] > 0 <=> p \in InList(l) \union Evidence(item)
<1>1. lists[l] \in Counts
  BY DEF ListInv, ListsApart
<1>2. Seen(l) = InList(l)
  BY DEF ListInv, CacheTrue, Seen
<1>3. \A p \in Places : lists[l][p] \in Nat /\ (p \in InList(l) <=> lists[l][p] > 0)
  BY <1>1 DEF Counts, InList
<1>4. l \in DOMAIN cached => \A p \in Places : lists[l][p] <= 1
  BY DEF ListInv, CacheTrue
<1>5. \A p \in Places : Extended(l, item)[p] =
        IF p \in Evidence(item) \ InList(l) THEN lists[l][p] + 1
        ELSE IF l \in DOMAIN cached THEN lists[l][p]
        ELSE IF p \in InList(l) THEN 1 ELSE 0
  BY <1>2 DEF Extended
<1>6. \A p \in Places : Extended(l, item)[p] \in Nat
  BY <1>3, <1>5
<1>7. Extended(l, item) \in Counts
  BY <1>6 DEF Extended, Counts
<1> QED
  BY <1>2, <1>3, <1>4, <1>5, <1>7

\* The evidence of a known thing is added to its list.
LEMMA MoreEvidence ==
  ASSUME merged \in Seq(Recoveries), ListInv, NEW item \in Recoveries, Take(item), AlreadyKept(item)
  PROVE  ListInv'
<1> DEFINE x == Thing(item)
<1>a. x \in Things /\ listOf[x] \in Lists /\ listOf[x] # NoList /\ SourcesOf(x) # {}
  BY ItemTypes, KnownHasSource DEF ListInv, ListsApart, AlreadyKept
<1>b. PICK l \in Lists : l = listOf[x]
  BY <1>a
<1>0. x \in Things /\ l \in Lists /\ l # NoList /\ SourcesOf(x) # {} /\ l = listOf[x]
  BY <1>a, <1>b
<1>1. /\ lists' = [lists EXCEPT ![l] = Extended(l, item)] /\ Cache(l, item)
      /\ listOf' = listOf
  BY <1>0 DEF Take, TakeEvidence
<1>2. SourcesOf(x)' = SourcesOf(x) \union {Newest} /\ merged'[Newest] = item
  BY <1>0, SourceAdded, Appended
<1>3. \A k \in SourcesOf(x) : merged'[k] = merged[k]
  BY SourceAdded
<1>4. ASSUME NEW y \in Things, y # x
      PROVE  /\ SourcesOf(y)' = SourcesOf(y)
             /\ \A k \in SourcesOf(y) : merged'[k] = merged[k]
             /\ listOf[y] # NoList => listOf[y] \in Lists /\ lists'[listOf[y]] = lists[listOf[y]] /\ listOf[y] # l
  <2>1. listOf[y] # l
    BY <1>0, <1>4 DEF ListInv, ListsApart
  <2> QED
    BY <1>0, <1>1, <1>4, <2>1, SourceAdded DEF ListInv, ListsApart
<1>5. lists'[l] = Extended(l, item)
  BY <1>0, <1>1 DEF ListInv, ListsApart
<1>6. InList(l)' = InList(l) \union Evidence(item)
  <2>1. \A p \in Places : Extended(l, item)[p] > 0 <=> p \in InList(l) \union Evidence(item)
    BY Unique
  <2>2. InList(l)' = {p \in Places : Extended(l, item)[p] > 0}
    BY <1>5 DEF InList
  <2>3. InList(l) \subseteq Places /\ Evidence(item) \subseteq Places
    BY DEF InList, Evidence
  <2> QED
    BY <2>1, <2>2, <2>3
<1>7. ListsApart'
  <2>1. lists' \in [Lists -> Counts]
    BY <1>0, <1>1, Unique DEF ListInv, ListsApart
  <2>2. \A y \in Things : listOf[y] = NoList <=> SourcesOf(y)' = {}
    BY <1>0, <1>2, <1>4 DEF ListInv, ListsApart
  <2> QED
    BY <1>1, <2>1, <2>2 DEF ListInv, ListsApart
<1>8. CacheTrue'
  <2>0. /\ DOMAIN cached' = DOMAIN cached \union {l}
        /\ cached'[l] = InList(l) \union Evidence(item)
        /\ \A m \in DOMAIN cached : m # l => cached'[m] = cached[m]
    BY <1>0, <1>1, Unique DEF Cache
  <2> SUFFICES ASSUME NEW m \in DOMAIN cached'
               PROVE  /\ \E y \in Things : m = listOf'[y] /\ m # NoList
                      /\ cached'[m] = InList(m)'
                      /\ \A p \in Places : lists'[m][p] <= 1
    BY DEF CacheTrue
  <2>1. CASE m = l
    <3>1. listOf'[x] = l /\ l # NoList
      BY <1>0, <1>1
    <3>2. \A p \in Places : lists'[l][p] <= 1
      BY <1>5, Unique
    <3> QED
      BY <1>0, <1>6, <2>0, <2>1, <3>1, <3>2
  <2>2. CASE m # l
    <3>1. m \in DOMAIN cached
      BY <2>0, <2>2
    <3>2. PICK y \in Things : m = listOf[y] /\ m # NoList
      BY <3>1 DEF ListInv, CacheTrue
    <3>3. y # x
      BY <1>0, <2>2, <3>2
    <3>4. lists'[m] = lists[m]
      BY <1>4, <3>2, <3>3
    <3> QED
      BY <1>1, <2>0, <2>2, <3>1, <3>2, <3>4 DEF ListInv, CacheTrue, InList
  <2> QED
    BY <2>1, <2>2
<1>9. ASSUME NEW y \in Things PROVE Evidenced(y)'
  <2>0. l \in DOMAIN cached' /\ DOMAIN cached \subseteq DOMAIN cached'
    BY <1>1 DEF Cache
  <2>1. CASE y = x
    <3>1. InList(l) = UNION {Evidence(merged[k]) : k \in SourcesOf(x)}
      BY <1>0 DEF ListInv, Evidenced
    <3>2. \A k \in SourcesOf(x) : Evidence(merged'[k]) = Evidence(merged[k])
      BY <1>3
    <3>3. UNION {Evidence(merged'[k]) : k \in SourcesOf(x) \union {Newest}}
            = (UNION {Evidence(merged[k]) : k \in SourcesOf(x)}) \union Evidence(item)
      BY <1>2, <3>2
    <3> QED
      BY <1>0, <1>1, <1>2, <1>6, <2>0, <2>1, <3>1, <3>3 DEF Evidenced, Evidence
  <2>2. CASE y # x /\ SourcesOf(y) # {}
    <3>1. listOf[y] # NoList
      BY <2>2 DEF ListInv, ListsApart
    <3>2. InList(listOf[y])' = InList(listOf[y])
      BY <1>1, <1>4, <2>2, <3>1 DEF InList
    <3>3. UNION {Evidence(merged'[k]) : k \in SourcesOf(y)} = UNION {Evidence(merged[k]) : k \in SourcesOf(y)}
      BY <1>4, <2>2
    <3> QED
      BY <1>1, <1>4, <2>0, <2>2, <3>2, <3>3 DEF ListInv, Evidenced, Evidence
  <2>3. CASE y # x /\ SourcesOf(y) = {}
    BY <1>4, <2>3 DEF Evidenced
  <2> QED
    BY <2>1, <2>2, <2>3
<1> QED
  BY <1>7, <1>8, <1>9 DEF ListInv

(* Every item that is merged is in the evidence of what it names. *)
LEMMA ListStep ==
  ASSUME MergeInv, NEW item \in Recoveries, Take(item)
  PROVE  ListInv'
  BY NewEvidence, MoreEvidence DEF MergeInv, KeptTypes

(* The evidence is complete wherever the lists are in order. *)
LEMMA ListsComplete == ListInv => EvidenceComplete
<1> SUFFICES ASSUME ListInv, NEW x \in Things, SourcesOf(x) # {}
             PROVE  /\ InList(listOf[x]) = UNION {Evidence(merged[k]) : k \in SourcesOf(x)}
                    /\ (\E j, k \in SourcesOf(x) : j # k) => \A p \in Places : lists[listOf[x]][p] <= 1
                    /\ listOf[x] \in DOMAIN cached => cached[listOf[x]] = InList(listOf[x])
  BY DEF EvidenceComplete
<1> QED
  BY DEF ListInv, CacheTrue, Evidenced

-----------------------------------------------------------------------------
\* What FieldsPreferBest says of one slot.
Best1(k, sources) ==
  \A j \in sources : merged[j].rank <= merged[k].rank /\ (merged[j].rank = merged[k].rank => k <= j)
FieldBest(s) ==
  IF SourcesOf(<<"field", s>>) = {} THEN fieldAt[s] = Absent
  ELSE \E k \in SourcesOf(<<"field", s>>) :
         Best1(k, SourcesOf(<<"field", s>>)) /\ fieldAt[s] = Content(merged[k])

(* The property of fields, slot by slot. *)
LEMMA SlotBySlot == FieldsPreferBest <=> \A s \in Slots : FieldBest(s)
  BY DEF FieldsPreferBest, FieldBest, Preferred, Best1

\* A slot that gets nothing new is left alone.
LEMMA FieldStays ==
  ASSUME merged \in Seq(Recoveries), NEW item \in Recoveries, Take(item), NEW s \in Slots, FieldBest(s),
         Thing(item) # <<"field", s>>, fieldAt'[s] = fieldAt[s]
  PROVE  FieldBest(s)'
<1> DEFINE sources == SourcesOf(<<"field", s>>)
<1>1. SourcesOf(<<"field", s>>)' = sources /\ \A k \in sources : merged'[k] = merged[k]
  BY SourceAdded
<1>2. CASE sources = {}
  BY <1>1, <1>2 DEF FieldBest, Absent
<1>3. CASE sources # {}
  <2>1. PICK k \in sources : Best1(k, sources) /\ fieldAt[s] = Content(merged[k])
    BY <1>3 DEF FieldBest
  <2>2. \A j \in sources : merged'[j].rank <= merged'[k].rank /\ (merged'[j].rank = merged'[k].rank => k <= j)
    BY <1>1, <2>1 DEF Best1
  <2>3. fieldAt'[s] = Content(merged'[k])
    BY <1>1, <2>1
  <2> QED
    BY <1>1, <1>3, <2>2, <2>3 DEF FieldBest, Best1, Content
<1> QED
  BY <1>2, <1>3

\* The slot that gets the new field.
LEMMA FieldMerged ==
  ASSUME KeptTypes, ListInv, NEW item \in Recoveries, MergeField(item), FieldBest(item.slot)
  PROVE  FieldBest(item.slot)'
<1>0. PICK n \in Slots : n = item.slot /\ merged \in Seq(Recoveries) /\ Take(item) /\ item.kind = "field" /\ item.rank \in Nat
  BY ItemTypes DEF KeptTypes, MergeField, KeepField
<1> DEFINE old == SourcesOf(<<"field", n>>)
<1>a. Thing(item) = <<"field", n>> /\ (AlreadyKept(item) <=> old # {})
  BY <1>0, KnownHasSource DEF Thing
<1>1. SourcesOf(<<"field", n>>)' = old \union {Newest}
  BY <1>0, <1>a, SourceAdded
<1>2. merged'[Newest] = item /\ Newest \in Nat
  BY <1>0, Appended
<1>3. \A j \in old : merged'[j] = merged[j] /\ j \in Nat /\ j < Newest /\ merged[j].rank \in Nat
  BY <1>0, Appended, ItemTypes DEF SourcesOf
<1> SUFFICES \E k \in old \union {Newest} :
               /\ \A j \in old \union {Newest} :
                    merged'[j].rank <= merged'[k].rank /\ (merged'[j].rank = merged'[k].rank => k <= j)
               /\ fieldAt'[n] = Content(merged'[k])
  BY <1>0, <1>1 DEF FieldBest, Best1, Content
<1>4. CASE old = {}
  <2>1. fieldAt'[n] = Content(item)
    BY <1>0, <1>a, <1>4 DEF KeptTypes, MergeField, KeepField
  <2> QED
    BY <1>0, <1>2, <1>4, <2>1
<1>5. CASE old # {}
  <2>1. PICK k \in old : Best1(k, old) /\ fieldAt[n] = Content(merged[k])
    BY <1>0, <1>5 DEF FieldBest
  <2>2. fieldAt[n].rank = merged[k].rank
    BY <2>1 DEF Content
  <2>3. CASE item.rank > merged[k].rank
    <3>1. fieldAt'[n] = Content(item)
      BY <1>0, <1>a, <1>5, <2>2, <2>3 DEF KeptTypes, MergeField, KeepField
    <3>2. \A j \in old \union {Newest} :
            merged'[j].rank <= merged'[Newest].rank /\ (merged'[j].rank = merged'[Newest].rank => Newest <= j)
      BY <1>0, <1>2, <1>3, <2>1, <2>3 DEF Best1
    <3> QED
      BY <1>2, <3>1, <3>2
  <2>4. CASE ~(item.rank > merged[k].rank)
    <3>1. fieldAt'[n] = Content(merged'[k])
      BY <1>0, <1>3, <1>a, <1>5, <2>1, <2>2, <2>4 DEF KeptTypes, MergeField, KeepField
    <3>2. \A j \in old \union {Newest} :
            merged'[j].rank <= merged'[k].rank /\ (merged'[j].rank = merged'[k].rank => k <= j)
      <4>1. /\ k \in Nat /\ k < Newest /\ merged[k].rank \in Nat /\ merged'[k] = merged[k]
            /\ merged'[Newest].rank <= merged[k].rank
        BY <1>0, <1>2, <1>3, <2>4
      <4>2. \A j \in old : merged'[j].rank <= merged[k].rank /\ (merged'[j].rank = merged[k].rank => k <= j)
        BY <1>3, <2>1 DEF Best1
      <4> QED
        BY <1>2, <4>1, <4>2
    <3> QED
      BY <3>1, <3>2
  <2> QED
    BY <2>3, <2>4
<1> QED
  BY <1>4, <1>5

(* Every item leaves each field with the first of its best sources. *)
LEMMA FieldStep ==
  ASSUME MergeInv, NEW item \in Recoveries, MergeField(item) \/ MergeMethod(item) \/ MergeEnum(item)
  PROVE  FieldsPreferBest'
<1>0. merged \in Seq(Recoveries) /\ Take(item)
  BY DEF MergeInv, KeptTypes, MergeField, MergeMethod, MergeEnum
<1>1. \A s \in Slots : FieldBest(s)
  BY SlotBySlot DEF MergeInv
<1> SUFFICES ASSUME NEW s \in Slots PROVE FieldBest(s)'
  <2>1. (\A s \in Slots : FieldBest(s))' <=> FieldsPreferBest'
    BY SlotBySlot, PTL
  <2> QED
    BY <2>1
<1>2. CASE item.kind = "field" /\ item.slot = s
  BY <1>1, <1>2, FieldMerged DEF MergeInv, MergeField, MergeMethod, MergeEnum
<1>3. CASE ~(item.kind = "field" /\ item.slot = s)
  <2>1. fieldAt'[s] = fieldAt[s]
    BY <1>3 DEF MergeInv, KeptTypes, MergeField, KeepField, MergeMethod, MergeEnum
  <2>2. Thing(item) # <<"field", s>>
    BY <1>3, ThingOf
  <2> QED
    BY <1>0, <1>1, <2>1, <2>2, FieldStays
<1> QED
  BY <1>2, <1>3

-----------------------------------------------------------------------------
\* A content once said: still there, or rejected by a conflict on record.
Rejected(records, kind, slot, content) ==
  \E c \in records : c.kind = kind /\ c.slot = slot /\ c.rejected = content
Accounted(item, s) ==
  /\ item.kind = "field" /\ item.slot = s => fieldAt[s].says = item.says \/ Rejected(conflicts, "field", s, item.says)
  /\ item.kind = "method" /\ item.slot = s => methodAt[s].says = item.says \/ Rejected(conflicts, "method", s, item.says)
  /\ item.kind = "enum" /\ item.values[s] # "none" =>
       enumAt.values[s] = item.values[s] \/ Rejected(conflicts, "enum", s, item.values[s])

(* Nothing is dropped: item by item and slot by slot. *)
LEMMA ItemByItem ==
  NothingDropped <=> /\ \A c \in conflicts : c.kept # c.rejected
                     /\ \A k \in DOMAIN merged : \A s \in Slots : Accounted(merged[k], s)
<1>1. ASSUME NEW k \in DOMAIN merged, NEW s \in Slots
      PROVE  Accounted(merged[k], s) <=>
        CASE merged[k].kind = "field" /\ merged[k].slot = s ->
               fieldAt[s].says = merged[k].says \/ Rejected(conflicts, "field", s, merged[k].says)
          [] merged[k].kind = "method" /\ merged[k].slot = s ->
               methodAt[s].says = merged[k].says \/ Rejected(conflicts, "method", s, merged[k].says)
          [] merged[k].kind = "enum" /\ merged[k].values[s] # "none" ->
               enumAt.values[s] = merged[k].values[s] \/ Rejected(conflicts, "enum", s, merged[k].values[s])
          [] OTHER -> TRUE
  BY DEF Accounted
<1> QED
  BY <1>1 DEF NothingDropped, Rejected

(* _record notes what differs, and nothing else. *)
LEMMA ConflictRecords ==
  ASSUME NEW kind, NEW slot, NEW winner, NEW loser, NEW x, NEW y
  PROVE  /\ \A c \in Conflict(kind, slot, winner, loser, x, y) : c.kept # c.rejected
         /\ winner # loser =>
              \E c \in Conflict(kind, slot, winner, loser, x, y) :
                c.kind = kind /\ c.slot = slot /\ c.rejected = loser
<1>1. CASE winner = loser
  BY <1>1 DEF Conflict
<1>2. CASE winner # loser
  <2> DEFINE c == [kind |-> kind, slot |-> slot, kept |-> winner, rejected |-> loser,
                   keptRank |-> x, rejectedRank |-> y]
  <2>1. Conflict(kind, slot, winner, loser, x, y) = {c}
    BY <1>2 DEF Conflict
  <2>2. c.kind = kind /\ c.slot = slot /\ c.kept = winner /\ c.rejected = loser
    OBVIOUS
  <2> QED
    BY <1>2, <2>1, <2>2
<1> QED
  BY <1>1, <1>2

\* A field or signature that gives way is on record, and so is one that does
\* not get the place; a slot without one has had no source.
LEMMA FieldAccounted ==
  ASSUME MergeInv, NEW item \in Recoveries, MergeField(item)
  PROVE  /\ fieldAt'[item.slot].says = item.says \/ Rejected(conflicts', "field", item.slot, item.says)
         /\ \/ ~AlreadyKept(item)
            \/ fieldAt'[item.slot].says = fieldAt[item.slot].says
            \/ Rejected(conflicts', "field", item.slot, fieldAt[item.slot].says)
         /\ conflicts \subseteq conflicts' /\ \A c \in conflicts' \ conflicts : c.kept # c.rejected
<1> DEFINE n == item.slot
           known == fieldAt[n]
<1>0. n \in Slots /\ DOMAIN fieldAt = Slots /\ Content(item).says = item.says
  BY ItemTypes DEF MergeInv, KeptTypes, MergeField, KeepField, Content
<1>1. CASE ~AlreadyKept(item)
  BY <1>0, <1>1 DEF MergeField, KeepField
<1>2. CASE AlreadyKept(item) /\ item.rank > known.rank
  <2>1. /\ fieldAt' = [fieldAt EXCEPT ![n] = Content(item)]
        /\ conflicts' = conflicts \union
             Conflict("field", n, Content(item).says, known.says, Content(item).rank, known.rank)
    BY <1>2 DEF MergeField, KeepField
  <2>2. fieldAt'[n].says = item.says
    BY <1>0, <2>1
  <2>3. item.says = known.says \/ Rejected(conflicts', "field", n, known.says)
    BY <1>0, <2>1, ConflictRecords DEF Rejected
  <2> QED
    BY <2>1, <2>2, <2>3, ConflictRecords
<1>3. CASE AlreadyKept(item) /\ ~(item.rank > known.rank)
  <2>1. /\ fieldAt' = [fieldAt EXCEPT ![n] = known]
        /\ conflicts' = conflicts \union
             Conflict("field", n, known.says, Content(item).says, known.rank, Content(item).rank)
    BY <1>3 DEF MergeField, KeepField
  <2>2. fieldAt'[n].says = known.says
    BY <1>0, <2>1
  <2>3. item.says = known.says \/ Rejected(conflicts', "field", n, item.says)
    BY <1>0, <2>1, ConflictRecords DEF Rejected
  <2> QED
    BY <2>1, <2>2, <2>3, ConflictRecords
<1> QED
  BY <1>1, <1>2, <1>3

(* _merge_named_services keeps or records what a source says of a method. *)
LEMMA MethodAccounted ==
  ASSUME MergeInv, NEW item \in Recoveries, MergeMethod(item)
  PROVE  /\ methodAt'[item.slot].says = item.says \/ Rejected(conflicts', "method", item.slot, item.says)
         /\ ~AlreadyKept(item) \/ methodAt'[item.slot].says = methodAt[item.slot].says
         /\ conflicts \subseteq conflicts' /\ \A c \in conflicts' \ conflicts : c.kept # c.rejected
<1> DEFINE n == item.slot
           known == methodAt[n]
<1>0. n \in Slots /\ DOMAIN methodAt = Slots
  BY ItemTypes DEF MergeInv, KeptTypes, MergeMethod
<1>1. CASE ~AlreadyKept(item)
  <2>1. methodAt' = [methodAt EXCEPT ![n] = Content(item)] /\ UNCHANGED conflicts
    BY <1>1 DEF MergeMethod
  <2>2. Content(item).says = item.says
    BY DEF Content
  <2> QED
    BY <1>0, <1>1, <2>1, <2>2
<1>2. CASE AlreadyKept(item)
  <2>1. /\ methodAt'[n].says = known.says
        /\ conflicts' = conflicts \union Conflict("method", n, known.says, item.says, known.rank, item.rank)
    BY <1>0, <1>2 DEF MergeMethod, MergeInv, KeptTypes
  <2>2. item.says = known.says \/ Rejected(conflicts', "method", n, item.says)
    BY <2>1, ConflictRecords DEF Rejected
  <2> QED
    BY <2>1, <2>2, ConflictRecords
<1> QED
  BY <1>1, <1>2

(* _merge_named_enums keeps or records each value of either side. *)
LEMMA EnumAccounted ==
  ASSUME MergeInv, NEW item \in Recoveries, MergeEnum(item), NEW s \in Slots
  PROVE  /\ item.values[s] # "none" => enumAt'.values[s] = item.values[s] \/ Rejected(conflicts', "enum", s, item.values[s])
         /\ \/ ~AlreadyKept(item) \/ enumAt.values[s] = "none"
            \/ enumAt'.values[s] = enumAt.values[s]
            \/ Rejected(conflicts', "enum", s, enumAt.values[s])
         /\ conflicts \subseteq conflicts' /\ \A c \in conflicts' \ conflicts : c.kept # c.rejected
<1>1. CASE ~AlreadyKept(item)
  BY <1>1 DEF MergeEnum
<1>2. CASE AlreadyKept(item)
  <2> DEFINE wins == item.rank > enumAt.rank
             winner == IF wins THEN item.values ELSE enumAt.values
             other == IF wins THEN enumAt.values ELSE item.values
             rank == Best(enumAt.rank, item.rank)
             Recorded(t) == Conflict("enum", t, winner[t], other[t], rank, item.rank)
             both == {t \in Slots : winner[t] # "none" /\ other[t] # "none"}
  <2>1. enumAt'.values = Overlay(winner, other) /\ conflicts' = conflicts \union UNION {Recorded(t) : t \in both}
    BY <1>2 DEF MergeEnum
  <2>2. enumAt'.values[s] = IF winner[s] # "none" THEN winner[s] ELSE other[s]
    BY <2>1 DEF Overlay
  <2>3. s \in both => winner[s] = other[s] \/ Rejected(conflicts', "enum", s, other[s])
    <3> SUFFICES ASSUME s \in both, winner[s] # other[s] PROVE Rejected(conflicts', "enum", s, other[s])
      OBVIOUS
    <3>1. \E c \in Recorded(s) : c.kind = "enum" /\ c.slot = s /\ c.rejected = other[s]
      BY ConflictRecords
    <3>2. Recorded(s) \subseteq conflicts'
      BY <2>1
    <3> QED
      BY <3>1, <3>2 DEF Rejected
  <2>4. \A c \in conflicts' \ conflicts : c.kept # c.rejected
    <3>1. \A t \in both : \A c \in Recorded(t) : c.kept # c.rejected
      BY ConflictRecords
    <3> HIDE DEF Recorded, both
    <3> QED
      BY <2>1, <3>1
  <2>5. conflicts \subseteq conflicts'
    BY <2>1
  <2>6. CASE wins
    BY <2>2, <2>3, <2>4, <2>5, <2>6
  <2>7. CASE ~wins
    BY <2>2, <2>3, <2>4, <2>5, <2>7
  <2> QED
    BY <2>6, <2>7
<1> QED
  BY <1>1, <1>2

\* Conflicts stay on record, so only a slot that changes could lose something.
LEMMA DroppedStep ==
  ASSUME MergeInv, NEW item \in Recoveries, MergeField(item) \/ MergeMethod(item) \/ MergeEnum(item)
  PROVE  NothingDropped'
<1>0. merged \in Seq(Recoveries) /\ Take(item) /\ KeptTypes
  BY DEF MergeInv, KeptTypes, MergeField, MergeMethod, MergeEnum
<1>1. /\ \A c \in conflicts : c.kept # c.rejected
      /\ \A k \in DOMAIN merged : \A s \in Slots : Accounted(merged[k], s)
  BY ItemByItem DEF MergeInv
<1>2. /\ DOMAIN merged' = DOMAIN merged \union {Newest} /\ merged'[Newest] = item
      /\ \A k \in DOMAIN merged : merged'[k] = merged[k] /\ merged[k] \in Recoveries
  <2>1. \A k \in DOMAIN merged : merged[k] \in Recoveries
    BY <1>0
  <2> QED
    BY <1>0, <2>1, Appended
<1>3. conflicts \subseteq conflicts' /\ \A c \in conflicts' : c.kept # c.rejected
  <2>1. Slots # {} => conflicts \subseteq conflicts' /\ \A c \in conflicts' \ conflicts : c.kept # c.rejected
    BY FieldAccounted, MethodAccounted, EnumAccounted
  <2>2. Slots = {} => conflicts' = conflicts
    BY ItemTypes DEF MergeField, KeepField, MergeMethod, MergeEnum
  <2> QED
    BY <1>1, <2>1, <2>2
<1>4. \A kind, s, x : Rejected(conflicts, kind, s, x) => Rejected(conflicts', kind, s, x)
  BY <1>3 DEF Rejected
<1>5. ASSUME NEW s \in Slots PROVE Accounted(item, s)'
  BY <1>5, FieldAccounted, MethodAccounted, EnumAccounted DEF Accounted, MergeField, KeepField, MergeMethod, MergeEnum
<1>6. ASSUME NEW k \in DOMAIN merged, NEW s \in Slots, NEW past, past = merged[k] PROVE Accounted(past, s)'
  <2>0. Accounted(past, s) /\ past \in Recoveries
    BY <1>1, <1>2, <1>6
  <2>a. Thing(past) = Thing(item) => AlreadyKept(item)
    <3>1. k \in SourcesOf(Thing(past))
      BY <1>6 DEF SourcesOf
    <3> QED
      BY <3>1, KnownHasSource DEF MergeInv
  <2>1. CASE past.kind = "field" /\ past.slot = s
    <3>2. CASE MergeField(item) /\ item.slot = s
      <4>1. AlreadyKept(item)
        BY <2>0, <2>1, <2>a, <3>2, ThingOf DEF MergeField, KeepField
      <4> QED
        BY <1>4, <2>0, <2>1, <3>2, <4>1, FieldAccounted DEF Accounted
    <3>3. CASE ~(MergeField(item) /\ item.slot = s)
      <4>1. fieldAt'[s] = fieldAt[s]
        BY <1>0, <3>3 DEF KeptTypes, MergeField, KeepField, MergeMethod, MergeEnum
      <4> QED
        BY <1>4, <2>0, <2>1, <4>1 DEF Accounted
    <3> QED
      BY <3>2, <3>3
  <2>2. CASE past.kind = "method" /\ past.slot = s
    <3>2. CASE MergeMethod(item) /\ item.slot = s
      <4>1. AlreadyKept(item)
        BY <2>0, <2>2, <2>a, <3>2, ThingOf DEF MergeMethod
      <4> QED
        BY <1>4, <2>0, <2>2, <3>2, <4>1, MethodAccounted DEF Accounted
    <3>3. CASE ~(MergeMethod(item) /\ item.slot = s)
      <4>1. methodAt'[s] = methodAt[s]
        BY <1>0, <3>3 DEF KeptTypes, MergeField, KeepField, MergeMethod, MergeEnum
      <4> QED
        BY <1>4, <2>0, <2>2, <4>1 DEF Accounted
    <3> QED
      BY <3>2, <3>3
  <2>3. CASE past.kind = "enum" /\ past.values[s] # "none"
    <3>2. CASE MergeEnum(item)
      <4>1. AlreadyKept(item)
        BY <2>0, <2>3, <2>a, <3>2, ThingOf DEF MergeEnum
      <4> QED
        BY <1>4, <2>0, <2>3, <3>2, <4>1, EnumAccounted DEF Accounted
    <3>3. CASE ~MergeEnum(item)
      <4>1. enumAt' = enumAt
        BY <3>3 DEF MergeField, KeepField, MergeMethod
      <4> QED
        BY <1>4, <2>0, <2>3, <4>1 DEF Accounted
    <3> QED
      BY <3>2, <3>3
  <2> QED
    BY <2>0, <2>1, <2>2, <2>3 DEF Accounted
<1>7. NothingDropped' <=> (/\ \A c \in conflicts : c.kept # c.rejected
                          /\ \A k \in DOMAIN merged : \A s \in Slots : Accounted(merged[k], s))'
  BY ItemByItem, PTL
<1>8. ASSUME NEW k \in DOMAIN merged', NEW s \in Slots PROVE Accounted(merged[k], s)'
  <2>1. CASE k = Newest
    BY <1>2, <1>5, <2>1 DEF Accounted
  <2>2. CASE k \in DOMAIN merged
    <3>1. PICK past : past = merged[k]
      OBVIOUS
    <3>2. Accounted(past, s)'
      BY <1>6, <2>2, <3>1
    <3> QED
      BY <1>2, <2>2, <3>1, <3>2 DEF Accounted
  <2> QED
    BY <1>2, <2>1, <2>2
<1> QED
  BY <1>3, <1>7, <1>8

(* Every item keeps the types. *)
LEMMA TypeStep ==
  ASSUME MergeInv, NEW item \in Recoveries, MergeField(item) \/ MergeMethod(item) \/ MergeEnum(item)
  PROVE  KeptTypes'
<1>0. merged \in Seq(Recoveries) /\ Take(item) /\ KeptTypes
  BY DEF MergeInv, KeptTypes, MergeField, MergeMethod, MergeEnum
<1>1. merged' \in Seq(Recoveries)
  BY <1>0, Appended
<1>2. CASE MergeField(item)
  BY <1>0, <1>1, <1>2 DEF KeptTypes, MergeField, KeepField
<1>3. CASE MergeMethod(item)
  BY <1>0, <1>1, <1>3 DEF KeptTypes, MergeMethod, Content
<1>4. CASE MergeEnum(item)
  BY <1>0, <1>1, <1>4, ItemTypes DEF KeptTypes, MergeEnum, Overlay
<1> QED
  BY <1>2, <1>3, <1>4

(* Every item keeps the invariant. *)
LEMMA MergeSteps ==
  ASSUME NEW items \in SUBSET Recoveries
  PROVE  MergeInv /\ [MergeNext(items)]_mergeVars => MergeInv'
<1> SUFFICES ASSUME MergeInv, [MergeNext(items)]_mergeVars PROVE MergeInv'
  OBVIOUS
<1>1. CASE UNCHANGED mergeVars
  <2>1. UNCHANGED <<merged, fieldAt, methodAt, enumAt, listOf, lists, cached, conflicts>>
    BY <1>1 DEF mergeVars, kept, evidenceVars
  <2>2. KeptTypes' /\ ListInv'
    BY <2>1 DEF MergeInv, KeptTypes, ListInv, ListsApart, CacheTrue, Evidenced, InList, SourcesOf
  <2>3. FieldsPreferBest' /\ NothingDropped'
    BY <2>1 DEF MergeInv, FieldsPreferBest, Preferred, NothingDropped, SourcesOf
  <2> QED
    BY <2>2, <2>3 DEF MergeInv
<1>2. ASSUME NEW item \in Recoveries, MergeField(item) \/ MergeMethod(item) \/ MergeEnum(item) PROVE MergeInv'
  <2>1. Take(item)
    BY <1>2 DEF MergeField, MergeMethod, MergeEnum
  <2> QED
    BY <1>2, <2>1, TypeStep, FieldStep, ListStep, DroppedStep DEF MergeInv
<1> QED
  BY <1>1, <1>2 DEF MergeNext

(* The invariant holds after any items in any order. *)
LEMMA MergeInvariant ==
  ASSUME NEW CONSTANT items \in SUBSET Recoveries
  PROVE  MergeSpec(items) => []MergeInv
  BY MergeStarts, MergeSteps, PTL DEF MergeSpec

(* However many sources are merged in whatever order, each field number    *)
(* ends with the first of the most confident sources (_merge_fields).      *)
THEOREM BestFieldKept ==
  ASSUME NEW CONSTANT items \in SUBSET Recoveries
  PROVE  MergeSpec(items) => []FieldsPreferBest
<1>1. MergeInv => FieldsPreferBest
  BY DEF MergeInv
<1> QED
  BY MergeInvariant, <1>1, PTL

(* However often what is kept is replaced, of what is compared whatever a  *)
(* source said is in the result or on record as rejected (_record).        *)
THEOREM NothingDisappears ==
  ASSUME NEW CONSTANT items \in SUBSET Recoveries
  PROVE  MergeSpec(items) => []NothingDropped
<1>1. MergeInv => NothingDropped
  BY DEF MergeInv
<1> QED
  BY MergeInvariant, <1>1, PTL

(* The evidence of every source is in the list of what it recovered, once  *)
(* if there were two, and seen_lists holds of each list what is in it, for *)
(* whatever lists are made and given up in between (_merge_unique).        *)
THEOREM EveryoneIsEvidence ==
  ASSUME NEW CONSTANT items \in SUBSET Recoveries
  PROVE  MergeSpec(items) => []EvidenceComplete
<1>1. MergeInv => EvidenceComplete
  BY ListsComplete DEF MergeInv
<1> QED
  BY MergeInvariant, <1>1, PTL

-----------------------------------------------------------------------------
(* OutputNames.                                                            *)

\* `seen` holds the keys of the names given, and of no other.
SeenInv == seen = {Key(names[n]) : n \in DOMAIN names}

NamesInv ==
  /\ \E S : names \in Seq(S)
  /\ SeenInv
  /\ NamesFree

-----------------------------------------------------------------------------
(* A name whose key nobody holds may be added to names without two of them *)
(* sharing a key: the step of _output_names that appends to its result.    *)
LEMMA GiveKeepsFree ==
  ASSUME NEW S, names \in Seq(S), SeenInv, NamesFree,
         NEW name, Key(name) \notin Reserved, Key(name) \notin seen,
         names' = Append(names, name), seen' = seen \union {Key(name)}
  PROVE  NamesInv'
<1> DEFINE T == S \union {name}
<1>1. names \in Seq(T)
  BY DEF T
<1>2. /\ names' \in Seq(T)
      /\ Len(names') = Len(names) + 1
      /\ DOMAIN names' = DOMAIN names \union {Len(names) + 1}
      /\ \A n \in DOMAIN names : names'[n] = names[n]
      /\ names'[Len(names) + 1] = name
      /\ Len(names) + 1 \notin DOMAIN names
  BY <1>1, name \in T
<1> HIDE DEF T
<1>3. SeenInv'
  <2>1. \A n \in DOMAIN names' : Key(names'[n]) \in seen'
    BY <1>2 DEF SeenInv
  <2>2. ASSUME NEW k \in seen' PROVE \E n \in DOMAIN names' : k = Key(names'[n])
    <3>1. CASE k \in seen
      <4>1. PICK n \in DOMAIN names : k = Key(names[n])
        BY <3>1 DEF SeenInv
      <4> QED BY <4>1, <1>2
    <3>2. CASE k = Key(name)
      BY <3>2, <1>2
    <3> QED BY <3>1, <3>2
  <2> QED BY <2>1, <2>2 DEF SeenInv
<1>4. NamesFree'
  <2>1. \A n \in DOMAIN names' : Key(names'[n]) \notin Reserved
    BY <1>2 DEF NamesFree
  <2>2. ASSUME NEW n \in DOMAIN names', NEW m \in DOMAIN names', n # m
        PROVE Key(names'[n]) # Key(names'[m])
    <3>1. \A l \in DOMAIN names : Key(names[l]) # Key(name)
      BY DEF SeenInv
    <3>2. CASE n \in DOMAIN names /\ m \in DOMAIN names
      BY <2>2, <3>2, <1>2 DEF NamesFree
    <3>3. CASE n = Len(names) + 1
      BY <2>2, <3>1, <3>3, <1>2
    <3>4. CASE m = Len(names) + 1
      BY <2>2, <3>1, <3>4, <1>2
    <3> QED BY <2>2, <3>2, <3>3, <3>4, <1>2
  <2> QED BY <2>1, <2>2 DEF NamesFree
<1> QED BY <1>2, <1>3, <1>4 DEF NamesInv

(* The invariant: `seen` is what _output_names tests instead of the names  *)
(* themselves, so it must say exactly which keys they have.                *)
LEMMA NamesInductive == NamesInv /\ [NamesNext]_namesVars => NamesInv'
<1> SUFFICES ASSUME NamesInv, [NamesNext]_namesVars PROVE NamesInv'
  OBVIOUS
<1> USE DEF namesVars
<1>1. CASE Give
  <2>1. PICK S : names \in Seq(S)
    BY DEF NamesInv
  <2>2. Key(Candidate) \notin Reserved /\ Key(Candidate) \notin seen
    BY <1>1 DEF Give, Taken
  <2>3. names' = Append(names, Candidate) /\ seen' = seen \union {Key(Candidate)}
    BY <1>1 DEF Give
  <2> HIDE DEF Candidate
  <2> QED BY <2>1, <2>2, <2>3, GiveKeepsFree DEF NamesInv
<1>2. CASE UNCHANGED <<names, seen>>
  BY <1>2 DEF NamesInv, SeenInv, NamesFree
<1>3. Refuse \/ TryNext \/ Finish \/ UNCHANGED namesVars => UNCHANGED <<names, seen>>
  BY DEF Refuse, TryNext, Finish
<1> QED BY <1>1, <1>2, <1>3 DEF NamesNext

(* No two schemas of an extraction get one file and none gets a file of    *)
(* the report, for any number of schemas: what OutputDirectory assumes of  *)
(* the names of a run (_output_names, _disambiguated_output_name).         *)
THEOREM NamesNeverClash == NamesSpec => []NamesFree
<1>1. NamesInit => NamesInv
  <2> SUFFICES ASSUME NamesInit PROVE NamesInv
    OBVIOUS
  <2>1. names = <<>> /\ seen = {}
    BY DEF NamesInit
  <2>2. names \in Seq({})
    BY <2>1
  <2> QED BY <2>1, <2>2 DEF NamesInv, SeenInv, NamesFree
<1>2. NamesInv => NamesFree
  BY DEF NamesInv
<1> QED BY <1>1, <1>2, NamesInductive, PTL DEF NamesSpec

-----------------------------------------------------------------------------
(* DescriptorFiles.                                                        *)

\* No two files of a sequence have one name.
Distinct(s) == \A k, l \in DOMAIN s : s[k].name = s[l].name => k = l

\* What this pass has still to try.
Rest == {pending[k].name : k \in (tried + 1)..Len(pending)}

\* The set is packed: one file of each name given.
SetOfGiven ==
  /\ files \in Seq(ToSet(given)) /\ ToSet(files) = ToSet(given)
  /\ Distinct(files)
  /\ IsFiniteSet(Names(files))

PassTypes ==
  /\ pending \in Seq(ToSet(files)) /\ deferred \in Seq(ToSet(files))
  /\ tried \in 0..Len(pending)
  /\ Distinct(pending) /\ Distinct(deferred)

\* The pool takes no file before its dependencies.
Founded ==
  /\ pool \subseteq Names(files)
  /\ \A some \in SUBSET Names(files) : Closed(some) => pool \subseteq some

\* What is not in the pool is deferred or still to be tried; and if this pass
\* has added nothing, the pool as it is refuses what is deferred.
Passing ==
  packing = "packed" =>
    /\ Names(files) \ pool = Names(deferred) \union Rest
    /\ Names(deferred) \intersect Rest = {}
    /\ Len(deferred) <= tried
    /\ Len(deferred) = tried => \A k \in DOMAIN deferred : ~(deferred[k].deps \subseteq pool)

Over ==
  /\ packing = "resolved" => pool = Names(files) /\ deferred = <<>>
  /\ packing = "unresolved" =>
       Closed(pool) /\ pool # Names(files) /\ Names(files) \ pool = Names(deferred)

FilesInv ==
  /\ packing \in {"given", "packed", "resolved", "unresolved", "refused"}
  /\ given \in Seq(ToSet(given))
  /\ IF packing \in {"given", "refused"}
     THEN files = <<>> /\ pool = {} /\ pending = <<>> /\ tried = 0 /\ deferred = <<>>
     ELSE SetOfGiven /\ PassTypes /\ Founded /\ Passing /\ Over

(* A sequence of files of different names is no longer than the set their  *)
(* names are from.                                                         *)
LEMMA DistinctFit ==
  ASSUME NEW S, NEW s \in Seq(S), Distinct(s), NEW T, IsFiniteSet(T), Names(s) \subseteq T
  PROVE  Len(s) <= Cardinality(T)
<1> DEFINE f == [k \in 1..Len(s) |-> s[k].name]
<1>1. f \in Injection(1..Len(s), T)
  BY DEF Injection, IsInjective, Distinct, Names
<1>2. Cardinality(1..Len(s)) <= Cardinality(T)
  BY <1>1, FS_Injection
<1>3. Len(s) \in Nat /\ (1 > Len(s) => Len(s) = 0)
  OBVIOUS
<1>4. Cardinality(1..Len(s)) = Len(s)
  BY <1>3, FS_Interval
<1>5. QED
  BY <1>2, <1>4

(* The names of a sequence of files are finitely many. *)
LEMMA NamesFinite == ASSUME NEW S, NEW s \in Seq(S) PROVE IsFiniteSet(Names(s)) /\ Cardinality(Names(s)) \in Nat
<1> DEFINE f == [k \in 1..Len(s) |-> s[k].name]
<1>1. f \in Surjection(1..Len(s), Names(s))
  BY DEF Surjection, Names
<1>2. IsFiniteSet(1..Len(s))
  BY FS_Interval, Len(s) \in Nat
<1>3. IsFiniteSet(Names(s))
  BY <1>1, <1>2, FS_Surjection
<1>4. QED
  BY <1>3, FS_CardinalityType

(* Packing leaves one file of each name, whatever was given twice. *)
LEMMA PackStep == ASSUME FilesInv, Pack PROVE FilesInv'
<1>1. /\ packing = "given" /\ given \in Seq(ToSet(given)) /\ Consistent(given)
      /\ pool = {} /\ tried = 0 /\ deferred = <<>>
      /\ given' = given /\ pool' = {} /\ tried' = 0 /\ deferred' = <<>>
      /\ pending' = files' /\ packing' = "packed"
  BY DEF FilesInv, Pack, Packable
<1>2. IsFiniteSet(Names(given)) /\ Cardinality(Names(given)) \in Nat
  BY <1>1, NamesFinite
<1>3. /\ files' \in [1..Cardinality(Names(given)) -> ToSet(given)]
      /\ Names(files') = Names(given)
      /\ \A k, l \in DOMAIN files' : k < l => Precedes(files'[k].name, files'[l].name)
  BY DEF Pack
<1>4. files' \in Seq(ToSet(given)) /\ DOMAIN files' = 1..Len(files') /\ Len(files') \in Nat
  BY <1>2, <1>3
<1>5. Distinct(files')
  <2>1. \A name : ~Precedes(name, name)
    BY FileNamesAssumption DEF Precedes, IsInjective
  <2>2. QED
    BY <1>3, <1>4, <2>1 DEF Distinct
<1>6. ToSet(files') = ToSet(given)
  <2>1. ASSUME NEW file \in ToSet(given) PROVE file \in ToSet(files')
    <3>1. file.name \in Names(files')
      BY <1>3 DEF ToSet, Names
    <3>2. PICK k \in DOMAIN files' : files'[k].name = file.name
      BY <3>1 DEF Names
    <3>3. files'[k] \in ToSet(given)
      BY <1>3
    <3>4. files'[k] = file
      BY <1>1, <3>2, <3>3 DEF Consistent, ToSet
    <3>5. QED
      BY <3>4 DEF ToSet
  <2>2. ToSet(files') \subseteq ToSet(given)
    BY <1>3 DEF ToSet
  <2>3. QED
    BY <2>1, <2>2
<1>7. files' \in Seq(ToSet(files'))
  BY <1>4, <1>6
<1>8. Rest' = Names(files') /\ Names(deferred') = {}
  BY <1>1, <1>4 DEF Rest, Names
<1>9. SetOfGiven'
  BY <1>1, <1>2, <1>3, <1>4, <1>5, <1>6 DEF SetOfGiven
<1>10. PassTypes'
  BY <1>1, <1>4, <1>5, <1>7 DEF PassTypes, Distinct
<1>11. Passing'
  BY <1>1, <1>8 DEF Passing
<1>12. Founded' /\ Over'
  BY <1>1 DEF Founded, Over
<1>13. QED
  BY <1>1, <1>9, <1>10, <1>11, <1>12 DEF FilesInv

(* A file is added if the pool has what it depends on, and put off if not. *)
LEMMA TryFileStep == ASSUME FilesInv, TryFile PROVE FilesInv'
<1> DEFINE file == pending[tried + 1]
<1>1. /\ packing = "packed" /\ given \in Seq(ToSet(given)) /\ tried < Len(pending)
      /\ SetOfGiven /\ PassTypes /\ Founded /\ Passing
      /\ tried' = tried + 1 /\ UNCHANGED <<given, files, pending, packing>>
  BY DEF TryFile, FilesInv
<1>2. /\ pending \in Seq(ToSet(files)) /\ deferred \in Seq(ToSet(files))
      /\ tried \in Nat /\ Len(pending) \in Nat /\ tried + 1 \in DOMAIN pending
      /\ DOMAIN pending = 1..Len(pending) /\ DOMAIN deferred = 1..Len(deferred) /\ Len(deferred) \in Nat
  BY <1>1 DEF PassTypes
<1>3. file \in ToSet(files) /\ file.name \in Names(files)
  BY <1>2 DEF ToSet, Names
<1>4. Rest = {file.name} \union Rest' /\ file.name \notin Rest'
  <2>1. (tried + 1)..Len(pending) = {tried + 1} \union (tried + 2)..Len(pending)
    BY <1>1, <1>2
  <2>2. Rest' = {pending[k].name : k \in (tried + 2)..Len(pending)}
    BY <1>1, <1>2 DEF Rest
  <2>3. Rest = {file.name} \union Rest'
    BY <2>1, <2>2 DEF Rest
  <2>4. \A k \in (tried + 2)..Len(pending) : k \in DOMAIN pending /\ k # tried + 1
    BY <1>2
  <2>5. file.name \notin Rest'
    BY <1>1, <1>2, <2>2, <2>4 DEF PassTypes, Distinct
  <2>6. QED
    BY <2>3, <2>5
<1>5. /\ Names(files) \ pool = Names(deferred) \union Rest /\ Names(deferred) \intersect Rest = {}
      /\ Len(deferred) <= tried
      /\ Len(deferred) = tried => \A k \in DOMAIN deferred : ~(deferred[k].deps \subseteq pool)
  BY <1>1 DEF Passing
<1>6. SetOfGiven' /\ Over'
  BY <1>1 DEF SetOfGiven, Over
<1> HIDE DEF file
<1>7. CASE file.deps \subseteq pool
  <2>1. pool' = pool \union {file.name} /\ deferred' = deferred
    BY <1>7 DEF TryFile, file
  <2>2. PassTypes'
    BY <1>1, <1>2, <2>1 DEF PassTypes
  <2>3. Founded'
    <3>1. ASSUME NEW some \in SUBSET Names(files), Closed(some) PROVE file.name \in some
      <4>1. file.deps \subseteq some
        BY <1>1, <1>7, <3>1 DEF Founded
      <4>2. PICK k \in DOMAIN files : files[k] = file
        BY <1>3 DEF ToSet
      <4>3. QED
        BY <3>1, <4>1, <4>2 DEF Closed
    <3>2. \A some : Closed(some)' <=> Closed(some)
      BY <1>1 DEF Closed
    <3>3. QED
      BY <1>1, <1>3, <2>1, <3>1, <3>2 DEF Founded
  <2>4. Names(files) \ pool' = Names(deferred) \union Rest' /\ Names(deferred) \intersect Rest' = {}
    BY <1>3, <1>4, <1>5, <2>1
  <2>5. Len(deferred) <= tried + 1 /\ Len(deferred) # tried + 1
    <3>1. Len(deferred) <= tried
      BY <1>5
    <3>2. Len(deferred) \in Nat /\ tried \in Nat
      BY <1>2
    <3>3. QED
      BY <3>1, <3>2
  <2>6. Passing'
    BY <1>1, <2>1, <2>4, <2>5 DEF Passing
  <2>7. QED
    BY <1>1, <1>6, <2>2, <2>3, <2>6 DEF FilesInv
<1>8. CASE ~(file.deps \subseteq pool)
  <2>1. pool' = pool /\ deferred' = Append(deferred, file)
    BY <1>8 DEF TryFile, file
  <2>2. /\ deferred' \in Seq(ToSet(files)) /\ Len(deferred') = Len(deferred) + 1
        /\ DOMAIN deferred' = DOMAIN deferred \union {Len(deferred) + 1}
        /\ \A k \in DOMAIN deferred : deferred'[k] = deferred[k]
        /\ deferred'[Len(deferred) + 1] = file /\ Len(deferred) + 1 \notin DOMAIN deferred
    BY <1>2, <1>3, <2>1
  <2>3. Names(deferred') = Names(deferred) \union {file.name}
    BY <2>2 DEF Names
  <2>4. file.name \notin Names(deferred)
    BY <1>4, <1>5
  <2>5. Distinct(deferred')
    BY <1>1, <2>2, <2>4 DEF PassTypes, Distinct, Names
  <2>6. PassTypes'
    BY <1>1, <1>2, <2>2, <2>5 DEF PassTypes
  <2>7. Founded'
    BY <1>1, <2>1 DEF Founded, Closed
  <2>8. Names(files) \ pool = Names(deferred') \union Rest' /\ Names(deferred') \intersect Rest' = {}
    BY <1>4, <1>5, <2>3
  <2>9. Len(deferred') <= tried + 1 /\ (Len(deferred') = tried + 1 => Len(deferred) = tried)
    <3>1. Len(deferred) <= tried
      BY <1>5
    <3>2. Len(deferred') = Len(deferred) + 1
      BY <2>2
    <3>3. Len(deferred) \in Nat /\ tried \in Nat
      BY <1>2
    <3>4. QED
      BY <3>1, <3>2, <3>3
  <2>10. Len(deferred') = tried + 1 => \A k \in DOMAIN deferred' : ~(deferred'[k].deps \subseteq pool)
    BY <1>5, <1>8, <2>2, <2>9
  <2>11. Passing'
    BY <1>1, <2>1, <2>8, <2>9, <2>10 DEF Passing
  <2>12. QED
    BY <1>1, <1>6, <2>6, <2>7, <2>11 DEF FilesInv
<1>9. QED
  BY <1>7, <1>8

(* A pass that added nothing leaves a pool that is closed; after any other *)
(* the files put off are tried again.                                      *)
LEMMA EndPassStep == ASSUME FilesInv, EndPass PROVE FilesInv'
<1>1. /\ packing = "packed" /\ given \in Seq(ToSet(given)) /\ tried = Len(pending)
      /\ SetOfGiven /\ PassTypes /\ Founded /\ Passing
      /\ tried' = 0 /\ UNCHANGED <<given, files, pool>>
  BY DEF EndPass, FilesInv
<1>2. /\ pending \in Seq(ToSet(files)) /\ deferred \in Seq(ToSet(files))
      /\ DOMAIN deferred = 1..Len(deferred) /\ Len(deferred) \in Nat /\ Len(pending) \in Nat
  BY <1>1 DEF PassTypes
<1>3. Rest = {}
  BY <1>1, <1>2 DEF Rest
<1>4. /\ Names(files) \ pool = Names(deferred)
      /\ Len(deferred) = tried => \A k \in DOMAIN deferred : ~(deferred[k].deps \subseteq pool)
  BY <1>1, <1>3 DEF Passing
<1>5. SetOfGiven'
  BY <1>1 DEF SetOfGiven
<1>6. Founded'
  BY <1>1 DEF Founded, Closed
<1>7. CASE Stuck
  <2>1. /\ packing' = "unresolved" /\ pending' = pending /\ deferred' = deferred
        /\ Len(deferred) = Len(pending) /\ Len(pending) # 0
    BY <1>2, <1>7 DEF EndPass, Stuck
  <2>2. ASSUME NEW k \in DOMAIN files, files[k].deps \subseteq pool PROVE files[k].name \in pool
    <3>1. SUFFICES ASSUME files[k].name \notin pool PROVE FALSE
      OBVIOUS
    <3>2. files[k].name \in Names(deferred)
      BY <1>4, <3>1 DEF Names
    <3>3. PICK m \in DOMAIN deferred : deferred[m].name = files[k].name
      BY <3>2 DEF Names
    <3>4. PICK l \in DOMAIN files : files[l] = deferred[m]
      BY <1>2 DEF ToSet
    <3>5. l = k
      BY <1>1, <3>3, <3>4 DEF SetOfGiven, Distinct
    <3>6. QED
      BY <1>1, <1>4, <2>1, <2>2, <3>4, <3>5
  <2>3. Closed(pool)
    BY <2>2 DEF Closed
  <2>4. pool # Names(files)
    <3>1. 1 \in DOMAIN deferred
      BY <1>2, <2>1
    <3>2. deferred[1].name \in Names(deferred)
      BY <3>1 DEF Names
    <3>3. QED
      BY <1>4, <3>2
  <2>5. Closed(pool)'
    BY <1>1, <2>3 DEF Closed
  <2>6. Over' /\ Passing'
    BY <1>1, <1>4, <2>1, <2>4, <2>5 DEF Over, Passing
  <2>7. PassTypes'
    BY <1>1, <1>2, <2>1 DEF PassTypes
  <2>8. QED
    BY <1>1, <1>5, <1>6, <2>1, <2>6, <2>7 DEF FilesInv
<1>8. CASE ~Stuck
  <2>1. /\ packing' = IF deferred = <<>> THEN "resolved" ELSE "packed"
        /\ pending' = deferred /\ deferred' = <<>>
    BY <1>8 DEF EndPass
  <2>2. PassTypes'
    BY <1>1, <1>2, <2>1 DEF PassTypes, Distinct
  <2>3. Rest' = Names(deferred) /\ Names(deferred') = {}
    BY <1>1, <1>2, <2>1 DEF Rest, Names
  <2>4. Passing'
    BY <1>1, <1>4, <2>1, <2>3 DEF Passing
  <2>5. deferred = <<>> => Names(deferred) = {}
    BY DEF Names
  <2>6. Over'
    BY <1>1, <1>4, <2>1, <2>5 DEF Over, Founded
  <2>7. QED
    BY <1>1, <1>5, <1>6, <2>1, <2>2, <2>4, <2>6 DEF FilesInv
<1>9. QED
  BY <1>7, <1>8

(* What is packed and read back keeps FilesInv, from any descriptors. *)
LEMMA FilesInvariant ==
  ASSUME NEW CONSTANT inputs, \A input \in inputs : input \in Seq(ToSet(input))
  PROVE  FilesSpec(inputs) => []FilesInv
<1>1. FilesInit(inputs) => FilesInv
  BY DEF FilesInit, FilesInv
<1>2. ASSUME FilesInv, [FilesNext]_filesVars PROVE FilesInv'
  <2>1. CASE RefuseFiles
    BY <1>2, <2>1 DEF RefuseFiles, FilesInv
  <2>2. CASE UNCHANGED filesVars
    <3>1. UNCHANGED <<given, files, pool, pending, tried, deferred, packing>>
      BY <2>2 DEF filesVars
    <3>2. (SetOfGiven <=> SetOfGiven') /\ (PassTypes <=> PassTypes') /\ (Founded <=> Founded')
      BY <3>1 DEF SetOfGiven, PassTypes, Founded, Closed
    <3>3. (Passing <=> Passing') /\ (Over <=> Over')
      BY <3>1 DEF Passing, Rest, Over, Closed
    <3>4. QED
      BY <1>2, <3>1, <3>2, <3>3 DEF FilesInv
  <2>3. QED
    BY <1>2, <2>1, <2>2, PackStep, TryFileStep, EndPassStep DEF FilesNext
<1>3. QED
  BY <1>1, <1>2, PTL DEF FilesSpec

(* For any descriptors in any order: the pool ends with every file whose   *)
(* dependencies can be met, and the round trip gives up only if there is   *)
(* another; the set is what was given; and no file is lost between the     *)
(* passes (emit_descriptor_set, roundtrip_descriptor_set).                 *)
THEOREM OrderDecidesNothing ==
  ASSUME NEW CONSTANT inputs, \A input \in inputs : input \in Seq(ToSet(input))
  PROVE  FilesSpec(inputs) => []FilesResolved
<1>1. FilesInv => FilesResolved
  <2> SUFFICES ASSUME FilesInv PROVE FilesResolved
    OBVIOUS
  <2>1. CASE packing \in {"given", "refused"}
    <3>1. files = <<>> /\ deferred = <<>> /\ pool = {}
      BY <2>1 DEF FilesInv
    <3>2. Names(files) \ pool = {} /\ Len(deferred) = 0
      BY <3>1 DEF Names
    <3>3. QED
      BY <2>1, <3>2, FS_EmptySet DEF FilesResolved
  <2>2. CASE packing \notin {"given", "refused"}
    <3>1. SetOfGiven /\ PassTypes /\ Founded /\ Passing /\ Over
      BY <2>2 DEF FilesInv
    <3>2. packing \in {"packed", "resolved", "unresolved"}
      BY <2>2 DEF FilesInv
    <3>3. Names(deferred) \subseteq Names(files) \ pool
      BY <3>1, <3>2 DEF Passing, Over, Names
    <3>4. IsFiniteSet(Names(files) \ pool)
      BY <3>1, FS_Subset DEF SetOfGiven
    <3>5. Len(deferred) <= Cardinality(Names(files) \ pool)
      BY <3>1, <3>3, <3>4, DistinctFit DEF PassTypes
    <3>6. packing \in {"resolved", "unresolved"} => pool = Grounded
      BY <3>1 DEF Over, Founded, Grounded
    <3>7. packing \in {"resolved", "unresolved"} => (packing = "resolved" <=> pool = Names(files))
      BY <3>1 DEF Over
    <3>8. ToSet(files) = ToSet(given) /\ IsInjective(files)
      BY <3>1 DEF SetOfGiven, Distinct, IsInjective
    <3>9. QED
      BY <3>5, <3>6, <3>7, <3>8 DEF FilesResolved
  <2>3. QED
    BY <2>1, <2>2
<1>2. QED
  BY <1>1, FilesInvariant, PTL
=============================================================================
