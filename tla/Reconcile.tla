----------------------------- MODULE Reconcile -----------------------------
(***************************************************************************)
(* reconcile.reconcile: several recoveries of one schema are merged, in    *)
(* the order they were made, into one.  The module follows the merge of    *)
(* one identity (package, name); recoveries of other identities meet it    *)
(* only in seen_lists.  What the merge treats separately is an item: a     *)
(* field at a number, an rpc method with a name, an enum with all its      *)
(* values.                                                                 *)
(*                                                                         *)
(* What an item says is one value, standing for the attributes that are    *)
(* compared (of a field _merge_fields names seven, of a method its two     *)
(* types); `flags` stands for those that are not and of which the loser's  *)
(* are lost without a record: streaming, proto3_optional, is_group,        *)
(* type_is_enum.  Confidences are their ranks.  An evidence list counts    *)
(* what is in it and has an address, its id(), which is free again when    *)
(* nothing holds the list.                                                 *)
(***************************************************************************)
EXTENDS Naturals, Sequences

CONSTANTS
  Contents,     \* what a field, a method or an enum value may say
  Slots,        \* field numbers, method names and enum value numbers
  Ranks,        \* of the confidences, SPECULATIVE = 0 .. CERTAIN = 3
  Places,       \* what evidence may name
  MaxMerges     \* bound on the items merged

ASSUME ReconcileAssumption ==
  /\ "none" \notin Contents
  /\ Ranks \subseteq Nat
  /\ MaxMerges \in Nat

Lists == 1..MaxMerges   \* addresses: one merge makes at most one list that stays
NoList == 0
Counts == [Places -> Nat]
Maybe == Contents \union {"none"}
Single ==
  [kind : {"field", "method"}, slot : Slots, says : Contents, flags : BOOLEAN, rank : Ranks, evidence : Counts]
EnumItem == [kind : {"enum"}, values : [Slots -> Maybe], rank : Ranks, evidence : Counts]
Recoveries == Single \union EnumItem

\* What has an evidence list.
Things == ({"field", "method"} \X Slots) \union {<<"enum", 0>>}
Thing(item) == IF item.kind = "enum" THEN <<"enum", 0>> ELSE <<item.kind, item.slot>>

VARIABLES
  merged,      \* the items merged so far, in order; source k is the k-th
  fieldAt,     \* [Slots -> the field kept at a number]
  methodAt,    \* [Slots -> the method kept under a name]
  enumAt,      \* the enum: its values and rank
  listOf,      \* [Things -> address of its evidence list, or NoList if there is no such thing]
  lists,       \* [Lists -> how often each place is in the list]
  cached,      \* seen_lists: a function on some addresses, to the places held to be in the list
  conflicts    \* the Conflict records made

kept == <<fieldAt, methodAt, enumAt>>
evidenceVars == <<listOf, lists, cached>>
mergeVars == <<merged, kept, evidenceVars, conflicts>>

Absent == [says |-> "none", flags |-> FALSE, rank |-> 0]

MergeInit ==
  /\ merged = <<>>
  /\ fieldAt = [s \in Slots |-> Absent]
  /\ methodAt = [s \in Slots |-> Absent]
  /\ enumAt = [values |-> [s \in Slots |-> "none"], rank |-> 0]
  /\ listOf = [x \in Things |-> NoList]
  /\ lists = [l \in Lists |-> [p \in Places |-> 0]]
  /\ cached = [l \in {} |-> {}]
  /\ conflicts = {}

-----------------------------------------------------------------------------
Best(first, second) == IF first >= second THEN first ELSE second
Content(item) == [says |-> item.says, flags |-> item.flags, rank |-> item.rank]
AlreadyKept(item) == listOf[Thing(item)] # NoList

\* _record, for two contents that differ.
Conflict(kind, slot, winner, loser, winnerRank, loserRank) ==
  IF winner = loser THEN {}
  ELSE {[kind |-> kind, slot |-> slot, kept |-> winner, rejected |-> loser,
         keptRank |-> winnerRank, rejectedRank |-> loserRank]}

InList(l) == {p \in Places : lists[l][p] > 0}
Evidence(item) == {p \in Places : item.evidence[p] > 0}

\* What _merge_unique takes to be in a list: the cached set, or at its first
\* look at the list what is in it.
Seen(l) == IF l \in DOMAIN cached THEN cached[l] ELSE InList(l)

\* The list it leaves: no duplicates after the first look, and what was new.
Extended(l, item) ==
  [p \in Places |->
     IF p \in Evidence(item) \ Seen(l) THEN lists[l][p] + 1
     ELSE IF l \in DOMAIN cached THEN lists[l][p]
     ELSE IF p \in InList(l) THEN 1 ELSE 0]

Cache(l, item) ==
  cached' = [m \in DOMAIN cached \union {l} |->
               IF m = l THEN Seen(l) \union Evidence(item) ELSE cached[m]]

\* An address that nothing holds, the lowest.
Unheld(l) ==
  LET held == {listOf[x] : x \in Things}
  IN l \in Lists \ held /\ \A m \in Lists \ held : l <= m

\* deepcopy of a new item brings its own list, as it is; the evidence of a
\* known one goes into the list there is.
TakeEvidence(item) ==
  \/ /\ ~AlreadyKept(item)
     /\ \E l \in Lists : /\ Unheld(l)
                         /\ listOf' = [listOf EXCEPT ![Thing(item)] = l]
                         /\ lists' = [lists EXCEPT ![l] = item.evidence]
     /\ UNCHANGED cached
  \/ /\ AlreadyKept(item)
     /\ LET l == listOf[Thing(item)]
        IN lists' = [lists EXCEPT ![l] = Extended(l, item)] /\ Cache(l, item)
     /\ UNCHANGED listOf

Take(item) == merged' = Append(merged, item) /\ TakeEvidence(item)

\* The body of _merge_fields but for the evidence.
KeepField(item, wins) ==
  LET known == fieldAt[item.slot]
      winner == IF wins THEN Content(item) ELSE known
      loser == IF wins THEN known ELSE Content(item)
  IN /\ item.kind = "field"
     /\ IF AlreadyKept(item)
        THEN /\ fieldAt' = [fieldAt EXCEPT ![item.slot] = winner]
             /\ conflicts' = conflicts \union
                  Conflict("field", item.slot, winner.says, loser.says, winner.rank, loser.rank)
        ELSE fieldAt' = [fieldAt EXCEPT ![item.slot] = Content(item)] /\ UNCHANGED conflicts
     /\ UNCHANGED <<methodAt, enumAt>>

MergeFieldLatest(item) ==   \* mutant: the later field wins a tie
  KeepField(item, item.rank >= fieldAt[item.slot].rank) /\ Take(item)

MergeFieldCopied(item) ==   \* mutant: the replacement gets a copy of the list
  LET wins == item.kind = "field" /\ AlreadyKept(item) /\ item.rank > fieldAt[item.slot].rank
      l == listOf[Thing(item)]
  IN /\ item.kind = "field"
     /\ KeepField(item, item.rank > fieldAt[item.slot].rank)
     /\ \/ ~wins /\ Take(item)
        \/ /\ wins
           /\ \E m \in Lists : /\ Unheld(m)
                               /\ listOf' = [listOf EXCEPT ![Thing(item)] = m]
                               /\ lists' = [lists EXCEPT ![m] = Extended(l, item)]
           /\ Cache(l, item) /\ merged' = Append(merged, item)

\* The field with the higher rank wins, the first on a tie; the list stays.
MergeField(item) ==
  KeepField(item, item.rank > fieldAt[item.slot].rank) /\ Take(item)

\* The body of _merge_named_services: the first signature stays, the rank rises.
MergeMethod(item) ==
  LET known == methodAt[item.slot]
  IN /\ item.kind = "method"
     /\ IF AlreadyKept(item)
        THEN /\ methodAt' = [methodAt EXCEPT ![item.slot] = [known EXCEPT !.rank = Best(@, item.rank)]]
             /\ conflicts' = conflicts \union
                  Conflict("method", item.slot, known.says, item.says, known.rank, item.rank)
        ELSE methodAt' = [methodAt EXCEPT ![item.slot] = Content(item)] /\ UNCHANGED conflicts
     /\ Take(item) /\ UNCHANGED <<fieldAt, enumAt>>

OverlayNothing(winner, other) == winner   \* mutant: the loser's own values are forgotten

\* Values of the enum with the higher rank, then those only the other has.
Overlay(winner, other) == [s \in Slots |-> IF winner[s] # "none" THEN winner[s] ELSE other[s]]

\* The body of _merge_named_enums; both ranks recorded are read after the update.
MergeEnum(item) ==
  LET wins == item.rank > enumAt.rank
      winner == IF wins THEN item.values ELSE enumAt.values
      other == IF wins THEN enumAt.values ELSE item.values
      rank == Best(enumAt.rank, item.rank)
  IN /\ item.kind = "enum"
     /\ IF AlreadyKept(item)
        THEN /\ enumAt' = [values |-> Overlay(winner, other), rank |-> rank]
             /\ conflicts' = conflicts \union UNION
                  {Conflict("enum", s, winner[s], other[s], rank, item.rank) :
                     s \in {t \in Slots : winner[t] # "none" /\ other[t] # "none"}}
        ELSE enumAt' = [values |-> item.values, rank |-> item.rank] /\ UNCHANGED conflicts
     /\ Take(item) /\ UNCHANGED <<fieldAt, methodAt>>

MergeNext(items) ==
  /\ Len(merged) < MaxMerges
  /\ \E item \in items : MergeField(item) \/ MergeMethod(item) \/ MergeEnum(item)

MergeSpec(items) == MergeInit /\ [][MergeNext(items)]_mergeVars

-----------------------------------------------------------------------------
SourcesOf(x) == {k \in DOMAIN merged : Thing(merged[k]) = x}

\* The source a reader of the documentation would choose: the first of the best.
Preferred(k, from) ==
  /\ k \in from
  /\ \A j \in from : merged[j].rank <= merged[k].rank /\ (merged[j].rank = merged[k].rank => k <= j)

(* Fields do not depend on how many sources came in between or in which    *)
(* order: each number keeps what the first source of the highest           *)
(* confidence says, whole, with its confidence (_merge_fields and          *)
(* _ordered, folded over any number of sources).                           *)
FieldsPreferBest ==
  \A s \in Slots : LET from == SourcesOf(<<"field", s>>) IN
    IF from = {} THEN fieldAt[s] = Absent
    ELSE \E k \in from : Preferred(k, from) /\ fieldAt[s] = Content(merged[k])

(* No recovery disappears silently: of what is compared, whatever a source *)
(* said is in the result or is the rejected side of a recorded conflict,   *)
(* also when the value that beat it was replaced later; and what is        *)
(* recorded as a conflict is one (_record in all three merges).            *)
NothingDropped ==
  /\ \A c \in conflicts : c.kept # c.rejected
  /\ \A k \in DOMAIN merged : \A s \in Slots :
    LET item == merged[k]
        Rejected(kind, content) ==
          \E c \in conflicts : c.kind = kind /\ c.slot = s /\ c.rejected = content
    IN CASE item.kind = "field" /\ item.slot = s -> fieldAt[s].says = item.says \/ Rejected("field", item.says)
         [] item.kind = "method" /\ item.slot = s -> methodAt[s].says = item.says \/ Rejected("method", item.says)
         [] item.kind = "enum" /\ item.values[s] # "none" ->
              enumAt.values[s] = item.values[s] \/ Rejected("enum", item.values[s])
         [] OTHER -> TRUE

(* The evidence of every source is in the list, whichever side of a        *)
(* conflict it was on, and once only as soon as two were merged; what is   *)
(* remembered of a list under its id() is what is in it, also after other  *)
(* lists came and went (_merge_unique and its seen_lists).                 *)
EvidenceComplete ==
  \A x \in Things : LET from == SourcesOf(x)
                        l == listOf[x]
                    IN from # {} =>
    /\ InList(l) = UNION {Evidence(merged[k]) : k \in from}
    /\ (\E j, k \in from : j # k) => \A p \in Places : lists[l][p] <= 1
    /\ l \in DOMAIN cached => cached[l] = InList(l)
=============================================================================
