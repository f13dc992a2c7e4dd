----------------------------- MODULE ProtoNames -----------------------------
(***************************************************************************)
(* emit/proto.py: the names that declarations, fields and enum values get, *)
(* so that protoc accepts them.                                            *)
(*                                                                         *)
(* A name is a record: its words; its form ("plain", "upper", "prefixed"   *)
(* with its enum's name, "odd" with a character that _name replaces,       *)
(* "unspecified", the words in capitals with _UNSPECIFIED, or "lowered",   *)
(* that in small letters); and the numbers put behind it.                  *)
(***************************************************************************)
EXTENDS Naturals, Sequences, FiniteSets, SequencesExt

\* _name: another name may be cleaned to the same.
Clean(name) == IF name.form = "odd" THEN [name EXCEPT !.form = "plain"] ELSE name
Suffixed(name, n) == [name EXCEPT !.numbers = Append(@, n)]

\* _fold_key: in capitals, without underscores and the name of the enum.
FoldKey(name) ==
  [name EXCEPT !.form = IF @ \in {"unspecified", "lowered"} THEN "unspecified" ELSE "plain"]

\* The first suffix from 2 on that makes a name which is not used and does not
\* fold to one of folds; at most one number is lost to each of either.
FirstFree(name, used, folds) ==
  LET Free(n) == Suffixed(name, n) \notin used /\ FoldKey(Suffixed(name, n)) \notin folds
  IN Suffixed(name, CHOOSE n \in 2..(Cardinality(used) + Cardinality(folds) + 2) :
                      Free(n) /\ \A m \in 2..(n - 1) : ~Free(m))

CleanNames(values, reserved) == [k \in DOMAIN values |-> Clean(values[k])]   \* mutant: not made unique

\* _unique_names, a value at a time.
Named(value, used) == IF Clean(value) \in used THEN FirstFree(Clean(value), used, {}) ELSE Clean(value)
UniqueNames(values, reserved) ==
  LET names[k \in 0..Len(values)] ==
        IF k = 0 THEN <<>> ELSE Append(names[k - 1], Named(values[k], reserved \union ToSet(names[k - 1])))
  IN names[Len(values)]

NamesOf(items) == [k \in DOMAIN items |-> items[k].name]

\* _declaration_names: the messages and enums of a scope share its names.
DeclarationNames(messages, enums) ==
  LET all == UniqueNames(NamesOf(messages) \o NamesOf(enums), {})
  IN [messages |-> SubSeq(all, 1, Len(messages)), enums |-> SubSeq(all, Len(messages) + 1, Len(all))]

\* _message_body: the oneofs of a message share the names of its fields.
MemberNames(fields, oneofs) ==
  LET names == UniqueNames(fields, {}) IN names \o UniqueNames(oneofs, ToSet(names))

-----------------------------------------------------------------------------
\* _defold_enum_values, a value at a time: a value that protoc folds to the
\* same as one before, with another number, gets a suffix.
Alike(names, name) == {k \in DOMAIN names : FoldKey(names[k]) = FoldKey(name)}
Unfolded(names, numbers, name, number, reserved) ==
  IF \A k \in Alike(names, name) : numbers[k] = number THEN name
  ELSE FirstFree(name, reserved, {FoldKey(names[k]) : k \in DOMAIN names})
Defold(given, numbers, reserved) ==
  LET names[k \in 0..Len(given)] ==
        IF k = 0 THEN <<>>
        ELSE Append(names[k - 1], Unfolded(names[k - 1], numbers, given[k], numbers[k], reserved))
  IN names[Len(given)]

\* _enum: its values, the synthetic zero first where one is needed.
NeedsZero(enum, proto3) == enum.values = <<>> \/ (proto3 /\ enum.values[1].number # 0)
EnumValues(enum, name, scope, proto3) ==
  LET numbers == [k \in DOMAIN enum.values |-> enum.values[k].number]
      unspecified == UniqueNames(<<[name EXCEPT !.form = "unspecified"]>>, scope \union {name})
      synthetic == IF NeedsZero(enum, proto3) THEN unspecified ELSE <<>>
      reserved == scope \union {name} \union ToSet(synthetic)
      names == Defold(UniqueNames(NamesOf(enum.values), reserved), numbers, reserved)
  IN [k \in DOMAIN synthetic |-> [name |-> synthetic[k], number |-> 0]]
     \o [k \in DOMAIN names |-> [name |-> names[k], number |-> numbers[k]]]

\* No value is the zero put first in small letters.
ZeroApart(enum, proto3) == NeedsZero(enum, proto3) => \A k \in DOMAIN enum.values : enum.values[k].name.form # "lowered"

\* protoc takes values that fold together for one, which has one number.
FoldOne(values) ==
  \A v, w \in DOMAIN values :
    FoldKey(values[v].name) = FoldKey(values[w].name) => values[v].number = values[w].number
=============================================================================
