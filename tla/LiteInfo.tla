------------------------------ MODULE LiteInfo ------------------------------
(***************************************************************************)
(* decode/infostring.py and decode/lite.py: what protobuf-lite's generator *)
(* wrote for a message -- the characters of its info string and the array  *)
(* of objects -- is decoded back to fields with numbers, names and types.  *)
(*                                                                         *)
(* A source field is [number, kind, oneof, presence, name, class]: its     *)
(* kind is a key of TypeIds, its oneof an index or Alone, its class what   *)
(* a message or enum field is about.  An object is [kind, value]; a static *)
(* field is a "verifier" if it is an INSTANCE, an "entry" if it holds that *)
(* of a map, and else a "static_field": of verifiers that R8 merged into   *)
(* one class all but one are called INSTANCE$n.                            *)
(***************************************************************************)
EXTENDS Integers, Sequences, FiniteSets, SequencesExt, FiniteSetsExt

CONSTANTS
  MaxInt,       \* the largest integer accepted: 2^32 - 1 in the code
  Damages,      \* what happens to the characters: [at, by]
  Obscured,     \* indexes of objects that say nothing
  Obscurings    \* and what is found there

VARIABLES
  source,    \* [fields, proto2, survives]: survives is what a shrinker left of
             \* "constants", "accessors", "declarations", "names" and "nesting"
  chars, objects, decoded,
  reading    \* "going" | "done" | "refused"

liteVars == <<source, chars, objects, decoded, reading>>

Alone == -1
None == "none"
TypeIds == [scalar |-> 4, message |-> 9, enum |-> 12, messages |-> 27, map |-> 50]
OneofOffset == 51
HasBit == 4096
ContBits == 13
Marked == 55296   \* 0xD800: from here on a character has a successor

-----------------------------------------------------------------------------
(* _IntReader.read: 13 bits a character, the least significant first; an   *)
(* unmarked character is the last.  The value is -1 if it raises.          *)
RECURSIVE ReadFrom(_, _, _)
ReadFrom(position, result, shift) ==
  IF position > Len(chars) \/ shift > 2 * ContBits THEN [value |-> -1, next |-> position]
  ELSE LET char == chars[position] IN
       IF char >= Marked
       THEN ReadFrom(position + 1, result + (char % 2^ContBits) * 2^shift, shift + ContBits)
       ELSE [value |-> IF char > (MaxInt - result) \div 2^shift THEN -1 ELSE result + char * 2^shift,
             next |-> position + 1]

ReadInt(position) ==
  IF chars[position] < Marked THEN [value |-> chars[position], next |-> position + 1]
  ELSE ReadFrom(position + 1, chars[position] % 2^ContBits, ContBits)

\* Every integer: whatever follows the ones that are read is an error anyway.
RECURSIVE IntsFrom(_)
IntsFrom(position) ==
  IF position > Len(chars) THEN <<>>
  ELSE LET read == ReadInt(position)
       IN IF read.value < 0 THEN <<-1>> ELSE <<read.value>> \o IntsFrom(read.next)

-----------------------------------------------------------------------------
(* The generator, as the decoder takes it to be (external).                *)
RECURSIVE Encode(_)
Encode(value) ==
  IF value < Marked THEN <<value>>
  ELSE <<7 * 2^ContBits + (value % 2^ContBits)>> \o Encode(value \div 2^ContBits)

Presence(f) == f.presence /\ f.oneof = Alone
FieldInts(f) ==
  <<f.number, TypeIds[f.kind] + (IF f.oneof # Alone THEN OneofOffset ELSE 0)
                + (IF Presence(f) THEN HasBit ELSE 0)>>
  \o (IF f.oneof # Alone THEN <<f.oneof>> ELSE IF Presence(f) THEN <<0>> ELSE <<>>)
OneofCount(s) == Cardinality({f.oneof : f \in ToSet(s.fields)} \ {Alone})
HasbitsCount(s) == IF \E f \in ToSet(s.fields) : Presence(f) THEN 1 ELSE 0
NumbersOf(fields) == {fields[k].number : k \in DOMAIN fields}
CountKind(s, kind) == Cardinality({k \in DOMAIN s.fields : s.fields[k].kind = kind})

WrittenChars(s) ==
  LET flags == IF s.proto2 THEN 1 ELSE 0
      header == <<flags, Len(s.fields), OneofCount(s), HasbitsCount(s),
                  Min(NumbersOf(s.fields)), Max(NumbersOf(s.fields)), Len(s.fields),
                  CountKind(s, "map"), CountKind(s, "messages"), 0>>
      ints == IF s.fields = <<>> THEN <<flags, 0>>
              ELSE header \o FlattenSeq([k \in DOMAIN s.fields |-> FieldInts(s.fields[k])])
  IN FlattenSeq([k \in DOMAIN ints |-> Encode(ints[k])])

Object(kind, value) == [kind |-> kind, value |-> value]
FieldObjects(s, f) ==
  (IF f.oneof = Alone THEN <<Object("string", f.name)>> ELSE <<>>)
  \o (CASE f.kind = "messages" -> <<Object("class", f.class)>>
        [] f.kind = "message" /\ f.oneof # Alone -> <<Object("class", f.class)>>
        [] f.kind = "enum" /\ s.proto2 -> <<Object("verifier", f.class)>>
        [] f.kind = "map" -> <<Object("entry", f.name)>>
        [] OTHER -> <<>>)
WrittenObjects(s) ==
  [k \in 1..(2 * OneofCount(s) + HasbitsCount(s)) |-> Object("string", "storage")]
  \o FlattenSeq([k \in DOMAIN s.fields |-> FieldObjects(s, s.fields[k])])

Damaged(written, damage) ==
  CASE damage.by = "none" -> written
    [] damage.by = "cut" -> SubSeq(written, 1, Len(written) - 1)
    [] damage.by = "longer" -> Append(written, 1)
    [] OTHER -> [k \in DOMAIN written |-> IF k = damage.at THEN written[k] + 1 ELSE written[k]]

-----------------------------------------------------------------------------
(* decode_info_string: whether it is accepted, the counts that the objects *)
(* start with, and fields [number, type, oneof, presence].                 *)
Refused == [ok |-> FALSE, storage |-> 0, fields |-> <<>>]

ReadField(state, ints, oneofs, hasbits) ==
  LET at == state.next
      type == ints[at + 1] % 256
      presence == (ints[at + 1] \div HasBit) % 2 = 1
      more == type >= OneofOffset \/ (presence /\ type <= 17)
      limit == IF type >= OneofOffset THEN oneofs ELSE 32 * hasbits
  IN IF \/ ~state.ok \/ at + 1 > Len(ints)
        \/ ints[at] <= 0 \/ ints[at] >= 2^29 \/ type > 68
        \/ (more /\ (at + 2 > Len(ints) \/ ints[at + 2] >= limit))
     THEN [state EXCEPT !.ok = FALSE]
     ELSE [ok |-> TRUE, next |-> at + (IF more THEN 3 ELSE 2),
           fields |-> Append(state.fields,
             [number |-> ints[at], type |-> type, presence |-> presence,
              oneof |-> IF type >= OneofOffset THEN ints[at + 2] ELSE Alone])]

AllRead(read, ints) == read.ok /\ read.next = Len(ints) + 1

DecodeInfo ==
  LET ints == IntsFrom(1)
      Read == FoldLeft(LAMBDA state, k : ReadField(state, ints, ints[3], ints[4]),
                       [ok |-> TRUE, next |-> 11, fields |-> <<>>], [k \in 1..ints[2] |-> k])
      Consistent(read) ==
        /\ ints[7] = ints[2] /\ ints[8] + ints[9] <= ints[2]
        /\ ints[5] > 0
        /\ Min(NumbersOf(read.fields)) = ints[5] /\ Max(NumbersOf(read.fields)) = ints[6]
        /\ Cardinality(NumbersOf(read.fields)) = Len(read.fields)
  IN CASE -1 \in ToSet(ints) \/ Len(ints) < 2 -> Refused
       [] Len(ints) >= 2 /\ -1 \notin ToSet(ints) /\ ints[2] = 0 -> [Refused EXCEPT !.ok = Len(ints) = 2]
       [] OTHER -> IF Len(ints) >= 10 /\ AllRead(Read, ints) /\ Consistent(Read)
                   THEN [ok |-> TRUE, storage |-> 2 * ints[3] + ints[4], fields |-> Read.fields]
                   ELSE Refused

-----------------------------------------------------------------------------
(* _field_objects: a cursor over the objects, moved past what a field of   *)
(* its type is expected to have, if it is there.                           *)
KindOf(type) ==
  LET base == IF type >= OneofOffset THEN type - OneofOffset ELSE type
  IN CASE base \in {9, 17, 27, 49} -> "message" [] base \in {12, 30, 44} -> "enum"
       [] base = 50 -> "map" [] OTHER -> "scalar"

ObjectAt(cursor) == IF cursor <= Len(objects) THEN objects[cursor] ELSE Object("end", None)

EveryNamed(cursor, field) == ObjectAt(cursor).kind = "string"   \* mutant: a oneof's members have names as well

HasName(cursor, field) == field.oneof = Alone /\ ObjectAt(cursor).kind = "string"

TakeObject(state, field) ==
  LET named == HasName(state.cursor, field)
      cursor == IF named THEN state.cursor + 1 ELSE state.cursor
      object == ObjectAt(cursor)
      kind == KindOf(field.type)
      used == \/ kind = "message" /\ object.kind = "class"
              \/ kind = "enum" /\ object.kind \in {"class", "verifier", "entry", "static_field", "call_result"}
              \/ kind = "map" /\ object.kind # "end"
      told == IF kind = "map" THEN {"entry"} ELSE {"class", "verifier"}
  IN [cursor |-> IF used THEN cursor + 1 ELSE cursor,
      taken |-> Append(state.taken,
        [name |-> IF named THEN ObjectAt(state.cursor).value ELSE None,
         class |-> IF used /\ object.kind \in told THEN object.value ELSE None])]

Collected(info) == FoldLeft(TakeObject, [cursor |-> info.storage + 1, taken |-> <<>>], info.fields).taken

-----------------------------------------------------------------------------
(* decode_lite_finding, with what the class says of its fields besides.    *)
Survives(what) == what \in source.survives
WithNumber(number) == {f \in ToSet(source.fields) : f.number = number}
WithName(name) == {f \in ToSet(source.fields) : f.oneof = Alone /\ f.name = name}
TheClass(fields) == (CHOOSE f \in fields : TRUE).class
EnumClasses == {f.class : f \in {g \in ToSet(source.fields) : g.kind = "enum"}}

\* None if it can only be guessed.  A singular message field's declaration, or
\* its object; an enum's accessor, its verifier, or the only enum's accessor.
TypeOf(field, taken, fields) ==
  LET declared == WithName(taken.name)
      enums == {k \in DOMAIN fields : KindOf(fields[k].type) = "enum"}
      message == IF Survives("declarations") /\ field.type \notin {27, 49} /\ declared # {}
                 THEN TheClass(declared) ELSE taken.class
      enum == IF Survives("accessors") /\ declared # {} THEN TheClass(declared)
              ELSE IF taken.class \in EnumClasses THEN taken.class
              ELSE IF Survives("accessors") /\ Cardinality(enums) = 1 /\ Cardinality(EnumClasses) = 1
              THEN CHOOSE class \in EnumClasses : TRUE
              ELSE None
  IN CASE KindOf(field.type) = "message" -> message
       [] KindOf(field.type) = "enum" -> enum
       [] KindOf(field.type) = "map" -> IF taken.class = None THEN "bytes" ELSE "map"
       [] OTHER -> KindOf(field.type)

\* NAME_FIELD_NUMBER constants first, then a oneof member's nested message
\* type, then the name that was read.
Authoritative(field) == Survives("constants") /\ WithNumber(field.number) # {}
EffectiveName(field, taken, type) ==
  IF Authoritative(field) THEN (CHOOSE f \in WithNumber(field.number) : TRUE).name
  ELSE IF taken.name = None /\ KindOf(field.type) = "message" /\ Survives("nesting") THEN type
  ELSE taken.name

Anonymous == "field_N"

Decoded(info) ==
  LET fields == info.fields
      taken == Collected(info)
      types == [k \in DOMAIN fields |-> TypeOf(fields[k], taken[k], fields)]
      names == [k \in DOMAIN fields |-> EffectiveName(fields[k], taken[k], types[k])]
      Speculative(k) ==
        \/ ~Survives("names") /\ ~Authoritative(fields[k])
        \/ names[k] = None
        \/ \E l \in DOMAIN names : l # k /\ names[l] = names[k]
      Synthetic(k) ==
        ~source.proto2 /\ fields[k].oneof = Alone /\ fields[k].presence /\ KindOf(fields[k].type) # "message"
  IN [k \in DOMAIN fields |->
       [number |-> fields[k].number, oneof |-> fields[k].oneof, synthetic |-> Synthetic(k),
        name |-> IF Speculative(k) THEN Anonymous ELSE names[k],
        type |-> types[k],
        confidence |-> CASE Speculative(k) -> "speculative"
                         [] ~Speculative(k) /\ types[k] = None -> "medium"
                         [] OTHER -> "high"]]

-----------------------------------------------------------------------------
Hidden(written, indexes, kind) ==
  [k \in DOMAIN written |-> IF k \in indexes THEN Object(kind, None) ELSE written[k]]
Verifiers(written) == {k \in DOMAIN written : written[k].kind = "verifier"}

\* One object is hidden, or all verifiers are, or none.
LiteInit(sources) ==
  /\ source \in sources
  /\ chars \in {Damaged(WrittenChars(source), damage) : damage \in Damages}
  /\ LET written == WrittenObjects(source)
     IN objects \in {Hidden(written, indexes, kind) :
                        indexes \in {{}, Verifiers(written)} \union {{k} : k \in Obscured}, kind \in Obscurings}
  /\ decoded = <<>>
  /\ reading = "going"

Decode ==
  /\ reading = "going" /\ DecodeInfo.ok
  /\ decoded' = Decoded(DecodeInfo)
  /\ reading' = "done"
  /\ UNCHANGED <<source, chars, objects>>

BailOut ==
  /\ reading = "going" /\ ~DecodeInfo.ok
  /\ reading' = "refused"
  /\ UNCHANGED <<source, chars, objects, decoded>>

LiteNext == Decode \/ BailOut

-----------------------------------------------------------------------------
Own(k) == source.fields[k]
Intact == chars = WrittenChars(source)

(* Known gap of _field_objects: a field whose kind may have an object but  *)
(* here has none takes the class of the oneof member behind it, and every  *)
(* member after that one gets the class of the next.                       *)
Bare(f) == (f.kind = "message" /\ f.oneof = Alone) \/ (f.kind = "enum" /\ ~source.proto2)
Shifted(k) ==
  \E j \in 1..k : /\ Bare(Own(j))
                 /\ \A l \in (j + 1)..k : Own(l).oneof # Alone
                 /\ j = k => ~Survives("declarations")
(* And an object that says nothing is taken for another: by a map for its  *)
(* entry, so that it is read as bytes; by an enum whose name is no string  *)
(* for its verifier, which then goes to the next enum; with high           *)
(* confidence all the same.                                                *)
Skipped ==
  \/ objects # WrittenObjects(source) /\ CountKind(source, "map") > 0
  \/ \E k \in DOMAIN objects : /\ objects[k].kind \in {"call_result", "static_field"}
                              /\ \E f \in ToSet(source.fields) :
                                   f.kind = "enum" /\ WrittenObjects(source)[k] = Object("string", f.name)

TypedAsWritten(k) ==
  CASE Own(k).kind \in {"message", "messages", "enum"} -> decoded[k].type = Own(k).class
    [] OTHER -> decoded[k].type = Own(k).kind

(* What the generator wrote is read back: an info string that lost or      *)
(* gained a character is refused and an intact one never is; its fields    *)
(* keep their numbers, oneofs and presence, whatever the shrinker removed; *)
(* and a name or a type reported with high confidence is the field's own.  *)
(* The cursor of _field_objects has no check that it is still in step, so  *)
(* one wrong step would give every later field its neighbour's name.       *)
LiteFaithful ==
  /\ reading = "refused" => ~Intact
  /\ reading = "done" =>
       /\ Len(chars) = Len(WrittenChars(source))
       /\ Intact =>
            /\ [k \in DOMAIN decoded |-> <<decoded[k].number, decoded[k].oneof>>]
                 = [k \in DOMAIN source.fields |-> <<Own(k).number, Own(k).oneof>>]
            /\ \A k \in DOMAIN decoded :
                 /\ decoded[k].synthetic <=> (~source.proto2 /\ Presence(Own(k)) /\ Own(k).kind # "message")
                 /\ decoded[k].confidence = "high" /\ ~Skipped =>
                      /\ ~Shifted(k) => /\ TypedAsWritten(k)
                                        /\ decoded[k].name \in {Own(k).name, Own(k).class}
                      /\ decoded[k].name = Own(k).class => Own(k).oneof # Alone \/ Shifted(k)

(* A field marked HIGH has a type that was observed: decode/lite.py:373    *)
(* says of a substituted type "not an observed type -- don't claim HIGH".  *)
HighIsObserved ==
  reading = "done" /\ Intact /\ objects = WrittenObjects(source) /\ Survives("declarations") =>
    \A k \in DOMAIN decoded : decoded[k].confidence = "high" => TypedAsWritten(k)
=============================================================================
