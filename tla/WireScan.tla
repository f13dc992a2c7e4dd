------------------------------ MODULE WireScan ------------------------------
(***************************************************************************)
(* extract/wire.py and decode/wire.py: the fields of a Square Wire message *)
(* are read from the annotations of its class, and which of them are       *)
(* optional from what its synthetic constructor passes on by default; or,  *)
(* without annotations, from the calls that write them.                    *)
(*                                                                         *)
(* A source field is [number, kind, mode, oneof]: its mode is "plain",     *)
(* "optional", "repeated" or "oneof".  An instruction is [op, dst, src, n, *)
(* to].  A register holds [kind, n, label, packed].                        *)
(***************************************************************************)
EXTENDS Integers, Sequences, FiniteSets, SequencesExt

VARIABLES
  wireClass,      \* [fields, proto3, annotated, allocation, boxing, enums, names, adapters]
  adapterWrites,  \* extract_wire_adapter_writes: a set of findings
  nullDefaults,   \* extract_wire_null_defaults: indexes of parameters
  wireFields,     \* what is decoded
  wireStage       \* "class" | "writes" | "defaults" | "decoded"

wireVars == <<wireClass, adapterWrites, nullDefaults, wireFields, wireStage>>

WireInit(inputs) ==
  /\ wireClass \in inputs
  /\ adapterWrites = {} /\ nullDefaults = {} /\ wireFields = {} /\ wireStage = "class"

-----------------------------------------------------------------------------
(* What Wire's generator, Kotlin and a shrinker made of the class          *)
(* (external).                                                             *)
Indices == DOMAIN wireClass.fields
SourceField(k) == wireClass.fields[k]
Packs(f) == wireClass.proto3 /\ f.mode = "repeated" /\ f.kind \in {"int64", "enum"}
NoDefault(f) == f.mode = "plain" /\ ~wireClass.proto3       \* proto2's required
DefaultsToNull(f) == f.mode \in {"optional", "oneof"} \/ (f.mode = "plain" /\ f.kind \in {"message", "itself"})
JavaType(f) ==
  CASE f.mode = "repeated" -> "List"
    [] f.kind = "int64" /\ f.mode = "plain" -> "J"
    [] f.kind = "int64" -> "Long"
    [] OTHER -> f.kind
AnnotationLabel(f) ==
  CASE f.mode = "repeated" -> IF Packs(f) THEN "packed" ELSE "repeated"
    [] f.mode = "oneof" -> "one_of"
    [] NoDefault(f) -> "required"
    [] OTHER -> IF wireClass.proto3 THEN "omit_identity" ELSE "optional"

Op(op, dst, src, n, to) == [op |-> op, dst |-> dst, src |-> src, n |-> n, to |-> to]
Parameters == [k \in Indices |-> JavaType(SourceField(k))] \o <<"I", "Marker">>
Locals == 20

-----------------------------------------------------------------------------
(* _parameter_registers and what the registers hold: those of the masks,   *)
(* before the marker, hold -1, as if the caller left every argument out.   *)
Width(type) == IF type = "J" THEN 2 ELSE 1
RegisterOf(k) == FoldLeft(LAMBDA r, type : r + Width(type), Locals + 1, SubSeq(Parameters, 1, k - 1))
IntValue(n) == [kind |-> "int", n |-> n, label |-> "", packed |-> FALSE]
NonNull == [IntValue(0) EXCEPT !.kind = "object"]
Holds(registers, r, value) == [q \in DOMAIN registers \union {r} |-> IF q = r THEN value ELSE registers[q]]
Forgets(registers, r) == [q \in DOMAIN registers \ {r} |-> registers[q]]
HoldsInt(registers, r) == r \in DOMAIN registers /\ registers[r].kind = "int"
ConstructorState ==
  LET masks == {k \in DOMAIN Parameters : k < Len(Parameters) /\ \A j \in k..(Len(Parameters) - 1) : Parameters[j] = "I"}
  IN [r \in {RegisterOf(k) : k \in masks} |-> IntValue(-1)]

(* _constructor_value.  Of two integers, one a power of two, the bits they *)
(* share.                                                                  *)
ConstructorAnd(registers, i) ==
  IF HoldsInt(registers, i.src[1])
  THEN Holds(registers, i.dst, IntValue(IF (registers[i.src[1]].n \div i.n) % 2 = 1 THEN i.n ELSE 0))
  ELSE Forgets(registers, i.dst)
ConstructorMove(registers, i) ==
  IF i.src[1] \in DOMAIN registers THEN Holds(registers, i.dst, registers[i.src[1]]) ELSE Forgets(registers, i.dst)
ConstructorValue(registers, i) ==
  CASE i.op = "move" -> ConstructorMove(registers, i)
    [] i.op = "and" -> ConstructorAnd(registers, i)
    [] i.op = "const" -> Holds(registers, i.dst, IntValue(i.n))
    [] i.op = "object" -> Holds(registers, i.dst, NonNull)
    [] OTHER -> registers

\* _constructor_next: 0 where the scan gives up.
ConstructorNext(registers, i, at) ==
  CASE i.op = "ifeqz" -> IF ~HoldsInt(registers, i.src[1]) THEN 0
                         ELSE IF registers[i.src[1]].n # 0 THEN at + 1 ELSE i.to
    [] i.op = "goto" -> i.to
    [] OTHER -> at + 1

\* _constructor_arguments: the references that are passed as null.
IsReference(type) == type \notin {"I", "J"}
NullArguments(registers, arguments) ==
  {k \in Indices : /\ IsReference(Parameters[k])
                   /\ LET r == arguments[1 + RegisterOf(k) - Locals] IN r \in DOMAIN registers /\ registers[r] = IntValue(0)}

\* _default_constructor_nulls: at most twice as many steps as instructions.
DefaultConstructorNulls(code) ==
  LET step(state, n) ==
        IF state.at \notin DOMAIN code THEN state
        ELSE LET i == code[state.at] IN
             IF i.op = "init" THEN [state EXCEPT !.at = 0, !.nulls = NullArguments(state.registers, i.src)]
             ELSE [state EXCEPT !.registers = ConstructorValue(@, i), !.at = ConstructorNext(state.registers, i, @)]
  IN FoldLeft(step, [at |-> 1, registers |-> ConstructorState, nulls |-> {}], [n \in 1..(2 * Len(code)) |-> n]).nulls

-----------------------------------------------------------------------------
(* The synthetic constructor (external): for every parameter with a        *)
(* default, a test of its bit in the mask.  Defaults are put in the        *)
(* parameter's register, or come through one shared by all, or through one *)
(* that holds the null; or what is passed is moved to registers in a row.  *)
LoadDefault(f, r) ==
  IF DefaultsToNull(f) THEN Op("const", r, <<>>, 0, 0)
  ELSE IF JavaType(f) \in {"List", "J"} THEN Op("other", r, <<>>, 0, 0)
  ELSE Op("object", r, <<>>, 0, 0)
Defaulted(k) ==
  LET r == RegisterOf(k)
      temporary == IF wireClass.allocation = "zero" THEN 1 ELSE 0
      load == IF wireClass.allocation = "direct" THEN <<LoadDefault(SourceField(k), r)>>
              ELSE <<LoadDefault(SourceField(k), temporary), Op("move", r, <<temporary>>, 0, 0)>>
  IN IF NoDefault(SourceField(k)) THEN <<>>
     ELSE <<Op("and", 0, <<RegisterOf(Len(Parameters) - 1)>>, 2^(k - 1), 0), Op("ifeqz", 0, <<0>>, 0, Len(load))>> \o load
Passed ==
  LET last == RegisterOf(Len(Parameters) - 1) - 1
      first == IF wireClass.allocation = "range" THEN 0 ELSE Locals
  IN (IF wireClass.allocation # "range" THEN <<>>
      ELSE [r \in 1..(last - Locals + 1) |-> Op("move", r - 1, <<Locals + r - 1>>, 0, 0)])
     \o <<Op("init", 0, [r \in 1..(last - Locals + 1) |-> first + r - 1], 0, 0)>>
\* A branch is written with how many instructions it skips.
ConstructorCode ==
  LET code == FlattenSeq([k \in Indices |-> Defaulted(k)]) \o Passed
  IN [k \in DOMAIN code |-> IF code[k].op = "ifeqz" THEN [code[k] EXCEPT !.to = k + 1 + @] ELSE code[k]]

-----------------------------------------------------------------------------
(* _method_writes, over the instructions of a method that writes fields.   *)
(* A static ADAPTER and a field of the message are both fields; they are   *)
(* told apart by their classes.                                            *)
FieldValue(k) == [kind |-> "field", n |-> k, label |-> "", packed |-> FALSE]
StaticValue(k) == [kind |-> "static", n |-> k, label |-> "optional", packed |-> FALSE]
AsAdapter(value) == IF value.kind = "static" THEN [value EXCEPT !.kind = "adapter"] ELSE value
Held(state, r) == IF r \in DOMAIN state.registers THEN state.registers[r] ELSE NonNull

TakeResultKept(state, i) ==   \* mutant: what a call returned is not forgotten when it is taken
  IF state.pending = NonNull THEN state
  ELSE [state EXCEPT !.registers = Holds(@, i.dst, state.pending)]

TakeResult(state, i) ==
  IF state.pending = NonNull THEN state
  ELSE [state EXCEPT !.registers = Holds(@, i.dst, state.pending), !.pending = NonNull]

\* asPacked, asRepeated
AskAdapter(state, i) ==
  LET value == AsAdapter(Held(state, i.src[1]))
  IN IF value.kind # "adapter" THEN state
     ELSE [state EXCEPT !.pending = [value EXCEPT !.label = "repeated", !.packed = i.n = 1]]

\* A call with an adapter, a writer, a number and a field of another class.
WriteField(state, i) ==
  LET adapter == AsAdapter(Held(state, i.src[1]))
      number == Held(state, i.src[3])
      field == Held(state, i.src[4])
  IN IF \/ adapter.kind # "adapter" \/ number.kind # "int" \/ field.kind # "field"
        \/ SourceField(adapter.n).kind = "itself"
     THEN state
     ELSE [state EXCEPT !.findings = Append(@,
             [field |-> field.n, number |-> number.n, adapter |-> adapter.n, label |-> adapter.label, packed |-> adapter.packed])]

WriterStep(state, i) ==
  CASE i.op = "move" -> IF i.src[1] \in DOMAIN state.registers
                        THEN [state EXCEPT !.registers = Holds(@, i.dst, state.registers[i.src[1]])] ELSE state
    [] i.op = "get" -> [state EXCEPT !.registers = Holds(@, i.dst, FieldValue(i.n))]
    [] i.op = "static" -> [state EXCEPT !.registers = Holds(@, i.dst, StaticValue(i.n))]
    [] i.op = "const" -> [state EXCEPT !.registers = Holds(@, i.dst, IntValue(i.n))]
    [] i.op = "result" -> TakeResult(state, i)
    [] i.op = "as" -> AskAdapter(state, i)
    [] i.op = "write" -> WriteField(state, i)
    [] OTHER -> state
MethodWrites(code) == FoldLeft(WriterStep, [registers |-> << >>, pending |-> NonNull, findings |-> <<>>], code).findings

\* The last finding of a field and number, over the methods of the class.
AdapterFindings(methods) ==
  LET all == FlattenSeq([m \in DOMAIN methods |-> MethodWrites(methods[m])])
  IN {all[k] : k \in {j \in DOMAIN all : \A l \in DOMAIN all :
        l > j => <<all[l].field, all[l].number>> # <<all[j].field, all[j].number>>}}

(* The methods that write the fields (external), first to last and last to *)
(* first: a primitive is boxed, in its register or in another one; the     *)
(* arguments may be moved to registers in a row.                           *)
Boxes(f) == JavaType(f) = "J"
WriterOf(k) ==
  LET f == SourceField(k)
      value == IF Boxes(f) /\ wireClass.boxing = "elsewhere" THEN 4 ELSE 1
  IN <<Op("static", 0, <<>>, k, 0), Op("get", 1, <<>>, k, 0)>>
     \o (IF Boxes(f) THEN <<Op("call", 0, <<1>>, 0, 0), Op("result", value, <<>>, 0, 0)>> ELSE <<>>)
     \o (IF f.mode = "repeated"
         THEN <<Op("as", 0, <<0>>, IF Packs(f) THEN 1 ELSE 0, 0), Op("result", 0, <<>>, 0, 0)>> ELSE <<>>)
     \o <<Op("const", 2, <<>>, f.number, 0)>>
     \o (IF wireClass.allocation = "range"
         THEN <<Op("move", 5, <<0>>, 0, 0), Op("move", 6, <<3>>, 0, 0), Op("move", 7, <<2>>, 0, 0),
                Op("move", 8, <<value>>, 0, 0), Op("write", 0, <<5, 6, 7, 8>>, 0, 0)>>
         ELSE <<Op("write", 0, <<0, 3, 2, value>>, 0, 0)>>)
WriterMethods ==
  LET parts == [k \in Indices |-> WriterOf(k)] IN <<FlattenSeq(parts), FlattenSeq(Reverse(parts))>>

-----------------------------------------------------------------------------
(* Decoding.                                                               *)
IsEnumClass(f) == f.kind = "enum" /\ f.mode # "repeated" /\ wireClass.enums = "kept"
TypeIsEnum(f) == f.kind = "enum" /\ f.mode # "repeated" /\ wireClass.enums # "gone"
BoxedPresence(f, label, inOneof) == wireClass.proto3 /\ ~inOneof /\ label # "repeated" /\ JavaType(f) = "Long"
WirePresenceType(f) == f.kind \in {"int64", "string"} \/ IsEnumClass(f)
WireLabel(name) ==
  IF name \in {"optional", "required", "repeated"} THEN name
  ELSE IF name = "packed" THEN "repeated" ELSE "optional"

DecodedField(k, number, type, label, oneof, packed, presence) ==
  [name |-> k, number |-> number, type |-> type, label |-> label, oneof |-> oneof, packed |-> packed,
   optional |-> presence, isEnum |-> TypeIsEnum(SourceField(k))]

\* _field: of an annotation [tag, adapter, label, oneofName, schemaIndex].
AnnotatedField(k) ==
  LET f == SourceField(k)
      label == WireLabel(AnnotationLabel(f))
      presence == \/ BoxedPresence(f, label, f.mode = "oneof")
                  \/ /\ wireClass.proto3 /\ f.mode # "oneof" /\ label # "repeated"
                     /\ k \in nullDefaults /\ WirePresenceType(f)
  IN DecodedField(k, f.number, f.kind, label, f.oneof, FALSE, presence)

\* wire_dex_type_kind: "none" if neither the field's class nor the adapter tells.
DexType(k, adapter) ==
  LET f == SourceField(k)
  IN IF JavaType(f) = "string" THEN "string"
     ELSE IF SourceField(adapter).kind \in {"message", "enum"} /\ (wireClass.adapters \/ SourceField(adapter).kind = JavaType(f))
     THEN SourceField(adapter).kind
     ELSE IF wireClass.adapters THEN SourceField(adapter).kind
     ELSE "none"

\* decode_wire_adapter_fields.  Groups are of the names the constructor's
\* message lists, a field's name is its own or the one toString spells.
GroupOf(f) ==
  IF wireClass.names # "gone" /\ Cardinality({k \in Indices : SourceField(k).oneof = f.oneof}) > 1 THEN f.oneof ELSE 0
WrittenField(w) ==
  LET f == SourceField(w.field) IN
  DecodedField(w.field, w.number, DexType(w.field, w.adapter), w.label, GroupOf(f), w.packed,
               BoxedPresence(f, w.label, GroupOf(f) # 0))

-----------------------------------------------------------------------------
(* _find_wire, for one class.                                              *)
FindWrites ==
  /\ wireStage = "class"
  /\ adapterWrites' = IF wireClass.annotated THEN {} ELSE AdapterFindings(WriterMethods)
  /\ wireStage' = "writes"
  /\ UNCHANGED <<wireClass, nullDefaults, wireFields>>
FindDefaults ==
  /\ wireStage = "writes"
  /\ nullDefaults' = IF (wireClass.annotated /\ Indices # {}) \/ adapterWrites # {}
                     THEN DefaultConstructorNulls(ConstructorCode) ELSE {}
  /\ wireStage' = "defaults"
  /\ UNCHANGED <<wireClass, adapterWrites, wireFields>>
DecodeWire ==
  /\ wireStage = "defaults"
  /\ wireFields' = IF wireClass.annotated THEN {AnnotatedField(k) : k \in Indices}
                   ELSE {WrittenField(w) : w \in {v \in adapterWrites : DexType(v.field, v.adapter) # "none"}}
  /\ wireStage' = "decoded"
  /\ UNCHANGED <<wireClass, adapterWrites, nullDefaults>>

WireNext == FindWrites \/ FindDefaults \/ DecodeWire

-----------------------------------------------------------------------------
\* Fields the calls that write them do not show: of the message's own type,
\* boxed out of sight, or of a type only the name of its adapter would tell.
Unseen(f) ==
  /\ ~wireClass.annotated
  /\ \/ f.kind = "itself"
     \/ Boxes(f) /\ wireClass.boxing = "elsewhere"
     \/ ~wireClass.adapters /\ (f.kind = "int64" \/ f.mode = "repeated")

\* Moved on from a register that nothing is known of, an argument is taken to
\* be what its new register held before: the field of an earlier call.
Misread == ~wireClass.annotated /\ wireClass.allocation = "range" /\ wireClass.boxing = "elsewhere"

(* A Wire message comes back as it was: every field once, with its number, *)
(* type and cardinality; the members of a oneof stay together; and a field *)
(* is called optional exactly if it was, however the constructor's         *)
(* defaults, the boxing of a number and the adapter of a list use the      *)
(* registers.  An optional enum is told only if its class still extends    *)
(* Enum.  Without annotations, optional strings and enums are not told, a  *)
(* oneof's members need their names, and a oneof of one may be told as the *)
(* optional field it amounts to.                                           *)
WireFaithful ==
  wireStage = "decoded" /\ ~Misread =>
    /\ \A k \in Indices : Cardinality({d \in wireFields : d.name = k}) = IF Unseen(SourceField(k)) THEN 0 ELSE 1
    /\ \A d \in wireFields :
         LET f == SourceField(d.name)
             mates == {k \in Indices : f.oneof # 0 /\ SourceField(k).oneof = f.oneof}
             presence == f.mode = "optional" /\ wireClass.proto3
         IN /\ d.number = f.number /\ d.type = f.kind
            /\ (d.label = "repeated") = (f.mode = "repeated")
            /\ d.isEnum => f.kind = "enum"
            /\ IF wireClass.annotated
               THEN /\ d.oneof = f.oneof
                    /\ d.optional = (presence /\ WirePresenceType(f))
               ELSE /\ d.packed = Packs(f)
                    /\ wireClass.names # "gone" =>
                         /\ d.oneof = (IF Cardinality(mates) > 1 THEN f.oneof ELSE 0)
                         /\ d.optional => presence \/ Cardinality(mates) = 1
                         /\ presence /\ f.kind = "int64" => d.optional
=============================================================================
