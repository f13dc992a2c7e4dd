----------------------------- MODULE EmitProto -----------------------------
(***************************************************************************)
(* emit/proto.py, emit_proto: the declarations, fields and references of   *)
(* the .proto text written for a schema, with the names of ProtoNames.     *)
(*                                                                         *)
(* A type is a path of names.  A message is [name, fields, messages,       *)
(* enums]; a field is [name, number, rank, oneof, group, map, type,        *)
(* absolute, isEnum], its rank the confidence, its oneof NoOneof or a      *)
(* name, its type <<>> if scalar and, of a map, the type of its values:    *)
(* _resolved_type resolves it like any other.  The message that protoc     *)
(* adds for a map's entries is not modelled.                               *)
(***************************************************************************)
EXTENDS ProtoNames, FiniteSetsExt, Functions, TLC

CONSTANTS
  MaxItems,    \* MAX_PROTO_ITEMS
  MaxDepth,    \* MAX_PROTO_DEPTH
  Keywords     \* the names that begin a statement: "message", "enum", ...

VARIABLES
  schema,     \* [proto3, messages, enums, services]
  emitted,
  emitting    \* "going" | "done" | "refused"

emitVars == <<schema, emitted, emitting>>

NoOneof == <<>>
Indexes(s) == [k \in DOMAIN s |-> k]

\* The enums of a scope; the names of each one's values are used for the next.
Enums(enums, names, scope, path, proto3) ==
  LET Add(state, k) ==
        LET values == EnumValues(enums[k], names[k], state.scope, proto3)
        IN [scope |-> state.scope \union {names[k]} \union ToSet(NamesOf(values)),
            all |-> Append(state.all, [path |-> Append(path, names[k]), scope |-> path, values |-> values])]
  IN FoldLeft(Add, [scope |-> scope, all |-> <<>>], Indexes(enums)).all

-----------------------------------------------------------------------------
(* Types.  _symbol_renames: from raw paths to the paths emitted.           *)
RECURSIVE Renames(_, _, _, _)
Renames(messages, enums, raw, path) ==
  LET names == DeclarationNames(messages, enums)
      OfMessage(all, k) ==
        Renames(messages[k].messages, messages[k].enums,
                Append(raw, messages[k].name), Append(path, names.messages[k]))
          @@ (Append(raw, messages[k].name) :> Append(path, names.messages[k])) @@ all
      OfEnum(all, k) == (Append(raw, enums[k].name) :> Append(path, names.enums[k])) @@ all
  IN FoldLeft(OfEnum, FoldLeft(OfMessage, <<>>, Indexes(messages)), Indexes(enums))

\* _resolved_type: an absolute path where a keyword would begin a statement.
Resolved(type, absolute, renames) ==
  LET path == IF type \in DOMAIN renames THEN renames[type] ELSE [k \in DOMAIN type |-> Clean(type[k])]
  IN [path |-> path, absolute |-> absolute \/ path[1] \in Keywords]

Deduplicated(fields) ==
  LET Add(kept, field) ==
        LET same == {k \in DOMAIN kept : kept[k].number = field.number} IN
        IF same = {} THEN Append(kept, field)
        ELSE [k \in DOMAIN kept |-> IF k \in same /\ field.rank > kept[k].rank THEN field ELSE kept[k]]
  IN FoldLeft(Add, <<>>, fields)

\* _group_message_target: the one nested message of the group's name, else 0.
GroupTarget(message, field) ==
  LET named == {k \in DOMAIN message.messages : message.messages[k].name = Last(field.type)}
  IN IF field.group /\ Cardinality(named) = 1 THEN CHOOSE k \in named : TRUE ELSE 0

-----------------------------------------------------------------------------
(* What is emitted: the types with their paths, the fields and oneofs of   *)
(* each message, the enums, and the references with the scope they are in. *)
Nothing == [types |-> <<>>, fields |-> <<>>, enums |-> <<>>, references |-> <<>>]
Join(one, other) == [part \in DOMAIN one |-> one[part] \o other[part]]
JoinAll(parts) == FoldLeft(Join, Nothing, parts)

RECURSIVE Body(_, _, _, _)
Body(message, path, proto3, renames) ==
  LET names == DeclarationNames(message.messages, message.enums)
      fields == Deduplicated(message.fields)
      inlined == {GroupTarget(message, fields[k]) : k \in DOMAIN fields}
      oneofs == SetToSeq({fields[k].oneof : k \in DOMAIN fields} \ {NoOneof})
      Declare(inner, name) ==
        Join([Nothing EXCEPT !.types = <<Append(path, name)>>],
             Body(inner, Append(path, name), proto3, renames))
      Write(field) ==
        LET target == GroupTarget(message, field) IN
        CASE target # 0 /\ field.oneof = NoOneof ->
               Declare(message.messages[target], Clean(message.messages[target].name))
          [] field.type = <<>> -> Nothing
          [] OTHER -> [Nothing EXCEPT !.references =
                         <<[scope |-> path, map |-> field.map] @@ Resolved(field.type, field.absolute, renames)>>]
      nested == SelectSeq(Indexes(message.messages), LAMBDA k : k \notin inlined)
  IN JoinAll(
       [k \in DOMAIN nested |-> Declare(message.messages[nested[k]], names.messages[nested[k]])]
       \o [k \in DOMAIN fields |-> Write(fields[k])]
       \o <<[types |-> [k \in DOMAIN names.enums |-> Append(path, names.enums[k])],
             fields |-> <<[scope |-> path,
                           names |-> MemberNames(NamesOf(fields), oneofs)]>>,
             enums |-> Enums(message.enums, names.enums, ToSet(names.messages) \union ToSet(names.enums),
                             path, proto3),
             references |-> <<>>]>>)

\* _declared_types, before any stub.
RECURSIVE DeclaredTypes(_, _, _)
DeclaredTypes(messages, enums, path) ==
  LET names == DeclarationNames(messages, enums)
  IN {Append(path, names.enums[k]) : k \in DOMAIN enums}
     \union UNION {{Append(path, names.messages[k])}
                     \union DeclaredTypes(messages[k].messages, messages[k].enums, Append(path, names.messages[k])) :
                   k \in DOMAIN messages}

\* _resolves_locally
ResolvesLocally(path, scope, declared) ==
  \E depth \in 0..Len(scope) : SubSeq(scope, 1, depth) \o path \in declared

\* Stubs for the relative references that nothing declares, unless they are
\* inside a map<>; one for an enum if a field says that it is one.
RECURSIVE AllMessages(_)
AllMessages(messages) ==
  ToSet(messages) \union UNION {AllMessages(messages[k].messages) : k \in DOMAIN messages}
EnumTypes(messages, renames) ==
  {Resolved(f.type, f.absolute, renames).path :
     f \in {g \in UNION {ToSet(Deduplicated(m.fields)) : m \in AllMessages(messages)} :
              g.isEnum /\ ~g.map /\ g.type # <<>>}}

Joined(path) ==
  [words |-> FlattenSeq([k \in DOMAIN path |-> path[k].words]), form |-> path[1].form,
   numbers |-> FlattenSeq([k \in DOMAIN path |-> path[k].numbers])]

Emitted(s) ==
  LET names == DeclarationNames(s.messages, s.enums)
      scope == ToSet(names.messages) \union ToSet(names.enums)
      services == UniqueNames(NamesOf(s.services), scope)
      renames == Renames(s.messages, s.enums, <<>>, <<>>)
      calls == FlattenSeq([k \in DOMAIN s.services |-> s.services[k].types])
      text == JoinAll(
        <<[Nothing EXCEPT
             !.types = [k \in DOMAIN names.enums |-> <<names.enums[k]>>],
             !.enums = Enums(s.enums, names.enums, scope, <<>>, s.proto3),
             !.references = [k \in DOMAIN calls |-> [scope |-> <<>>, map |-> FALSE] @@ Resolved(calls[k], FALSE, renames)]]>>
        \o [k \in DOMAIN s.messages |->
             Join([Nothing EXCEPT !.types = <<<<names.messages[k]>>>>],
                  Body(s.messages[k], <<names.messages[k]>>, s.proto3, renames))])
      declared == DeclaredTypes(s.messages, s.enums, <<>>)
      missing == {r.path : r \in {q \in ToSet(text.references) :
                                  ~q.absolute /\ ~q.map /\ ~ResolvesLocally(q.path, q.scope, declared)}} \ declared
      asEnums == EnumTypes(s.messages, renames)
      Zero(name) == [name |-> [name EXCEPT !.form = "unspecified"], number |-> 0]
  IN [text EXCEPT !.types = @ \o SetToSeq({<<Joined(path)>> : path \in missing}),
                  !.enums = @ \o SetToSeq({[path |-> <<Joined(path)>>, scope |-> <<>>, values |-> <<Zero(Joined(path))>>] :
                                             path \in missing \intersect asEnums})]
     @@ [services |-> services]

-----------------------------------------------------------------------------
(* _validate_proto_budget *)
RECURSIVE Weight(_)
Weight(messages) ==
  FoldLeft(LAMBDA sum, m : sum + 1 + Len(m.fields) + Len(m.enums) + Weight(m.messages)
             + FoldLeft(LAMBDA n, e : n + Len(e.values), 0, m.enums), 0, messages)
RECURSIVE Depth(_)
Depth(messages) ==
  IF messages = <<>> THEN 0 ELSE 1 + Max({Depth(messages[k].messages) : k \in DOMAIN messages})
ItemCount(s) ==
  Weight(s.messages) + Len(s.enums) + Len(s.services)
    + FoldLeft(LAMBDA n, e : n + Len(e.values), 0, s.enums)
    + FoldLeft(LAMBDA n, service : n + Len(service.types) \div 2, 0, s.services)

EmitInit(inputs) == schema \in inputs /\ emitted = <<>> /\ emitting = "going"

EmitFile ==
  /\ emitting = "going"
  /\ ItemCount(schema) <= MaxItems /\ Depth(schema.messages) <= MaxDepth
  /\ emitted' = Emitted(schema)
  /\ emitting' = "done"
  /\ UNCHANGED schema

RefuseBudget ==
  /\ emitting = "going"
  /\ ItemCount(schema) > MaxItems \/ Depth(schema.messages) > MaxDepth
  /\ emitting' = "refused"
  /\ UNCHANGED <<schema, emitted>>

EmitNext == EmitFile \/ RefuseBudget
-----------------------------------------------------------------------------
(* What protoc makes of the file: the innermost scope that declares the    *)
(* first name of a relative path is the one the path is looked up in.      *)
Types == ToSet(emitted.types)
ProtocFinds(reference) ==
  LET depths == {d \in 0..Len(reference.scope) :
                   Append(SubSeq(reference.scope, 1, d), reference.path[1]) \in Types}
      scope == IF reference.absolute \/ depths = {} THEN <<>> ELSE SubSeq(reference.scope, 1, Max(depths))
  IN scope \o reference.path

\* Inputs for which the text is known not to compile or to mean something
\* else: a group in a oneof, whose message is not declared; an alias that
\* gets the number another value was given as a suffix; a value that folds to
\* the zero put before it, which is not among those it is compared with; a
\* field or oneof named like a message, an enum or a value in the same message, since
\* _message_body looks at fields and oneofs only; a type whose parent is missing,
\* that shares its name with one that encloses it, or that is nested or missing
\* and named like a keyword; and a map of values whose type nothing declares.
Gap(s) ==
  LET Grouped(m) == \A k \in DOMAIN m.fields : ~(m.fields[k].group /\ m.fields[k].oneof # NoOneof)
      Aliased(e) == \A k, l \in DOMAIN e.values :
                      k # l /\ e.values[k].number = e.values[l].number =>
                        e.values[k].name.words # e.values[l].name.words
      Pathless(m) == \A k \in DOMAIN m.fields :
                       Len(m.fields[k].type) > 1 \/ m.fields[k].type \in (Seq(Keywords) \ {<<>>}) => m.fields[k].type \in DOMAIN Renames(s.messages, s.enums, <<>>, <<>>)
      Words(items) == {items[k].name.words : k \in DOMAIN items}
      Members(m) == Words(m.fields) \union {f.oneof.words : f \in {g \in ToSet(m.fields) : g.oneof # NoOneof}}
      Clear(m) == Members(m) \intersect
                    (Words(m.messages) \union Words(m.enums) \union UNION {Words(e.values) : e \in ToSet(m.enums)}) = {}
      Apart(enums) == \A k \in DOMAIN enums : Aliased(enums[k]) /\ ZeroApart(enums[k], s.proto3)
  IN ~(/\ \A m \in AllMessages(s.messages) : Grouped(m) /\ Pathless(m) /\ Clear(m) /\ Apart(m.enums)
       /\ Apart(s.enums)
       /\ \A r \in ToSet(emitted.references) :
            r.map /\ ~r.absolute => ResolvesLocally(r.path, r.scope, DeclaredTypes(s.messages, s.enums, <<>>))
       /\ \A path \in Types : Len(path) > 1 => <<Last(path)>> \notin Types)

(* The text of a schema compiles (protoc's rules, which the comments of    *)
(* emit/proto.py state): the types, enum values, fields and oneofs of a    *)
(* scope have one name each, and so have the services; values that fold    *)
(* together have one number; a proto3 enum begins with zero; and every     *)
(* reference finds a type, which is an enum if the field says so and the   *)
(* type had to be made up.                                                 *)
Compilable ==
  emitting = "done" /\ ~Gap(schema) =>
    /\ LET Scoped(scope, names) == [k \in DOMAIN names |-> Append(scope, names[k])]
           values == [k \in DOMAIN emitted.enums |-> Scoped(emitted.enums[k].scope, NamesOf(emitted.enums[k].values))]
           members == [k \in DOMAIN emitted.fields |-> Scoped(emitted.fields[k].scope, emitted.fields[k].names)]
       IN IsInjective(emitted.types \o FlattenSeq(values) \o FlattenSeq(members))
    /\ IsInjective(emitted.services)
    /\ \A k \in DOMAIN emitted.services : <<emitted.services[k]>> \notin DeclaredTypes(schema.messages, schema.enums, <<>>)
    /\ \A k \in DOMAIN emitted.enums :
         LET values == emitted.enums[k].values IN
         /\ values # <<>> /\ (schema.proto3 => values[1].number = 0)
         /\ FoldOne(values)
    /\ \A k \in DOMAIN emitted.references : ProtocFinds(emitted.references[k]) \in Types
    /\ LET made == Types \ DeclaredTypes(schema.messages, schema.enums, <<>>)
       IN \A type \in EnumTypes(schema.messages, Renames(schema.messages, schema.enums, <<>>, <<>>)) :
            <<Joined(type)>> \in made => \E k \in DOMAIN emitted.enums : emitted.enums[k].path = <<Joined(type)>>
=============================================================================
