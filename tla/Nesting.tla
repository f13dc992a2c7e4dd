------------------------------ MODULE Nesting ------------------------------
(***************************************************************************)
(* cli.py, _combined_lite_descriptors: the messages and enums recovered    *)
(* class by class are put back into one file per package, each under the   *)
(* class that encloses it, with its short name, and the fields that name   *)
(* them are made to name them there.                                       *)
(*                                                                         *)
(* A name is the sequence of its words, joined by "_" in the code; a class *)
(* is the sequence of its "$" segments, each a name; a type is the         *)
(* sequence of its "." segments.  Reconciliation has made the classes of a *)
(* package distinct.  An enclosing class is the class without its last     *)
(* segment, as the compiler writes it and as the code falls back to.       *)
(***************************************************************************)
EXTENDS Naturals, Sequences, FiniteSets, SequencesExt, FiniteSetsExt, TLC

VARIABLES
  items,      \* the schemas of one package, in the order they were found:
              \* [class, fields, enums]; a field is [to, map], the class it is
              \* about; an enum is [class, values]
  short,      \* the name of each message
  fieldTypes, \* the type names of each message's fields
  placed,     \* the enums kept: [class, name, owner], owner 0 at file level
  nesting     \* "found" | "messages" | "done"

nestingVars == <<items, short, fieldTypes, placed, nesting>>

Items == DOMAIN items
Flat(class) == FlattenSeq(class)
\* decode/lite.py, _class_name: the outermost class is left out.
ClassName(class) == IF Len(class) > 1 THEN Flat(Tail(class)) ELSE Flat(class)

\* The message of the enclosing class, 0 if none was recovered.
Holder(class) ==
  LET holders == {k \in Items : items[k].class = Front(class)}
  IN IF Len(class) = 1 \/ holders = {} THEN 0 ELSE CHOOSE k \in holders : TRUE

\* Without the first of the prefixes that it starts with.
Stripped(name, prefixes) ==
  LET fitting == SelectSeq(prefixes, LAMBDA p : IsStrictPrefix(p, name))
  IN IF fitting = <<>> THEN name ELSE SubSeq(name, Len(fitting[1]) + 1, Len(name))

RECURSIVE PathOf(_, _)
PathOf(k, names) ==
  LET holder == Holder(items[k].class)
  IN IF holder = 0 THEN <<names[k]>> ELSE Append(PathOf(holder, names), names[k])

-----------------------------------------------------------------------------
(* _apply_nested_renames: a type that is a key, or a key that occurs in    *)
(* the text of a map type, the longest first.                              *)
Occurrences(name, renames) ==
  {r \in (DOMAIN name) \X (DOMAIN name) : SubSeq(name, r[1], r[2]) \in DOMAIN renames}

Substituted(name, renames) ==
  LET found == Occurrences(name, renames)
      at == CHOOSE r \in found : \A o \in found : r[1] < o[1] \/ (r[1] = o[1] /\ r[2] >= o[2])
      path == renames[SubSeq(name, at[1], at[2])]
      headed == [path EXCEPT ![1] = SubSeq(name, 1, at[1] - 1) \o @]
  IN IF found = {} THEN <<name>>
     ELSE [headed EXCEPT ![Len(path)] = @ \o SubSeq(name, at[2] + 1, Len(name))]

Renamed(type, isMap, renames) ==
  CASE Len(type) = 1 /\ type[1] \in DOMAIN renames -> renames[type[1]]
    [] isMap -> FlattenSeq([n \in DOMAIN type |-> Substituted(type[n], renames)])
    [] OTHER -> type

RenameFields(renames) ==
  [k \in Items |->
    [n \in DOMAIN fieldTypes[k] |->
      Renamed(fieldTypes[k][n], items[k].fields[n].map, renames)]]

-----------------------------------------------------------------------------
NestingInit(packages) ==
  /\ items \in packages
  /\ short = [k \in Items |-> ClassName(items[k].class)]
  /\ fieldTypes = [k \in Items |->
                     [n \in DOMAIN items[k].fields |-> <<ClassName(items[k].fields[n].to)>>]]
  /\ placed = {}
  /\ nesting = "found"

\* The names after the first k messages: the parent's may be short already.
ShortNames ==
  LET Attach(names, k) ==
        LET holder == Holder(items[k].class) IN
        IF holder = 0 THEN names
        ELSE [names EXCEPT ![k] = Stripped(@, <<Flat(Front(items[k].class)), names[holder]>>)]
  IN FoldLeft(Attach, short, [k \in Items |-> k])

FlatRenames(names) ==   \* mutant: the name that the message had before is forgotten
  FoldLeft(LAMBDA renames, k :
             IF Holder(items[k].class) = 0 THEN renames
             ELSE (Flat(items[k].class) :> PathOf(k, names)) @@ renames,
           <<>>, [k \in Items |-> k])

\* Keys: the whole class, and the name that the message had.
MessageRenames(names) ==
  FoldLeft(LAMBDA renames, k :
             IF Holder(items[k].class) = 0 THEN renames
             ELSE (IF short[k] # names[k] THEN (short[k] :> PathOf(k, names)) ELSE <<>>)
                    @@ (Flat(items[k].class) :> PathOf(k, names)) @@ renames,
           <<>>, [k \in Items |-> k])

NestMessages ==
  /\ nesting = "found"
  /\ short' = ShortNames
  /\ fieldTypes' = RenameFields(MessageRenames(ShortNames))
  /\ nesting' = "messages"
  /\ UNCHANGED <<items, placed>>

\* Every enum that a message referred to, by name; one that two messages
\* recovered with different values is dropped.
EnumsFound == UNION {items[k].enums : k \in Items}
KeptEnums ==
  {e \in EnumsFound :
     \A f \in EnumsFound : ClassName(f.class) = ClassName(e.class) => f.values = e.values}

EnumName(enum) ==
  LET holder == Holder(enum.class)
  IN IF holder = 0 THEN ClassName(enum.class)
     ELSE Stripped(ClassName(enum.class), <<Flat(Front(enum.class)), short[holder]>>)

NestEnums ==
  LET renamed == {e \in KeptEnums : EnumName(e) # ClassName(e.class)}
      renames == [name \in {ClassName(e.class) : e \in renamed} |->
                    LET e == CHOOSE e \in renamed : ClassName(e.class) = name
                    IN Append(PathOf(Holder(e.class), short), EnumName(e))]
  IN /\ nesting = "messages"
     /\ placed' = {[class |-> e.class, name |-> EnumName(e), owner |-> Holder(e.class)] : e \in KeptEnums}
     /\ fieldTypes' = RenameFields(renames)
     /\ nesting' = "done"
     /\ UNCHANGED <<items, short>>

NestingNext == NestMessages \/ NestEnums

-----------------------------------------------------------------------------
(* protoc's lookup of a type from inside a message: the innermost scope    *)
(* that declares it.                                                       *)
Declared ==
  {PathOf(k, short) : k \in Items}
    \union {(IF e.owner = 0 THEN <<>> ELSE PathOf(e.owner, short)) \o <<e.name>> : e \in placed}
Lookup(type, k) ==
  LET scope == PathOf(k, short)
      depths == {d \in 0..Len(scope) : SubSeq(scope, 1, d) \o type \in Declared}
  IN IF depths = {} THEN <<>> ELSE SubSeq(scope, 1, Max(depths)) \o type

\* Where the message or enum of a class has gone; <<>> if it was dropped.
Place(class) ==
  LET messages == {k \in Items : items[k].class = class}
      enums == {e \in placed : e.class = class}
  IN IF messages # {} THEN PathOf(CHOOSE k \in messages : TRUE, short)
     ELSE IF enums = {} THEN <<>>
     ELSE LET e == CHOOSE e \in enums : TRUE
          IN (IF e.owner = 0 THEN <<>> ELSE PathOf(e.owner, short)) \o <<e.name>>

Follows(k, n) ==
  LET to == items[k].fields[n].to
  IN Place(to) # <<>> => Lookup(fieldTypes[k][n], k) = Place(to)

(* A field that named a recovered message or enum names it wherever it has *)
(* gone, also as the value of a map (_nested_lite_messages,                *)
(* _nested_lite_enums): else emit_proto declares a hollow type in its      *)
(* place.  It holds if every message was found before its holder, as the   *)
(* types of one DEX file are ordered, for a message and for an enum of a   *)
(* message that is not nested itself, unless the name contains that of     *)
(* another, or one of the same short name elsewhere captures it.           *)
InnerFirst == \A j, k \in Items : Holder(items[j].class) = k => j < k
Plain(k, n) ==
  LET field == items[k].fields[n]
      name == ClassName(field.to)
      holder == Holder(field.to)
      isMessage == \E j \in Items : items[j].class = field.to
  IN /\ isMessage \/ holder = 0 \/ Holder(items[holder].class) = 0
     /\ \A path \in Declared : Last(path) = Last(Place(field.to)) => path = Place(field.to)
     /\ field.map /\ holder = 0 =>
          \A i, j \in DOMAIN name, o \in Items :
            SubSeq(name, i, j) \in {ClassName(items[o].class), Flat(items[o].class)} => j - i + 1 = Len(name)
ReferencesFollow ==
  nesting = "done" /\ InnerFirst =>
    \A k \in Items : \A n \in DOMAIN items[k].fields :
      Place(items[k].fields[n].to) # <<>> /\ Plain(k, n) => Follows(k, n)
=============================================================================
