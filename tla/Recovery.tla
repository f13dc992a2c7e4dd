------------------------------ MODULE Recovery ------------------------------
(***************************************************************************)
(* The sequential part of an extraction, stage by stage: descriptors are   *)
(* gathered from the input; methods are scanned for newMessageInfo calls,  *)
(* and what they pass is decoded; the classes Square Wire generated are    *)
(* read; recoveries of one schema are merged; the messages of a package    *)
(* are nested; files get their names; the text of a schema is emitted; and *)
(* the descriptor files are packed and read back.  A behaviour is about    *)
(* one stage, on every input of it; the others do not take a step.         *)
(***************************************************************************)
EXTENDS Gather, LiteScan, LiteInfo, WireScan, Reconcile, Nesting, OutputNames, EmitProto, DescriptorFiles

VARIABLE stage   \* what the behaviour is about

readingVars == <<gatherVars, scanVars, liteVars, wireVars>>
writingVars == <<mergeVars, nestingVars, namesVars, emitVars, filesVars>>
vars == <<stage, readingVars, writingVars>>

-----------------------------------------------------------------------------
(* Inputs of Gather: every short blob, gzip in gzip, and archives whose    *)
(* members pass or fail each of the limits.                                *)
Token(kind, value) == [kind |-> kind, value |-> value, payload |-> <<>>, whole |-> TRUE]
Gzip(payload, whole) == [kind |-> "gzip", value |-> 0, payload |-> payload, whole |-> whole]
blobs == BoundedSeq({Token("name", 1), Token("body", 4), Token("body", 5), Token("noise", 0)}, 4)
d1 == <<Token("name", 2), Token("body", 4)>>
d2 == <<Token("name", 2), Token("body", 5)>>
z1 == <<Token("noise", 0), Gzip(d1, TRUE)>>
z2 == <<Gzip(z1, TRUE), Token("name", 1), Token("body", 4)>>
z3 == <<Gzip(z2, TRUE)>>
gzips == {<<Gzip(p, w), Gzip(q, TRUE)>> : p \in {d1, z1, z2, z3, <<>>}, q \in {d1, z1, <<>>}, w \in BOOLEAN}
MCBlobs == blobs \union gzips \union {d1, d2, z1, z2, z3, <<>>}
Entry(name, kind, safe, size, readable, data, inside) ==
  [name |-> name, length |-> 1, kind |-> kind, safe |-> safe, size |-> size,
   readable |-> readable, data |-> data, inside |-> inside]
Jar(safe, readable) ==
  Entry(JarName, "resource", TRUE, 2, readable, <<>>, <<Entry("c", "class", safe, 2, TRUE, d2, <<>>)>>)
more == {<<>>, <<Jar(TRUE, TRUE)>>, <<Jar(TRUE, FALSE)>>, <<Jar(FALSE, TRUE)>>,
         <<Entry("d", "class", TRUE, 1, TRUE, d2, <<>>), Entry("e", "class", TRUE, 1, TRUE, d2, <<>>)>>}
archives ==
  {[aar |-> FALSE, entries |-> <<Entry("a", "dex", TRUE, 1, TRUE, data, <<>>)>>] : data \in blobs \union gzips}
  \union
  {[aar |-> aar, entries |-> <<Entry("a", kind, safe, x, readable, d1, <<>>), Entry(name, "asset", TRUE, y, TRUE, z2, <<>>)>> \o rest] :
     aar \in BOOLEAN, kind \in {"dex", "resource", "directory"}, safe \in BOOLEAN, readable \in BOOLEAN,
     x \in {1, 3}, y \in 1..2, name \in {"a", "b"}, rest \in more}
ASSUME ArchivesAssumption == \A x \in archives : Archive(x)

(* Methods: two bodies that each build an array and call newMessageInfo,   *)
(* with any instructions of the second left out; how they are reached and  *)
(* left; two paths that share a call; and a filled array.                  *)
Number(n) == [kind |-> "int", value |-> n]
Text(name, fields) == [kind |-> "string", value |-> [name |-> name, fields |-> fields]]
Ins(op, dst, src, to) == [op |-> op, dst |-> dst, src |-> src, value |-> Unknown, to |-> to]
Set(dst, value) == [op |-> "const", dst |-> dst, src |-> <<>>, value |-> value, to |-> <<>>]
invoke == Ins("invoke", 0, <<>>, <<>>)
return == Ins("return", 0, <<>>, <<>>)
put == Ins("put", 0, <<3, 1, 2>>, <<>>)
call == Ins("call", 0, <<0, 1>>, <<>>)
Filling(name, fields, size) ==
  <<Set(0, Text(name, fields)), Set(2, Number(size)), Ins("new", 1, <<2>>, <<>>), Set(3, Text(name, -1)), Set(2, Number(0)), put, call>>
starts == {Ins("switch", 0, <<>>, <<3, 10>>), Ins("sparse", 0, <<>>, <<3, 10>>), Ins("if", 0, <<>>, <<10>>), Ins("goto", 0, <<>>, <<5>>), Ins("if", 0, <<>>, <<13>>)}
ends == {return, Ins("other", 3, <<>>, <<>>), Ins("goto", 0, <<>>, <<13>>)}
twoBodies ==
  {<<Set(2, Number(1)), start>> \o Filling("a", fields, 1) \o <<end>>
     \o [k \in 1..7 |-> IF k \in skip THEN invoke ELSE Filling("b", 1, size)[k]] \o <<return>> :
       start \in starts, end \in ends, fields \in 0..1, size \in 1..2, skip \in SUBSET {1, 2, 3, 5}}
sharedCall ==
  {<<Set(2, Number(1)), Ins("new", 1, <<2>>, <<>>), Set(3, Text("c", -1)), Set(2, Number(0)), put, Ins("if", 0, <<>>, <<9>>),
     x, Ins("goto", 0, <<>>, <<12>>), y, Ins("goto", 0, <<>>, <<12>>), return, call>> :
       x \in {Set(0, Text("a", 1)), Set(0, Text("b", 1)), Ins("move", 0, <<3>>, <<>>)},
       y \in {Set(0, Text("a", 1)), Set(0, Text("b", 1)), Set(3, Text("a", 1))}}
guessed ==
  {<<Set(0, Number(2)), Ins("new", 1, <<0>>, <<>>), Set(0, Text("a", 1)), invoke, Ins("other", 2, <<>>, <<>>),
     Set(3, Text("c", -1)), put, x, put, call>> : x \in {Set(2, Number(1)), Set(3, Text("e", -1))}}
filled ==
  {<<Set(0, Text("a", 1)), Set(3, Text("a", -1)), Set(2, Number(0)), Ins("filled", 0, src, <<>>),
     Ins("result", 1, <<>>, <<>>), x, Ins("move", 3, <<0>>, <<>>), put, call>> :
       src \in {<<3>>, <<3, 0>>, <<0, 2>>},
       x \in {Set(2, Number(1)), Ins("other", 2, <<>>, <<>>), Ins("if", 0, <<>>, <<8>>), Ins("switch", 0, <<>>, <<7, 8>>)}}
\* Where the scan loses its way: a result read too late, a loop, cases that
\* are jumped to or skipped, an array that one path fills, or under a second
\* name, or with what is not known, or that is full, two arrays alike.
object == Set(3, Text("c", -1))
other == Set(3, Text("e", -1))
strays ==
  {<<Set(0, Text("a", 1)), object, Ins("filled", 0, <<3>>, <<>>), x, Ins("result", 1, <<>>, <<>>), Set(0, Text("a", 1)), call>> :
     x \in {call, Ins("virtual", 0, <<>>, <<>>)}}
  \union
  {<<Set(0, Text("a", 0)), call, Set(0, Text("b", 0)), Ins("if", 0, <<>>, <<2>>), return>>,
   <<Set(0, Text("a", 0)), Ins("if", 0, <<>>, <<6>>), Set(0, Text("b", 0)), Ins("switch", 0, <<>>, <<6>>), return, call>>,
   <<Ins("sparse", 0, <<>>, <<4>>), Set(0, Text("a", 0)), return, call>>,
   <<Set(2, Number(1)), Ins("new", 1, <<2>>, <<>>), object, Set(2, Number(0)), Ins("if", 0, <<>>, <<7>>), put, Set(0, Text("a", 1)), call>>,
   <<Set(2, Number(1)), Ins("if", 0, <<>>, <<6>>), Ins("new", 1, <<2>>, <<>>), Ins("move", 0, <<1>>, <<>>), Ins("goto", 0, <<>>, <<9>>),
     Ins("new", 1, <<2>>, <<>>), Ins("new", 0, <<2>>, <<>>), Ins("goto", 0, <<>>, <<9>>),
     object, Set(2, Number(0)), put, Set(2, Text("a", 1)), Ins("call", 0, <<2, 0>>, <<>>)>>}
  \union
  {<<Set(2, Number(1)), Ins("new", 1, <<2>>, <<>>), object, Set(2, Number(0)), put, Ins("if", 0, <<>>, <<9>>), x, Ins("goto", 0, <<>>, <<11>>),
     Ins("goto", 0, <<>>, <<11>>), return, y, Ins("put", 0, <<3, array, 2>>, <<>>), Set(0, Text("a", 1)), call>> :
       x \in {Ins("move", 0, <<1>>, <<>>), Set(2, Number(7)), Set(1, Number(1)), other}, y \in {other, invoke}, array \in 0..1}

programs == twoBodies \union sharedCall \union guessed \union filled \union strays
ASSUME ProgramsAssumption == \A p \in programs : Method(p)

(* Messages of at most three fields, of every kind: in a oneof, with       *)
(* presence, with small and with the largest numbers; and what a shrinker  *)
(* left of their class.                                                    *)
shapes ==
  {<<kind, oneof, presence>> \in {"scalar", "message", "enum", "messages", "map"} \X {Alone, 0} \X BOOLEAN :
     /\ oneof = 0 => kind \notin {"messages", "map"} /\ ~presence
     /\ presence => kind \in {"scalar", "message"}}
numbers == <<1, 70000, 536870911>>
Source(shape, proto2, survives) ==
  [fields |-> [k \in DOMAIN shape |->
                [number |-> numbers[k], kind |-> shape[k][1], oneof |-> shape[k][2], presence |-> shape[k][3],
                 name |-> <<"x", "y", "z">>[k], class |-> <<"X", "Y", "Z">>[k]]],
   proto2 |-> proto2, survives |-> survives]
everything == {"constants", "accessors", "declarations", "names", "nesting"}
sources ==
  {Source(shape, proto2, survives) :
     shape \in {<<>>} \union [1..2 -> shapes], proto2 \in BOOLEAN,
     survives \in {everything, {"names", "accessors", "nesting"}, {"nesting", "declarations"}}}
  \union
  {Source(shape, FALSE, {"names", "declarations", "nesting"}) : shape \in [1..3 -> shapes]}
MCDamages == {[at |-> 0, by |-> b] : b \in {"none", "cut", "longer"}} \union {[at |-> 5, by |-> "more"]}
MCObscured == {1, 2}
MCObscurings == {"unknown", "call_result", "static_field"}

(* Wire classes of two fields or of three, with annotations and with what  *)
(* their constructor may look like, or without and with what may be left   *)
(* of the names.                                                           *)
wireShapes ==
  {<<kind, mode, oneof>> \in {"int64", "string", "message", "enum", "itself"} \X {"plain", "optional", "repeated", "oneof"} \X (0..2) :
     /\ (mode = "oneof") = (oneof # 0)
     /\ kind = "itself" => mode \in {"plain", "repeated"}
     /\ kind = "message" => mode # "optional"}
fewShapes == {<<"int64", "plain", 0>>, <<"int64", "oneof", 1>>, <<"string", "optional", 0>>, <<"message", "oneof", 1>>, <<"enum", "repeated", 0>>}
WireSource(q, proto3, annotated, allocation, boxing, enums, left, adapters) ==
  [fields |-> [k \in DOMAIN q |-> [number |-> 3 * k - 2, kind |-> q[k][1], mode |-> q[k][2], oneof |-> q[k][3]]],
   proto3 |-> proto3, annotated |-> annotated, allocation |-> allocation, boxing |-> boxing,
   enums |-> enums, names |-> left, adapters |-> adapters]
wireShapeLists == (fewShapes \X wireShapes) \union (fewShapes \X fewShapes \X fewShapes)
wireClasses ==
  {WireSource(q, proto3, TRUE, allocation, "same", enums, "kept", TRUE) :
     q \in wireShapeLists, proto3 \in BOOLEAN, allocation \in {"direct", "shared", "zero", "range"}, enums \in {"kept", "stripped"}}
  \union
  {WireSource(q, TRUE, FALSE, allocation, boxing, left, left, adapters) :
     q \in wireShapeLists, allocation \in {"direct", "range"}, boxing \in {"same", "elsewhere"},
     left \in {"kept", "gone"}, adapters \in BOOLEAN}

(* Recoveries of two fields, of a method and of an enum, that agree or     *)
(* differ in what they say, in what is not compared, in confidence and in  *)
(* evidence, which may name a place twice.                                 *)
evidences == {[p |-> 1, q |-> 0], [p |-> 2, q |-> 0], [p |-> 1, q |-> 1]}
Recovered(kind, slot, says, flags, rank, evidence) ==
  [kind |-> kind, slot |-> slot, says |-> says, flags |-> flags, rank |-> rank, evidence |-> evidence]
recoveries ==
  {Recovered("field", 1, says, flags, rank, [p |-> 1, q |-> 0]) : says \in Contents, flags \in BOOLEAN, rank \in Ranks}
  \union
  {Recovered("field", 2, "a", FALSE, 0, evidence) : evidence \in evidences}
  \union
  {Recovered("field", 1, "b", FALSE, 2, evidence) : evidence \in evidences}
  \union
  {Recovered("method", 1, says, says = "b", rank, evidence) : says \in Contents, rank \in {0, 2}, evidence \in evidences}
  \union
  {[kind |-> "enum", values |-> values, rank |-> rank, evidence |-> [p |-> rank, q |-> 1]] :
     values \in {<<"a", "none">>, <<"b", "a">>, <<"b", "none">>, <<"a", "b">>}, rank \in Ranks}
ASSUME RecoveriesAssumption == recoveries \subseteq Recoveries

(* Packages of two or three messages, nested up to three classes deep, the *)
(* first with a field of one of them or of an enum.                        *)
W == <<"W">>
A == <<"A">>
B == <<"B">>
C == <<"C">>
E == <<"E">>
classes == {<<W, A>>, <<W, A, B>>, <<W, A, B, C>>, <<W, <<"X", "A", "B">>>>, <<A, <<"A", "B">>>>, <<A>>}
enumClasses == {<<W, A, E>>, <<W, A, B, E>>, <<W, E>>}
BareName(class) == FlattenSeq(IF Len(class) > 1 THEN Tail(class) ELSE class)
distinct ==
  UNION {{q \in [1..n -> classes] : \A i, j \in 1..n : BareName(q[i]) = BareName(q[j]) => i = j} : n \in 2..3}
packages ==
  {[k \in DOMAIN q |->
      [class |-> q[k],
       fields |-> IF k = 1 THEN <<[to |-> to, map |-> map]>> ELSE <<>>,
       enums |-> IF k = 1 /\ to \in enumClasses THEN {[class |-> to, values |-> 1]}
                 ELSE IF twice /\ k = 2 THEN {[class |-> <<W, A, E>>, values |-> 2]} ELSE {}]] :
     q \in distinct, to \in classes \union enumClasses, map \in BOOLEAN, twice \in BOOLEAN}

(* File names: a sequence of parts, the first ones packages, the last ones *)
(* numbers, in one case or the other; too long with more than three.       *)
FileName(parts, upper) == [parts |-> parts, upper |-> upper]
MCKey(name) == name.parts
MCPackaged(name) == FileName(<<"p">> \o name.parts, name.upper)
MCNumbered(name, n) == FileName(name.parts \o <<ToString(n)>>, name.upper)
MCUnsafe(name) == Len(name.parts) > 3
MCReserved == {<<"report">>}
fileNames == {FileName(parts, upper) : parts \in {<<"a">>, <<"report">>, <<"p", "a">>, <<"a", "2">>, <<"p", "a", "2">>}, upper \in BOOLEAN}
MCRequests == BoundedSeq([name : fileNames, hasPackage : BOOLEAN], 2)
  \union [1..4 -> [name : {FileName(<<"a">>, FALSE), FileName(<<"p", "a">>, TRUE)}, hasPackage : BOOLEAN]]

(* Schemas, each set for one part of the emitter: the declarations of a    *)
(* scope, enum values, references, fields and oneofs, groups, and a schema *)
(* beyond the limits.                                                      *)
Word(word, form, suffixes) == [words |-> <<word>>, form |-> form, numbers |-> suffixes]
a == Word("a", "plain", <<>>)
b == Word("b", "plain", <<>>)
c == Word("c", "plain", <<>>)
d == Word("d", "plain", <<>>)
a2 == Word("a", "plain", <<2>>)
odd == Word("a", "odd", <<>>)
up == Word("a", "upper", <<>>)
keyword == Word("message", "plain", <<>>)
MCKeywords == {keyword}
Fld(name, number, rank, oneof, group, type, isEnum) ==
  [name |-> name, number |-> number, rank |-> rank, oneof |-> oneof, group |-> group, map |-> FALSE, type |-> type,
   absolute |-> FALSE, isEnum |-> isEnum]
Ref(type, isEnum) == Fld(d, 2, 1, NoOneof, FALSE, type, isEnum)
Msg(name, fields, messages, enums) == [name |-> name, fields |-> fields, messages |-> messages, enums |-> enums]
Enm(name, values) == [name |-> name, values |-> values]
Val(name, number) == [name |-> name, number |-> number]
Svc(name, types) == [name |-> name, types |-> types]
Sch(proto3, messages, enums, services) == [proto3 |-> proto3, messages |-> messages, enums |-> enums, services |-> services]
odds == {a, odd, a2, keyword}
declarations ==
  {Sch(TRUE, <<Msg(x, <<>>, <<>>, <<>>), Msg(y, <<>>, <<>>, <<>>)>>, <<Enm(z, <<Val(b, 0)>>)>>,
       <<Svc(v, <<>>), Svc(w, <<<<x>>, <<c>>>>)>>) : x \in odds, y \in odds, z \in odds, v \in {a, odd}, w \in {a, odd}}
enumValues == {Val(n, k) : n \in {a, odd, up, a2}, k \in {0, 1}}
enumerations ==
  {Sch(p, <<>>, <<Enm(x, v), Enm(b, w)>>, <<>>) :
     p \in BOOLEAN, x \in {a, b}, v \in BoundedSeq(enumValues, 3), w \in {<<>>, <<Val(a2, 1), Val(a, 0)>>}}
zeros ==
  {Sch(p, <<>>, <<Enm(a, <<Val(x, k), Val(y, l)>>)>>, <<>>) :
     p \in BOOLEAN, k \in {0, 1}, l \in {0, 1},
     x \in {b, Word("a", "unspecified", <<>>)}, y \in {Word("a", "lowered", <<>>), Word("a", "lowered", <<2>>)}}
references ==
  {Sch(TRUE, <<Msg(x, <<Ref(t, isEnum)>>, <<Msg(y, <<Ref(u, FALSE)>>, <<>>, <<Enm(b, <<>>)>>)>>, <<>>), Msg(z, <<>>, <<>>, <<>>)>>, <<>>, <<>>) :
     x \in {a, odd, keyword}, y \in {a2, odd}, z \in {a, a2, b}, isEnum \in BOOLEAN,
     t \in {<<a>>, <<odd>>, <<a, odd>>, <<odd, a2>>, <<a2>>, <<keyword>>, <<c>>, <<b>>}, u \in {<<>>, <<b>>, <<a>>, <<a, odd, b>>}}
maps ==
  {Sch(TRUE, <<Msg(x, <<[Ref(t, isEnum) EXCEPT !.map = TRUE], Fld(c, 3, 1, NoOneof, FALSE, u, isEnum)>>,
                   <<Msg(y, <<>>, <<>>, <<Enm(b, <<>>)>>)>>, <<>>), Msg(z, <<>>, <<>>, <<>>)>>, <<>>, <<>>) :
     x \in {a, odd, keyword}, y \in {a2, odd}, z \in {a, b, keyword}, isEnum \in BOOLEAN,
     t \in {<<a>>, <<odd>>, <<odd, a2>>, <<a2>>, <<keyword>>, <<c>>, <<b>>}, u \in {<<>>, <<c>>}}
members ==
  {Sch(TRUE, <<Msg(b, <<Fld(x, i, 1, o, FALSE, <<>>, FALSE), Fld(y, j, r, q, FALSE, <<>>, FALSE)>>, <<>>, <<>>)>>, <<>>, <<>>) :
     x \in {a, odd}, y \in {a, odd, a2}, i \in 1..2, j \in 1..2, r \in 1..2, o \in {NoOneof, a}, q \in {NoOneof, a, odd, a2}}
groups ==
  {Sch(FALSE, <<Msg(b, <<Fld(b, 1, 1, o, g, <<a>>, FALSE), Fld(d, 2, 1, NoOneof, h, <<a2>>, FALSE)>>,
                    <<Msg(a, <<Ref(<<a2>>, FALSE)>>, <<>>, <<>>), Msg(a2, <<>>, <<>>, <<>>)>>, <<>>)>>, <<>>, <<>>) :
     o \in {NoOneof, a, c}, g \in BOOLEAN, h \in BOOLEAN}
deep == Sch(TRUE, <<Msg(a, <<>>, <<Msg(b, <<>>, <<Msg(c, <<>>, <<>>, <<>>)>>, <<>>)>>, <<>>)>>, <<>>, <<>>)
emitInputs == declarations \union enumerations \union zeros \union references \union maps \union members \union groups \union {deep}

(* Descriptor files in any order, with any dependencies, a file twice, two *)
(* files of one name, and files without one.                               *)
MCFileNames == <<"f", "g", "h">>
Descriptor(name, deps, body, size) == [name |-> name, deps |-> deps, body |-> body, size |-> size]
descriptors ==
  {<<Descriptor("f", x, 1, 1), Descriptor("g", y, 1, 1), Descriptor("h", z, 1, 1)>> :
     x \in SUBSET {"g", "h", "other"}, y \in SUBSET {"f", "h"}, z \in SUBSET {"f", "g"}}
  \union
  {<<Descriptor(m, {}, 1, 1), Descriptor(n, {"f"}, body, size), Descriptor("f", {}, 1, 1)>> :
     m \in {"f", "g"}, n \in {"f", "g", "none"}, body \in 1..2, size \in {1, 3}}
  \union {[k \in 1..4 |-> Descriptor("f", {}, 1, 1)]}

-----------------------------------------------------------------------------
\* Of the stages a behaviour is not about, one initial state each stands still.
Init ==
  /\ stage \in {"gather", "scan", "decode", "wire", "merge", "nest", "name", "emit", "pack"}
  /\ GatherInit(IF stage = "gather" THEN archives ELSE {[aar |-> FALSE, entries |-> <<>>]})
  /\ ScanInit(IF stage = "scan" THEN programs ELSE {<<>>})
  /\ LiteInit(IF stage = "decode" THEN sources ELSE {Source(<<>>, TRUE, everything)})
  /\ stage # "decode" => chars = WrittenChars(source)
  /\ WireInit(IF stage = "wire" THEN wireClasses ELSE {WireSource(<<>>, TRUE, TRUE, "direct", "same", "kept", "kept", TRUE)})
  /\ MergeInit
  /\ NestingInit(IF stage = "nest" THEN packages ELSE {<<>>})
  /\ NamesInit
  /\ stage # "name" => schemas = <<>>
  /\ EmitInit(IF stage = "emit" THEN emitInputs ELSE {deep})
  /\ FilesInit(IF stage = "pack" THEN descriptors ELSE {<<>>})

Next ==
  \/ stage = "gather" /\ GatherNext /\ UNCHANGED <<stage, scanVars, liteVars, wireVars, writingVars>>
  \/ stage = "scan" /\ ScanNext /\ UNCHANGED <<stage, gatherVars, liteVars, wireVars, writingVars>>
  \/ stage = "decode" /\ LiteNext /\ UNCHANGED <<stage, gatherVars, scanVars, wireVars, writingVars>>
  \/ stage = "wire" /\ WireNext /\ UNCHANGED <<stage, gatherVars, scanVars, liteVars, writingVars>>
  \/ stage = "merge" /\ MergeNext(recoveries) /\ UNCHANGED <<stage, readingVars, nestingVars, namesVars, emitVars, filesVars>>
  \/ stage = "nest" /\ NestingNext /\ UNCHANGED <<stage, readingVars, mergeVars, namesVars, emitVars, filesVars>>
  \/ stage = "name" /\ NamesNext /\ UNCHANGED <<stage, readingVars, mergeVars, nestingVars, emitVars, filesVars>>
  \/ stage = "emit" /\ EmitNext /\ UNCHANGED <<stage, readingVars, mergeVars, nestingVars, namesVars, filesVars>>
  \/ stage = "pack" /\ FilesNext /\ UNCHANGED <<stage, readingVars, mergeVars, nestingVars, namesVars, emitVars>>

Spec == Init /\ [][Next]_vars
=============================================================================
