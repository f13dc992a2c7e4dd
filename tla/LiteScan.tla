------------------------------ MODULE LiteScan ------------------------------
(***************************************************************************)
(* extract/lite.py, _scan_method: one pass over a method's instructions    *)
(* keeps what each register holds, and reads the info string and objects   *)
(* array off the registers of a newMessageInfo call.  Then the method is   *)
(* run, and the property compares.                                         *)
(*                                                                         *)
(* An instruction is [op, dst, src, value, to]: src the registers it reads *)
(* and to the targets of a branch.  A register holds [kind, value].        *)
(***************************************************************************)
EXTENDS Integers, Sequences, FiniteSets, SequencesExt, Functions

CONSTANT Registers

VARIABLES
  program, at,          \* the method; at: the instruction scanned next
  registers, arrays, pendingResult, branches,   \* as in _scan_method; arrays by allocation
  findings,             \* [at, info, objects, heuristic]
  lost,                 \* history: what of the method the scan is known not to follow
  pc, held, heap, result                  \* the method's own run

scanVars == <<program, at, registers, arrays, pendingResult, branches, findings, lost, pc, held, heap, result>>

Unknown == [kind |-> "none", value |-> 0]
IsInt(v) == v.kind = "int"
IsObject(v) == v.kind \in {"string", "class", "call_result"}
Empty == [r \in Registers |-> Unknown]

Operations == {"const", "other", "return", "move", "result", "if", "goto", "switch", "sparse",
               "new", "filled", "put", "call", "invoke", "virtual"}

\* A method as the verifier of class files accepts it: every instruction has
\* the registers and targets it needs.
Method(p) ==
  /\ p \in Seq(ToSet(p))
  /\ \A k \in DOMAIN p :
       LET i == p[k] IN
       /\ i.op \in Operations
       /\ i.op \in {"const", "other", "move", "result", "new"} => i.dst \in Registers
       /\ i.src \in Seq(Registers)
       /\ i.op \in {"move", "new"} => Len(i.src) >= 1
       /\ i.op = "call" => Len(i.src) >= 2
       /\ i.op = "put" => Len(i.src) >= 3
       /\ i.value.kind # "array" /\ (i.value.kind = "int" => i.value.value \in Int)
       /\ ToSet(i.to) \subseteq DOMAIN p
       /\ i.op \in {"if", "goto"} => ToSet(i.to) = {i.to[1]}

ScanInit(programs) ==
  /\ program \in programs
  /\ at = 1 /\ registers = Empty /\ arrays = << >> /\ pendingResult = Unknown
  /\ branches = << >> /\ findings = {} /\ lost = {}
  /\ pc = 0 /\ held = Empty /\ heap = << >> /\ result = Unknown

-----------------------------------------------------------------------------
(* The scan.  Known is what the registers hold at the instruction: what a  *)
(* branch to it left, if one did, whatever the instruction before it did.  *)
Instruction == program[at]
FallsInto(k) == k > 1 /\ program[k - 1].op \notin {"return", "goto"}
Targets(k) == IF program[k].op \in {"if", "goto", "switch", "sparse"} THEN ToSet(program[k].to) ELSE {}
Known == IF at \in DOMAIN branches THEN branches[at] ELSE registers
FellInto(k) == IF k \in DOMAIN branches /\ FallsInto(k) /\ branches[k] # registers THEN {"join"} ELSE {}

Scanning(ops) == pc = 0 /\ at <= Len(program) /\ Instruction.op \in ops
Backwards == IF \E to \in Targets(at) : to <= at THEN {"loop"} ELSE {}
Step(known) ==
  /\ registers' = known
  /\ at' = at + 1
  /\ UNCHANGED <<program, pc, held, heap, result>>

With(f, place, value) == [k \in DOMAIN f \union {place} |-> IF k = place THEN value ELSE f[k]]
Store(array, index, value, guessed) ==
  [size |-> array.size, values |-> With(array.values, index, value), heuristic |-> array.heuristic \/ guessed]

\* const, const-string, const-class, sget-object: and what no case is for,
\* virtual and interface calls among it.
Const ==
  /\ Scanning({"const", "other", "return", "virtual"})
  /\ Step(IF Instruction.op = "const" THEN [Known EXCEPT ![Instruction.dst] = Instruction.value] ELSE Known)
  /\ lost' = lost \union FellInto(at)
       \union (IF Instruction.op = "other" /\ Known[Instruction.dst] # Unknown THEN {"write"} ELSE {})
  /\ UNCHANGED <<arrays, pendingResult, branches, findings>>

\* What the instruction at k leaves for a move-result-object behind it.
Given(k) ==
  CASE program[k].op = "filled" -> [kind |-> "array", value |-> k]
    [] program[k].op \in {"invoke", "call"} -> [kind |-> "call_result", value |-> 0]
    [] OTHER -> Unknown

\* move-object, move-result-object
Move ==
  /\ Scanning({"move", "result"})
  /\ Step([Known EXCEPT ![Instruction.dst] =
             IF Instruction.op = "move" THEN Known[Instruction.src[1]] ELSE pendingResult])
  /\ pendingResult' = IF Instruction.op = "move" THEN pendingResult ELSE Unknown
  /\ lost' = lost \union FellInto(at)
       \union (IF /\ Instruction.op = "result" /\ pendingResult # Unknown
                  /\ at \in DOMAIN branches \/ at = 1 \/ pendingResult # Given(at - 1)
               THEN {"result"} ELSE {})
  /\ UNCHANGED <<arrays, branches, findings>>

MergedLoosely(old, new) == new   \* mutant: the state of the last branch to a place is kept

\* Arrays are compared by what they hold.
Same(v, w) == v = w \/ (v.kind = "array" /\ w.kind = "array" /\ arrays[v.value] = arrays[w.value])

\* What two branches to one place agree on.
Merged(old, new) == [r \in Registers |-> IF Same(old[r], new[r]) THEN old[r] ELSE Unknown]

\* if, goto
Branch ==
  /\ Scanning({"if", "goto"})
  /\ Step(Known)
  /\ LET to == Instruction.to[1]
     IN branches' = With(branches, to, IF to \in DOMAIN branches THEN Merged(branches[to], Known) ELSE Known)
  /\ pendingResult' = Unknown
  /\ LET to == Instruction.to[1]
     IN lost' = lost \union FellInto(at) \union Backwards
          \union (IF /\ to \in DOMAIN branches
                     /\ \E r \in Registers : branches[to][r] # Known[r] /\ Same(branches[to][r], Known[r])
                  THEN {"equal"} ELSE {})
  /\ UNCHANGED <<arrays, findings>>

\* packed-switch: each case starts with what is known here; sparse-switch is skipped.
Switch ==
  /\ Scanning({"switch", "sparse"})
  /\ Step(Known)
  /\ LET cases == IF Instruction.op = "switch" THEN Targets(at) ELSE {}
     IN /\ branches' = [to \in cases \union DOMAIN branches |-> IF to \in cases THEN Known ELSE branches[to]]
        /\ lost' = lost \union FellInto(at) \union Backwards
             \union (IF cases # Targets(at) THEN {"sparse"} ELSE {})
             \union (IF \E to \in cases \intersect DOMAIN branches : branches[to] # Known THEN {"case"} ELSE {})
  /\ pendingResult' = Unknown
  /\ UNCHANGED <<arrays, findings>>

\* new-array
NewArray ==
  /\ Scanning({"new"})
  /\ LET size == Known[Instruction.src[1]]
         sized == IsInt(size) /\ size.value >= 0
     IN arrays' = With(arrays, at, [size |-> IF sized THEN size.value ELSE -1, values |-> << >>, heuristic |-> ~sized])
  /\ Step([Known EXCEPT ![Instruction.dst] = [kind |-> "array", value |-> at]])
  /\ lost' = lost \union FellInto(at)
  /\ UNCHANGED <<pendingResult, branches, findings>>

\* filled-new-array
FilledArray ==
  /\ Scanning({"filled"})
  /\ LET src == Instruction.src
         objects == {k \in 0..(Len(src) - 1) : IsObject(Known[src[k + 1]])}
     IN arrays' = With(arrays, at, [size |-> Len(src), values |-> [k \in objects |-> Known[src[k + 1]]], heuristic |-> FALSE])
  /\ pendingResult' = [kind |-> "array", value |-> at]
  /\ Step(Known)
  /\ lost' = lost \union FellInto(at)
  /\ UNCHANGED <<branches, findings>>

Free(array) ==
  LET size == IF array.size >= 0 THEN array.size ELSE Cardinality(DOMAIN array.values) + 1
  IN {k \in 0..(size - 1) : k \notin DOMAIN array.values}

Fits(array, index) == IsInt(index) /\ index.value >= 0 /\ (array.size < 0 \/ index.value < array.size)

\* At its index; without one, into the first free place, as a guess.
Placed(array, index, value) ==
  IF Fits(array, index) THEN Store(array, index.value, value, FALSE)
  ELSE IF Free(array) = {} THEN array
  ELSE Store(array, CHOOSE k \in Free(array) : \A l \in Free(array) : k <= l, value, TRUE)

\* aput-object.  The array is the one that the branches to come hold too.
Put ==
  /\ Scanning({"put"})
  /\ LET array == Known[Instruction.src[2]]
         index == Known[Instruction.src[3]]
         value == Known[Instruction.src[1]]
     IN /\ arrays' = IF array.kind = "array" /\ IsObject(value)
                     THEN [arrays EXCEPT ![array.value] = Placed(@, index, value)]
                     ELSE arrays
        /\ lost' = lost \union FellInto(at)
             \union (IF \E k \in DOMAIN branches : k > at /\ array.kind = "array" /\ array \in Range(branches[k])
                     THEN {"shared"} ELSE {})
             \union (IF array.kind # "array" THEN {"unseen"}
                     ELSE IF ~IsObject(value) THEN {"value"}
                     ELSE IF ~Fits(arrays[array.value], index) /\ Free(arrays[array.value]) = {} THEN {"full"}
                     ELSE {})
  /\ Step(Known)
  /\ UNCHANGED <<pendingResult, branches, findings>>

\* _resolve_call without the heuristics that are opt-in: what is found.
Reported(known) ==
  LET info == known[Instruction.src[1]]
      ref == known[Instruction.src[2]]
      array == arrays[ref.value]
      size == IF array.size >= 0 THEN array.size ELSE Cardinality(DOMAIN array.values)
  IN IF info.kind # "string" \/ info.value.fields < 0 THEN {}
     ELSE IF info.value.fields = 0 THEN {[at |-> at, info |-> info, objects |-> <<>>]}
     ELSE IF ref.kind # "array" THEN {}
     ELSE IF array.heuristic \/ \E k \in 0..(size - 1) : k \notin DOMAIN array.values THEN {}
     ELSE {[at |-> at, info |-> info, objects |-> [k \in 1..size |-> array.values[k - 1]]]}

\* invoke: of newMessageInfo, which forgets every register, or of another method.
Call ==
  /\ Scanning({"call"})
  /\ findings' = findings \union Reported(Known)
  /\ Step(Empty)
  /\ lost' = lost \union FellInto(at)
  /\ UNCHANGED <<arrays, pendingResult, branches>>
Invoke ==
  /\ Scanning({"invoke"})
  /\ pendingResult' = [kind |-> "call_result", value |-> 0]
  /\ Step(Known)
  /\ lost' = lost \union FellInto(at)
  /\ UNCHANGED <<arrays, branches, findings>>

EndScan ==
  /\ pc = 0 /\ at > Len(program)
  /\ pc' = 1
  /\ UNCHANGED <<program, at, registers, arrays, pendingResult, branches, findings, lost, held, heap, result>>

-----------------------------------------------------------------------------
(* The method's run (external: the instructions' meaning).                 *)
Computed == {[kind |-> "int", value |-> n] : n \in 0..1} \union {[kind |-> "other", value |-> 0]}
Successors(i) ==
  CASE i.op = "return" -> {}
    [] i.op = "goto" -> ToSet(i.to)
    [] i.op \in {"if", "switch", "sparse"} -> ToSet(i.to) \union {pc + 1}
    [] OTHER -> {pc + 1}

\* A method of a valid class file never indexes an array it does not have.
Legal(i) ==
  i.op = "put" => LET array == held[i.src[2]] index == held[i.src[3]]
                  IN array.kind = "array" /\ IsInt(index) /\ index.value \in 0..(Len(heap[array.value]) - 1)
Run ==
  /\ pc \in DOMAIN program
  /\ LET i == program[pc]
         Values == CASE i.op = "const" -> {i.value}
                     [] i.op = "move" -> {held[i.src[1]]}
                     [] i.op = "result" -> {result}
                     [] i.op = "new" -> {[kind |-> "array", value |-> pc]}
                     [] i.op = "other" -> Computed
     IN /\ Legal(i)
        /\ held' \in IF i.op \in {"const", "move", "result", "new", "other"}
                     THEN {[held EXCEPT ![i.dst] = value] : value \in Values} ELSE {held}
        /\ heap' = CASE i.op = "new" /\ IsInt(held[i.src[1]]) ->
                          With(heap, pc, [k \in 1..held[i.src[1]].value |-> Unknown])
                     [] i.op = "filled" -> With(heap, pc, [k \in DOMAIN i.src |-> held[i.src[k]]])
                     [] i.op = "put" -> [heap EXCEPT ![held[i.src[2]].value][held[i.src[3]].value + 1] = held[i.src[1]]]
                     [] OTHER -> heap
        /\ i.op = "new" => IsInt(held[i.src[1]])
        /\ result' = CASE i.op = "filled" -> [kind |-> "array", value |-> pc]
                       [] i.op \in {"invoke", "call"} -> [kind |-> "call_result", value |-> 0]
                       [] i.op = "virtual" -> [kind |-> "other", value |-> 0]
                       [] OTHER -> result
        /\ pc' \in IF Successors(i) = {} THEN {Len(program) + 1} ELSE Successors(i)
  /\ UNCHANGED <<program, at, registers, arrays, pendingResult, branches, findings, lost>>

ScanNext == Const \/ Move \/ Branch \/ Switch \/ NewArray \/ FilledArray \/ Put \/ Call \/ Invoke \/ EndScan \/ Run
ScanSpec(programs) == ScanInit(programs) /\ [][ScanNext]_scanVars

-----------------------------------------------------------------------------
(* What the scan reports of a call is what the method really passes to it, *)
(* on every path to the call: two cases of a switch or two branches to a   *)
(* shared call are never read as one another.  Outside the things the scan *)
(* does not follow (lost): a path that falls into a branch target with     *)
(* other registers; a case that is also branched to; a sparse switch; a    *)
(* loop; a register written by an instruction the scan has no case for; an *)
(* array two paths fill, or two arrays that two paths hold and that looked *)
(* the same; a value put that is not an object, into an array that is not  *)
(* known, or where there is no place; the result of an earlier call.       *)
ScanSound ==
  pc > 0 /\ lost = {} =>
    \A f \in findings :
      pc = f.at =>
        /\ held[program[pc].src[1]] = f.info
        /\ f.objects # <<>> => /\ held[program[pc].src[2]].kind = "array"
                               /\ heap[held[program[pc].src[2]].value] = f.objects
=============================================================================
