------------------------------- MODULE Metrics -------------------------------
(***************************************************************************)
(* bench/metrics.py: score_target matches the messages of a recovered      *)
(* schema with those of the truth and counts what agrees.  A schema here   *)
(* is one that load_schema accepts: the names of its messages are unique   *)
(* (a message may have none) and of the enums outside messages, and so are *)
(* the field numbers of a message; no more round trips pass than are made. *)
(*                                                                         *)
(* A message is a record: its name (NoName if it has none), its parent,    *)
(* the values of its one enum, and its fields, a function from numbers to  *)
(* the wire type, the oneof and `says`, which stands for the type, the     *)
(* name and the label: the code compares each of the three the same way.   *)
(***************************************************************************)
EXTENDS Naturals, Sequences, FiniteSets, SequencesExt

CONSTANTS
  Shapes,       \* the messages a schema may be made of
  TopEnums      \* the enums it may have outside messages: from names to values

ASSUME MetricsAssumption ==
  /\ \A m \in Shapes : IsFiniteSet(DOMAIN m.fields) /\ IsFiniteSet(m.enum)
  /\ \A e \in TopEnums : IsFiniteSet(DOMAIN e) /\ \A name \in DOMAIN e : IsFiniteSet(e[name])

VARIABLES
  truth, recovered,   \* sequences of messages
  enums,              \* [truth, recovered]: the enums of each outside messages
  compiled,           \* the recovered schema compiles
  trips,              \* [passed, total]: its round trips
  report              \* the scores of the target, by metric; none before

metricsVars == <<truth, recovered, enums, compiled, trips, report>>

NoName == "none"
Numbers(message) == DOMAIN message.fields

\* load_schema's checks on the names and numbers of a schema.
Loadable(schema) ==
  \A n, o \in DOMAIN schema : n # o /\ schema[n].name # NoName => schema[n].name # schema[o].name

\* _signature: the numbers with their wire types.
Signature(message) == [n \in Numbers(message) |-> message.fields[n].wire]

-----------------------------------------------------------------------------
(* _match_messages: pairs of indexes, <<truth, recovered>>.                *)

NamedMatches(t, r) ==
  {m \in (DOMAIN t) \X (DOMAIN r) : t[m[1]].name # NoName /\ t[m[1]].name = r[m[2]].name}

SignatureMatchAgain(matches, n, candidates) ==   \* mutant: a candidate is not used up
  IF Cardinality(candidates) = 1 THEN matches \union {<<n, CHOOSE r \in candidates : TRUE>>} ELSE matches

\* A truth without a namesake takes the one message left with its signature;
\* of two or more none is taken.
SignatureMatch(matches, n, candidates) ==
  LET left == candidates \ {m[2] : m \in matches} IN
  IF Cardinality(left) = 1 THEN matches \union {<<n, CHOOSE r \in left : TRUE>>} ELSE matches

\* The truths in their order; those with a namesake are matched already.
Matches(t, r) ==
  LET named == NamedMatches(t, r)
      rest == (DOMAIN r) \ {m[2] : m \in named}
      matched[n \in 0..Len(t)] ==
        IF n = 0 THEN named
        ELSE IF \E m \in named : m[1] = n THEN matched[n - 1]
        ELSE SignatureMatch(matched[n - 1], n, {o \in rest : Signature(r[o]) = Signature(t[n])})
  IN matched[Len(t)]

-----------------------------------------------------------------------------
(* score_target: numerators and denominators count things of a message,    *)
(* which is given by its index: `parts` has the things of each, by index.  *)

All(parts) == UNION {{<<n, x>> : x \in parts[n]} : n \in DOMAIN parts}
Shared(matches, expected, actual) ==
  UNION {{<<m, x>> : x \in expected[m[1]] \intersect actual[m[2]]} : m \in matches}

FieldsOf(schema) == [n \in DOMAIN schema |-> Numbers(schema[n])]
EnumsOf(schema) == [n \in DOMAIN schema |-> schema[n].enum]

\* The groups of numbers that share a oneof.
OneofGroups(message) ==
  LET oneofs == {message.fields[n].oneof : n \in Numbers(message)} \ {NoName}
  IN {{n \in Numbers(message) : message.fields[n].oneof = o} : o \in oneofs}
OneofsOf(schema) == [n \in DOMAIN schema |-> OneofGroups(schema[n])]

\* A nested message counts when a match of its name has the same parent.
Nested(schema) == {n \in DOMAIN schema : schema[n].parent # NoName}
RightlyNested(t, r, matches) ==
  {n \in Nested(t) : t[n].name # NoName /\ \E m \in matches : m[1] = n /\ r[m[2]].parent = t[n].parent}

\* An uncompilable schema scores 0, also where nothing was to be measured.
Score(ok, num, den) == [num |-> IF ok THEN num ELSE 0, den |-> IF ok \/ den > 0 THEN den ELSE 1]

\* `top` and `round` are the enums outside messages and the round trips.
Scores(t, r, top, ok, round) ==
  LET matches == Matches(t, r)
      matched == Shared(matches, FieldsOf(t), FieldsOf(r))
      Expected(p) == t[p[1][1]].fields[p[2]]
      Actual(p) == r[p[1][2]].fields[p[2]]
  IN [recall |-> Score(ok, Cardinality(matched), Cardinality(All(FieldsOf(t)))),
      precision |-> Score(ok, Cardinality(matched), Cardinality(All(FieldsOf(r)))),
      wire |-> Score(ok, Cardinality({p \in matched : Expected(p).wire = Actual(p).wire}), Cardinality(matched)),
      says |-> Score(ok, Cardinality({p \in matched : Expected(p).says = Actual(p).says}), Cardinality(matched)),
      structure |-> Score(ok,
        Cardinality(RightlyNested(t, r, matches)) + Cardinality(Shared(matches, OneofsOf(t), OneofsOf(r))),
        Cardinality(Nested(t)) + Cardinality(All(OneofsOf(t)))),
      enums |-> Score(ok,
        Cardinality(All(top.truth) \intersect All(top.recovered)) + Cardinality(Shared(matches, EnumsOf(t), EnumsOf(r))),
        Cardinality(All(top.truth)) + Cardinality(All(EnumsOf(t)))),
      compile |-> Score(ok, 1, 1),
      roundTrip |-> Score(ok, round.passed, round.total)]

-----------------------------------------------------------------------------
\* Bounds: on the messages of a schema and on the round trips made.
MetricsInit(maxMessages, tops, maxTrips) ==
  /\ truth \in BoundedSeq(Shapes, maxMessages) /\ Loadable(truth)
  /\ recovered \in BoundedSeq(Shapes, maxMessages) /\ Loadable(recovered)
  /\ enums \in [truth : tops, recovered : tops]
  /\ compiled \in BOOLEAN
  /\ trips \in {[passed |-> p, total |-> n] : p, n \in 0..maxTrips} /\ trips.passed <= trips.total
  /\ report = <<>>

ScoreTarget ==
  /\ DOMAIN report = {}
  /\ report' = Scores(truth, recovered, enums, compiled, trips)
  /\ UNCHANGED <<truth, recovered, enums, compiled, trips>>

MetricsSpec(maxMessages, tops, maxTrips) ==
  MetricsInit(maxMessages, tops, maxTrips) /\ [][ScoreTarget]_metricsVars

-----------------------------------------------------------------------------
(* Each message of either side is matched at most once, a namesake before  *)
(* anything else; no metric exceeds 1; a schema that does not compile      *)
(* scores 0 everywhere; and a recovery that says what the truth says       *)
(* scores 1, if its messages can be told apart, but for the round trips    *)
(* that failed (score_target).                                             *)
FairlyScored ==
  DOMAIN report # {} =>
    LET matches == Matches(truth, recovered) IN
    /\ \A m, o \in matches : (m[1] = o[1] \/ m[2] = o[2]) => m = o
    /\ NamedMatches(truth, recovered) \subseteq matches
    /\ \A m \in matches :
         \/ truth[m[1]].name = recovered[m[2]].name /\ truth[m[1]].name # NoName
         \/ Signature(truth[m[1]]) = Signature(recovered[m[2]])
    /\ \A metric \in DOMAIN report :
         /\ report[metric].num <= report[metric].den
         /\ ~compiled => report[metric].num = 0 /\ report[metric].den > 0
         /\ /\ compiled /\ truth = recovered /\ enums.truth = enums.recovered
            /\ metric = "roundTrip" => trips.passed = trips.total
            /\ (\A n \in DOMAIN truth : truth[n].name # NoName)
            => report[metric].num = report[metric].den
=============================================================================
