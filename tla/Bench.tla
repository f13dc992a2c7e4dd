-------------------------------- MODULE Bench --------------------------------
(***************************************************************************)
(* The benchmark side of ProtoLoom: two benchmarks filling one corpus      *)
(* cache, two processes building one upstream source, and the scoring of a *)
(* target.  A behaviour is about one of the three; the other two do not    *)
(* take a step.                                                            *)
(***************************************************************************)
EXTENDS Corpus, Upstream, Metrics

CONSTANTS MaxMessages, MaxTrips   \* bounds on a schema, and on its round trips

VARIABLE subject   \* what the behaviour is about

vars == <<subject, corpusVars, upstreamVars, metricsVars>>

p1 == <<"a">>
p2 == <<"a", "b">>
p3 == <<"b">>
MCManifests == {<<>>} \union BoundedSeq({p1, p2, p3}, 3)

Member(path, kind, size) == [path |-> path, kind |-> kind, size |-> size]
MCBundles ==
  {<<Member(<<"r", "a">>, "file", 1)>>,
   <<Member(<<"r">>, "dir", 0), Member(<<"r", "a">>, "file", 1), Member(<<"r", "b">>, "file", 1)>>,
   <<Member(<<"r", "a">>, "file", 1), Member(<<"r", "a", "b">>, "file", 1)>>,
   <<Member(<<"r">>, "dir", 0)>>,
   <<Member(<<"r", "a", "b">>, "dir", 0), Member(<<"r", "a">>, "file", 1)>>,
   <<Member(<<"r", "a">>, "file", 1), Member(<<"s">>, "file", 1)>>,
   <<Member(<<"r", "a">>, "file", 1), Member(<<"r", "a">>, "file", 1)>>,
   <<Member(<<"r", "a">>, "file", 2), Member(<<"r", "b">>, "file", 1)>>,
   <<Member(<<"r", "a">>, "file", 1), Member(<<"r", "b">>, "link", 0)>>}

Field(wire, says, oneof) == [wire |-> wire, says |-> says, oneof |-> oneof]
MCFields ==
  {<<Field(0, "x", "none")>>, <<Field(2, "y", "none")>>,
   <<Field(0, "x", "o"), Field(0, "x", "o")>>}
MCShapes ==
  {[name |-> n, parent |-> p, enum |-> e, fields |-> f] :
     n \in {"A", "C", NoName}, p \in {NoName}, e \in {{}}, f \in MCFields}
  \union
  {[name |-> "B", parent |-> p, enum |-> e, fields |-> <<Field(0, "x", "none")>>] :
     p \in {NoName, "A"}, e \in {{1, 2}, {2, 3}}}

MCTopEnums == {<<>>} \union {[e \in {"E"} |-> x] : x \in {{1}, {1, 2}}} \union {[e \in {"E", "F"} |-> {1}]}

\* Of the other two, one initial state each stands still.
Init ==
  /\ subject \in {"cache", "source", "score"}
  /\ CorpusInit
  /\ subject # "cache" => honest /\ \A a \in 1..Artifacts : cache[a] = "none"
  /\ UpstreamInit
  /\ subject # "source" => trusty /\ manifest = <<p1>>
  /\ IF subject # "score" THEN MetricsInit(0, {<<>>}, 0) /\ compiled
     ELSE MetricsInit(MaxMessages, {<<>>}, 0) \/ MetricsInit(1, MCTopEnums, MaxTrips)

Next ==
  \/ subject = "cache" /\ CorpusNext /\ UNCHANGED <<subject, upstreamVars, metricsVars>>
  \/ subject = "source" /\ UpstreamNext /\ UNCHANGED <<subject, corpusVars, metricsVars>>
  \/ subject = "score" /\ ScoreTarget /\ UNCHANGED <<subject, corpusVars, upstreamVars>>

Spec == Init /\ [][Next]_vars
=============================================================================
