-------------------------- MODULE ValidationContract --------------------------
(***************************************************************************)
(* The output of an accepted payload, taken for a payload again.           *)
(***************************************************************************)
EXTENDS IssueReports

\* The fields a struct holds, in order, as entries.
HeldBefore(v, i, held) ==
  IF i = 0 THEN <<>>
  ELSE IF v.fields[i] = None THEN held[i - 1]
  ELSE Append(held[i - 1], Entry(v.names[i], CHOOSE w \in v.fields[i] : TRUE))
HeldFields(v) ==
  LET held[i \in 0..Len(v.names)] == HeldBefore(v, i, held) IN held[Len(v.names)]

\* An output as a payload holds it: a struct is the dict of the fields it has,
\* then of its extras.
AsPayload(v) ==
  IF v.kind # "struct" THEN v
  ELSE DictValue(HeldFields(v) \o IF v.extras = None THEN <<>> ELSE CHOOSE d \in v.extras : TRUE)

\* An output and its parts down to a depth, each also as a payload holds it.
MembersOf(v) ==
  CASE v.kind = "list" -> ToSet(v.items)
    [] v.kind = "dict" -> {e.value : e \in ToSet(v.entries)}
    [] OTHER -> {}
WithPayloads(V) == V \cup {AsPayload(v) : v \in V}
Deeper(o, k, parts) ==
  IF k = 0 THEN WithPayloads({o})
  ELSE parts[k - 1] \cup UNION {WithPayloads(MembersOf(AsPayload(v))) : v \in parts[k - 1]}
PartsWithin(o, depth) ==
  LET parts[k \in 0..depth] == Deeper(o, k, parts) IN parts

\* ConformsStrictly(s, o)[id][v][extra]: a part of the output conforms to a node
\* without coercion, struct by struct taken for a payload.  Every node that is
\* gone down to is another step into the output.
StrictLevel(s, V, id, below) ==
  [v \in V |-> [extra \in Imposed |-> ConformsToNode(s.nodes[id], AsPayload(v), TRUE, extra, below)]]
ConformsStrictly(s, o) ==
  LET parts == PartsWithin(o, Len(s.nodes))
      conforms[id \in 1..Len(s.nodes)] == StrictLevel(s, parts[Len(s.nodes) - id], id, conforms)
  IN  conforms

\* Coercion leaves nothing to coerce, and no required field is lost: what an
\* accepted payload became conforms strictly to the same schema.
AcceptedOutputIsStrict ==
  \A o \in output :
    DistinctFields(call.schema) =>
      ConformsStrictly(call.schema, o)[call.schema.root][o][Some(call.extra)]

(***************************************************************************)
(* Claims of the repository's tests that the code does not keep.           *)
(***************************************************************************)
\* spec/rustly/core_spec.rb, "reports length and range violations": a list at
\* the root that holds more elements than its max_size is reported too_long.
OverlongListIsReported ==
  LET n == Node(call.schema.root) IN
  /\ pc = "done"
  /\ call.input.form = "owned"
  /\ n.kind = "list"
  /\ call.input.value.kind = "list"
  /\ \E m \in n.bounds.max : Len(call.input.value.items) > m
  => Issue(<<>>, "too_long") \in ToSet(issues)

\* The same test, of ranges: a float at the root that is accepted lies between
\* its min and its max.
AcceptedFloatIsInRange ==
  LET n == Node(call.schema.root) IN
  pc = "done" /\ n.kind = "float" =>
    \A o \in output :
      /\ \A m \in n.bounds.min : \E x \in o.real : x >= m
      /\ \A m \in n.bounds.max : \E x \in o.real : x <= m
=============================================================================
