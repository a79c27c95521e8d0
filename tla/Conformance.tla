----------------------------- MODULE Conformance -----------------------------
(***************************************************************************)
(* What the validator decides and what its issues point at, stated without *)
(* its loops, its path and its order of events.                            *)
(***************************************************************************)
EXTENDS Validator

Within(x, bounds) ==
  (\A m \in bounds.min : x >= m) /\ (\A m \in bounds.max : x <= m)

\* What a value may be read as: itself, or what its text spells unless the
\* options are strict.
BoolsOf(v, strict) ==
  IF v.kind = "bool" THEN {v.flag}
  ELSE IF v.kind = "str" /\ ~strict THEN Reads[v.text].bool ELSE {}
IntsOf(v, strict) ==
  IF v.kind = "int" THEN {v.num}
  ELSE IF v.kind = "str" /\ ~strict THEN Reads[v.text].int ELSE {}
FloatsOf(v, strict) ==
  IF v.kind = "float" THEN {v.real}
  ELSE IF v.kind = "int" THEN {Some(10 * v.num)}
  ELSE IF v.kind = "str" /\ ~strict THEN Reads[v.text].float ELSE {}
NamesOf(v, strict) ==
  IF v.kind = "sym" \/ (v.kind = "str" /\ ~strict) THEN {v.text} ELSE {}

\* A value conforms to a node that has no nodes below it.  A NaN is out of no
\* bounds.
ConformsToLeaf(n, v, strict) ==
  \/ n.kind = "any"
  \/ n.kind = "bool" /\ BoolsOf(v, strict) # {}
  \/ n.kind = "int" /\ \E i \in IntsOf(v, strict) : Within(i, n.bounds)
  \/ n.kind = "float" /\ \E f \in FloatsOf(v, strict) : \A x \in f : Within(x, n.bounds)
  \/ /\ n.kind = "str"
     /\ v.kind = "str"
     /\ Within(Reads[v.text].len, n.bounds)
     /\ n.format \subseteq Reads[v.text].formats
  \/ n.kind = "sym" /\ NamesOf(v, strict) # {}
  \/ n.kind = "enum" /\ NamesOf(v, strict) \cap ToSet(n.variants) # {}

\* What the options impose on the struct at the root, None below it.
Imposed == {None} \cup {Some(extra) : extra \in ExtraBehaviors}

\* A value conforms to a node, given below[id][w][extra], whether w conforms to
\* the node id.
ConformsToNode(n, v, strict, extra, below) ==
  \/ ConformsToLeaf(n, v, strict)
  \/ n.kind = "optional" /\ (v = Null \/ below[n.of][v][extra])
  \/ /\ n.kind = "list"
     /\ v.kind = "list"
     /\ Within(Len(v.items), n.bounds)
     /\ \A i \in DOMAIN v.items : below[n.of][v.items[i]][None]
  \/ /\ n.kind = "dict"
     /\ v.kind = "dict"
     /\ Within(Len(v.entries), n.bounds)
     /\ \A i \in DOMAIN v.entries : below[n.of][v.entries[i].value][None]
  \/ /\ n.kind = "struct"
     /\ v.kind = "dict"
     /\ \A i \in DOMAIN n.fields :
          LET hits == Found(v.entries, n.fields[i].name) IN
          IF hits = {} THEN ~n.fields[i].required
          ELSE \A w \in hits : below[n.fields[i].of][w][None]
     /\ extra = Some("forbid") \/ (extra = None /\ n.extra = "forbid")
          => Keys(v.entries) \subseteq FieldNames(n)

\* The values of V, a set closed under components, that conform to a node, and
\* under which of what may be imposed.
Level(s, strict, V, id, below) ==
  [v \in V |-> [extra \in Imposed |-> ConformsToNode(s.nodes[id], v, strict, extra, below)]]

\* Conformance(s, strict, V)[id][v][extra]: a node refers only to those before it.
Conformance(s, strict, V) ==
  LET conforms[id \in 1..Len(s.nodes)] == Level(s, strict, V, id, conforms)
  IN conforms

\* A payload is accepted exactly when it conforms to the schema: no offence
\* goes unreported whatever else is wrong, and nothing else is reported.
AcceptsExactlyConforming ==
  pc = "done" =>
    (issues = <<>> <=>
       /\ call.input.form = "owned"
       /\ Conformance(call.schema, call.strict, Values)
            [call.schema.root][call.input.value][Some(call.extra)])

\* The values one segment of a path leads to, and those the first i segments
\* lead to, one segment at a time.
Below(v, segment) ==
  IF "key" \in DOMAIN segment
  THEN IF v.kind # "dict" THEN {}
       ELSE {e.value : e \in {d \in ToSet(v.entries) : d.key = segment.key}}
  ELSE IF v.kind # "list" THEN {}
       ELSE {v.items[i] : i \in {j \in DOMAIN v.items : j = segment.index + 1}}

Further(v, p, i, reached) ==
  IF i = 0 THEN {v} ELSE UNION {Below(w, p[i]) : w \in reached[i - 1]}

Reached(v, p) ==
  LET reached[i \in 0..Len(p)] == Further(v, p, i, reached) IN reached[Len(p)]

\* An issue points into a payload: at a value it holds, or, for a missing
\* field, at a dict it holds and a key that dict lacks.
PointsInto(payload, issue) ==
  IF issue.code = "required_missing"
  THEN \E v \in Reached(payload, Front(issue.path)) :
         v.kind = "dict" /\ Last(issue.path).key \notin Keys(v.entries)
  ELSE Reached(payload, issue.path) # {}

\* Every issue points into the payload the caller sent.
IssuesAddressPayload ==
  call.input.form = "owned" =>
    \A issue \in ToSet(issues) : PointsInto(call.input.value, issue)
=============================================================================
