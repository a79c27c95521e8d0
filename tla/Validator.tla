------------------------------ MODULE Validator ------------------------------
(***************************************************************************)
(* The validator of validation/engine.rs: one validation of one input      *)
(* against one compiled schema, from validate_prepared_input to the        *)
(* ValidationResult it returns.                                            *)
(*                                                                         *)
(* The code is a family of mutually recursive methods over the schema and  *)
(* the value.  Here the call stack is explicit: "stack" holds one frame    *)
(* per open list, dict or struct, "pc" says whether a node is about to be  *)
(* validated ("visit"), has returned ("return"), or control is in the loop *)
(* of the innermost open frame ("loop").                                   *)
(***************************************************************************)
EXTENDS SchemaIr, SequencesExt

CONSTANTS
  Values,     \* the values that occur in the inputs, closed under components
  Calls       \* the validations that may be asked for

\* An input is an owned value (converted from Ruby, or parsed from JSON), or
\* a JSON source that does not parse.
Inputs ==
  [form : {"owned"}, value : Values] \cup [form : {"malformed"}]

IsInputValue(v) ==
  /\ v.kind \in InputKinds
  /\ v.kind \in {"str", "sym"} => v.text \in Text
  /\ v.kind = "int" => v.num \in Int
  /\ v.kind = "float" => IsOption(v.real, Int)
  /\ v.kind = "bool" => v.flag \in BOOLEAN
  /\ v.kind = "list" => v.items \in Seq(Values)
  /\ v.kind = "dict" => v.entries \in Seq([key : Text, value : Values])

ASSUME ValuesAssumption == \A v \in Values : IsInputValue(v)

ASSUME CallsAssumption ==
  \A c \in Calls : /\ IsSchema(c.schema)
                   /\ c.input \in Inputs
                   /\ c.strict \in BOOLEAN
                   /\ c.extra \in ExtraBehaviors

VARIABLES
  call,       \* the schema, the input and the options: never changed
  pc,         \* "start", "visit", "loop", "return" or "done"
  focus,      \* the node and the value to validate when pc = "visit"
  ret,        \* the Option a node returned when pc = "return"
  stack,      \* the open frames, the innermost last
  partial,    \* for each open frame, the output it has built so far
  path,       \* the validator's path field
  issues,     \* the issues recorded, in order
  output      \* the output of the result: an Option, set at the end

vars == <<call, pc, focus, ret, stack, partial, path, issues, output>>

Node(id) == call.schema.nodes[id]
Strict == call.strict

(***************************************************************************)
(* Paths, issues and frames.                                               *)
(***************************************************************************)
KeySegment(k) == [key |-> k]
\* Mutant: an index that is taken for one-based once more.
IndexSegmentBelow(i) == [index |-> i - 1]

IndexSegment(i) == [index |-> i]
Segments == [key : Text] \cup [index : Nat]

Codes == {"type_mismatch", "coerce_failed", "value_not_in", "required_missing",
          "extra_key", "format_invalid", "too_small", "too_large",
          "too_short", "too_long"}

Issue(p, code) == [path |-> p, code |-> code]
IssuesAt(p, codes) == [i \in DOMAIN codes |-> Issue(p, codes[i])]
Record(p, codes) == issues' = issues \o IssuesAt(p, codes)

\* A frame: the loop it runs, the node and the value it runs over, and the
\* position the loop is at.
Loops == Collections \cup {"fields", "extras"}
Frames == [loop : Loops, node : DOMAIN call.schema.nodes, value : Values,
           next : Nat \ {0}]

Frame(loop, out) ==
  /\ stack' = Append(stack, [loop |-> loop, node |-> focus.node,
                             value |-> focus.value, next |-> 1])
  /\ partial' = Append(partial, out)
Unframe == stack' = Front(stack) /\ partial' = Front(partial)

\* Control is in the loop of the innermost frame, and it is one of these.
InLoop(loops) == pc = "loop" /\ stack # <<>> /\ Last(stack).loop \in loops
Advance == stack' = [stack EXCEPT ![Len(stack)].next = @ + 1]
Collect(out) == partial' = [partial EXCEPT ![Len(partial)] = out]

Return(option) == pc' = "return" /\ ret' = option
Visit(id, v) == pc' = "visit" /\ focus' = [node |-> id, value |-> v]

(***************************************************************************)
(* Leaves: coercion, then constraints.  A value that violates a constraint *)
(* is still returned: only the issue tells.                                *)
(***************************************************************************)
Lenient(v) == v.kind = "str" /\ ~Strict

CoercedBool(v) ==
  IF v.kind = "bool" THEN Some(v)
  ELSE {BoolValue(b) : b \in IF Lenient(v) THEN Reads[v.text].bool ELSE None}

CoercedInt(v) ==
  IF v.kind = "int" THEN Some(v)
  ELSE {IntValue(i) : i \in IF Lenient(v) THEN Reads[v.text].int ELSE None}

CoercedFloat(v) ==
  IF v.kind = "float" THEN Some(v)
  ELSE IF v.kind = "int" THEN Some(FloatValue(AsFloat(v.num)))
  ELSE {FloatValue(f) : f \in IF Lenient(v) THEN Reads[v.text].float ELSE None}

CoercedString(v) == IF v.kind = "str" THEN Some(v) ELSE None

\* Mutant: a lenient string passes for a symbol as it is.
CoercedSymbolUnread(v) == IF v.kind = "sym" \/ Lenient(v) THEN Some(v) ELSE None

CoercedSymbol(v) ==
  IF v.kind = "sym" THEN Some(v)
  ELSE IF Lenient(v) THEN Some(SymbolValue(v.text)) ELSE None

Coerced(n, v) ==
  CASE n.kind = "any"   -> Some(v)
    [] n.kind = "bool"  -> CoercedBool(v)
    [] n.kind = "int"   -> CoercedInt(v)
    [] n.kind = "float" -> CoercedFloat(v)
    [] n.kind = "str"   -> CoercedString(v)
    [] n.kind = "sym"   -> CoercedSymbol(v)

\* Only a text that was parsed and refused is a failed coercion.
CoercionCode(n, v) ==
  IF Lenient(v) /\ n.kind \in {"bool", "int", "float"}
  THEN "coerce_failed" ELSE "type_mismatch"

\* The codes for a measure (an Option: a NaN has none) outside its bounds.
BoundCodes(measure, bounds, low, high) ==
  (IF \E x \in measure : \E m \in bounds.min : x < m THEN <<low>> ELSE <<>>)
    \o (IF \E x \in measure : \E m \in bounds.max : x > m THEN <<high>> ELSE <<>>)

SizeCodes(size, bounds) == BoundCodes(Some(size), bounds, "too_short", "too_long")

FormatCodes(t, format) ==
  IF format \subseteq Reads[t].formats THEN <<>> ELSE <<"format_invalid">>

ConstraintCodes(n, v) ==
  CASE n.kind = "int" ->
         BoundCodes(Some(v.num), n.bounds, "too_small", "too_large")
    [] n.kind = "float" ->
         BoundCodes(v.real, n.bounds, "too_small", "too_large")
    [] n.kind = "str" ->
         SizeCodes(Reads[v.text].len, n.bounds)
           \o FormatCodes(v.text, n.format)
    [] OTHER -> <<>>

Init ==
  /\ call \in Calls
  /\ pc = "start"
  /\ focus = [node |-> call.schema.root, value |-> Null]
  /\ ret = None
  /\ stack = <<>>
  /\ partial = <<>>
  /\ path = <<>>
  /\ issues = <<>>
  /\ output = None

\* serde_json refuses the source: one issue at the root, and no output.
RejectMalformedJson ==
  /\ pc = "start"
  /\ call.input.form = "malformed"
  /\ pc' = "done"
  /\ Record(<<>>, <<"format_invalid">>)
  /\ UNCHANGED <<call, focus, ret, stack, partial, path, output>>

\* validate_root.
ValidateRoot ==
  /\ pc = "start"
  /\ call.input.form = "owned"
  /\ Visit(call.schema.root, call.input.value)
  /\ UNCHANGED <<call, ret, stack, partial, path, issues, output>>

ValidatePrimitive ==
  LET n == Node(focus.node)  v == focus.value IN
  /\ pc = "visit"
  /\ n.kind \in Leaves \ {"enum"}
  /\ Return(Coerced(n, v))
  /\ \/ /\ Coerced(n, v) = None
        /\ Record(path, <<CoercionCode(n, v)>>)
     \/ \E c \in Coerced(n, v) : Record(path, ConstraintCodes(n, c))
  /\ UNCHANGED <<call, focus, stack, partial, path, output>>

\* A symbol, or leniently a string, that names a variant becomes a symbol.
ValidateEnum ==
  LET n == Node(focus.node)  v == focus.value IN
  /\ pc = "visit"
  /\ n.kind = "enum"
  /\ \/ /\ v.kind = "sym" \/ Lenient(v)
        /\ \/ /\ \E i \in DOMAIN n.variants : n.variants[i] = v.text
              /\ Return(Some(SymbolValue(v.text)))
              /\ UNCHANGED issues
           \/ /\ \A i \in DOMAIN n.variants : n.variants[i] # v.text
              /\ Return(None)
              /\ Record(path, <<"value_not_in">>)
     \/ /\ ~(v.kind = "sym" \/ Lenient(v))
        /\ Return(None)
        /\ Record(path, <<"type_mismatch">>)
  /\ UNCHANGED <<call, focus, stack, partial, path, output>>

\* Mutant: the optional node is validated again, not the one inside it.
ValidateOptionalAgain ==
  LET n == Node(focus.node)  v == focus.value IN
  /\ pc = "visit"
  /\ n.kind = "optional"
  /\ \/ v = Null /\ Return(Some(Null)) /\ UNCHANGED focus
     \/ v # Null /\ Visit(focus.node, v) /\ UNCHANGED ret
  /\ UNCHANGED <<call, stack, partial, path, issues, output>>

ValidateOptional ==
  LET n == Node(focus.node)  v == focus.value IN
  /\ pc = "visit"
  /\ n.kind = "optional"
  /\ \/ v = Null /\ Return(Some(Null)) /\ UNCHANGED focus
     \/ v # Null /\ Visit(n.of, v) /\ UNCHANGED ret
  /\ UNCHANGED <<call, stack, partial, path, issues, output>>

\* The shape a list, a dict or a struct asks of the value.
ShapeOf(n) == IF n.kind = "list" THEN "list" ELSE "dict"

\* Mutant: None without an issue.
RejectShapeSilently ==
  /\ pc = "visit"
  /\ Node(focus.node).kind \in Collections \cup {"struct"}
  /\ focus.value.kind # ShapeOf(Node(focus.node))
  /\ Return(None)
  /\ UNCHANGED <<call, focus, stack, partial, path, issues, output>>

RejectShape ==
  LET n == Node(focus.node) IN
  /\ pc = "visit"
  /\ n.kind \in Collections \cup {"struct"}
  /\ focus.value.kind # ShapeOf(n)
  /\ Return(None)
  /\ Record(path, <<"type_mismatch">>)
  /\ UNCHANGED <<call, focus, stack, partial, path, output>>

(***************************************************************************)
(* Lists and dicts.                                                        *)
(***************************************************************************)
EnterCollection ==
  LET n == Node(focus.node) IN
  /\ pc = "visit"
  /\ n.kind \in Collections
  /\ focus.value.kind = ShapeOf(n)
  /\ pc' = "loop"
  /\ Frame(n.kind, <<>>)
  /\ UNCHANGED <<call, focus, ret, path, issues, output>>

Members(f) == IF f.loop = "list" THEN f.value.items ELSE f.value.entries

\* Mutant: members are validated against the collection's own node.
VisitMemberAsWhole ==
  LET f == Last(stack)  m == Members(f)[f.next] IN
  /\ InLoop(Collections)
  /\ f.next <= Len(Members(f))
  /\ path' = Append(path, IF f.loop = "list" THEN IndexSegment(f.next - 1) ELSE KeySegment(m.key))
  /\ Visit(f.node, IF f.loop = "list" THEN m ELSE m.value)
  /\ UNCHANGED <<call, ret, stack, partial, issues, output>>

VisitMember ==
  LET f == Last(stack)  m == Members(f)[f.next] IN
  /\ InLoop(Collections)
  /\ f.next <= Len(Members(f))
  /\ \/ /\ f.loop = "list"
        /\ path' = Append(path, IndexSegment(f.next - 1))
        /\ Visit(Node(f.node).of, m)
     \/ /\ f.loop = "dict"
        /\ path' = Append(path, KeySegment(m.key))
        /\ Visit(Node(f.node).of, m.value)
  /\ UNCHANGED <<call, ret, stack, partial, issues, output>>

\* Mutant: the loop skips a member that returned nothing before it pops.
TakeMemberSkipping ==
  LET f == Last(stack) IN
  /\ pc = "return" /\ stack # <<>>
  /\ f.loop \in Collections
  /\ pc' = "loop"
  /\ path' = IF ret = None THEN path ELSE Front(path)
  /\ Advance
  /\ UNCHANGED <<call, focus, ret, partial, issues, output>>

\* The path is popped, and a member that returned nothing is left out.
TakeMember ==
  LET f == Last(stack)
      kept(v) == IF f.loop = "list" THEN v
                 ELSE Entry(Members(f)[f.next].key, v)
  IN
  /\ pc = "return" /\ stack # <<>>
  /\ f.loop \in Collections
  /\ pc' = "loop"
  /\ path' = Front(path)
  /\ Advance
  /\ \/ ret = None /\ UNCHANGED partial
     \/ \E v \in ret : Collect(Append(Last(partial), kept(v)))
  /\ UNCHANGED <<call, focus, ret, issues, output>>

\* The size that is checked is that of the output: members left out do not
\* count.
LeaveCollection ==
  LET f == Last(stack)  out == Last(partial) IN
  /\ InLoop(Collections)
  /\ f.next > Len(Members(f))
  /\ Record(path, SizeCodes(Len(out), Node(f.node).bounds))
  /\ Return(Some(IF f.loop = "list" THEN ListValue(out) ELSE DictValue(out)))
  /\ Unframe
  /\ UNCHANGED <<call, focus, path, output>>

(***************************************************************************)
(* Structs: a loop over the declared fields, then one over the keys of the *)
(* payload for those that no field names.                                  *)
(***************************************************************************)
FieldNames(n) == {n.fields[i].name : i \in DOMAIN n.fields}

EnterStruct ==
  LET n == Node(focus.node) IN
  /\ pc = "visit"
  /\ n.kind = "struct"
  /\ focus.value.kind = "dict"
  /\ pc' = "loop"
  /\ Frame("fields", [fields |-> [i \in DOMAIN n.fields |-> None],
                      extras |-> None])
  /\ UNCHANGED <<call, focus, ret, path, issues, output>>

VisitField ==
  LET f == Last(stack)  field == Node(f.node).fields[f.next] IN
  /\ InLoop({"fields"})
  /\ f.next <= Len(Node(f.node).fields)
  /\ \E v \in Found(f.value.entries, field.name) : Visit(field.of, v)
  /\ path' = Append(path, KeySegment(field.name))
  /\ UNCHANGED <<call, ret, stack, partial, issues, output>>

\* Mutant: the path of a missing field is not popped.
MissFieldUnpopped ==
  LET f == Last(stack)  field == Node(f.node).fields[f.next] IN
  /\ InLoop({"fields"})
  /\ f.next <= Len(Node(f.node).fields)
  /\ Found(f.value.entries, field.name) = None
  /\ field.required
  /\ path' = Append(path, KeySegment(field.name))
  /\ Record(path', <<"required_missing">>)
  /\ Advance
  /\ UNCHANGED <<call, pc, focus, ret, partial, output>>

MissField ==
  LET f == Last(stack)  field == Node(f.node).fields[f.next] IN
  /\ InLoop({"fields"})
  /\ f.next <= Len(Node(f.node).fields)
  /\ Found(f.value.entries, field.name) = None
  /\ Record(Append(path, KeySegment(field.name)),
            IF field.required THEN <<"required_missing">> ELSE <<>>)
  /\ Advance
  /\ UNCHANGED <<call, pc, focus, ret, partial, path, output>>

TakeField ==
  /\ pc = "return" /\ stack # <<>>
  /\ Last(stack).loop = "fields"
  /\ pc' = "loop"
  /\ path' = Front(path)
  /\ Advance
  /\ Collect([Last(partial) EXCEPT !.fields[Last(stack).next] = ret])
  /\ UNCHANGED <<call, focus, ret, issues, output>>

ScanExtras ==
  LET f == Last(stack) IN
  /\ InLoop({"fields"})
  /\ f.next > Len(Node(f.node).fields)
  /\ stack' = [stack EXCEPT ![Len(stack)] =
                 [f EXCEPT !.loop = "extras", !.next = 1]]
  /\ UNCHANGED <<call, pc, focus, ret, partial, path, issues, output>>

\* Mutant: the options of the call are not looked at.
OwnExtra(n) == n.extra

\* The struct at the root takes its behaviour from the options of the call,
\* every other struct from its own node.
EffectiveExtra(n) == IF path = <<>> THEN call.extra ELSE n.extra

\* Mutant: each extra replaces the ones before it.
WithExtraAlone(extras, e) == Some(<<e>>)

\* get_or_insert_with: the extras dict exists from the first extra key on.
WithExtra(extras, e) ==
  Some(Append(IF extras = None THEN <<>> ELSE CHOOSE d \in extras : TRUE, e))

ScanKey ==
  LET f == Last(stack)
      n == Node(f.node)
      e == f.value.entries[f.next]
      unknown == e.key \notin FieldNames(n)
  IN
  /\ InLoop({"extras"})
  /\ f.next <= Len(f.value.entries)
  /\ Record(Append(path, KeySegment(e.key)),
            IF unknown /\ EffectiveExtra(n) = "forbid"
            THEN <<"extra_key">> ELSE <<>>)
  /\ IF unknown /\ EffectiveExtra(n) = "allow"
     THEN Collect([Last(partial) EXCEPT !.extras = WithExtra(@, e)])
     ELSE UNCHANGED partial
  /\ Advance
  /\ UNCHANGED <<call, pc, focus, ret, path, output>>

LeaveStruct ==
  LET f == Last(stack)  n == Node(f.node)  out == Last(partial) IN
  /\ InLoop({"extras"})
  /\ f.next > Len(f.value.entries)
  /\ Return(Some(StructValue([i \in DOMAIN n.fields |-> n.fields[i].name],
                             out.fields, out.extras)))
  /\ Unframe
  /\ UNCHANGED <<call, focus, path, issues, output>>

\* finish: the output survives only when there is no issue.
Finish ==
  /\ pc = "return" /\ stack = <<>>
  /\ pc' = "done"
  /\ output' = IF issues = <<>> THEN ret ELSE None
  /\ UNCHANGED <<call, focus, ret, stack, partial, path, issues>>

Next ==
  \/ RejectMalformedJson \/ ValidateRoot
  \/ ValidatePrimitive \/ ValidateEnum \/ ValidateOptional
  \/ RejectShape \/ EnterCollection \/ VisitMember \/ TakeMember
  \/ LeaveCollection
  \/ EnterStruct \/ VisitField \/ MissField \/ TakeField
  \/ ScanExtras \/ ScanKey \/ LeaveStruct
  \/ Finish

\* A validation is one function call: nothing can keep it from its next step.
Spec == Init /\ [][Next]_vars /\ WF_vars(Next)

-----------------------------------------------------------------------------
(***************************************************************************)
(* Properties.                                                             *)
(***************************************************************************)
\* Every variable holds what its Rust type allows: the frames and the focus
\* (while a node is being validated) are nodes of the schema and values of
\* the input, the paths are made of keys and indexes, the codes are known.
TypeOK ==
  /\ pc \in {"start", "visit", "loop", "return", "done"}
  /\ pc = "visit" => focus \in [node : DOMAIN call.schema.nodes, value : Values]
  /\ stack \in Seq(Frames)
  /\ pc = "loop" => stack # <<>>
  /\ path \in Seq(Segments)
  /\ issues \in Seq([path : Seq(Segments), code : Codes])

\* A node that returns None has recorded an issue, so an issue-free result
\* has an output: the expect("validation succeeded but output missing") of
\* build_internal (lib.rs) never panics.
ExpectNeverPanics ==
  /\ pc = "return" /\ ret = None => issues # <<>>
  /\ pc = "done" /\ issues = <<>> => output # None

\* The segment an open frame contributes while one of its members is being
\* validated.
SegmentOf(f) ==
  CASE f.loop = "list"   -> IndexSegment(f.next - 1)
    [] f.loop = "dict"   -> KeySegment(f.value.entries[f.next].key)
    [] f.loop = "fields" -> KeySegment(Node(f.node).fields[f.next].name)
    [] OTHER             -> KeySegment(f.value.entries[f.next].key)

Spine(frames) == [i \in 1..Len(frames) |-> SegmentOf(frames[i])]

\* Every push onto the path is undone on every way out of a node: the path
\* is always that of the open frames, so an issue is never reported under a
\* path left behind by a sibling, and the path is empty only at the root.
PathMirrorsStack ==
  path = IF pc = "loop" THEN Spine(Front(stack)) ELSE Spine(stack)

\* A validated node is strictly below the frame that validates it in the
\* arena, so however deep the payload is nested the native recursion is at
\* most as deep as the schema has nodes.
RecursionIsBounded ==
  /\ \A i \in 1..Len(stack) : \A j \in 1..(i - 1) :
       stack[i].node < stack[j].node
  /\ pc = "visit" => \A i \in 1..Len(stack) : focus.node < stack[i].node
  /\ Len(stack) <= Len(call.schema.nodes)

\* Every validation ends.
Termination == <>(pc = "done")
=============================================================================
