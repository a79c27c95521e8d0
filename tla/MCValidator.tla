----------------------------- MODULE MCValidator -----------------------------
(***************************************************************************)
(* Schemas and payloads for TLC: every kind of node, alone and nested, and *)
(* payloads of at most three members per level and four levels, with       *)
(* repeated, unknown and similar keys, and with texts of every reading.    *)
(***************************************************************************)
EXTENDS ValidationContract

a == "a"  b == "b"  one == "1"  true == "TRUE"  nan == " nan"  mail == "x@y"
ab == "ab"  dotted == "a.b"

Texts == {a, b, one, true, nan, mail}
MCText == Texts \cup {ab, dotted}
MCSpelling ==
  (a :> <<"a">>) @@ (b :> <<"b">>) @@ (one :> <<"1">>) @@ (true :> <<"T", "R", "U", "E">>) @@
  (nan :> <<" ", "n", "a", "n">>) @@ (mail :> <<"x", "@", "y">>) @@
  (ab :> <<"a", "b">>) @@ (dotted :> <<"a", ".", "b">>)

MCNumeral ==
  (0 :> <<"0">>) @@ (1 :> <<"1">>) @@ (2 :> <<"2">>) @@ (3 :> <<"3">>) @@ (10 :> <<"1", "0">>)
MCCharacters ==
  UNION {ToSet(MCSpelling[t]) : t \in MCText} \cup UNION {ToSet(MCNumeral[i]) : i \in DOMAIN MCNumeral}
    \cup {".", "[", "]"}

Read(bool, int, float, len, formats) ==
  [bool |-> bool, int |-> int, float |-> float, len |-> len, formats |-> formats]

\* eq_ignore_ascii_case and "1" for a bool, trim().parse() for a number.
MCReads ==
  (a :> Read(None, None, None, 1, {})) @@
  (b :> Read(None, None, None, 1, {})) @@
  (one :> Read(Some(TRUE), Some(1), Some(Some(10)), 1, {})) @@
  (true :> Read(Some(TRUE), None, None, 4, {})) @@
  (nan :> Read(None, None, Some(None), 4, {})) @@
  (mail :> Read(None, None, None, 3, {"email"})) @@
  (ab :> Read(None, None, None, 2, {})) @@ (dotted :> Read(None, None, None, 3, {}))

(***************************************************************************)
(* Schemas: the nodes are listed children first, the root last.            *)
(***************************************************************************)
Schema(nodes) == [nodes |-> nodes, root |-> Len(nodes)]
AtLeast(m) == [min |-> Some(m), max |-> None]
AtMost(m) == [min |-> None, max |-> Some(m)]
Between(l, h) == [min |-> Some(l), max |-> Some(h)]

LeafNodes ==
  {AnyNode, BoolNode, SymbolNode, IntNode(Between(2, 4)), FloatNode(Between(10, 40)),
   FloatNode(Unbounded), StringNode(Between(2, 3), None),
   StringNode(Unbounded, Some("email")), EnumNode(<<a, one>>)}

LeafSchemas == {Schema(<<n>>) : n \in LeafNodes}
OptionalSchemas ==
  {Schema(<<n, OptionalNode(1)>>) : n \in {SymbolNode, IntNode(Unbounded)}}
ListSchemas ==
  {Schema(<<n, ListNode(1, bounds)>>) :
     n \in {IntNode(AtMost(4)), EnumNode(<<a>>), FloatNode(AtLeast(10))},
     bounds \in {AtMost(1), AtLeast(1), Between(2, 2)}}
DictSchemas ==
  {Schema(<<n, DictNode(1, bounds)>>) :
     n \in {BoolNode, StringNode(AtMost(1), None)}, bounds \in {Between(1, 1), AtLeast(2)}}
StructSchemas ==
  {Schema(<<IntNode(AtLeast(2)), OptionalNode(1),
            StructNode(<<Field(a, r1, 1), Field(b, r2, 2)>>, "ignore")>>) :
     r1, r2 \in BOOLEAN}
NestedSchemas ==
  {Schema(<<IntNode(Unbounded), ListNode(1, AtMost(1)), StructNode(<<Field(a, r, 1)>>, x),
            OptionalNode(3), StructNode(<<Field(a, TRUE, 4), Field(b, FALSE, 2)>>, "ignore")>>) :
     x \in ExtraBehaviors, r \in BOOLEAN}
OptionalStructSchema ==
  Schema(<<SymbolNode, StructNode(<<Field(b, FALSE, 1)>>, "ignore"), OptionalNode(2)>>)
StructsSchemas ==
  {Schema(<<SymbolNode, StructNode(<<Field(b, FALSE, 1)>>, x), top>>) :
     x \in ExtraBehaviors, top \in {ListNode(2, AtMost(2)), DictNode(2, AtLeast(1))}}
\* Two fields of one name: the parser does not refuse them.
RepeatedFieldSchema ==
  Schema(<<IntNode(Unbounded), SymbolNode,
           StructNode(<<Field(a, TRUE, 1), Field(a, TRUE, 2)>>, "allow")>>)

\* Fields whose names are joins of the keys and fields around them.
JoinedSchema ==
  Schema(<<IntNode(Unbounded), DictNode(1, Unbounded), ListNode(2, Unbounded),
           StructNode(<<Field(a, TRUE, 2), Field(ab, TRUE, 1), Field(dotted, FALSE, 1),
                        Field(b, FALSE, 3)>>, "forbid")>>)

(***************************************************************************)
(* Payloads.                                                               *)
(***************************************************************************)
Atoms == {Null, BoolValue(TRUE), IntValue(1), IntValue(3), IntValue(5),
          FloatValue(None), FloatValue(Some(15)), SymbolValue(a)}
         \cup {StringValue(t) : t \in Texts}
Few == {Null, IntValue(3), StringValue(one), StringValue(mail), SymbolValue(a)}

Lists(S) == {ListValue(<<>>)} \cup {ListValue(<<x>>) : x \in S}
              \cup {ListValue(<<x, y>>) : x, y \in S}
Dicts(K, S) == {DictValue(<<>>)} \cup {DictValue(<<Entry(k, x)>>) : k \in K, x \in S}
  \cup {DictValue(<<Entry(k, x), Entry(l, y)>>) : k, l \in K, x, y \in S}

FlatDicts == Dicts({a, b, one}, {Null, IntValue(3), StringValue(one)})
InnerDicts ==
  {DictValue(<<>>), DictValue(<<Entry(a, StringValue(one))>>),
   DictValue(<<Entry(b, SymbolValue(a)), Entry(a, StringValue(one))>>),
   DictValue(<<Entry(a, SymbolValue(a)), Entry(a, IntValue(1))>>)}
Nested == {Null, ListValue(<<IntValue(1), IntValue(1)>>),
           ListValue(<<StringValue(a), IntValue(1)>>)} \cup InnerDicts

Shapes == {Null, ListValue(<<>>), DictValue(<<>>)}
FlatPayloads == Shapes \cup Atoms
ListPayloads == Shapes \cup Lists(Few \cup {FloatValue(None)})
DictPayloads == Shapes \cup Dicts({a, b}, Few)
StructPayloads == Shapes \cup FlatDicts \cup {ListValue(<<IntValue(3)>>)}
NestedPayloads ==
  Shapes \cup InnerDicts
    \cup {DictValue(<<Entry(a, x), Entry(k, y)>>) : k \in {a, b, one}, x, y \in Nested}
StructsPayloads == Shapes \cup Lists(InnerDicts \cup {Null}) \cup Dicts({a, one}, InnerDicts)
Bad == {Null, StringValue(a), IntValue(1)}
JoinedPayloads ==
  {DictValue(<<Entry(a, DictValue(<<Entry(b, x)>>)), Entry(k, y),
               Entry(b, ListValue(<<DictValue(<<Entry(a, x), Entry(one, y)>>)>>))>>) :
     k \in {ab, dotted, one}, x, y \in Bad}

Components(v) ==
  CASE v.kind = "list" -> ToSet(v.items)
    [] v.kind = "dict" -> {e.value : e \in ToSet(v.entries)}
    [] OTHER -> {}
WithComponents(S) == S \cup UNION {Components(v) : v \in S}

Payloads == FlatPayloads \cup ListPayloads \cup DictPayloads \cup StructPayloads
              \cup NestedPayloads \cup StructsPayloads \cup JoinedPayloads
\* What is below two levels of a payload is a payload as well.
MCValues == WithComponents(WithComponents(Payloads))

Owned(v) == [form |-> "owned", value |-> v]
Call(s, i, strict, extra) ==
  [schema |-> s, input |-> i, strict |-> strict, extra |-> extra]
CallsOf(schemas, payloads, extras) ==
  {Call(s, i, strict, x) : s \in schemas, strict \in BOOLEAN, x \in extras,
     i \in {Owned(v) : v \in payloads} \cup {[form |-> "malformed"]}}

\* Only a struct at the root looks at the extra option.
LeafCalls == CallsOf(LeafSchemas \cup OptionalSchemas, FlatPayloads, {"ignore"})
CollectionCalls == CallsOf(ListSchemas, ListPayloads, {"ignore"})
                     \cup CallsOf(DictSchemas, DictPayloads, {"ignore"})
StructCalls == CallsOf(StructSchemas \cup {RepeatedFieldSchema, OptionalStructSchema},
                       StructPayloads, ExtraBehaviors)
NestedCalls == CallsOf(NestedSchemas, NestedPayloads, {"forbid", "allow"})
                 \cup CallsOf(StructsSchemas, StructsPayloads, {"forbid"})
                 \cup CallsOf({JoinedSchema}, JoinedPayloads, {"forbid"})

MCCalls == LeafCalls \cup CollectionCalls \cup StructCalls \cup NestedCalls
RootFloatCalls == CallsOf({Schema(<<FloatNode(Between(10, 40))>>)}, FlatPayloads, {"ignore"})
RootListCalls == CallsOf(ListSchemas, ListPayloads, {"ignore"})
=============================================================================
