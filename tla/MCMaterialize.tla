---------------------------- MODULE MCMaterialize ----------------------------
(***************************************************************************)
(* Structs at the root and below it, under an optional and none, with a    *)
(* field named attributes and one named twice, and payloads with unknown,  *)
(* repeated and unnamable keys.                                            *)
(***************************************************************************)
EXTENDS Materialize

a == "a"  b == "b"  c == "c"  attr == "attributes"  one == "1"  nul == "a NUL"
MCText == {a, b, c, attr, one, nul}
MCNul == {nul}
MCReads ==
  [t \in MCText |-> [bool |-> None, int |-> IF t = one THEN Some(1) ELSE None,
                     float |-> None, len |-> 1, formats |-> {}]]

Schema(nodes) == [nodes |-> nodes, root |-> Len(nodes)]
Ints == IntNode(Unbounded)
Inner(extra) == StructNode(<<Field(a, TRUE, 1), Field(b, FALSE, 1)>>, extra)
StructSchemas ==
  {Schema(<<Ints, AnyNode, StructNode(<<Field(a, TRUE, 1), Field(b, FALSE, 2)>>, "ignore")>>),
   Schema(<<Ints, AnyNode, StructNode(<<Field(attr, FALSE, 2), Field(a, FALSE, 1)>>, "forbid")>>),
   Schema(<<Ints, AnyNode, StructNode(<<Field(a, TRUE, 1), Field(a, TRUE, 2)>>, "forbid")>>),
   Schema(<<Ints, Inner("allow"), ListNode(2, Unbounded),
            StructNode(<<Field(b, TRUE, 3), Field(c, FALSE, 2)>>, "allow")>>)}
OtherSchemas ==
  {Schema(<<Ints, Inner("allow"), OptionalNode(2)>>), Schema(<<Ints, DictNode(1, Unbounded)>>)}

Struct1(x) == DictValue(<<Entry(a, x)>>)
Structs ==
  {Struct1(IntValue(3)), DictValue(<<Entry(c, StringValue(a)), Entry(a, StringValue(one))>>),
   DictValue(<<Entry(nul, Null), Entry(a, IntValue(3))>>)}
Things ==
  {Null, IntValue(3), StringValue(one), SymbolValue(a), SymbolValue(nul), ListValue(<<>>),
   ListValue(<<StringValue(a), ListValue(<<StringValue(b)>>)>>)}
    \cup Structs \cup {ListValue(<<x>>) : x \in Structs}
Pairs ==
  {DictValue(<<Entry(k, x), Entry(l, y)>>) :
     k \in {a, b, attr}, l \in {b, c, nul}, x \in Things, y \in Things}
Threes ==
  {DictValue(<<Entry(k, StringValue(one)), Entry(c, IntValue(3)), Entry(one, x)>>) :
     k \in {a, b}, x \in {Null, StringValue(c)}}
Repeats == {DictValue(<<Entry(a, x), Entry(a, y)>>) : x, y \in {IntValue(3), StringValue(one)}}
Payloads == {Null, DictValue(<<>>)} \cup Pairs \cup Threes \cup Repeats
              \cup {Struct1(x) : x \in Things}

Deeper(S) == S \cup UNION {PartsOf(v) : v \in S}
MCValues == Deeper(Deeper(Deeper(Payloads)))

CallsOf(schemas, extras) ==
  [schema : schemas, input : [form : {"owned"}, value : Payloads], strict : {FALSE},
   extra : extras, freeze : {"none", "shallow", "deep"}, store : BOOLEAN]
MCCalls == CallsOf(StructSchemas, {"ignore", "allow"}) \cup CallsOf(OtherSchemas, {"allow"})
OptionalCalls == CallsOf(OtherSchemas, {"allow"})
=============================================================================
