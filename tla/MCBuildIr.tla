----------------------------- MODULE MCBuildIr -----------------------------
(***************************************************************************)
(* Type expressions of at most four levels in which components repeat.     *)
(***************************************************************************)
EXTENDS BuildIr

a == "a"  b == "b"
MCText == {a, b}
MCReads ==
  [t \in MCText |-> [bool |-> None, int |-> None, float |-> None, len |-> 1, formats |-> {}]]

AtMost(m) == [min |-> None, max |-> Some(m)]

LeafExprs == {AnyNode, IntNode(Unbounded), IntNode(AtMost(1)), EnumNode(<<a, b>>), EnumNode(<<b, a>>)}
Wrapped(S) ==
  {OptionalNode(e) : e \in S} \cup {ListNode(e, Unbounded) : e \in S}
    \cup {ListNode(e, AtMost(1)) : e \in S} \cup {DictNode(e, Unbounded) : e \in S}
Simple == LeafExprs \cup Wrapped({AnyNode, IntNode(Unbounded)})
Pair(x, y, r, extra) == StructNode(<<Field(a, r, x), Field(b, TRUE, y)>>, extra)
Structs ==
  {StructNode(<<>>, "forbid")}
    \cup {Pair(x, y, TRUE, extra) : x, y \in Simple, extra \in {"forbid", "allow"}}
Inner == {Pair(x, AnyNode, r, "forbid") : x \in Wrapped({AnyNode}), r \in BOOLEAN}
Nested ==
  {Pair(x, y, FALSE, "ignore") : x, y \in Inner \cup {ListNode(i, Unbounded) : i \in Inner}}

MCRoots == Simple \cup Structs \cup Nested
MCExprs == MCRoots \cup Inner \cup {ListNode(i, Unbounded) : i \in Inner}
=============================================================================
