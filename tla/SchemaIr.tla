------------------------------ MODULE SchemaIr ------------------------------
(***************************************************************************)
(* The compiled schema (schema/ir.rs): an arena of nodes that refer to     *)
(* each other by index, and the index of the root.  A node is a record     *)
(* whose field "kind" names its Rust variant, the primitives included.     *)
(***************************************************************************)
EXTENDS OwnedValue

ExtraBehaviors == {"forbid", "ignore", "allow"}

\* Bounds are Options; those of a Float are numbers of tenths.
AreBounds(b) == IsOption(b.min, Int) /\ IsOption(b.max, Int)
Unbounded == [min |-> None, max |-> None]

AnyNode == [kind |-> "any"]
BoolNode == [kind |-> "bool"]
IntNode(bounds) == [kind |-> "int", bounds |-> bounds]
FloatNode(bounds) == [kind |-> "float", bounds |-> bounds]
StringNode(bounds, format) ==
  [kind |-> "str", bounds |-> bounds, format |-> format]
SymbolNode == [kind |-> "sym"]
EnumNode(variants) == [kind |-> "enum", variants |-> variants]
OptionalNode(of) == [kind |-> "optional", of |-> of]
ListNode(of, bounds) == [kind |-> "list", of |-> of, bounds |-> bounds]
DictNode(of, bounds) == [kind |-> "dict", of |-> of, bounds |-> bounds]
StructNode(fields, extra) ==
  [kind |-> "struct", fields |-> fields, extra |-> extra]
Field(name, required, of) ==
  [name |-> name, required |-> required, of |-> of]

Leaves == {"any", "bool", "int", "float", "str", "sym", "enum"}
Collections == {"list", "dict"}

\* A node whose references all point below the index bound.
IsNode(n, bound) ==
  \/ n.kind \in {"any", "bool", "sym"}
  \/ n.kind \in {"int", "float"} /\ AreBounds(n.bounds)
  \/ n.kind = "str" /\ AreBounds(n.bounds) /\ IsOption(n.format, Formats)
  \/ n.kind = "enum" /\ n.variants \in Seq(Text)
  \/ n.kind = "optional" /\ n.of \in 1..bound
  \/ n.kind \in Collections /\ AreBounds(n.bounds) /\ n.of \in 1..bound
  \/ /\ n.kind = "struct"
     /\ n.extra \in ExtraBehaviors
     /\ n.fields \in Seq([name : Text, required : BOOLEAN, of : 1..bound])

\* The compiler's type expressions (TypeExpr of schema/compiler.rs) are written
\* as the nodes they become, with an expression of S wherever a node has an
\* index.
IsExprOver(e, S) ==
  \/ e.kind \in Leaves /\ IsNode(e, 0)
  \/ e.kind = "optional" /\ e = OptionalNode(e.of) /\ e.of \in S
  \/ e.kind = "list" /\ e = ListNode(e.of, e.bounds) /\ AreBounds(e.bounds) /\ e.of \in S
  \/ e.kind = "dict" /\ e = DictNode(e.of, e.bounds) /\ AreBounds(e.bounds) /\ e.of \in S
  \/ /\ e.kind = "struct" /\ e = StructNode(e.fields, e.extra)
     /\ e.extra \in ExtraBehaviors
     /\ e.fields \in Seq([name : Text, required : BOOLEAN, of : S])

\* What the compiler builds: a non-empty arena whose nodes refer only to
\* nodes allocated before them (InternTable.intern allocates a node after
\* its children), and a root inside it.
IsSchema(s) ==
  /\ Len(s.nodes) \in Nat /\ DOMAIN s.nodes = 1..Len(s.nodes)
  /\ \A id \in DOMAIN s.nodes : IsNode(s.nodes[id], id - 1)
  /\ s.root \in DOMAIN s.nodes
=============================================================================
