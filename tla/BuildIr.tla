------------------------------- MODULE BuildIr -------------------------------
(***************************************************************************)
(* The second half of Rustly::Core.compile: build_ir of schema/compiler.rs *)
(* turns the tree of a type expression into the arena of schema/ir.rs,     *)
(* where InternTable gives equal nodes one index.                          *)
(*                                                                         *)
(* build_type_expr calls itself on the components of an expression and     *)
(* interns the node made of their indexes.  "stack" holds one frame per    *)
(* call in progress: its expression, and the indexes it has so far.        *)
(***************************************************************************)
EXTENDS SchemaIr, SequencesExt

CONSTANTS
  Exprs,      \* the type expressions that occur, closed under components
  Roots       \* those that are compiled

IsExpr(e) == IsExprOver(e, Exprs)

ASSUME ExprsAssumption == (\A e \in Exprs : IsExpr(e)) /\ Roots \subseteq Exprs

VARIABLES
  document,   \* the expression compiled
  stack,      \* the calls of build_type_expr in progress, the innermost last
  nodes,      \* the arena
  interned,   \* the table: from nodes to indexes
  root        \* the index of the root: an Option, set at the end

vars == <<document, stack, nodes, interned, root>>

\* The components of an expression, in the order they are built.
Components(e) ==
  IF e.kind \in Leaves THEN <<>>
  ELSE IF e.kind = "struct" THEN [i \in 1..Len(e.fields) |-> e.fields[i].of]
  ELSE <<e.of>>

\* Mutant: the constraints of a list are lost.
NodeOfUnbounded(e, ids) ==
  IF e.kind \in Leaves THEN e
  ELSE IF e.kind = "optional" THEN OptionalNode(ids[1])
  ELSE IF e.kind = "list" THEN ListNode(ids[1], Unbounded)
  ELSE IF e.kind = "dict" THEN DictNode(ids[1], e.bounds)
  ELSE StructNode([i \in 1..Len(e.fields) |->
                     Field(e.fields[i].name, e.fields[i].required, ids[i])],
                  e.extra)

\* The node of an expression whose components have these indexes.
NodeOf(e, ids) ==
  IF e.kind \in Leaves THEN e
  ELSE IF e.kind = "optional" THEN OptionalNode(ids[1])
  ELSE IF e.kind = "list" THEN ListNode(ids[1], e.bounds)
  ELSE IF e.kind = "dict" THEN DictNode(ids[1], e.bounds)
  ELSE StructNode([i \in 1..Len(e.fields) |->
                     Field(e.fields[i].name, e.fields[i].required, ids[i])],
                  e.extra)

Frame(e) == [expr |-> e, ids |-> <<>>]

Init ==
  /\ document \in Roots
  /\ stack = <<Frame(document)>>
  /\ nodes = <<>>
  /\ interned = <<>>
  /\ root = None

Top == Last(stack)
Pending == Len(Top.ids) < Len(Components(Top.expr))

\* The next component is built before the node that refers to it.
BuildComponent ==
  /\ stack # <<>> /\ Pending
  /\ stack' = Append(stack, Frame(Components(Top.expr)[Len(Top.ids) + 1]))
  /\ UNCHANGED <<document, nodes, interned, root>>

\* The innermost call returns: its caller goes on, or the root is known.
Deliver(id) ==
  IF Len(stack) = 1
  THEN stack' = <<>> /\ root' = Some(id)
  ELSE /\ stack' = [Front(stack) EXCEPT ![Len(stack) - 1].ids = Append(@, id)]
       /\ UNCHANGED root

TopNode == NodeOf(Top.expr, Top.ids)

\* Mutants: an index taken before the arena counts from one, a node that the
\* table is not told of, and an arena that grows at its front.
InternNewBelow ==
  /\ stack # <<>> /\ ~Pending
  /\ TopNode \notin DOMAIN interned
  /\ nodes' = Append(nodes, TopNode)
  /\ interned' = [n \in DOMAIN interned \cup {TopNode} |->
                    IF n = TopNode THEN Len(nodes) ELSE interned[n]]
  /\ Deliver(Len(nodes))
  /\ UNCHANGED document

InternNewUntabled ==
  /\ stack # <<>> /\ ~Pending
  /\ nodes' = Append(nodes, TopNode)
  /\ Deliver(Len(nodes) + 1)
  /\ UNCHANGED <<document, interned>>

InternNewInFront ==
  LET id == Len(nodes) + 1 IN
  /\ stack # <<>> /\ ~Pending
  /\ TopNode \notin DOMAIN interned
  /\ nodes' = <<TopNode>> \o nodes
  /\ interned' = [n \in DOMAIN interned \cup {TopNode} |->
                    IF n = TopNode THEN id ELSE interned[n]]
  /\ Deliver(id)
  /\ UNCHANGED document

\* InternTable::intern, of a node that is in the table...
InternKnown ==
  /\ stack # <<>> /\ ~Pending
  /\ TopNode \in DOMAIN interned
  /\ Deliver(interned[TopNode])
  /\ UNCHANGED <<document, nodes, interned>>

\* ...and of one that is not: SchemaArena::alloc, then the table.
InternNew ==
  LET id == Len(nodes) + 1 IN
  /\ stack # <<>> /\ ~Pending
  /\ TopNode \notin DOMAIN interned
  /\ nodes' = Append(nodes, TopNode)
  /\ interned' = [n \in DOMAIN interned \cup {TopNode} |->
                    IF n = TopNode THEN id ELSE interned[n]]
  /\ Deliver(id)
  /\ UNCHANGED document

Next == BuildComponent \/ InternKnown \/ InternNew

\* One function call: nothing keeps it from its next step.
Spec == Init /\ [][Next]_vars /\ WF_vars(Next)

-----------------------------------------------------------------------------
\* Every index a frame holds is one of the arena, and so is the root.
Frames == [expr : Exprs, ids : Seq(Nat \ {0})]
TypeOK ==
  /\ document \in Roots
  /\ stack \in Seq(Frames)
  /\ nodes \in Seq(ToSet(nodes))
  /\ \A i \in 1..Len(stack) : \A k \in 1..Len(stack[i].ids) : stack[i].ids[k] \in DOMAIN nodes
  /\ root \subseteq DOMAIN nodes
  /\ stack = <<>> => root # None

\* The arena and the table are inverse to each other, so no two indexes hold
\* equal nodes: a node is found again instead of being allocated twice.
TableMirrorsArena ==
  /\ \A id \in DOMAIN nodes : nodes[id] \in DOMAIN interned /\ interned[nodes[id]] = id
  /\ \A n \in DOMAIN interned : interned[n] \in DOMAIN nodes /\ nodes[interned[n]] = n

\* A node refers only to nodes allocated before it: the graph the validator
\* recurses over has no cycle, and the compiled schema is one it can take.
RefersBackward == \A id \in DOMAIN nodes : IsNode(nodes[id], id - 1)
CompiledIsSchema == \A id \in root : IsSchema([nodes |-> nodes, root |-> id])
\* The expression a node stands for, given those of the nodes it refers to, and
\* the expressions of a whole arena.
Unfolded(n, exprs) ==
  IF n.kind \in Leaves THEN n
  ELSE IF n.kind = "struct"
  THEN StructNode([i \in 1..Len(n.fields) |->
                     Field(n.fields[i].name, n.fields[i].required, exprs[n.fields[i].of])],
                  n.extra)
  ELSE [n EXCEPT !.of = exprs[@]]
Unfolding(arena) ==
  LET exprs[id \in 1..Len(arena)] == Unfolded(arena[id], exprs) IN exprs

\* The arena of a finished build stands for the whole document, with every
\* option of every part in its place; no two nodes stand for one part, and every
\* node but the root is needed by a later one.
UnfoldsWithoutRepetition ==
  \A id \in root :
    LET exprs == Unfolding(nodes) IN
    /\ exprs[id] = document
    /\ \A i, j \in DOMAIN nodes : exprs[i] = exprs[j] => i = j
    /\ \A i \in DOMAIN nodes \ {id} :
         \E j \in (i + 1)..Len(nodes) : exprs[i] \in ToSet(Components(exprs[j]))
=============================================================================
