---------------------------- MODULE BuildIrProofs ----------------------------
(***************************************************************************)
(* For every type expression: the arena build_ir makes is a schema as the  *)
(* validator assumes it, it holds no node twice, and it stands for the     *)
(* whole expression.                                                       *)
(***************************************************************************)
EXTENDS BuildIr, SequenceLemmas

FieldExprs == [name : Text, required : BOOLEAN, of : Exprs]

LEMMA FunctionIsSeq ==
  ASSUME NEW S, NEW n \in Nat, NEW s \in [1..n -> S]
  PROVE  s \in Seq(S)
OBVIOUS

LEMMA FieldFacts ==
  ASSUME NEW e \in Exprs, e.kind = "struct"
  PROVE  /\ Len(e.fields) \in Nat
         /\ \A i \in 1..Len(e.fields) : e.fields[i] \in FieldExprs
<1>1. e.fields \in Seq(FieldExprs)
  BY ExprsAssumption DEF IsExpr, IsExprOver, FieldExprs, Leaves, Collections
<1> HIDE DEF FieldExprs
<1> QED  BY <1>1, ElementOfSeq, LenProperties

LEMMA ComponentsAreExprs ==
  ASSUME NEW e \in Exprs
  PROVE  Components(e) \in Seq(Exprs)
<1>1. CASE e.kind \in Leaves
  BY <1>1 DEF Components
<1>2. CASE e.kind = "struct"
  <2>1. Components(e) = [i \in 1..Len(e.fields) |-> e.fields[i].of]
    BY <1>2 DEF Components, Leaves
  <2>2. Len(e.fields) \in Nat /\ \A i \in 1..Len(e.fields) : e.fields[i].of \in Exprs
    BY <1>2, FieldFacts DEF FieldExprs
  <2> QED  BY <2>1, <2>2
<1>3. CASE e.kind \notin Leaves \cup {"struct"}
  <2>1. e.of \in Exprs
    BY <1>3, ExprsAssumption DEF IsExpr, IsExprOver
  <2> QED  BY <1>3, <2>1 DEF Components
<1> QED  BY <1>1, <1>2, <1>3

\* A node made of indexes of the arena refers only into the arena.
LEMMA NodeOfIsNode ==
  ASSUME NEW e \in Exprs, NEW ids \in Seq(Nat \ {0}), NEW bound \in Nat,
         Len(ids) >= Len(Components(e)),
         \A k \in 1..Len(ids) : ids[k] \in 1..bound
  PROVE  IsNode(NodeOf(e, ids), bound)
<1>0. IsExpr(e) /\ Len(ids) \in Nat
  BY ExprsAssumption, LenProperties
<1>1. CASE e.kind \in Leaves
  <2>1. IsNode(e, 0)
    BY <1>0, <1>1 DEF IsExpr, IsExprOver, Leaves, Collections
  <2>2. IsNode(e, bound)
    BY <1>1, <2>1 DEF IsNode, Leaves, Collections
  <2> QED  BY <1>1, <2>2 DEF NodeOf
<1>2. CASE e.kind = "struct"
  <2> DEFINE fields == [i \in 1..Len(e.fields) |->
                          Field(e.fields[i].name, e.fields[i].required, ids[i])]
             n == StructNode(fields, e.extra)
             F == [name : Text, required : BOOLEAN, of : 1..bound]
  <2>1. NodeOf(e, ids) = n
    BY <1>2 DEF NodeOf, Leaves
  <2>2. Len(e.fields) \in Nat /\ \A i \in 1..Len(e.fields) : e.fields[i] \in FieldExprs
    BY <1>2, FieldFacts
  <2>3. Components(e) = [i \in 1..Len(e.fields) |-> e.fields[i].of]
    BY <1>2 DEF Components, Leaves
  <2>4. Len(Components(e)) = Len(e.fields)
    BY <2>2, <2>3
  <2>5. \A i \in 1..Len(e.fields) : ids[i] \in 1..bound
    BY <1>0, <2>2, <2>4
  <2>6. \A i \in 1..Len(e.fields) : fields[i] \in F
    BY <2>2, <2>5 DEF FieldExprs, Field
  <2>7. fields \in Seq(F)
    <3> DEFINE m == Len(e.fields)
    <3>1. m \in Nat
      BY <2>2
    <3>2. fields = [i \in 1..m |-> fields[i]] /\ \A i \in 1..m : fields[i] \in F
      BY <2>6
    <3> HIDE DEF F, fields, m
    <3>3. fields \in [1..m -> F]
      BY <3>2
    <3> QED  BY <3>1, <3>3, FunctionIsSeq
  <2>8. e.extra \in ExtraBehaviors
    BY <1>0, <1>2 DEF IsExpr, IsExprOver, Leaves, Collections
  <2>9. n.kind = "struct" /\ n.extra = e.extra /\ n.fields = fields
    BY DEF StructNode
  <2> QED  BY <2>1, <2>7, <2>8, <2>9 DEF IsNode
<1>3. CASE e.kind \notin Leaves \cup {"struct"}
  <2>1. Components(e) = <<e.of>>
    BY <1>3 DEF Components
  <2>2. ids[1] \in 1..bound
    BY <1>0, <2>1
  <2>3. CASE e.kind = "optional"
    <3>1. NodeOf(e, ids) = OptionalNode(ids[1])
      BY <2>3 DEF NodeOf, Leaves
    <3> QED  BY <2>2, <3>1 DEF OptionalNode, IsNode
  <2>4. CASE e.kind \in Collections
    <3>1. AreBounds(e.bounds)
      BY <1>0, <2>4 DEF IsExpr, IsExprOver, Leaves, Collections
    <3>2. CASE e.kind = "list"
      <4>1. NodeOf(e, ids) = ListNode(ids[1], e.bounds)
        BY <3>2 DEF NodeOf, Leaves
      <4> QED  BY <2>2, <3>1, <4>1 DEF ListNode, IsNode, Collections
    <3>3. CASE e.kind = "dict"
      <4>1. NodeOf(e, ids) = DictNode(ids[1], e.bounds)
        BY <3>3 DEF NodeOf, Leaves
      <4> QED  BY <2>2, <3>1, <4>1 DEF DictNode, IsNode, Collections
    <3> QED  BY <2>4, <3>2, <3>3 DEF Collections
  <2> QED  BY <1>0, <1>3, <2>3, <2>4 DEF IsExpr, IsExprOver, Collections
<1> QED  BY <1>1, <1>2, <1>3

IInv == TypeOK /\ RefersBackward /\ TableMirrorsArena

LEMMA InitIInv == Init => IInv
<1> SUFFICES ASSUME Init PROVE IInv  OBVIOUS
<1>1. Frame(document) \in Frames
  BY ExprsAssumption DEF Init, Frame, Frames
<1>2. stack = <<Frame(document)>> /\ nodes = <<>> /\ interned = <<>> /\ root = {} /\ document \in Roots
  BY DEF Init, None
<1>3. stack[1].ids = <<>> /\ Len(stack) = 1
  BY <1>2 DEF Frame
<1>4. TypeOK
  BY <1>1, <1>2, <1>3 DEF TypeOK
<1>5. RefersBackward /\ TableMirrorsArena
  BY <1>2 DEF RefersBackward, TableMirrorsArena
<1> QED  BY <1>4, <1>5 DEF IInv

\* The facts about the innermost frame that every action uses.
LEMMA TopFacts ==
  ASSUME TypeOK, stack # <<>>
  PROVE  /\ Len(stack) \in Nat \ {0}
         /\ Top = stack[Len(stack)] /\ Top \in Frames
         /\ Top.expr \in Exprs /\ Top.ids \in Seq(Nat \ {0})
         /\ Len(nodes) \in Nat /\ DOMAIN nodes = 1..Len(nodes)
         /\ \A k \in 1..Len(Top.ids) : Top.ids[k] \in DOMAIN nodes
<1>1. stack \in Seq(Frames) /\ nodes \in Seq(ToSet(nodes))
  BY DEF TypeOK
<1>2. Len(stack) \in Nat \ {0} /\ Top = stack[Len(stack)] /\ Top \in Frames
  BY <1>1, FrontLastProperties DEF Top
<1>3. Top.expr \in Exprs /\ Top.ids \in Seq(Nat \ {0})
  BY <1>2 DEF Frames
<1>4. Len(nodes) \in Nat /\ DOMAIN nodes = 1..Len(nodes)
  BY <1>1, LenProperties
<1>5. \A k \in 1..Len(Top.ids) : Top.ids[k] \in DOMAIN nodes
  BY <1>2 DEF TypeOK
<1> QED  BY <1>2, <1>3, <1>4, <1>5

LEMMA BuildComponentKeeps == ASSUME IInv, BuildComponent PROVE IInv'
<1>1. TypeOK /\ stack # <<>> /\ Pending /\ stack \in Seq(Frames)
  BY DEF IInv, TypeOK, BuildComponent
<1> DEFINE f == Frame(Components(Top.expr)[Len(Top.ids) + 1])
<1>2. Components(Top.expr) \in Seq(Exprs) /\ Len(Top.ids) \in Nat
  BY <1>1, TopFacts, ComponentsAreExprs, LenProperties
<1>3. Components(Top.expr)[Len(Top.ids) + 1] \in Exprs
  BY <1>1, <1>2, ElementOfSeq, LenProperties DEF Pending
<1>4. f \in Frames /\ f.ids = <<>>
  BY <1>3 DEF Frame, Frames
<1>5. stack' = Append(stack, f) /\ UNCHANGED <<document, nodes, interned, root>>
  BY DEF BuildComponent
<1> HIDE DEF f
<1>6. /\ stack' \in Seq(Frames) /\ stack' # <<>>
      /\ Len(stack') = Len(stack) + 1 /\ stack'[Len(stack) + 1] = f
      /\ \A i \in 1..Len(stack) : stack'[i] = stack[i]
  BY <1>1, <1>4, <1>5, AppendThenFront
<1>7. Len(stack) \in Nat
  BY <1>1, TopFacts
<1>8. \A i \in 1..Len(stack') : \A k \in 1..Len(stack'[i].ids) : stack'[i].ids[k] \in DOMAIN nodes
  <2> SUFFICES ASSUME NEW i \in 1..Len(stack')
               PROVE  \A k \in 1..Len(stack'[i].ids) : stack'[i].ids[k] \in DOMAIN nodes
    OBVIOUS
  <2>1. CASE i = Len(stack) + 1
    BY <1>4, <1>6, <2>1
  <2>2. CASE i \in 1..Len(stack)
    BY <1>1, <1>6, <2>2 DEF TypeOK
  <2> QED  BY <1>6, <1>7, <2>1, <2>2
<1>9. TypeOK'
  BY <1>1, <1>5, <1>6, <1>8 DEF TypeOK, Frames
<1>10. RefersBackward' /\ TableMirrorsArena'
  BY <1>5 DEF IInv, RefersBackward, TableMirrorsArena
<1> QED  BY <1>9, <1>10 DEF IInv

\* A call that returns an index of the arena leaves the stack well typed.
LEMMA DeliverKeeps ==
  ASSUME TypeOK, stack # <<>>, NEW id \in Nat \ {0}, Deliver(id),
         DOMAIN nodes \subseteq DOMAIN nodes', id \in DOMAIN nodes',
         nodes' \in Seq(ToSet(nodes')), document' = document
  PROVE  TypeOK'
<1>1. /\ stack \in Seq(Frames) /\ Len(stack) \in Nat \ {0}
      /\ document' \in Roots /\ root \subseteq DOMAIN nodes'
  BY TopFacts DEF TypeOK
<1>2. CASE Len(stack) = 1
  <2>1. stack' = <<>> /\ root' = {id}
    BY <1>2 DEF Deliver, Some
  <2>2. stack' \in Seq(Frames) /\ Len(stack') = 0
    BY <2>1
  <2> QED  BY <1>1, <2>1, <2>2 DEF TypeOK, Frames, None
<1>3. CASE Len(stack) # 1
  <2> DEFINE n == Len(stack) - 1
             fr == Front(stack)
             f == [fr[n] EXCEPT !.ids = Append(@, id)]
  <2>1. stack' = [fr EXCEPT ![n].ids = Append(@, id)] /\ root' = root
    BY <1>3 DEF Deliver
  <2>2. /\ fr \in Seq(Frames) /\ Len(fr) = n /\ n \in Nat \ {0}
        /\ \A i \in 1..n : fr[i] = stack[i]
    BY <1>1, <1>3, FrontLastProperties
  <2>3. fr[n] \in Frames /\ fr # <<>>
    BY <2>2, ElementOfSeq
  <2>4. fr[n].ids \in Seq(Nat \ {0})
    BY <2>3 DEF Frames
  <2>5. /\ Append(fr[n].ids, id) \in Seq(Nat \ {0})
        /\ Len(Append(fr[n].ids, id)) = Len(fr[n].ids) + 1
        /\ Append(fr[n].ids, id)[Len(fr[n].ids) + 1] = id
        /\ \A k \in 1..Len(fr[n].ids) : Append(fr[n].ids, id)[k] = fr[n].ids[k]
    BY <2>4, AppendThenFront
  <2>6. f \in Frames /\ f.ids = Append(fr[n].ids, id)
    BY <2>3, <2>5 DEF Frames
  <2>7. stack' = [fr EXCEPT ![Len(fr)] = f]
    BY <2>1, <2>2
  <2> HIDE DEF f, fr
  <2>8. /\ stack' \in Seq(Frames) /\ Len(stack') = n /\ stack' # <<>>
        /\ \A i \in 1..(n - 1) : stack'[i] = fr[i]
        /\ stack'[n] = f
    BY <2>2, <2>3, <2>6, <2>7, ReplaceLast
  <2>9. \A i \in 1..n : \A k \in 1..Len(fr[i].ids) : fr[i].ids[k] \in DOMAIN nodes'
    <3> SUFFICES ASSUME NEW i \in 1..n, NEW k \in 1..Len(fr[i].ids)
                 PROVE  fr[i].ids[k] \in DOMAIN nodes'
      OBVIOUS
    <3>1. fr[i] = stack[i] /\ i \in 1..Len(stack)
      BY <1>1, <2>2
    <3>2. stack[i].ids[k] \in DOMAIN nodes
      BY <3>1 DEF TypeOK
    <3> QED  BY <3>1, <3>2
  <2>10. \A k \in 1..Len(f.ids) : f.ids[k] \in DOMAIN nodes'
    <3>1. Len(fr[n].ids) \in Nat
      BY <2>4, LenProperties
    <3> QED  BY <2>2, <2>5, <2>6, <2>9, <3>1
  <2>11. \A i \in 1..Len(stack') : \A k \in 1..Len(stack'[i].ids) : stack'[i].ids[k] \in DOMAIN nodes'
    <3> HIDE DEF n
    <3>1. \A k \in 1..Len(stack'[n].ids) : stack'[n].ids[k] \in DOMAIN nodes'
      BY <2>8, <2>10
    <3>2. \A i \in 1..(n - 1) : stack'[i] = fr[i] /\ i \in 1..n
      BY <2>2, <2>8
    <3>3. \A i \in 1..(n - 1) : \A k \in 1..Len(stack'[i].ids) : stack'[i].ids[k] \in DOMAIN nodes'
      <4> TAKE i \in 1..(n - 1)
      <4>1. stack'[i] = fr[i] /\ i \in 1..n
        BY <3>2
      <4> QED  BY <2>9, <4>1
    <3> QED  BY <2>2, <2>8, <3>1, <3>3
  <2> QED  BY <1>1, <2>1, <2>8, <2>11 DEF TypeOK, Frames
<1> QED  BY <1>2, <1>3

LEMMA InternKnownKeeps == ASSUME IInv, InternKnown PROVE IInv'
<1>1. TypeOK /\ stack # <<>> /\ UNCHANGED <<document, nodes, interned>>
  BY DEF IInv, InternKnown
<1>2. interned[TopNode] \in DOMAIN nodes /\ Deliver(interned[TopNode])
  BY DEF IInv, InternKnown, TableMirrorsArena
<1>3. interned[TopNode] \in Nat \ {0}
  BY <1>1, <1>2, TopFacts
<1>4. nodes' \in Seq(ToSet(nodes'))
  BY <1>1 DEF TypeOK
<1>5. TypeOK'
  BY <1>1, <1>2, <1>3, <1>4, DeliverKeeps
<1>6. RefersBackward' /\ TableMirrorsArena'
  BY <1>1 DEF IInv, RefersBackward, TableMirrorsArena
<1> QED  BY <1>5, <1>6 DEF IInv

LEMMA InternNewKeeps == ASSUME IInv, InternNew PROVE IInv'
<1> DEFINE id == Len(nodes) + 1
           S == ToSet(nodes) \cup {TopNode}
<1>1. /\ TypeOK /\ stack # <<>> /\ ~Pending /\ document' = document
      /\ TopNode \notin DOMAIN interned
      /\ nodes' = Append(nodes, TopNode)
      /\ interned' = [n \in DOMAIN interned \cup {TopNode} |->
                        IF n = TopNode THEN id ELSE interned[n]]
      /\ Deliver(id)
  BY DEF IInv, InternNew
<1>2. Len(nodes) \in Nat /\ DOMAIN nodes = 1..Len(nodes)
  BY <1>1, TopFacts
<1>3. nodes \in Seq(S)
  <2>1. nodes \in Seq(ToSet(nodes))
    BY <1>1 DEF TypeOK
  <2>2. \A i \in 1..Len(nodes) : nodes[i] \in S
    BY <2>1, ElementOfSeq
  <2>3. nodes = [i \in 1..Len(nodes) |-> nodes[i]]
    BY <2>1
  <2> QED  BY <1>2, <2>2, <2>3
<1>4. /\ nodes' \in Seq(S) /\ Len(nodes') = id
      /\ \A i \in 1..Len(nodes) : nodes'[i] = nodes[i]
      /\ nodes'[id] = TopNode
  <2>1. TopNode \in S
    OBVIOUS
  <2> HIDE DEF S
  <2> QED  BY <1>1, <1>3, <2>1, AppendThenFront
<1>5. DOMAIN nodes' = 1..id
  BY <1>4, LenProperties
<1>6. nodes' \in Seq(ToSet(nodes'))
  <2>1. \A i \in 1..id : nodes'[i] \in ToSet(nodes')
    BY <1>5 DEF ToSet
  <2>2. nodes' = [i \in 1..id |-> nodes'[i]]
    BY <1>4, <1>5
  <2> QED  BY <1>2, <2>1, <2>2
<1>7. TypeOK'
  <2>1. id \in Nat \ {0} /\ DOMAIN nodes \subseteq DOMAIN nodes' /\ id \in DOMAIN nodes'
    BY <1>2, <1>5
  <2> HIDE DEF id
  <2> QED  BY <1>1, <1>6, <2>1, DeliverKeeps
<1>8. IsNode(TopNode, Len(nodes))
  <2>1. Len(Top.ids) \in Nat /\ Len(Components(Top.expr)) \in Nat
    BY <1>1, TopFacts, ComponentsAreExprs, LenProperties
  <2>2. Len(Top.ids) >= Len(Components(Top.expr))
    BY <1>1, <2>1 DEF Pending
  <2> QED  BY <1>1, <1>2, <2>2, TopFacts, NodeOfIsNode DEF TopNode
<1>9. RefersBackward'
  <2> SUFFICES ASSUME NEW i \in 1..id PROVE IsNode(nodes'[i], i - 1)
    BY <1>5 DEF RefersBackward
  <2>1. CASE i = id
    BY <1>2, <1>4, <1>8, <2>1
  <2>2. CASE i \in 1..Len(nodes)
    BY <1>2, <1>4, <2>2 DEF IInv, RefersBackward
  <2> QED  BY <1>2, <2>1, <2>2
<1>10. TableMirrorsArena'
  <2>1. \A i \in 1..id : nodes'[i] \in DOMAIN interned' /\ interned'[nodes'[i]] = i
    <3> SUFFICES ASSUME NEW i \in 1..id
                 PROVE  nodes'[i] \in DOMAIN interned' /\ interned'[nodes'[i]] = i
      OBVIOUS
    <3>1. CASE i = id
      BY <1>1, <1>4, <3>1
    <3>2. CASE i \in 1..Len(nodes)
      <4>1. nodes[i] \in DOMAIN interned /\ interned[nodes[i]] = i
        BY <1>2, <3>2 DEF IInv, TableMirrorsArena
      <4>2. nodes[i] # TopNode
        BY <1>1, <4>1
      <4> QED  BY <1>1, <1>4, <3>2, <4>1, <4>2
    <3> QED  BY <1>2, <3>1, <3>2
  <2>2. \A n \in DOMAIN interned' : interned'[n] \in 1..id /\ nodes'[interned'[n]] = n
    <3> SUFFICES ASSUME NEW n \in DOMAIN interned'
                 PROVE  interned'[n] \in 1..id /\ nodes'[interned'[n]] = n
      OBVIOUS
    <3>1. CASE n = TopNode
      BY <1>1, <1>2, <1>4, <3>1
    <3>2. CASE n # TopNode
      <4>1. n \in DOMAIN interned /\ interned'[n] = interned[n]
        BY <1>1, <3>2
      <4>2. interned[n] \in 1..Len(nodes) /\ nodes[interned[n]] = n
        BY <1>2, <4>1 DEF IInv, TableMirrorsArena
      <4> QED  BY <1>2, <1>4, <4>1, <4>2
    <3> QED  BY <3>1, <3>2
  <2> QED  BY <1>5, <2>1, <2>2 DEF TableMirrorsArena
<1> QED  BY <1>7, <1>9, <1>10 DEF IInv

LEMMA StepIInv == IInv /\ [Next]_vars => IInv'
<1> SUFFICES ASSUME IInv, [Next]_vars PROVE IInv'  OBVIOUS
<1>1. CASE Next
  BY <1>1, BuildComponentKeeps, InternKnownKeeps, InternNewKeeps DEF Next
<1>2. CASE UNCHANGED vars
  BY <1>2 DEF vars, IInv, TypeOK, Frames, RefersBackward, TableMirrorsArena
<1> QED  BY <1>1, <1>2

LEMMA Inductive == Spec => []IInv
BY InitIInv, StepIInv, PTL DEF Spec

LEMMA RootIsSchema == IInv => CompiledIsSchema
<1> SUFFICES ASSUME IInv, NEW id \in root
             PROVE  IsSchema([nodes |-> nodes, root |-> id])
  BY DEF CompiledIsSchema
<1>1. nodes \in Seq(ToSet(nodes)) /\ id \in DOMAIN nodes
  BY DEF IInv, TypeOK
<1>2. Len(nodes) \in Nat /\ DOMAIN nodes = 1..Len(nodes)
  BY <1>1, LenProperties
<1> QED  BY <1>1, <1>2 DEF IInv, RefersBackward, IsSchema

\* The type invariant of build_ir.
THEOREM TypeCorrect == Spec => []TypeOK
BY Inductive, PTL DEF IInv

\* InternTable: the arena and the table stay inverse to each other.
THEOREM TableIsInverse == Spec => []TableMirrorsArena
BY Inductive, PTL DEF IInv

\* What build_ir returns is what the validator assumes of a schema: every
\* reference goes to an earlier node, so its recursion ends.
THEOREM CompiledSchemaIsSchema == Spec => []CompiledIsSchema
BY Inductive, RootIsSchema, PTL

-----------------------------------------------------------------------------
(***************************************************************************)
(* The arena stands for the document, and has no node twice or in vain.    *)
(***************************************************************************)
\* An arena whose nodes refer to those before them.
Backward(arena) ==
  /\ Len(arena) \in Nat /\ DOMAIN arena = 1..Len(arena)
  /\ \A id \in DOMAIN arena : IsNode(arena[id], id - 1)

\* Only what a node refers to matters.
LEMMA UnfoldedLooksBelow ==
  ASSUME NEW n, NEW bound, IsNode(n, bound), NEW g, NEW h, \A k \in 1..bound : g[k] = h[k]
  PROVE  Unfolded(n, g) = Unfolded(n, h)
<1>1. CASE n.kind = "struct"
  <2> DEFINE F == [name : Text, required : BOOLEAN, of : 1..bound]
  <2>1. n.fields \in Seq(F)
    BY <1>1 DEF IsNode, Collections
  <2>2. ASSUME NEW i \in 1..Len(n.fields) PROVE g[n.fields[i].of] = h[n.fields[i].of]
    <3>1. n.fields[i] \in F
      <4> HIDE DEF F
      <4> QED  BY <2>1, <2>2, ElementOfSeq
    <3> QED  BY <3>1
  <2> QED  BY <1>1, <2>2 DEF Unfolded, Leaves
<1>2. CASE n.kind \in Leaves
  BY <1>2 DEF Unfolded
<1>3. CASE n.kind \notin Leaves \cup {"struct"}
  <2>1. n.of \in 1..bound
    BY <1>3 DEF IsNode, Leaves, Collections
  <2> QED  BY <1>3, <2>1 DEF Unfolded
<1> QED  BY <1>1, <1>2, <1>3

LEMMA UnfoldingExists ==
  ASSUME NEW arena, Backward(arena)
  PROVE  \E g : g = [id \in 1..Len(arena) |-> Unfolded(arena[id], g)]
<1> DEFINE L(g, id) == Unfolded(arena[id], g)
           S == {n \in Nat : n <= Len(arena) => \E g : g = [id \in 1..n |-> L(g, id)]}
<1>1. Len(arena) \in Nat /\ DOMAIN arena = 1..Len(arena)
  BY DEF Backward
<1>2. ASSUME NEW g, NEW h, NEW id \in DOMAIN arena, \A k \in 1..(id - 1) : g[k] = h[k]
      PROVE  L(g, id) = L(h, id)
  BY <1>2, UnfoldedLooksBelow DEF Backward
<1> HIDE DEF L
<1>3. 0 \in S
  <2> DEFINE e == [id \in 1..0 |-> None]
  <2>1. e = [id \in 1..0 |-> L(e, id)]
    OBVIOUS
  <2> QED  BY <2>1
<1>4. ASSUME NEW n \in Nat, n \in S PROVE n + 1 \in S
  <2> SUFFICES ASSUME n + 1 <= Len(arena) PROVE \E g : g = [id \in 1..(n + 1) |-> L(g, id)]
    OBVIOUS
  <2>1. PICK g : g = [id \in 1..n |-> L(g, id)]
    BY <1>1, <1>4
  <2> DEFINE h == [id \in 1..(n + 1) |-> IF id <= n THEN g[id] ELSE L(g, id)]
  <2>2. ASSUME NEW id \in 1..(n + 1) PROVE h[id] = L(h, id)
    <3>1. \A k \in 1..(id - 1) : g[k] = h[k]
      OBVIOUS
    <3>2. id \in DOMAIN arena
      BY <1>1
    <3> HIDE DEF h
    <3>3. L(g, id) = L(h, id)
      BY <3>1, <3>2, <1>2
    <3> QED  BY <2>1, <3>3 DEF h
  <2>3. h = [id \in 1..(n + 1) |-> h[id]]
    OBVIOUS
  <2> HIDE DEF h
  <2>4. h = [id \in 1..(n + 1) |-> L(h, id)]
    BY <2>2, <2>3
  <2> QED  BY <2>4
<1>5. Len(arena) \in S
  <2> HIDE DEF S
  <2> QED  BY <1>1, <1>3, <1>4, SetInduction
<1> QED  BY <1>1, <1>5 DEF L

LEMMA UnfoldingUnfolds ==
  ASSUME NEW arena, Backward(arena), NEW id \in DOMAIN arena
  PROVE  Unfolding(arena)[id] = Unfolded(arena[id], Unfolding(arena))
<1> DEFINE u == Unfolding(arena)
<1>1. u = [k \in 1..Len(arena) |-> Unfolded(arena[k], u)]
  BY UnfoldingExists DEF Unfolding
<1> HIDE DEF u
<1>2. u[id] = Unfolded(arena[id], u)
  BY <1>1 DEF Backward
<1> QED  BY <1>2 DEF u

\* An arena that grows at its end stands for what it did.
LEMMA UnfoldingGrows ==
  ASSUME NEW arena, NEW longer, Backward(arena), Backward(longer),
         Len(arena) <= Len(longer), \A id \in DOMAIN arena : longer[id] = arena[id]
  PROVE  \A id \in DOMAIN arena : Unfolding(longer)[id] = Unfolding(arena)[id]
<1> DEFINE u == Unfolding(arena)
           v == Unfolding(longer)
           S == {n \in Nat : \A id \in 1..n : id <= Len(arena) => v[id] = u[id]}
<1>1. /\ Len(arena) \in Nat /\ Len(longer) \in Nat
      /\ DOMAIN arena = 1..Len(arena) /\ DOMAIN longer = 1..Len(longer)
  BY DEF Backward
<1>2. ASSUME NEW id \in DOMAIN arena, \A k \in 1..(id - 1) : v[k] = u[k]
      PROVE  v[id] = u[id]
  <2>1. id \in DOMAIN longer /\ longer[id] = arena[id] /\ IsNode(arena[id], id - 1)
    BY <1>1 DEF Backward
  <2>2. u[id] = Unfolded(arena[id], u) /\ v[id] = Unfolded(arena[id], v)
    BY <2>1, UnfoldingUnfolds
  <2> HIDE DEF u, v
  <2>3. Unfolded(arena[id], v) = Unfolded(arena[id], u)
    BY <1>2, <2>1, UnfoldedLooksBelow
  <2> QED  BY <2>2, <2>3
<1> HIDE DEF u, v
<1>3. 0 \in S
  OBVIOUS
<1>4. ASSUME NEW n \in Nat, n \in S PROVE n + 1 \in S
  <2> SUFFICES ASSUME NEW id \in 1..(n + 1), id <= Len(arena) PROVE v[id] = u[id]
    OBVIOUS
  <2>1. id \in DOMAIN arena /\ \A k \in 1..(id - 1) : v[k] = u[k]
    BY <1>1, <1>4
  <2> QED  BY <1>2, <2>1
<1>5. Len(arena) \in S
  <2> HIDE DEF S
  <2> QED  BY <1>1, <1>3, <1>4, SetInduction
<1> QED  BY <1>1, <1>5 DEF u, v

\* A node made of indexes stands for the expression whose components they
\* stand for.
LEMMA NodeStandsForExpr ==
  ASSUME NEW e \in Exprs, NEW ids, NEW exprs,
         \A k \in 1..Len(Components(e)) : exprs[ids[k]] = Components(e)[k]
  PROVE  Unfolded(NodeOf(e, ids), exprs) = e
<1>0. IsExpr(e)
  BY ExprsAssumption
<1>1. CASE e.kind \in Leaves
  BY <1>1 DEF NodeOf, Unfolded
<1>2. CASE e.kind = "struct"
  <2> DEFINE fields == [i \in 1..Len(e.fields) |->
                          Field(e.fields[i].name, e.fields[i].required, ids[i])]
             again == [i \in 1..Len(fields) |->
                         Field(fields[i].name, fields[i].required, exprs[fields[i].of])]
  <2>1. NodeOf(e, ids) = StructNode(fields, e.extra)
    BY <1>2 DEF NodeOf, Leaves
  <2>2. Len(e.fields) \in Nat /\ \A i \in 1..Len(e.fields) : e.fields[i] \in FieldExprs
    BY <1>2, FieldFacts
  <2>3. Components(e) = [i \in 1..Len(e.fields) |-> e.fields[i].of] /\ Len(Components(e)) = Len(e.fields)
    BY <1>2, <2>2 DEF Components, Leaves
  <2>4. Len(fields) = Len(e.fields)
    BY <2>2
  <2>5. \A i \in 1..Len(e.fields) : again[i] = e.fields[i]
    <3> TAKE i \in 1..Len(e.fields)
    <3>1. again[i] = Field(e.fields[i].name, e.fields[i].required, exprs[ids[i]])
      BY <2>4 DEF Field
    <3>2. exprs[ids[i]] = e.fields[i].of
      BY <2>3
    <3>3. e.fields[i] = Field(e.fields[i].name, e.fields[i].required, e.fields[i].of)
      BY <2>2 DEF FieldExprs, Field
    <3> QED  BY <3>1, <3>2, <3>3
  <2>6. again = e.fields
    <3>1. e.fields \in Seq(FieldExprs)
      BY <1>0, <1>2 DEF IsExpr, IsExprOver, FieldExprs, Leaves, Collections
    <3>2. e.fields = [i \in 1..Len(e.fields) |-> e.fields[i]]
      BY <3>1, LenProperties
    <3>3. again = [i \in 1..Len(e.fields) |-> again[i]]
      BY <2>4
    <3> HIDE DEF again
    <3> QED  BY <2>5, <3>2, <3>3
  <2>7. Unfolded(StructNode(fields, e.extra), exprs) = StructNode(again, e.extra)
    <3> HIDE DEF fields
    <3> QED  BY DEF Unfolded, StructNode, Leaves
  <2>8. e = StructNode(e.fields, e.extra)
    BY <1>0, <1>2 DEF IsExpr, IsExprOver, Leaves, Collections
  <2> HIDE DEF again, fields
  <2> QED  BY <2>1, <2>6, <2>7, <2>8
<1>3. CASE e.kind \notin Leaves \cup {"struct"}
  <2>1. Components(e) = <<e.of>> /\ Len(<<e.of>>) = 1
    BY <1>3 DEF Components
  <2>2. exprs[ids[1]] = e.of
    BY <2>1
  <2>3. CASE e.kind = "optional"
    <3>1. e = OptionalNode(e.of) /\ NodeOf(e, ids) = OptionalNode(ids[1])
      BY <1>0, <2>3 DEF IsExpr, IsExprOver, NodeOf, Leaves
    <3>2. Unfolded(OptionalNode(ids[1]), exprs) = OptionalNode(exprs[ids[1]])
      BY DEF Unfolded, OptionalNode, Leaves
    <3> QED  BY <2>2, <3>1, <3>2
  <2>4. CASE e.kind = "list"
    <3>1. e = ListNode(e.of, e.bounds) /\ NodeOf(e, ids) = ListNode(ids[1], e.bounds)
      BY <1>0, <2>4 DEF IsExpr, IsExprOver, NodeOf, Leaves
    <3>2. Unfolded(ListNode(ids[1], e.bounds), exprs) = ListNode(exprs[ids[1]], e.bounds)
      BY DEF Unfolded, ListNode, Leaves
    <3> QED  BY <2>2, <3>1, <3>2
  <2>5. CASE e.kind = "dict"
    <3>1. e = DictNode(e.of, e.bounds) /\ NodeOf(e, ids) = DictNode(ids[1], e.bounds)
      BY <1>0, <2>5 DEF IsExpr, IsExprOver, NodeOf, Leaves
    <3>2. Unfolded(DictNode(ids[1], e.bounds), exprs) = DictNode(exprs[ids[1]], e.bounds)
      BY DEF Unfolded, DictNode, Leaves
    <3> QED  BY <2>2, <3>1, <3>2
  <2> QED  BY <1>0, <1>3, <2>3, <2>4, <2>5 DEF IsExpr, IsExprOver
<1> QED  BY <1>1, <1>2, <1>3

-----------------------------------------------------------------------------
\* Indexes that stand for the first components of an expression.
Stand(e, ids, exprs) ==
  /\ Len(ids) <= Len(Components(e))
  /\ \A k \in 1..Len(ids) : exprs[ids[k]] = Components(e)[k]

\* A node made of nodes before it.
MadeOf(n, bound, exprs) ==
  \E e \in Exprs, ids \in Seq(1..bound) :
    n = NodeOf(e, ids) /\ Len(ids) = Len(Components(e)) /\ Stand(e, ids, exprs)

AllMade(arena, exprs) == \A i \in DOMAIN arena : MadeOf(arena[i], i - 1, exprs)
AllDistinct(arena, exprs) == \A i, j \in DOMAIN arena : exprs[i] = exprs[j] => i = j

\* The calls in progress: each builds the next component of the one before.
CallsNest(calls, exprs) ==
  /\ \A m \in 1..Len(calls) : Stand(calls[m].expr, calls[m].ids, exprs)
  /\ \A m \in 1..(Len(calls) - 1) :
       /\ Len(calls[m].ids) < Len(Components(calls[m].expr))
       /\ calls[m + 1].expr = Components(calls[m].expr)[Len(calls[m].ids) + 1]
  /\ calls # <<>> => calls[1].expr = document

InCalls(i, calls) == \E m \in 1..Len(calls) : \E k \in 1..Len(calls[m].ids) : calls[m].ids[k] = i
Needed(i, arena, exprs) ==
  \E j \in (i + 1)..Len(arena) : exprs[i] \in ToSet(Components(exprs[j]))

UnfoldInv ==
  LET exprs == Unfolding(nodes) IN
  /\ AllMade(nodes, exprs)
  /\ AllDistinct(nodes, exprs)
  /\ CallsNest(stack, exprs)
  /\ stack # <<>> => root = None
  /\ \A i \in DOMAIN nodes : Needed(i, nodes, exprs) \/ InCalls(i, stack) \/ i \in root
  /\ \A id \in root : exprs[id] = document

LEMMA NodesBackward == ASSUME IInv PROVE Backward(nodes)
BY LenProperties DEF IInv, TypeOK, RefersBackward, Backward

\* Two nodes for one expression would be made of the same nodes.
LEMMA MadeOnce ==
  ASSUME IInv, UnfoldInv, NEW i \in DOMAIN nodes, NEW ids \in Seq(Nat \ {0}),
         \A k \in 1..Len(ids) : ids[k] \in DOMAIN nodes,
         LET exprs == Unfolding(nodes) IN
           Len(ids) = Len(Components(exprs[i])) /\ Stand(exprs[i], ids, exprs)
  PROVE  nodes[i] = NodeOf(Unfolding(nodes)[i], ids) /\ \A k \in 1..Len(ids) : ids[k] < i
<1> DEFINE exprs == Unfolding(nodes)
<1>1. Backward(nodes)
  BY NodesBackward
<1>2. exprs[i] = Unfolded(nodes[i], exprs)
  BY <1>1, UnfoldingUnfolds
<1>3. AllMade(nodes, exprs) /\ AllDistinct(nodes, exprs)
  BY DEF UnfoldInv
<1>4. Len(ids) = Len(Components(exprs[i])) /\ Stand(exprs[i], ids, exprs)
  OBVIOUS
<1> HIDE DEF exprs
<1>5. PICK e \in Exprs, made \in Seq(1..(i - 1)) :
        nodes[i] = NodeOf(e, made) /\ Len(made) = Len(Components(e)) /\ Stand(e, made, exprs)
  BY <1>3 DEF AllMade, MadeOf
<1>6. exprs[i] = e
  <2>1. \A k \in 1..Len(Components(e)) : exprs[made[k]] = Components(e)[k]
    BY <1>5 DEF Stand
  <2> QED  BY <1>2, <1>5, <2>1, NodeStandsForExpr
<1>7. i \in Nat /\ DOMAIN nodes = 1..Len(nodes) /\ Len(nodes) \in Nat
  BY <1>1 DEF Backward
<1>8. Len(made) = Len(ids) /\ Len(ids) \in Nat
  BY <1>4, <1>5, <1>6, LenProperties
<1>9. \A k \in 1..Len(ids) : made[k] \in 1..(i - 1) /\ made[k] = ids[k]
  <2> TAKE k \in 1..Len(ids)
  <2>1. made[k] \in 1..(i - 1)
    BY <1>5, <1>8, ElementOfSeq
  <2>2. exprs[made[k]] = exprs[ids[k]]
    BY <1>4, <1>5, <1>6, <1>8 DEF Stand
  <2>3. made[k] \in DOMAIN nodes /\ ids[k] \in DOMAIN nodes
    BY <1>7, <2>1
  <2> QED  BY <1>3, <2>1, <2>2, <2>3 DEF AllDistinct
<1>10. made = ids
  <2>1. made = [k \in 1..Len(ids) |-> made[k]] /\ ids = [k \in 1..Len(ids) |-> ids[k]]
    BY <1>5, <1>8, LenProperties
  <2> QED  BY <1>9, <2>1
<1>11. \A k \in 1..Len(ids) : ids[k] < i
  <2> TAKE k \in 1..Len(ids)
  <2>1. ids[k] \in 1..(i - 1)
    BY <1>9
  <2> QED  BY <1>7, <2>1
<1> QED  BY <1>5, <1>6, <1>10, <1>11 DEF exprs

\* What the innermost call has when it has all its components.
LEMMA TopComplete ==
  ASSUME IInv, UnfoldInv, stack # <<>>, ~Pending
  PROVE  /\ Top.expr \in Exprs /\ Top.ids \in Seq(Nat \ {0}) /\ Len(Top.ids) \in Nat
         /\ Len(Top.ids) = Len(Components(Top.expr))
         /\ Stand(Top.expr, Top.ids, Unfolding(nodes))
         /\ \A k \in 1..Len(Top.ids) : Top.ids[k] \in DOMAIN nodes
         /\ \A exprs : (\A i \in DOMAIN nodes : exprs[i] = Unfolding(nodes)[i])
                         => Unfolded(TopNode, exprs) = Top.expr
<1> DEFINE u == Unfolding(nodes)
<1>1. /\ Len(stack) \in Nat \ {0} /\ Top = stack[Len(stack)]
      /\ Top.expr \in Exprs /\ Top.ids \in Seq(Nat \ {0})
      /\ \A k \in 1..Len(Top.ids) : Top.ids[k] \in DOMAIN nodes
  BY TopFacts DEF IInv
<1>2. Stand(Top.expr, Top.ids, u)
  BY <1>1 DEF UnfoldInv, CallsNest
<1>3. Len(Top.ids) \in Nat /\ Len(Components(Top.expr)) \in Nat
  BY <1>1, ComponentsAreExprs, LenProperties
<1>4. Len(Top.ids) = Len(Components(Top.expr))
  BY <1>2, <1>3 DEF Stand, Pending
<1> HIDE DEF u
<1>5. ASSUME NEW exprs, \A i \in DOMAIN nodes : exprs[i] = u[i]
      PROVE  Unfolded(TopNode, exprs) = Top.expr
  <2>1. \A k \in 1..Len(Components(Top.expr)) : exprs[Top.ids[k]] = Components(Top.expr)[k]
    BY <1>1, <1>2, <1>4, <1>5 DEF Stand
  <2> QED  BY <1>1, <2>1, NodeStandsForExpr DEF TopNode
<1> QED  BY <1>1, <1>2, <1>3, <1>4, <1>5 DEF u

LEMMA InitUnfolds == Init => UnfoldInv
<1> SUFFICES ASSUME Init PROVE UnfoldInv  OBVIOUS
<1>1. /\ document \in Exprs /\ stack = <<Frame(document)>> /\ nodes = <<>> /\ root = {}
  BY ExprsAssumption DEF Init, None
<1>2. DOMAIN nodes = {} /\ Len(stack) = 1 /\ stack[1].expr = document /\ stack[1].ids = <<>>
  BY <1>1 DEF Frame
<1>3. Len(Components(document)) \in Nat
  BY <1>1, ComponentsAreExprs, LenProperties
<1>4. Stand(document, <<>>, Unfolding(nodes))
  BY <1>3 DEF Stand
<1>5. CallsNest(stack, Unfolding(nodes))
  BY <1>2, <1>4 DEF CallsNest
<1> QED  BY <1>1, <1>2, <1>5 DEF UnfoldInv, AllMade, AllDistinct, None

LEMMA BuildComponentUnfolds == ASSUME IInv, UnfoldInv, BuildComponent PROVE UnfoldInv'
<1> DEFINE u == Unfolding(nodes)
           e == Components(Top.expr)[Len(Top.ids) + 1]
           n == Len(stack)
<1>1. TypeOK /\ stack # <<>> /\ Pending /\ stack \in Seq(Frames)
  BY DEF IInv, TypeOK, BuildComponent
<1>2. stack' = Append(stack, Frame(e)) /\ UNCHANGED <<document, nodes, interned, root>>
  BY DEF BuildComponent
<1>3. /\ n \in Nat \ {0} /\ Top = stack[n] /\ Top.expr \in Exprs /\ Top.ids \in Seq(Nat \ {0})
  BY <1>1, TopFacts
<1>4. Components(Top.expr) \in Seq(Exprs) /\ Len(Top.ids) \in Nat
  BY <1>3, ComponentsAreExprs, LenProperties
<1>5. e \in Exprs /\ Len(Top.ids) < Len(Components(Top.expr))
  BY <1>1, <1>4, ElementOfSeq, LenProperties DEF Pending
<1> HIDE DEF e, n
<1>6. Frame(e) \in Frames /\ Frame(e).expr = e /\ Frame(e).ids = <<>>
  BY <1>5 DEF Frame, Frames
<1>7. /\ stack' # <<>> /\ Len(stack') = n + 1 /\ stack'[n + 1] = Frame(e)
      /\ \A i \in 1..n : stack'[i] = stack[i]
  BY <1>1, <1>2, <1>6, AppendThenFront DEF n
<1>8. CallsNest(stack, u)
  BY DEF UnfoldInv
<1> HIDE DEF u
<1>9. Stand(e, <<>>, u)
  <2>1. Len(Components(e)) \in Nat
    BY <1>5, ComponentsAreExprs, LenProperties
  <2> QED  BY <2>1 DEF Stand
<1>10. CallsNest(stack, Unfolding(nodes))'
  <2>1. ASSUME NEW m \in 1..(n + 1) PROVE Stand(stack'[m].expr, stack'[m].ids, u)
    <3>1. CASE m = n + 1
      BY <1>6, <1>7, <1>9, <3>1
    <3>2. CASE m # n + 1
      <4>1. m \in 1..n
        BY <1>3, <3>2
      <4> QED  BY <1>7, <1>8, <4>1 DEF CallsNest, n
    <3> QED  BY <3>1, <3>2
  <2>2. ASSUME NEW m \in 1..n
        PROVE  /\ Len(stack'[m].ids) < Len(Components(stack'[m].expr))
               /\ stack'[m + 1].expr = Components(stack'[m].expr)[Len(stack'[m].ids) + 1]
    <3>1. CASE m = n
      BY <1>3, <1>5, <1>6, <1>7, <3>1 DEF e
    <3>2. CASE m # n
      <4>1. m \in 1..(n - 1) /\ m + 1 \in 1..n
        BY <1>3, <3>2
      <4> QED  BY <1>7, <1>8, <4>1 DEF CallsNest, n
    <3> QED  BY <3>1, <3>2
  <2>3. stack'[1].expr = document
    <3>1. 1 \in 1..n /\ stack'[1] = stack[1]
      BY <1>3, <1>7
    <3>2. stack[1].expr = document
      BY <1>1, <1>8 DEF CallsNest
    <3> QED  BY <3>1, <3>2
  <2>4. Len(stack') - 1 = n /\ Unfolding(nodes)' = u /\ document' = document
    BY <1>2, <1>3, <1>7 DEF u
  <2> QED  BY <1>7, <2>1, <2>2, <2>3, <2>4 DEF CallsNest
<1>11. \A i \in DOMAIN nodes : InCalls(i, stack) => InCalls(i, stack')
  <2> SUFFICES ASSUME NEW m \in 1..n PROVE m \in 1..Len(stack') /\ stack'[m] = stack[m]
    BY DEF InCalls, n
  <2> QED  BY <1>3, <1>7
<1> QED  BY <1>1, <1>2, <1>10, <1>11 DEF UnfoldInv, u

\* The innermost call returns the index of a node for its expression, behind
\* those it is made of.
LEMMA DeliverUnfolds ==
  ASSUME IInv, UnfoldInv, stack # <<>>, ~Pending, NEW id, Deliver(id), document' = document,
         NEW w, w = Unfolding(nodes)', id \in DOMAIN nodes',
         \A i \in DOMAIN nodes : w[i] = Unfolding(nodes)[i],
         w[id] = Top.expr, \A k \in 1..Len(Top.ids) : Top.ids[k] < id,
         Len(nodes') \in Nat, DOMAIN nodes' = 1..Len(nodes'), Len(nodes) <= Len(nodes'),
         DOMAIN nodes' \subseteq DOMAIN nodes \cup {id},
         AllMade(nodes', w), AllDistinct(nodes', w)
  PROVE  UnfoldInv'
<1> DEFINE u == Unfolding(nodes)
           n == Len(stack)
<1>1. /\ TypeOK /\ stack \in Seq(Frames) /\ n \in Nat \ {0} /\ Top = stack[n]
      /\ Len(nodes) \in Nat /\ DOMAIN nodes = 1..Len(nodes)
  BY TopFacts DEF IInv, TypeOK
<1>2. /\ Len(Top.ids) = Len(Components(Top.expr)) /\ Stand(Top.expr, Top.ids, u)
      /\ \A k \in 1..Len(Top.ids) : Top.ids[k] \in DOMAIN nodes
  BY TopComplete
<1>3. CallsNest(stack, u) /\ root = None
  BY DEF UnfoldInv
<1>4. \A i \in DOMAIN nodes : Needed(i, nodes, u) \/ InCalls(i, stack)
  BY <1>3 DEF UnfoldInv, None
<1> HIDE DEF u, n
<1>5. \A i \in DOMAIN nodes : Needed(i, nodes, u) => Needed(i, nodes', w)
  <2> SUFFICES ASSUME NEW i \in DOMAIN nodes, NEW j \in (i + 1)..Len(nodes),
                      u[i] \in ToSet(Components(u[j]))
               PROVE  j \in (i + 1)..Len(nodes') /\ w[i] \in ToSet(Components(w[j]))
    BY DEF Needed
  <2>1. j \in DOMAIN nodes /\ j \in (i + 1)..Len(nodes')
    BY <1>1
  <2> QED  BY <2>1 DEF u
<1>6. \A k \in 1..Len(Top.ids) : Needed(Top.ids[k], nodes', w)
  <2> TAKE k \in 1..Len(Top.ids)
  <2>1. Top.ids[k] \in DOMAIN nodes /\ Top.ids[k] < id
    BY <1>2
  <2>2. id \in (Top.ids[k] + 1)..Len(nodes')
    BY <1>1, <2>1
  <2>3. w[Top.ids[k]] = Components(w[id])[k]
    BY <1>2, <2>1 DEF Stand, u
  <2>4. k \in DOMAIN Components(w[id])
    <3>1. Components(Top.expr) \in Seq(Exprs)
      BY <1>1, TopFacts, ComponentsAreExprs
    <3> QED  BY <1>2, <3>1, LenProperties
  <2>5. w[Top.ids[k]] \in ToSet(Components(w[id]))
    BY <2>3, <2>4 DEF ToSet
  <2> QED  BY <2>2, <2>5 DEF Needed
<1>7. CASE n = 1
  <2>1. stack' = <<>> /\ root' = {id}
    BY <1>7 DEF Deliver, Some, n
  <2>2. Len(stack') = 0
    BY <2>1
  <2>3. CallsNest(stack, Unfolding(nodes))'
    BY <2>1, <2>2 DEF CallsNest
  <2>4. w[id] = document'
    BY <1>1, <1>3, <1>7 DEF CallsNest
  <2>5. \A i \in DOMAIN nodes : InCalls(i, stack) => \E k \in 1..Len(Top.ids) : Top.ids[k] = i
    <3> SUFFICES ASSUME NEW i \in DOMAIN nodes, NEW m \in 1..n, NEW k \in 1..Len(stack[m].ids), stack[m].ids[k] = i
                 PROVE  \E h \in 1..Len(Top.ids) : Top.ids[h] = i
      BY DEF InCalls, n
    <3>1. m = n
      BY <1>7
    <3> QED  BY <1>1, <3>1
  <2>6. \A i \in DOMAIN nodes' : Needed(i, nodes', w) \/ i \in root'
    BY <1>4, <1>5, <1>6, <2>1, <2>5
  <2> QED  BY <2>1, <2>3, <2>4, <2>6 DEF UnfoldInv
<1>8. CASE n # 1
  <2> DEFINE p == n - 1
             fr == Front(stack)
             f == [fr[p] EXCEPT !.ids = Append(@, id)]
  <2>1. stack' = [fr EXCEPT ![p].ids = Append(@, id)] /\ root' = root
    BY <1>8 DEF Deliver, n
  <2>2. /\ fr \in Seq(Frames) /\ Len(fr) = p /\ p \in Nat \ {0}
        /\ \A i \in 1..p : fr[i] = stack[i]
    <3>1. /\ fr \in Seq(Frames) /\ Len(stack) \in Nat \ {0} /\ Len(fr) = Len(stack) - 1
          /\ \A i \in 1..(Len(stack) - 1) : fr[i] = stack[i]
      BY <1>1, FrontLastProperties
    <3> HIDE DEF fr
    <3> QED  BY <1>8, <3>1 DEF n
  <2>3. fr[p] \in Frames /\ fr # <<>> /\ fr[p] = stack[p]
    <3> HIDE DEF fr, p
    <3>1. p \in 1..Len(fr)
      BY <2>2
    <3>2. fr[p] \in Frames
      BY <2>2, <3>1, ElementOfSeq
    <3>3. fr # <<>>
      BY <2>2, EmptySeq
    <3> QED  BY <2>2, <3>1, <3>2, <3>3
  <2>4. fr[p].ids \in Seq(Nat \ {0}) /\ Len(fr[p].ids) \in Nat
    BY <2>3, LenProperties DEF Frames
  <2>5. id \in Nat \ {0}
    OBVIOUS
  <2>6. /\ Append(fr[p].ids, id) \in Seq(Nat \ {0})
        /\ Len(Append(fr[p].ids, id)) = Len(fr[p].ids) + 1
        /\ Append(fr[p].ids, id)[Len(fr[p].ids) + 1] = id
        /\ \A k \in 1..Len(fr[p].ids) : Append(fr[p].ids, id)[k] = fr[p].ids[k]
    BY <2>4, <2>5, AppendThenFront
  <2>7. f \in Frames /\ f.ids = Append(stack[p].ids, id) /\ f.expr = stack[p].expr
    BY <2>3, <2>6 DEF Frames
  <2>8. stack' = [fr EXCEPT ![Len(fr)] = f]
    BY <2>1, <2>2
  <2> HIDE DEF f, fr
  <2>9. /\ stack' \in Seq(Frames) /\ Len(stack') = p /\ stack' # <<>>
        /\ \A i \in 1..(p - 1) : stack'[i] = fr[i]
        /\ stack'[p] = f
    BY <2>2, <2>3, <2>7, <2>8, ReplaceLast
  <2>10. \A m \in 1..(p - 1) : stack'[m] = stack[m]
    BY <2>2, <2>9
  <2>11. /\ Len(stack[p].ids) < Len(Components(stack[p].expr))
         /\ Top.expr = Components(stack[p].expr)[Len(stack[p].ids) + 1]
    <3>1. p \in 1..(Len(stack) - 1) /\ p + 1 = n
      BY <1>1, <2>2 DEF n
    <3> QED  BY <1>1, <1>3, <3>1 DEF CallsNest
  <2>12. \A m \in 1..n : Stand(stack[m].expr, stack[m].ids, w)
    <3> SUFFICES ASSUME NEW m \in 1..n PROVE Stand(stack[m].expr, stack[m].ids, w)
      OBVIOUS
    <3>1. \A k \in 1..Len(stack[m].ids) : stack[m].ids[k] \in DOMAIN nodes
      BY <1>1 DEF TypeOK, n
    <3>2. Stand(stack[m].expr, stack[m].ids, u)
      BY <1>3 DEF CallsNest, n
    <3> QED  BY <3>1, <3>2 DEF Stand, u
  <2>13. Stand(f.expr, f.ids, w)
    <3> DEFINE h == Len(stack[p].ids)  e == stack[p].expr
    <3>1. h \in Nat /\ Len(f.ids) = h + 1 /\ f.ids[h + 1] = id /\ \A k \in 1..h : f.ids[k] = stack[p].ids[k]
      BY <2>3, <2>4, <2>6, <2>7
    <3>2. Stand(e, stack[p].ids, w)
      <4>1. p \in 1..n
        BY <1>1, <2>2
      <4> QED  BY <2>12, <4>1
    <3>3. Len(Components(e)) \in Nat
      <4>1. e \in Exprs
        BY <2>3 DEF Frames
      <4> QED  BY <4>1, ComponentsAreExprs, LenProperties
    <3>4. Len(f.ids) <= Len(Components(e))
      BY <2>11, <3>1, <3>3
    <3>5. \A k \in 1..(h + 1) : w[f.ids[k]] = Components(e)[k]
      <4> TAKE k \in 1..(h + 1)
      <4>1. CASE k = h + 1
        BY <2>11, <3>1, <4>1
      <4>2. CASE k # h + 1
        <5> HIDE DEF h, e
        <5>1. k \in 1..h /\ f.ids[k] = stack[p].ids[k]
          BY <3>1, <4>2
        <5>2. w[stack[p].ids[k]] = Components(e)[k]
          BY <3>2, <5>1 DEF Stand, h
        <5> QED  BY <5>1, <5>2
      <4> QED  BY <4>1, <4>2
    <3> HIDE DEF h, e
    <3>6. f.expr = e
      BY <2>7 DEF e
    <3> QED  BY <3>1, <3>4, <3>5, <3>6 DEF Stand
  <2>14. CallsNest(stack, Unfolding(nodes))'
    <3> HIDE DEF p
    <3>1. \A m \in 1..p : Stand(stack'[m].expr, stack'[m].ids, w)
      <4> TAKE m \in 1..p
      <4>1. CASE m = p
        BY <2>9, <2>13, <4>1
      <4>2. CASE m # p
        <5>1. m \in 1..(p - 1) /\ m \in 1..n
          BY <1>1, <2>2, <4>2 DEF p
        <5> QED  BY <2>10, <2>12, <5>1
      <4> QED  BY <4>1, <4>2
    <3>2. \A m \in 1..(p - 1) :
            /\ Len(stack'[m].ids) < Len(Components(stack'[m].expr))
            /\ stack'[m + 1].expr = Components(stack'[m].expr)[Len(stack'[m].ids) + 1]
      <4> TAKE m \in 1..(p - 1)
      <4>1. m \in 1..(Len(stack) - 1) /\ (m + 1 = p \/ m + 1 \in 1..(p - 1))
        BY <1>1, <2>2 DEF p, n
      <4>2. stack'[m + 1].expr = stack[m + 1].expr
        BY <2>7, <2>9, <2>10, <4>1
      <4> QED  BY <1>3, <2>10, <4>1, <4>2 DEF CallsNest
    <3>3. stack'[1].expr = document
      <4>1. 1 = p \/ 1 \in 1..(p - 1)
        BY <2>2
      <4>2. stack'[1].expr = stack[1].expr
        BY <2>7, <2>9, <2>10, <4>1
      <4> QED  BY <1>3, <4>2 DEF CallsNest
    <3> QED  BY <2>9, <3>1, <3>2, <3>3 DEF CallsNest
  <2>15. \A i \in DOMAIN nodes : InCalls(i, stack) => Needed(i, nodes', w) \/ InCalls(i, stack')
    <3> SUFFICES ASSUME NEW i \in DOMAIN nodes, NEW m \in 1..n, NEW k \in 1..Len(stack[m].ids), stack[m].ids[k] = i
                 PROVE  Needed(i, nodes', w) \/ InCalls(i, stack')
      BY DEF InCalls, n
    <3>1. CASE m = n
      BY <1>1, <1>6, <3>1
    <3>2. CASE m = p
      <4>1. k \in 1..Len(f.ids) /\ f.ids[k] = i
        BY <2>3, <2>4, <2>6, <2>7, <3>2
      <4> QED  BY <2>2, <2>9, <4>1 DEF InCalls
    <3>3. CASE m \in 1..(p - 1)
      <4>1. m \in 1..Len(stack')
        BY <2>2, <2>9, <3>3
      <4> QED  BY <2>10, <3>3, <4>1 DEF InCalls
    <3> QED  BY <1>1, <3>1, <3>2, <3>3
  <2>16. InCalls(id, stack')
    <3>1. Len(f.ids) \in 1..Len(f.ids) /\ f.ids[Len(f.ids)] = id
      BY <2>3, <2>4, <2>6, <2>7
    <3> QED  BY <2>2, <2>9, <3>1 DEF InCalls
  <2>17. \A i \in DOMAIN nodes' : Needed(i, nodes', w) \/ InCalls(i, stack')
    BY <1>4, <1>5, <2>15, <2>16
  <2> QED  BY <1>3, <2>1, <2>14, <2>17 DEF UnfoldInv, None
<1> QED  BY <1>7, <1>8

LEMMA InternKnownUnfolds == ASSUME IInv, UnfoldInv, InternKnown PROVE UnfoldInv'
<1> DEFINE u == Unfolding(nodes)
           id == interned[TopNode]
<1>1. /\ stack # <<>> /\ ~Pending /\ Deliver(id) /\ UNCHANGED <<document, nodes, interned>>
      /\ id \in DOMAIN nodes /\ nodes[id] = TopNode
  BY DEF InternKnown, IInv, TableMirrorsArena
<1> HIDE DEF id
<1>2. Backward(nodes) /\ Len(nodes) \in Nat /\ DOMAIN nodes = 1..Len(nodes)
  BY NodesBackward DEF Backward
<1>3. /\ Top.ids \in Seq(Nat \ {0}) /\ Len(Top.ids) = Len(Components(Top.expr)) /\ Stand(Top.expr, Top.ids, u)
      /\ \A k \in 1..Len(Top.ids) : Top.ids[k] \in DOMAIN nodes
  BY <1>1, TopComplete
<1>4. Unfolded(TopNode, u) = Top.expr
  BY <1>1, TopComplete
<1>5. u[id] = Top.expr
  BY <1>1, <1>2, <1>4, UnfoldingUnfolds
<1>6. \A k \in 1..Len(Top.ids) : Top.ids[k] < id
  BY <1>1, <1>3, <1>5, MadeOnce
<1>7. AllMade(nodes, u) /\ AllDistinct(nodes, u)
  BY DEF UnfoldInv
<1>8. u = Unfolding(nodes)' /\ nodes' = nodes
  BY <1>1
<1> HIDE DEF u
<1>9. \A i \in DOMAIN nodes : u[i] = Unfolding(nodes)[i]
  BY DEF u
<1> QED  BY <1>1, <1>2, <1>5, <1>6, <1>7, <1>8, <1>9, DeliverUnfolds

LEMMA InternNewUnfolds == ASSUME IInv, UnfoldInv, InternNew PROVE UnfoldInv'
<1> DEFINE u == Unfolding(nodes)
           id == Len(nodes) + 1
           arena == nodes'
           w == Unfolding(arena)
<1>1. /\ stack # <<>> /\ ~Pending /\ Deliver(id) /\ document' = document
      /\ TopNode \notin DOMAIN interned /\ arena = Append(nodes, TopNode)
  BY DEF InternNew
<1>2. IInv'
  BY InternNewKeeps
<1>3. /\ Backward(nodes) /\ Len(nodes) \in Nat /\ DOMAIN nodes = 1..Len(nodes)
  BY NodesBackward DEF Backward
<1>4. /\ arena \in Seq(ToSet(arena)) /\ RefersBackward'
      /\ arena # <<>> /\ Len(arena) = id /\ arena[id] = TopNode
      /\ \A i \in 1..Len(nodes) : arena[i] = nodes[i]
  <2>1. nodes \in Seq(ToSet(nodes))
    BY DEF IInv, TypeOK
  <2>2. arena \in Seq(ToSet(arena)) /\ RefersBackward'
    BY <1>2 DEF IInv, TypeOK
  <2> QED  BY <1>1, <2>1, <2>2, Pushed
<1>5. Backward(arena) /\ DOMAIN arena = 1..id
  BY <1>3, <1>4, LenProperties DEF Backward, RefersBackward
<1> HIDE DEF arena
<1>6. \A i \in DOMAIN nodes : w[i] = u[i]
  <2>1. Len(nodes) <= Len(arena)
    BY <1>3, <1>4
  <2> QED  BY <1>3, <1>4, <1>5, <2>1, UnfoldingGrows
<1>7. /\ Top.expr \in Exprs /\ Top.ids \in Seq(Nat \ {0})
      /\ Len(Top.ids) = Len(Components(Top.expr)) /\ Stand(Top.expr, Top.ids, u)
      /\ \A k \in 1..Len(Top.ids) : Top.ids[k] \in DOMAIN nodes
      /\ Unfolded(TopNode, w) = Top.expr
  BY <1>1, <1>6, TopComplete
<1>8. w[id] = Top.expr
  BY <1>3, <1>4, <1>5, <1>7, UnfoldingUnfolds
<1>9. AllMade(nodes, u) /\ AllDistinct(nodes, u)
  BY DEF UnfoldInv
<1>10. \A i \in DOMAIN nodes : u[i] # Top.expr
  <2> SUFFICES ASSUME NEW i \in DOMAIN nodes, u[i] = Top.expr PROVE FALSE
    OBVIOUS
  <2>1. nodes[i] = TopNode
    BY <1>7, MadeOnce DEF TopNode
  <2>2. nodes[i] \in DOMAIN interned
    BY DEF IInv, TableMirrorsArena
  <2> QED  BY <1>1, <2>1, <2>2
<1> HIDE DEF u, w
<1>11. AllDistinct(arena, w)
  <2> SUFFICES ASSUME NEW i \in 1..id, NEW j \in 1..id, w[i] = w[j] PROVE i = j
    BY <1>5 DEF AllDistinct
  <2>1. (i = id \/ i \in DOMAIN nodes) /\ (j = id \/ j \in DOMAIN nodes)
    BY <1>3
  <2> QED  BY <1>6, <1>8, <1>9, <1>10, <2>1 DEF AllDistinct
<1>12. AllMade(arena, w)
  <2> SUFFICES ASSUME NEW i \in 1..id PROVE MadeOf(arena[i], i - 1, w)
    BY <1>5 DEF AllMade
  <2>1. CASE i = id
    <3>1. Top.ids \in Seq(1..Len(nodes)) /\ i - 1 = Len(nodes)
      <4>1. Top.ids = [k \in 1..Len(Top.ids) |-> Top.ids[k]] /\ Len(Top.ids) \in Nat
        BY <1>7, LenProperties
      <4>2. Top.ids \in [1..Len(Top.ids) -> 1..Len(nodes)]
        BY <1>3, <1>7, <4>1
      <4>3. Top.ids \in Seq(1..Len(nodes))
        BY <4>1, <4>2, FunctionIsSeq
      <4> QED  BY <1>3, <2>1, <4>3
    <3>2. Stand(Top.expr, Top.ids, w)
      BY <1>6, <1>7 DEF Stand
    <3> QED  BY <1>4, <1>7, <2>1, <3>1, <3>2 DEF MadeOf, TopNode
  <2>2. CASE i \in DOMAIN nodes
    <3>1. PICK e \in Exprs, ids \in Seq(1..(i - 1)) :
            nodes[i] = NodeOf(e, ids) /\ Len(ids) = Len(Components(e)) /\ Stand(e, ids, u)
      BY <1>9, <2>2 DEF AllMade, MadeOf
    <3>2. \A k \in 1..Len(ids) : ids[k] \in DOMAIN nodes
      <4> TAKE k \in 1..Len(ids)
      <4>1. ids[k] \in 1..(i - 1)
        BY <3>1, ElementOfSeq
      <4> QED  BY <1>3, <2>2, <4>1
    <3>3. Stand(e, ids, w)
      BY <1>6, <3>1, <3>2 DEF Stand
    <3>4. arena[i] = nodes[i]
      BY <1>3, <1>4, <2>2
    <3> QED  BY <3>1, <3>3, <3>4 DEF MadeOf
  <2> QED  BY <1>3, <2>1, <2>2
<1>13. /\ w = Unfolding(nodes)' /\ id \in DOMAIN nodes'
       /\ \A i \in DOMAIN nodes : w[i] = Unfolding(nodes)[i]
       /\ Len(nodes') \in Nat /\ DOMAIN nodes' = 1..Len(nodes') /\ Len(nodes) <= Len(nodes')
       /\ DOMAIN nodes' \subseteq DOMAIN nodes \cup {id}
       /\ AllMade(nodes', w) /\ AllDistinct(nodes', w)
  BY <1>3, <1>4, <1>5, <1>6, <1>11, <1>12 DEF arena, w, u
<1>14. \A k \in 1..Len(Top.ids) : Top.ids[k] < id
  BY <1>3, <1>7
<1> HIDE DEF id
<1> QED  BY <1>1, <1>8, <1>13, <1>14, DeliverUnfolds

LEMMA StepUnfolds == IInv /\ UnfoldInv /\ [Next]_vars => UnfoldInv'
<1> SUFFICES ASSUME IInv, UnfoldInv, [Next]_vars PROVE UnfoldInv'  OBVIOUS
<1>1. CASE UNCHANGED vars
  BY <1>1 DEF vars, UnfoldInv, CallsNest
<1> QED  BY <1>1, BuildComponentUnfolds, InternKnownUnfolds, InternNewUnfolds DEF Next

LEMMA RootUnfolds == IInv /\ UnfoldInv => UnfoldsWithoutRepetition
<1> SUFFICES ASSUME IInv, UnfoldInv, NEW id \in root
             PROVE  LET exprs == Unfolding(nodes) IN
                    /\ exprs[id] = document
                    /\ \A i, j \in DOMAIN nodes : exprs[i] = exprs[j] => i = j
                    /\ \A i \in DOMAIN nodes \ {id} :
                         \E j \in (i + 1)..Len(nodes) : exprs[i] \in ToSet(Components(exprs[j]))
  BY DEF UnfoldsWithoutRepetition
<1>1. stack = <<>> /\ Len(stack) = 0
  BY EmptySeq DEF UnfoldInv, None
<1>2. \A i : ~InCalls(i, stack)
  BY <1>1 DEF InCalls
<1>3. root \subseteq DOMAIN nodes
  BY DEF IInv, TypeOK
<1> DEFINE exprs == Unfolding(nodes)
<1>4. /\ AllDistinct(nodes, exprs)
      /\ \A i \in DOMAIN nodes : Needed(i, nodes, exprs) \/ InCalls(i, stack) \/ i \in root
      /\ \A i \in root : exprs[i] = document
  BY DEF UnfoldInv
<1> HIDE DEF exprs
<1>5. \A i, j \in DOMAIN nodes : exprs[i] = exprs[j] => i = j
  BY <1>4 DEF AllDistinct
<1>6. \A i \in DOMAIN nodes \ {id} : Needed(i, nodes, exprs)
  BY <1>2, <1>3, <1>4, <1>5
<1>7. exprs[id] = document
  BY <1>4
<1> QED  BY <1>5, <1>6, <1>7 DEF Needed, exprs

\* The node at the root is one of the document itself.
LEMMA RootIsMade ==
  ASSUME IInv, UnfoldInv, NEW id \in root
  PROVE  /\ document \in Exprs /\ Unfolding(nodes)[id] = document
         /\ \E ids : nodes[id] = NodeOf(document, ids)
<1> DEFINE u == Unfolding(nodes)
<1>1. id \in DOMAIN nodes /\ document \in Exprs
  BY ExprsAssumption DEF IInv, TypeOK
<1>2. u[id] = Unfolded(nodes[id], u)
  BY <1>1, NodesBackward, UnfoldingUnfolds
<1>3. AllMade(nodes, u) /\ u[id] = document
  BY DEF UnfoldInv
<1> HIDE DEF u
<1>4. PICK e \in Exprs, made \in Seq(1..(id - 1)) :
        nodes[id] = NodeOf(e, made) /\ Len(made) = Len(Components(e)) /\ Stand(e, made, u)
  BY <1>1, <1>3 DEF AllMade, MadeOf
<1>5. \A k \in 1..Len(Components(e)) : u[made[k]] = Components(e)[k]
  BY <1>4 DEF Stand
<1>6. u[id] = e
  BY <1>2, <1>4, <1>5, NodeStandsForExpr
<1> QED  BY <1>1, <1>3, <1>4, <1>6 DEF u

\* Whatever the expression, the arena build_ir returns stands for it with every
\* option in its place, has one node for each of its distinct parts, and none
\* that nothing needs.
THEOREM ArenaUnfoldsToDocument == Spec => []UnfoldsWithoutRepetition
<1>1. IInv /\ UnfoldInv /\ [Next]_vars => UnfoldInv'
  BY StepUnfolds
<1>2. IInv /\ UnfoldInv => UnfoldsWithoutRepetition
  BY RootUnfolds
<1> QED  BY <1>1, <1>2, InitUnfolds, Inductive, PTL DEF Spec
=============================================================================
