--------------------------- MODULE ValidatorProofs ---------------------------
(***************************************************************************)
(* Theorems about the validator, and about the instance made of what it    *)
(* accepts, for every schema, payload and options the constants allow.     *)
(***************************************************************************)
EXTENDS ValidationContract, Materialize, SequenceLemmas

(***************************************************************************)
(* What the assumptions say of the nodes and of the values at hand.        *)
(***************************************************************************)
LEMMA NodeFacts ==
  ASSUME call \in Calls, NEW id \in DOMAIN call.schema.nodes
  PROVE  /\ Len(call.schema.nodes) \in Nat
         /\ DOMAIN call.schema.nodes = 1..Len(call.schema.nodes)
         /\ IsNode(Node(id), id - 1)
  BY CallsAssumption DEF IsSchema, Node

LEMMA ChildFacts ==
  ASSUME call \in Calls, NEW id \in DOMAIN call.schema.nodes
  PROVE  /\ Node(id).kind \in Collections \cup {"optional"} =>
              Node(id).of \in DOMAIN call.schema.nodes /\ Node(id).of < id
         /\ Node(id).kind = "struct" =>
              \A i \in 1..Len(Node(id).fields) :
                /\ Node(id).fields[i].name \in Text
                /\ Node(id).fields[i].of \in DOMAIN call.schema.nodes
                /\ Node(id).fields[i].of < id
  <1>1. /\ Len(call.schema.nodes) \in Nat
        /\ DOMAIN call.schema.nodes = 1..Len(call.schema.nodes)
        /\ IsNode(Node(id), id - 1)
    BY NodeFacts
  <1>2. id \in 1..Len(call.schema.nodes)
    BY <1>1
  <1>3. ASSUME Node(id).kind \in Collections \cup {"optional"}
        PROVE  Node(id).of \in 1..(id - 1)
    BY <1>1, <1>3 DEF IsNode, Collections
  <1> DEFINE F == [name : Text, required : BOOLEAN, of : 1..(id - 1)]
  <1>4. ASSUME Node(id).kind = "struct"
        PROVE  Node(id).fields \in Seq(F)
    BY <1>1, <1>4 DEF IsNode, Collections
  <1>5. ASSUME Node(id).kind = "struct", NEW i \in 1..Len(Node(id).fields)
        PROVE  Node(id).fields[i] \in F
    <2> HIDE DEF F
    <2> QED BY <1>4, <1>5, ElementOfSeq
  <1>6. QED
    BY <1>1, <1>2, <1>3, <1>5

LEMMA ValueFacts ==
  ASSUME NEW v \in Values
  PROVE  /\ v.kind = "list" => v.items \in Seq(Values)
         /\ v.kind = "dict" => /\ v.entries \in Seq([key : Text, value : Values])
                               /\ \A k : Found(v.entries, k) \subseteq Values
  <1>1. /\ v.kind = "list" => v.items \in Seq(Values)
        /\ v.kind = "dict" => v.entries \in Seq([key : Text, value : Values])
    BY ValuesAssumption DEF IsInputValue
  <1>2. ASSUME v.kind = "dict", NEW k
        PROVE  Found(v.entries, k) \subseteq Values
    <2> DEFINE E == [key : Text, value : Values]
    <2>1. \A i \in DOMAIN v.entries : v.entries[i] \in E
      <3>1. v.entries \in Seq(E)
        BY <1>1, <1>2
      <3> HIDE DEF E
      <3>2. QED
        BY <3>1, ElementOfSeq, LenProperties
    <2>2. QED
      BY <2>1 DEF Found
  <1>3. QED
    BY <1>1, <1>2

(***************************************************************************)
(* Issues: what an action records is a sequence of known codes.            *)
(***************************************************************************)
IssueSet == [path : Seq(Segments), code : Codes]

LEMMA Recorded ==
  ASSUME issues \in Seq(IssueSet), NEW p \in Seq(Segments), NEW codes \in Seq(Codes),
         Record(p, codes)
  PROVE  /\ issues' \in Seq(IssueSet)
         /\ codes # <<>> \/ issues # <<>> => issues' # <<>>
  <1>1. /\ IssuesAt(p, codes) \in Seq(IssueSet)
        /\ Len(IssuesAt(p, codes)) = Len(codes)
    <2>1. /\ Len(codes) \in Nat
          /\ DOMAIN codes = 1..Len(codes)
          /\ \A i \in 1..Len(codes) : codes[i] \in Codes
      BY LenProperties, ElementOfSeq
    <2>2. \A i \in 1..Len(codes) : Issue(p, codes[i]) \in IssueSet
      BY <2>1 DEF Issue, IssueSet
    <2>3. IssuesAt(p, codes) = [i \in 1..Len(codes) |-> Issue(p, codes[i])]
      BY <2>1 DEF IssuesAt
    <2>4. QED
      BY <2>1, <2>2, <2>3
  <1>2. codes # <<>> => IssuesAt(p, codes) # <<>>
    BY <1>1, EmptySeq
  <1>3. QED
    BY <1>1, <1>2, ConcatNonEmpty DEF Record

LEMMA BoundCodesAreCodes ==
  ASSUME NEW measure, NEW bounds, NEW low \in Codes, NEW high \in Codes
  PROVE  BoundCodes(measure, bounds, low, high) \in Seq(Codes)
  BY DEF BoundCodes

LEMMA ConstraintCodesAreCodes ==
  ASSUME NEW n, NEW v
  PROVE  ConstraintCodes(n, v) \in Seq(Codes)
  <1>1. {"too_small", "too_large", "too_short", "too_long", "format_invalid"} \subseteq Codes
    BY DEF Codes
  <1>2. FormatCodes(v.text, n.format) \in Seq(Codes)
    BY <1>1 DEF FormatCodes
  <1>3. SizeCodes(Reads[v.text].len, n.bounds) \in Seq(Codes)
    BY <1>1, BoundCodesAreCodes DEF SizeCodes
  <1>4. SizeCodes(Reads[v.text].len, n.bounds) \o FormatCodes(v.text, n.format) \in Seq(Codes)
    BY <1>2, <1>3, ConcatProperties
  <1>5. \A x : BoundCodes(x, n.bounds, "too_small", "too_large") \in Seq(Codes)
    BY <1>1, BoundCodesAreCodes
  <1>6. <<>> \in Seq(Codes)
    OBVIOUS
  <1>7. QED
    BY <1>4, <1>5, <1>6 DEF ConstraintCodes

(***************************************************************************)
(* The stack: every frame is typed, and it runs a loop that fits its node  *)
(* and its value.                                                          *)
(***************************************************************************)
FrameFits(f) ==
  /\ f.loop \in Collections => Node(f.node).kind = f.loop /\ f.value.kind = f.loop
  /\ f.loop \in {"fields", "extras"} =>
       Node(f.node).kind = "struct" /\ f.value.kind = "dict"

StackOK ==
  /\ stack \in Seq(Frames)
  /\ \A i \in 1..Len(stack) : FrameFits(stack[i])

LEMMA PushOK ==
  ASSUME StackOK, call' = call, NEW loop, NEW out, Frame(loop, out),
         loop \in Loops, focus \in [node : DOMAIN call.schema.nodes, value : Values],
         FrameFits([loop |-> loop, node |-> focus.node, value |-> focus.value, next |-> 1])
  PROVE  StackOK' /\ stack' # <<>>
  <1> DEFINE f == [loop |-> loop, node |-> focus.node, value |-> focus.value, next |-> 1]
  <1>1. f \in Frames /\ Frames' = Frames
    BY DEF Frames
  <1>2. stack' = Append(stack, f) /\ stack \in Seq(Frames)
    BY DEF Frame, StackOK
  <1> HIDE DEF f
  <1>3. /\ stack' \in Seq(Frames)
        /\ stack' # <<>>
        /\ Len(stack') = Len(stack) + 1
        /\ \A i \in 1..Len(stack) : stack'[i] = stack[i]
        /\ stack'[Len(stack) + 1] = f
    BY <1>1, <1>2, AppendThenFront
  <1>4. Len(stack) \in Nat
    BY <1>2, LenProperties
  <1>5. FrameFits(f) /\ \A i \in 1..Len(stack) : FrameFits(stack[i])
    BY DEF f, StackOK
  <1>6. \A i \in 1..Len(stack') : FrameFits(stack'[i])
    BY <1>3, <1>4, <1>5
  <1>7. \A i \in 1..Len(stack') : FrameFits(stack[i])'
    BY <1>6 DEF FrameFits, Node
  <1>8. QED
    BY <1>1, <1>3, <1>7 DEF StackOK

LEMMA PopOK ==
  ASSUME StackOK, call' = call, stack # <<>>, stack' = Front(stack)
  PROVE  StackOK'
  <1>1. Frames' = Frames /\ stack \in Seq(Frames)
    BY DEF Frames, StackOK
  <1>2. /\ stack' \in Seq(Frames)
        /\ Len(stack) \in Nat \ {0}
        /\ Len(stack') = Len(stack) - 1
        /\ \A i \in 1..(Len(stack) - 1) : stack'[i] = stack[i]
    BY <1>1, FrontLastProperties
  <1>3. \A i \in 1..Len(stack') : FrameFits(stack'[i])
    BY <1>2 DEF StackOK
  <1>4. \A i \in 1..Len(stack') : FrameFits(stack[i])'
    BY <1>3 DEF FrameFits, Node
  <1>5. QED
    BY <1>1, <1>2, <1>4 DEF StackOK

LEMMA FitsButLast ==
  ASSUME StackOK, Len(stack) \in Nat \ {0}, NEW t, Len(t) = Len(stack),
         \A i \in 1..(Len(stack) - 1) : t[i] = stack[i], FrameFits(t[Len(stack)])
  PROVE  \A i \in 1..Len(t) : FrameFits(t[i])
  <1>1. \A i \in 1..Len(stack) : i \in 1..(Len(stack) - 1) \/ i = Len(stack)
    OBVIOUS
  <1>2. \A i \in 1..(Len(stack) - 1) : FrameFits(t[i])
    BY DEF StackOK
  <1>3. QED
    BY <1>1, <1>2

LEMMA ReplaceOK ==
  ASSUME StackOK, call' = call, stack # <<>>,
         NEW f \in Frames, FrameFits(f), stack' = [stack EXCEPT ![Len(stack)] = f]
  PROVE  StackOK' /\ stack' # <<>>
  <1>1. Frames' = Frames /\ stack \in Seq(Frames)
    BY DEF Frames, StackOK
  <1>2. /\ stack' \in Seq(Frames)
        /\ stack' # <<>>
        /\ Len(stack') = Len(stack)
        /\ \A i \in 1..(Len(stack) - 1) : stack'[i] = stack[i]
        /\ stack'[Len(stack)] = f
    BY <1>1, ReplaceLast
  <1>3. Len(stack) \in Nat \ {0}
    BY <1>1, FrontLastProperties
  <1>4. \A i \in 1..Len(stack') : FrameFits(stack'[i])
    BY <1>2, <1>3, FitsButLast
  <1>5. \A i \in 1..Len(stack') : FrameFits(stack[i])'
    BY <1>4 DEF FrameFits, Node
  <1>6. QED
    BY <1>1, <1>2, <1>5 DEF StackOK

LEMMA TopOK ==
  ASSUME StackOK, stack # <<>>
  PROVE  /\ Last(stack) \in Frames
         /\ Last(stack) = stack[Len(stack)]
         /\ Len(stack) \in Nat \ {0}
         /\ FrameFits(Last(stack))
  <1>1. stack \in Seq(Frames)
    BY DEF StackOK
  <1>2. /\ Last(stack) \in Frames
        /\ Last(stack) = stack[Len(stack)]
        /\ Len(stack) \in Nat \ {0}
    BY <1>1, FrontLastProperties
  <1>3. FrameFits(stack[Len(stack)])
    BY <1>2 DEF StackOK
  <1>4. QED
    BY <1>2, <1>3

\* Advancing the innermost frame replaces it by itself, one position further.
LEMMA AdvanceOK ==
  ASSUME StackOK, call' = call, stack # <<>>, Advance
  PROVE  StackOK' /\ stack' # <<>>
  <1> DEFINE f == [stack[Len(stack)] EXCEPT !.next = @ + 1]
  <1>1. /\ stack[Len(stack)] \in Frames
        /\ FrameFits(stack[Len(stack)])
        /\ Len(stack) \in Nat \ {0}
    BY TopOK
  <1>2. f \in Frames
    BY <1>1 DEF Frames
  <1>3. FrameFits(f)
    BY <1>1 DEF FrameFits, Frames
  <1>4. stack' = [stack EXCEPT ![Len(stack)] = f]
    BY <1>1 DEF Advance, StackOK
  <1> HIDE DEF f
  <1>5. QED
    BY <1>2, <1>3, <1>4, ReplaceOK

(***************************************************************************)
(* Typing.                                                                 *)
(***************************************************************************)
TypeInv == call \in Calls /\ TypeOK /\ StackOK

LEMMA SegmentFacts ==
  /\ \A k \in Text : KeySegment(k) \in Segments
  /\ \A i \in Nat : IndexSegment(i) \in Segments
  BY DEF KeySegment, IndexSegment, Segments

LEMMA SomeCodes ==
  {"format_invalid", "value_not_in", "type_mismatch", "coerce_failed",
   "required_missing", "extra_key"} \subseteq Codes
  BY DEF Codes

\* The member an open list or dict is at.
LEMMA MemberFacts ==
  ASSUME NEW f \in Frames, FrameFits(f), f.next <= Len(Members(f)),
         f.loop \in Collections, call \in Calls
  PROVE  /\ Node(f.node).of \in DOMAIN call.schema.nodes
         /\ Node(f.node).of < f.node
         /\ f.loop = "list" => Members(f)[f.next] \in Values
         /\ f.loop = "dict" => /\ Members(f)[f.next].key \in Text
                               /\ Members(f)[f.next].value \in Values
  <1>1. f.node \in DOMAIN call.schema.nodes /\ f.value \in Values /\ f.next \in Nat \ {0}
    BY DEF Frames
  <1>2. Node(f.node).kind = f.loop /\ f.value.kind = f.loop
    BY DEF FrameFits
  <1>3. Node(f.node).of \in DOMAIN call.schema.nodes /\ Node(f.node).of < f.node
    BY <1>1, <1>2, ChildFacts
  <1>4. CASE f.loop = "list"
    <2>1. Members(f) \in Seq(Values)
      BY <1>1, <1>2, <1>4, ValueFacts DEF Members
    <2>2. f.next \in 1..Len(Members(f))
      BY <1>1, <2>1, LenProperties
    <2>3. QED
      BY <1>3, <1>4, <2>1, <2>2, ElementOfSeq
  <1>5. CASE f.loop = "dict"
    <2> DEFINE E == [key : Text, value : Values]
    <2>1. Members(f) \in Seq(E)
      BY <1>1, <1>2, <1>5, ValueFacts DEF Members
    <2>2. f.next \in 1..Len(Members(f))
      BY <1>1, <2>1, LenProperties
    <2>3. Members(f)[f.next] \in E
      <3> HIDE DEF E
      <3>1. QED
        BY <2>1, <2>2, ElementOfSeq
    <2>4. QED
      BY <1>3, <1>5, <2>3
  <1>6. QED
    BY <1>4, <1>5 DEF Collections

\* The field an open struct is at.
LEMMA FieldFacts ==
  ASSUME NEW f \in Frames, FrameFits(f), f.next <= Len(Node(f.node).fields),
         f.loop = "fields", call \in Calls
  PROVE  /\ Node(f.node).fields[f.next].of \in DOMAIN call.schema.nodes
         /\ Node(f.node).fields[f.next].of < f.node
         /\ Node(f.node).fields[f.next].name \in Text
         /\ \A k : Found(f.value.entries, k) \subseteq Values
  <1>1. f.node \in DOMAIN call.schema.nodes /\ f.value \in Values /\ f.next \in Nat \ {0}
    BY DEF Frames
  <1>2. Node(f.node).kind = "struct" /\ f.value.kind = "dict"
    BY DEF FrameFits
  <1>3. Len(Node(f.node).fields) \in Nat
    BY <1>1, <1>2, NodeFacts, LenProperties DEF IsNode, Collections
  <1>4. f.next \in 1..Len(Node(f.node).fields)
    BY <1>1, <1>3
  <1>5. QED
    BY <1>1, <1>2, <1>4, ChildFacts, ValueFacts

\* The key an open struct is at when it scans the keys of the payload.
LEMMA KeyFacts ==
  ASSUME NEW f \in Frames, FrameFits(f), f.next <= Len(f.value.entries),
         f.loop = "extras"
  PROVE  f.value.entries[f.next].key \in Text
  <1> DEFINE E == [key : Text, value : Values]
  <1>1. f.value.entries \in Seq(E) /\ f.next \in Nat \ {0}
    BY ValueFacts DEF Frames, FrameFits
  <1>2. f.value.entries[f.next] \in E
    <2> HIDE DEF E
    <2>1. f.next \in 1..Len(f.value.entries)
      BY <1>1, LenProperties
    <2>2. QED
      BY <1>1, <2>1, ElementOfSeq
  <1>3. QED
    BY <1>2

LEMMA TypeInit == Init => TypeInv
  <1> SUFFICES ASSUME Init PROVE TypeInv
    OBVIOUS
  <1>1. \A S : <<>> \in Seq(S)
    BY EmptySeq
  <1>2. QED
    BY <1>1 DEF Init, TypeInv, TypeOK, StackOK

\* An action that leaves the stack alone, or that only moves its top frame,
\* preserves the typing of everything but the path and the issues.
LEMMA TypeStep == TypeInv /\ [Next]_vars => TypeInv'
  <1> SUFFICES ASSUME TypeInv, [Next]_vars PROVE TypeInv'
    OBVIOUS
  <1>1. /\ call \in Calls /\ StackOK /\ stack \in Seq(Frames)
        /\ path \in Seq(Segments) /\ issues \in Seq(IssueSet)
        /\ pc = "visit" => focus \in [node : DOMAIN call.schema.nodes, value : Values]
        /\ pc = "loop" => stack # <<>>
    BY DEF TypeInv, TypeOK, StackOK, IssueSet
  <1>2. SUFFICES
        /\ call' = call
        /\ StackOK'
        /\ path' \in Seq(Segments) /\ issues' \in Seq(IssueSet)
        /\ pc' \in {"start", "visit", "loop", "return", "done"}
        /\ pc' = "visit" => focus' \in [node : DOMAIN call.schema.nodes, value : Values]
        /\ pc' = "loop" => stack' # <<>>
    BY <1>1 DEF TypeInv, TypeOK, StackOK, IssueSet
  <1>3. StackOK /\ call' = call /\ stack' = stack => StackOK'
    BY DEF StackOK, Frames, FrameFits, Node
  <1>4. \A c \in Codes : <<c>> \in Seq(Codes)
    OBVIOUS
  <1>5. <<>> \in Seq(Codes) /\ <<>> \in Seq(Segments)
    OBVIOUS
  <1>6. \A c \in Codes, b \in BOOLEAN : (IF b THEN <<c>> ELSE <<>>) \in Seq(Codes)
    BY <1>4, <1>5
  <1>7. Front(path) \in Seq(Segments)
    BY <1>1, FrontIsSeq
  <1>8. \A x \in Segments : Append(path, x) \in Seq(Segments)
    BY <1>1, AppendProperties
  <1>9. stack # <<>> => Last(stack) \in Frames /\ FrameFits(Last(stack))
    BY <1>1, TopOK
  <1>10. CASE RejectMalformedJson
    BY <1>1, <1>3, <1>4, <1>5, <1>10, Recorded, SomeCodes DEF RejectMalformedJson
  <1>11. CASE ValidateRoot
    <2>1. call.schema.root \in DOMAIN call.schema.nodes /\ call.input.value \in Values
      BY <1>1, <1>11, CallsAssumption DEF ValidateRoot, IsSchema, Inputs
    <2>2. QED
      BY <1>1, <1>3, <1>11, <2>1 DEF ValidateRoot, Visit
  <1>12. CASE ValidatePrimitive
    <2>1. issues' \in Seq(IssueSet)
      <3>1. \A n, v : CoercionCode(n, v) \in Codes
        BY SomeCodes DEF CoercionCode
      <3>2. \E codes \in Seq(Codes) : Record(path, codes)
        BY <1>4, <1>12, <3>1, ConstraintCodesAreCodes DEF ValidatePrimitive
      <3>3. QED
        BY <1>1, <3>2, Recorded
    <2>2. QED
      BY <1>1, <1>3, <1>12, <2>1 DEF ValidatePrimitive, Return
  <1>13. CASE ValidateEnum
    <2>1. issues' \in Seq(IssueSet)
      <3>1. UNCHANGED issues \/ \E c \in Codes : Record(path, <<c>>)
        BY <1>13, SomeCodes DEF ValidateEnum
      <3>2. QED
        BY <1>1, <1>4, <3>1, Recorded
    <2>2. pc' = "return"
      BY <1>13 DEF ValidateEnum, Return
    <2>3. QED
      BY <1>1, <1>3, <1>13, <2>1, <2>2 DEF ValidateEnum
  <1>14. CASE ValidateOptional
    <2>1. Node(focus.node).of \in DOMAIN call.schema.nodes
      BY <1>1, <1>14, ChildFacts DEF ValidateOptional
    <2>2. QED
      BY <1>1, <1>3, <1>14, <2>1 DEF ValidateOptional, Visit, Return
  <1>15. CASE RejectShape
    BY <1>1, <1>3, <1>4, <1>15, Recorded, SomeCodes DEF RejectShape, Return
  <1>16. CASE EnterCollection
    <2>1. /\ focus \in [node : DOMAIN call.schema.nodes, value : Values]
          /\ Node(focus.node).kind \in Collections
          /\ focus.value.kind = Node(focus.node).kind
          /\ Frame(Node(focus.node).kind, <<>>)
      BY <1>1, <1>16 DEF EnterCollection, ShapeOf, Collections
    <2>2. Node(focus.node).kind \in Loops
      BY <2>1 DEF Loops
    <2>3. FrameFits([loop |-> Node(focus.node).kind, node |-> focus.node,
                     value |-> focus.value, next |-> 1])
      BY <2>1 DEF FrameFits, Collections
    <2>4. call' = call
      BY <1>16 DEF EnterCollection
    <2>5. StackOK' /\ stack' # <<>>
      BY <1>1, <2>1, <2>2, <2>3, <2>4, PushOK
    <2>6. QED
      BY <1>1, <1>16, <2>5 DEF EnterCollection
  <1>17. CASE VisitMember
    <2> DEFINE f == Last(stack)
    <2>1. f \in Frames /\ FrameFits(f) /\ f.next <= Len(Members(f)) /\ f.loop \in Collections
      BY <1>9, <1>17 DEF VisitMember, InLoop
    <2>2. f.next - 1 \in Nat
      BY <2>1 DEF Frames
    <2> HIDE DEF f
    <2>3. /\ Node(f.node).of \in DOMAIN call.schema.nodes
          /\ f.loop = "list" => Members(f)[f.next] \in Values
          /\ f.loop = "dict" => /\ Members(f)[f.next].key \in Text
                                /\ Members(f)[f.next].value \in Values
      BY <1>1, <2>1, MemberFacts
    <2>4. /\ path' \in Seq(Segments)
          /\ focus' \in [node : DOMAIN call.schema.nodes, value : Values]
          /\ pc' = "visit"
      <3>1. CASE f.loop = "list"
        <4>1. /\ path' = Append(path, IndexSegment(f.next - 1))
              /\ Visit(Node(f.node).of, Members(f)[f.next])
          BY <1>17, <3>1 DEF VisitMember, f
        <4>2. QED
          BY <1>8, <2>2, <2>3, <3>1, <4>1, SegmentFacts DEF Visit
      <3>2. CASE f.loop = "dict"
        <4>1. /\ path' = Append(path, KeySegment(Members(f)[f.next].key))
              /\ Visit(Node(f.node).of, Members(f)[f.next].value)
          BY <1>17, <3>2 DEF VisitMember, f
        <4>2. QED
          BY <1>8, <2>3, <3>2, <4>1, SegmentFacts DEF Visit
      <3>3. QED
        BY <2>1, <3>1, <3>2 DEF Collections
    <2>5. QED
      BY <1>1, <1>3, <1>17, <2>4 DEF VisitMember
  <1>18. CASE TakeMember
    <2>1. StackOK' /\ stack' # <<>>
      BY <1>1, <1>18, AdvanceOK DEF TakeMember
    <2>2. QED
      BY <1>1, <1>7, <1>18, <2>1 DEF TakeMember
  <1>19. CASE LeaveCollection
    <2>1. StackOK'
      BY <1>1, <1>19, PopOK DEF LeaveCollection, InLoop, Unframe
    <2>2. \A x, bounds : SizeCodes(x, bounds) \in Seq(Codes)
      BY BoundCodesAreCodes DEF SizeCodes, Codes
    <2>3. issues' \in Seq(IssueSet)
      BY <1>1, <1>19, <2>2, Recorded DEF LeaveCollection
    <2>4. QED
      BY <1>1, <1>19, <2>1, <2>3 DEF LeaveCollection, Return
  <1>20. CASE EnterStruct
    <2> DEFINE out == [fields |-> [i \in DOMAIN Node(focus.node).fields |-> None],
                       extras |-> None]
    <2>1. /\ focus \in [node : DOMAIN call.schema.nodes, value : Values]
          /\ Node(focus.node).kind = "struct"
          /\ focus.value.kind = "dict"
          /\ Frame("fields", out)
      BY <1>1, <1>20 DEF EnterStruct
    <2> HIDE DEF out
    <2>2. FrameFits([loop |-> "fields", node |-> focus.node,
                     value |-> focus.value, next |-> 1])
      BY <2>1 DEF FrameFits, Collections
    <2>3. "fields" \in Loops /\ call' = call
      BY <1>20 DEF Loops, EnterStruct
    <2>4. StackOK' /\ stack' # <<>>
      BY <1>1, <2>1, <2>2, <2>3, PushOK
    <2>5. QED
      BY <1>1, <1>20, <2>4 DEF EnterStruct
  <1>21. CASE VisitField
    <2> DEFINE f == Last(stack)
    <2>1. f \in Frames /\ FrameFits(f) /\ f.next <= Len(Node(f.node).fields) /\ f.loop = "fields"
      BY <1>9, <1>21 DEF VisitField, InLoop
    <2> HIDE DEF f
    <2>2. /\ Node(f.node).fields[f.next].of \in DOMAIN call.schema.nodes
          /\ Node(f.node).fields[f.next].name \in Text
          /\ \A k : Found(f.value.entries, k) \subseteq Values
      BY <1>1, <2>1, FieldFacts
    <2>3. /\ path' \in Seq(Segments)
          /\ focus' \in [node : DOMAIN call.schema.nodes, value : Values]
          /\ pc' = "visit"
      BY <1>8, <1>21, <2>2, SegmentFacts DEF VisitField, Visit, f
    <2>4. QED
      BY <1>1, <1>3, <1>21, <2>3 DEF VisitField
  <1>22. CASE MissField
    <2> DEFINE f == Last(stack)  p == Append(path, KeySegment(Node(f.node).fields[f.next].name))
    <2>1. f \in Frames /\ FrameFits(f) /\ f.next <= Len(Node(f.node).fields) /\ f.loop = "fields"
      BY <1>9, <1>22 DEF MissField, InLoop
    <2> HIDE DEF f
    <2>2. Node(f.node).fields[f.next].name \in Text
      BY <1>1, <2>1, FieldFacts
    <2>3. p \in Seq(Segments)
      BY <1>8, <2>2, SegmentFacts
    <2>4. \E codes \in Seq(Codes) : Record(p, codes)
      <3>1. PICK c \in {<<"required_missing">>, <<>>} : Record(p, c)
        BY <1>22 DEF MissField, f
      <3>2. c \in Seq(Codes)
        BY <1>4, <1>5, SomeCodes
      <3>3. QED
        BY <3>1, <3>2
    <2>5. issues' \in Seq(IssueSet)
      BY <1>1, <2>3, <2>4, Recorded
    <2>6. StackOK' /\ stack' # <<>>
      BY <1>1, <1>22, AdvanceOK DEF MissField, InLoop
    <2>7. QED
      BY <1>1, <1>22, <2>5, <2>6 DEF MissField, InLoop
  <1>23. CASE TakeField
    <2>1. StackOK' /\ stack' # <<>>
      BY <1>1, <1>23, AdvanceOK DEF TakeField
    <2>2. QED
      BY <1>1, <1>7, <1>23, <2>1 DEF TakeField
  <1>24. CASE ScanExtras
    <2> DEFINE f == [Last(stack) EXCEPT !.loop = "extras", !.next = 1]
    <2>1. Last(stack) \in Frames /\ FrameFits(Last(stack)) /\ Last(stack).loop = "fields"
      BY <1>9, <1>24 DEF ScanExtras, InLoop
    <2>2. f \in Frames
      <3> DEFINE g == [Last(stack) EXCEPT !.loop = "extras"]
      <3>1. "extras" \in Loops /\ 1 \in Nat \ {0}
        BY DEF Loops
      <3>2. g \in Frames
        BY <2>1, <3>1 DEF Frames
      <3>3. f = [g EXCEPT !.next = 1]
        OBVIOUS
      <3> HIDE DEF f, g
      <3>4. QED
        BY <3>1, <3>2, <3>3 DEF Frames
    <2>3. FrameFits(f)
      BY <2>1 DEF FrameFits, Frames, Collections
    <2>4. stack' = [stack EXCEPT ![Len(stack)] = f]
      BY <1>24 DEF ScanExtras
    <2> HIDE DEF f
    <2>5. StackOK' /\ stack' # <<>>
      BY <1>1, <1>24, <2>2, <2>3, <2>4, ReplaceOK DEF ScanExtras, InLoop
    <2>6. QED
      BY <1>1, <1>24, <2>5 DEF ScanExtras, InLoop
  <1>25. CASE ScanKey
    <2> DEFINE f == Last(stack)  p == Append(path, KeySegment(f.value.entries[f.next].key))
    <2>1. f \in Frames /\ FrameFits(f) /\ f.next <= Len(f.value.entries) /\ f.loop = "extras"
      BY <1>9, <1>25 DEF ScanKey, InLoop
    <2> HIDE DEF f
    <2>2. p \in Seq(Segments)
      BY <1>8, <2>1, KeyFacts, SegmentFacts
    <2>3. \E codes \in Seq(Codes) : Record(p, codes)
      <3>1. PICK c \in {<<"extra_key">>, <<>>} : Record(p, c)
        BY <1>25 DEF ScanKey, f
      <3>2. c \in Seq(Codes)
        BY <1>4, <1>5, SomeCodes
      <3>3. QED
        BY <3>1, <3>2
    <2>4. issues' \in Seq(IssueSet)
      BY <1>1, <2>2, <2>3, Recorded
    <2>5. StackOK' /\ stack' # <<>>
      BY <1>1, <1>25, AdvanceOK DEF ScanKey, InLoop
    <2>6. QED
      BY <1>1, <1>25, <2>4, <2>5 DEF ScanKey, InLoop
  <1>26. CASE LeaveStruct
    <2>1. StackOK'
      BY <1>1, <1>26, PopOK DEF LeaveStruct, InLoop, Unframe
    <2>2. QED
      BY <1>1, <1>26, <2>1 DEF LeaveStruct, Return
  <1>27. CASE Finish
    BY <1>1, <1>3, <1>27 DEF Finish
  <1>28. CASE UNCHANGED vars
    BY <1>1, <1>3, <1>28 DEF vars, TypeInv, TypeOK
  <1>29. QED
    BY <1>10, <1>11, <1>12, <1>13, <1>14, <1>15, <1>16, <1>17, <1>18, <1>19, <1>20,
       <1>21, <1>22, <1>23, <1>24, <1>25, <1>26, <1>27, <1>28 DEF Next

\* In every reachable state each variable holds what its Rust type allows,
\* and an open frame runs over a value of the shape its node asks for: no
\* index of the validator's loops is out of range.
THEOREM TypeCorrect == Spec => []TypeOK
  <1>1. TypeInv => TypeOK
    BY DEF TypeInv
  <1>2. QED
    BY <1>1, TypeInit, TypeStep, PTL DEF Spec

(***************************************************************************)
(* A missing result is always explained.                                   *)
(***************************************************************************)
LEMMA ExplainedStep ==
  TypeInv /\ ExpectNeverPanics /\ [Next]_vars => ExpectNeverPanics'
  <1> SUFFICES ASSUME TypeInv, ExpectNeverPanics, [Next]_vars PROVE ExpectNeverPanics'
    OBVIOUS
  <1>1. path \in Seq(Segments) /\ issues \in Seq(IssueSet)
    BY DEF TypeInv, TypeOK, IssueSet
  <1>2. ASSUME NEW c \in Codes, NEW p \in Seq(Segments), Record(p, <<c>>)
        PROVE  issues' # <<>>
    <2>1. <<c>> \in Seq(Codes) /\ <<c>> # <<>>
      OBVIOUS
    <2>2. QED
      BY <1>1, <1>2, <2>1, Recorded
  <1>3. \A x : Some(x) # None
    BY DEF Some, None
  <1>4. CASE RejectMalformedJson
    BY <1>2, <1>4, SomeCodes, EmptySeq DEF RejectMalformedJson, ExpectNeverPanics
  <1>5. CASE ValidatePrimitive
    <2> DEFINE n == Node(focus.node)  v == focus.value
    <2>1. pc' = "return" /\ ret' = Coerced(n, v)
      BY <1>5 DEF ValidatePrimitive, Return
    <2>2. CoercionCode(n, v) \in Codes
      BY SomeCodes DEF CoercionCode
    <2>3. \/ Record(path, <<CoercionCode(n, v)>>)
          \/ \E c \in Coerced(n, v) : TRUE
      BY <1>5 DEF ValidatePrimitive
    <2> HIDE DEF n, v
    <2>4. QED
      BY <1>1, <1>2, <2>1, <2>2, <2>3 DEF ExpectNeverPanics, None
  <1>6. CASE ValidateEnum
    <2>1. /\ pc' = "return"
          /\ \/ ret' # None
             \/ \E c \in Codes : Record(path, <<c>>)
      BY <1>3, <1>6, SomeCodes DEF ValidateEnum, Return
    <2>2. QED
      BY <1>1, <1>2, <2>1 DEF ExpectNeverPanics
  <1>7. CASE ValidateOptional
    BY <1>3, <1>7 DEF ValidateOptional, Return, Visit, ExpectNeverPanics
  <1>8. CASE RejectShape
    BY <1>1, <1>2, <1>8, SomeCodes DEF RejectShape, Return, ExpectNeverPanics
  <1>9. CASE LeaveCollection \/ LeaveStruct
    BY <1>3, <1>9 DEF LeaveCollection, LeaveStruct, Return, ExpectNeverPanics
  <1>10. CASE Finish
    BY <1>10 DEF Finish, ExpectNeverPanics
  <1>11. CASE \/ ValidateRoot \/ EnterCollection \/ VisitMember \/ TakeMember
              \/ EnterStruct \/ VisitField \/ TakeField
    BY <1>11 DEF ValidateRoot, EnterCollection, VisitMember, TakeMember, EnterStruct,
                 VisitField, TakeField, Visit, ExpectNeverPanics
  <1>12. CASE MissField \/ ScanExtras \/ ScanKey
    BY <1>12 DEF MissField, ScanExtras, ScanKey, InLoop, ExpectNeverPanics
  <1>13. CASE UNCHANGED vars
    BY <1>13 DEF vars, ExpectNeverPanics
  <1>14. QED
    BY <1>4, <1>5, <1>6, <1>7, <1>8, <1>9, <1>10, <1>11, <1>12, <1>13 DEF Next

\* build_internal takes the output of a result without issues and expects it
\* to be there (lib.rs, "validation succeeded but output missing"): it is,
\* for every schema and payload.
THEOREM OutputIsThere == Spec => []ExpectNeverPanics
  <1>1. Init => ExpectNeverPanics
    BY DEF Init, ExpectNeverPanics
  <1>2. QED
    BY <1>1, TypeInit, TypeStep, ExplainedStep, PTL DEF Spec

(***************************************************************************)
(* The path is the spine of the open frames.                               *)
(***************************************************************************)
LEMMA SpineTyped ==
  ASSUME NEW frames \in Seq(Frames)
  PROVE  /\ Spine(frames) \in Seq({SegmentOf(frames[i]) : i \in 1..Len(frames)})
         /\ Len(Spine(frames)) = Len(frames)
         /\ \A i \in 1..Len(frames) : Spine(frames)[i] = SegmentOf(frames[i])
  BY LenProperties DEF Spine

LEMMA SpineSplits ==
  ASSUME stack \in Seq(Frames), stack # <<>>
  PROVE  /\ Spine(stack) = Append(Spine(Front(stack)), SegmentOf(Last(stack)))
         /\ Front(Spine(stack)) = Spine(Front(stack))
  <1> DEFINE S == {SegmentOf(stack[i]) : i \in 1..Len(stack)}
             lower == Spine(Front(stack))
  <1>1. /\ Front(stack) \in Seq(Frames)
        /\ Len(stack) \in Nat \ {0}
        /\ Len(Front(stack)) = Len(stack) - 1
        /\ \A i \in 1..(Len(stack) - 1) : Front(stack)[i] = stack[i]
        /\ Last(stack) = stack[Len(stack)]
    BY FrontLastProperties
  <1>2. lower = [i \in 1..(Len(stack) - 1) |-> SegmentOf(stack[i])]
    BY <1>1 DEF Spine
  <1>3. Spine(stack) = [i \in 1..Len(stack) |-> SegmentOf(stack[i])]
    BY DEF Spine
  <1>4. SegmentOf(Last(stack)) \in S /\ lower \in Seq(S) /\ Spine(stack) \in Seq(S)
    BY <1>1, <1>2, <1>3
  <1>5. /\ Len(lower) = Len(stack) - 1 /\ Len(Spine(stack)) = Len(stack)
        /\ \A i \in 1..(Len(stack) - 1) : lower[i] = SegmentOf(stack[i])
        /\ \A i \in 1..Len(stack) : Spine(stack)[i] = SegmentOf(stack[i])
    BY <1>1, <1>2, <1>3
  <1> HIDE DEF lower, S
  <1> DEFINE t == Append(lower, SegmentOf(Last(stack)))
  <1>6. /\ t \in Seq(S)
        /\ Len(t) = Len(stack)
        /\ \A i \in 1..(Len(stack) - 1) : t[i] = lower[i]
        /\ t[Len(stack)] = SegmentOf(Last(stack))
        /\ Front(t) = lower
    BY <1>1, <1>4, <1>5, AppendThenFront
  <1> HIDE DEF t
  <1>7. \A i \in 1..Len(stack) : t[i] = Spine(stack)[i]
    <2>1. \A i \in 1..Len(stack) : i \in 1..(Len(stack) - 1) \/ i = Len(stack)
      BY <1>1
    <2>2. QED
      BY <1>1, <1>5, <1>6, <2>1
  <1>8. t = Spine(stack)
    BY <1>4, <1>5, <1>6, <1>7, SeqEqual
  <1>9. QED
    BY <1>6, <1>8 DEF t, lower

LEMMA SpineKept ==
  ASSUME call' = call
  PROVE  /\ stack' = stack => Spine(stack)' = Spine(stack) /\ Spine(Front(stack))' = Spine(Front(stack))
         /\ Front(stack') = Front(stack) => Spine(Front(stack))' = Spine(Front(stack))
         /\ stack' = Front(stack) => Spine(stack)' = Spine(Front(stack))
         /\ Front(stack') = stack => Spine(Front(stack))' = Spine(stack)
  BY DEF Spine, SegmentOf, Node

\* Moving the innermost frame leaves the frames below it alone.
LEMMA AdvanceKeepsFront ==
  ASSUME StackOK, stack # <<>>, Advance
  PROVE  Front(stack') = Front(stack) /\ Len(stack') = Len(stack)
  <1> DEFINE f == [stack[Len(stack)] EXCEPT !.next = @ + 1]
  <1>1. stack[Len(stack)] \in Frames /\ stack \in Seq(Frames) /\ Len(stack) \in Nat \ {0}
    BY TopOK DEF StackOK
  <1>2. f \in Frames
    BY <1>1 DEF Frames
  <1>3. stack' = [stack EXCEPT ![Len(stack)] = f]
    BY <1>1 DEF Advance
  <1> HIDE DEF f
  <1>4. QED
    BY <1>1, <1>2, <1>3, ReplaceLast

LEMMA PathStep == TypeInv /\ PathMirrorsStack /\ [Next]_vars => PathMirrorsStack'
  <1> SUFFICES ASSUME TypeInv, PathMirrorsStack, [Next]_vars PROVE PathMirrorsStack'
    OBVIOUS
  <1>1. StackOK /\ stack \in Seq(Frames)
    BY DEF TypeInv, StackOK
  <1>2. CASE \/ RejectMalformedJson \/ ValidateRoot \/ ValidatePrimitive
             \/ ValidateEnum \/ ValidateOptional \/ RejectShape \/ Finish
    <2>1. /\ pc # "loop" /\ pc' # "loop"
          /\ call' = call /\ stack' = stack /\ path' = path
      BY <1>2 DEF RejectMalformedJson, ValidateRoot, ValidatePrimitive, ValidateEnum,
                  ValidateOptional, RejectShape, Finish, Visit, Return
    <2>2. QED
      BY <2>1, SpineKept DEF PathMirrorsStack
  <1>3. CASE EnterCollection \/ EnterStruct
    <2>1. /\ pc = "visit" /\ pc' = "loop"
          /\ call' = call /\ path' = path
          /\ focus \in [node : DOMAIN call.schema.nodes, value : Values]
          /\ \E loop \in Loops : \E out : Frame(loop, out)
      BY <1>3 DEF EnterCollection, EnterStruct, Loops, TypeInv, TypeOK
    <2>2. PICK f \in Frames : stack' = Append(stack, f)
      BY <2>1 DEF Frame, Frames
    <2>3. Front(stack') = stack
      BY <1>1, <2>2, AppendThenFront
    <2>4. QED
      BY <2>1, <2>3, SpineKept DEF PathMirrorsStack
  <1>4. CASE VisitMember \/ VisitField
    <2>1. /\ pc = "loop" /\ pc' = "visit" /\ stack # <<>>
          /\ call' = call /\ stack' = stack
          /\ path' = Append(path, SegmentOf(Last(stack)))
      BY <1>4 DEF VisitMember, VisitField, InLoop, Visit, SegmentOf, Members, Collections
    <2>2. QED
      BY <1>1, <2>1, SpineSplits, SpineKept DEF PathMirrorsStack
  <1>5. CASE TakeMember \/ TakeField
    <2>1. /\ pc = "return" /\ pc' = "loop" /\ stack # <<>>
          /\ call' = call /\ path' = Front(path) /\ Advance
      BY <1>5 DEF TakeMember, TakeField
    <2>2. QED
      BY <1>1, <2>1, SpineSplits, AdvanceKeepsFront, SpineKept DEF PathMirrorsStack
  <1>6. CASE LeaveCollection \/ LeaveStruct
    <2>1. /\ pc = "loop" /\ pc' = "return"
          /\ call' = call /\ path' = path /\ stack' = Front(stack)
      BY <1>6 DEF LeaveCollection, LeaveStruct, InLoop, Return, Unframe
    <2>2. QED
      BY <2>1, SpineKept DEF PathMirrorsStack
  <1>7. CASE MissField \/ ScanKey
    <2>1. /\ pc = "loop" /\ pc' = "loop" /\ stack # <<>>
          /\ call' = call /\ path' = path /\ Advance
      BY <1>7 DEF MissField, ScanKey, InLoop
    <2>2. QED
      BY <1>1, <2>1, AdvanceKeepsFront, SpineKept DEF PathMirrorsStack
  <1>8. CASE ScanExtras
    <2> DEFINE f == [Last(stack) EXCEPT !.loop = "extras", !.next = 1]
    <2>1. /\ pc = "loop" /\ pc' = "loop" /\ stack # <<>>
          /\ call' = call /\ path' = path
          /\ stack' = [stack EXCEPT ![Len(stack)] = f]
      BY <1>8 DEF ScanExtras, InLoop
    <2>2. f \in Frames
      <3> DEFINE g == [Last(stack) EXCEPT !.loop = "extras"]
      <3>1. "extras" \in Loops /\ 1 \in Nat \ {0}
        BY DEF Loops
      <3>2. g \in Frames
        BY <1>1, <2>1, <3>1, TopOK DEF Frames
      <3>3. f = [g EXCEPT !.next = 1]
        OBVIOUS
      <3> HIDE DEF f, g
      <3>4. QED
        BY <3>1, <3>2, <3>3 DEF Frames
    <2> HIDE DEF f
    <2>3. Front(stack') = Front(stack)
      BY <1>1, <2>1, <2>2, ReplaceLast
    <2>4. QED
      BY <2>1, <2>3, SpineKept DEF PathMirrorsStack
  <1>9. CASE UNCHANGED vars
    BY <1>9, SpineKept DEF vars, PathMirrorsStack
  <1>10. QED
    BY <1>2, <1>3, <1>4, <1>5, <1>6, <1>7, <1>8, <1>9 DEF Next

\* Every push onto the path is undone on every way out of a node, so that an
\* issue carries the path of the value it is about, and the test that gives
\* the root its extra behaviour (path.is_empty()) is true at the root only.
THEOREM PathIsBalanced == Spec => []PathMirrorsStack
  <1>1. Init => PathMirrorsStack
    BY EmptySeq DEF Init, PathMirrorsStack, Spine
  <1>2. QED
    BY <1>1, TypeInit, TypeStep, PathStep, PTL DEF Spec

(***************************************************************************)
(* The recursion descends the schema.                                      *)
(***************************************************************************)
Size == Len(call.schema.nodes)

\* The node of the i-th frame is one of the Size + 1 - i lowest.
Descends ==
  /\ pc = "start" => stack = <<>>
  /\ \A i \in 1..Len(stack) : \A j \in 1..(i - 1) : stack[i].node < stack[j].node
  /\ \A i \in 1..Len(stack) : stack[i].node + i <= Size + 1
  /\ pc = "visit" => /\ \A i \in 1..Len(stack) : focus.node < stack[i].node
                     /\ focus.node + Len(stack) <= Size

LEMMA NodesAreNumbers ==
  ASSUME TypeInv
  PROVE  /\ Size \in Nat /\ Len(stack) \in Nat
         /\ \A i \in 1..Len(stack) : stack[i].node \in 1..Size
         /\ pc = "visit" => focus.node \in 1..Size
  <1>1. Size \in Nat /\ DOMAIN call.schema.nodes = 1..Size
    BY CallsAssumption DEF TypeInv, Size, IsSchema
  <1>2. Len(stack) \in Nat /\ \A i \in 1..Len(stack) : stack[i] \in Frames
    BY LenProperties, ElementOfSeq DEF TypeInv, StackOK
  <1>3. QED
    BY <1>1, <1>2 DEF TypeInv, TypeOK, Frames

\* A node visited from the innermost frame is below that frame's node.
LEMMA VisitDescends ==
  ASSUME TypeInv, Descends, stack # <<>>, stack' = stack, call' = call, pc' = "visit",
         focus'.node \in Nat, focus'.node < Last(stack).node
  PROVE  Descends'
  <1>1. /\ Size \in Nat /\ Len(stack) \in Nat \ {0}
        /\ Last(stack) = stack[Len(stack)]
        /\ \A i \in 1..Len(stack) : stack[i].node \in 1..Size
    BY NodesAreNumbers, TopOK DEF TypeInv
  <1>2. \A i \in 1..Len(stack) : i = Len(stack) \/ stack[Len(stack)].node < stack[i].node
    BY <1>1 DEF Descends
  <1>3. \A i \in 1..Len(stack) : focus'.node < stack[i].node
    <2> TAKE i \in 1..Len(stack)
    <2>1. Len(stack) \in 1..Len(stack)
      BY <1>1
    <2>2. /\ stack[i].node \in Nat /\ stack[Len(stack)].node \in Nat
          /\ focus'.node < stack[Len(stack)].node
      BY <1>1, <2>1
    <2>3. QED
      BY <1>2, <2>2
  <1>4. focus'.node + Len(stack) <= Size
    <2>1. stack[Len(stack)].node + Len(stack) <= Size + 1 /\ stack[Len(stack)].node \in Nat
      BY <1>1 DEF Descends
    <2>2. QED
      BY <1>1, <2>1
  <1>5. QED
    BY <1>3, <1>4 DEF Descends, Size

\* The nodes of the frames that stay where they are.
LEMMA SameNodesDescend ==
  ASSUME TypeInv, Descends, call' = call, pc' \notin {"start", "visit"},
         Len(stack') \in Nat, Len(stack') <= Len(stack),
         \A i \in 1..Len(stack') : stack'[i].node = stack[i].node
  PROVE  Descends'
  <1>1. Len(stack) \in Nat
    BY NodesAreNumbers
  <1>2. \A i \in 1..Len(stack') : i \in 1..Len(stack)
    BY <1>1
  <1>3. \A i \in 1..Len(stack') : \A j \in 1..(i - 1) : j \in 1..Len(stack')
    OBVIOUS
  <1>4. QED
    BY <1>2, <1>3 DEF Descends, Size

LEMMA PushDescends ==
  ASSUME TypeInv, Descends, call' = call, pc = "visit", pc' \notin {"start", "visit"},
         NEW f \in Frames, f.node = focus.node, stack' = Append(stack, f)
  PROVE  Descends'
  <1>1. /\ Len(stack') = Len(stack) + 1
        /\ \A i \in 1..Len(stack) : stack'[i] = stack[i]
        /\ stack'[Len(stack) + 1] = f
    BY AppendThenFront DEF TypeInv, StackOK
  <1>2. Len(stack) \in Nat /\ Size \in Nat /\ focus.node \in Nat
    BY NodesAreNumbers
  <1>3. \A i \in 1..Len(stack') : i \in 1..Len(stack) \/ i = Len(stack) + 1
    BY <1>1, <1>2
  <1>4. ASSUME NEW i \in 1..Len(stack'), NEW j \in 1..(i - 1)
        PROVE  stack'[i].node < stack'[j].node
    <2>1. j \in 1..Len(stack)
      BY <1>1, <1>2
    <2>2. stack'[j] = stack[j]
      BY <1>1, <2>1
    <2>3. CASE i \in 1..Len(stack)
      BY <1>1, <2>2, <2>3 DEF Descends
    <2>4. CASE i = Len(stack) + 1
      BY <1>1, <2>1, <2>2, <2>4 DEF Descends
    <2>5. QED
      BY <1>3, <2>3, <2>4
  <1>5. ASSUME NEW i \in 1..Len(stack')
        PROVE  stack'[i].node + i <= Size + 1
    <2>1. CASE i \in 1..Len(stack)
      BY <1>1, <2>1 DEF Descends
    <2>2. CASE i = Len(stack) + 1
      <3>1. focus.node + Len(stack) <= Size
        BY DEF Descends
      <3>2. stack'[i].node = focus.node
        BY <1>1, <2>2
      <3>3. QED
        BY <1>2, <2>2, <3>1, <3>2
    <2>3. QED
      BY <1>3, <2>1, <2>2
  <1>6. QED
    BY <1>4, <1>5 DEF Descends, Size

LEMMA AdvanceKeepsNodes ==
  ASSUME StackOK, stack # <<>>, Advance
  PROVE  /\ Len(stack') = Len(stack)
         /\ \A i \in 1..Len(stack') : stack'[i].node = stack[i].node
  <1>1. /\ stack \in Seq(Frames) /\ Len(stack) \in Nat \ {0}
        /\ stack[Len(stack)] \in Frames
    BY TopOK DEF StackOK
  <1> DEFINE f == [stack[Len(stack)] EXCEPT !.next = @ + 1]
  <1>2. f \in Frames /\ f.node = stack[Len(stack)].node
    BY <1>1 DEF Frames
  <1>3. stack' = [stack EXCEPT ![Len(stack)] = f]
    BY <1>1 DEF Advance
  <1> HIDE DEF f
  <1>4. /\ Len(stack') = Len(stack)
        /\ \A i \in 1..(Len(stack) - 1) : stack'[i] = stack[i]
        /\ stack'[Len(stack)] = f
    BY <1>1, <1>2, <1>3, ReplaceLast
  <1>5. \A i \in 1..Len(stack) : i \in 1..(Len(stack) - 1) \/ i = Len(stack)
    BY <1>1
  <1>6. QED
    BY <1>2, <1>4, <1>5

LEMMA DescendStep == TypeInv /\ Descends /\ [Next]_vars => Descends'
  <1> SUFFICES ASSUME TypeInv, Descends, [Next]_vars PROVE Descends'
    OBVIOUS
  <1>1. StackOK /\ stack \in Seq(Frames) /\ Len(stack) \in Nat
    BY NodesAreNumbers DEF TypeInv, StackOK
  <1>2. CASE \/ RejectMalformedJson \/ ValidatePrimitive \/ ValidateEnum
             \/ RejectShape \/ Finish
    <2>1. pc' \notin {"start", "visit"} /\ call' = call /\ stack' = stack
      BY <1>2 DEF RejectMalformedJson, ValidatePrimitive, ValidateEnum, RejectShape,
                  Finish, Return
    <2>2. QED
      BY <1>1, <2>1, SameNodesDescend
  <1>3. CASE ValidateRoot
    <2>1. /\ pc' = "visit" /\ call' = call /\ stack' = stack /\ stack = <<>>
          /\ focus'.node = call.schema.root
      BY <1>3 DEF ValidateRoot, Visit, Descends
    <2>2. call.schema.root \in 1..Size
      BY CallsAssumption DEF TypeInv, IsSchema, Size
    <2>3. Len(stack) = 0 /\ Size \in Nat
      BY <2>1, NodesAreNumbers
    <2>4. QED
      BY <2>1, <2>2, <2>3 DEF Descends, Size
  <1>4. CASE ValidateOptional
    <2>1. CASE pc' = "return"
      <3>1. call' = call /\ stack' = stack
        BY <1>4 DEF ValidateOptional
      <3>2. QED
        BY <1>1, <2>1, <3>1, SameNodesDescend
    <2>2. CASE pc' # "return"
      <3>1. /\ pc = "visit" /\ pc' = "visit" /\ call' = call /\ stack' = stack
            /\ Node(focus.node).kind = "optional"
            /\ focus'.node = Node(focus.node).of
        BY <1>4, <2>2 DEF ValidateOptional, Visit, Return
      <3>2. focus'.node \in 1..Size /\ focus'.node < focus.node
        BY <3>1, ChildFacts, NodeFacts DEF TypeInv, TypeOK, Size
      <3>3. /\ Size \in Nat /\ focus.node \in 1..Size
            /\ \A i \in 1..Len(stack) : stack[i].node \in 1..Size
        BY <3>1, NodesAreNumbers
      <3>4. /\ \A i \in 1..Len(stack) : focus'.node < stack[i].node
            /\ focus'.node + Len(stack) <= Size
        BY <1>1, <3>1, <3>2, <3>3 DEF Descends
      <3>5. QED
        BY <3>1, <3>4 DEF Descends, Size
    <2>3. QED
      BY <2>1, <2>2
  <1>5. CASE EnterCollection \/ EnterStruct
    <2>1. /\ pc = "visit" /\ pc' = "loop" /\ call' = call
          /\ focus \in [node : DOMAIN call.schema.nodes, value : Values]
          /\ \E loop \in Loops : \E out : Frame(loop, out)
      BY <1>5 DEF EnterCollection, EnterStruct, Loops, TypeInv, TypeOK
    <2>2. PICK f \in Frames : stack' = Append(stack, f) /\ f.node = focus.node
      BY <2>1 DEF Frame, Frames
    <2>3. QED
      BY <2>1, <2>2, PushDescends
  <1>6. CASE VisitMember
    <2> DEFINE f == Last(stack)
    <2>1. f \in Frames /\ FrameFits(f) /\ f.next <= Len(Members(f)) /\ f.loop \in Collections
      BY <1>1, <1>6, TopOK DEF VisitMember, InLoop
    <2>2. /\ stack # <<>> /\ stack' = stack /\ call' = call /\ pc' = "visit"
          /\ focus'.node = Node(f.node).of
      BY <1>6 DEF VisitMember, InLoop, Visit
    <2> HIDE DEF f
    <2>3. Node(f.node).of \in DOMAIN call.schema.nodes /\ Node(f.node).of < f.node
      BY <2>1, MemberFacts DEF TypeInv
    <2>4. DOMAIN call.schema.nodes = 1..Size
      BY CallsAssumption DEF TypeInv, IsSchema, Size
    <2>5. QED
      BY <2>2, <2>3, <2>4, VisitDescends DEF f
  <1>7. CASE VisitField
    <2> DEFINE f == Last(stack)
    <2>1. f \in Frames /\ FrameFits(f) /\ f.next <= Len(Node(f.node).fields) /\ f.loop = "fields"
      BY <1>1, <1>7, TopOK DEF VisitField, InLoop
    <2>2. /\ stack # <<>> /\ stack' = stack /\ call' = call /\ pc' = "visit"
          /\ focus'.node = Node(f.node).fields[f.next].of
      BY <1>7 DEF VisitField, InLoop, Visit
    <2> HIDE DEF f
    <2>3. /\ Node(f.node).fields[f.next].of \in DOMAIN call.schema.nodes
          /\ Node(f.node).fields[f.next].of < f.node
      BY <2>1, FieldFacts DEF TypeInv
    <2>4. DOMAIN call.schema.nodes = 1..Size
      BY CallsAssumption DEF TypeInv, IsSchema, Size
    <2>5. QED
      BY <2>2, <2>3, <2>4, VisitDescends DEF f
  <1>8. CASE TakeMember \/ TakeField \/ MissField \/ ScanKey
    <2>1. pc' = "loop" /\ call' = call /\ stack # <<>> /\ Advance
      BY <1>8 DEF TakeMember, TakeField, MissField, ScanKey, InLoop
    <2>2. QED
      BY <1>1, <2>1, AdvanceKeepsNodes, SameNodesDescend
  <1>9. CASE ScanExtras
    <2> DEFINE f == [Last(stack) EXCEPT !.loop = "extras", !.next = 1]
    <2>0. pc' = "loop" /\ call' = call /\ stack # <<>>
      BY <1>9 DEF ScanExtras, InLoop
    <2>1. stack' = [stack EXCEPT ![Len(stack)] = f]
      BY <1>9 DEF ScanExtras
    <2>2. Last(stack) = stack[Len(stack)] /\ stack[Len(stack)] \in Frames
      BY <1>1, <2>0, TopOK
    <2>3. f.node = stack[Len(stack)].node
      BY <2>2 DEF Frames
    <2> HIDE DEF f
    <2>4. /\ Len(stack') = Len(stack)
          /\ \A i \in 1..Len(stack') : stack'[i].node = stack[i].node
      BY <1>1, <2>1, <2>3
    <2>5. QED
      BY <1>1, <2>0, <2>4, SameNodesDescend
  <1>10. CASE LeaveCollection \/ LeaveStruct
    <2>1. pc' = "return" /\ call' = call /\ stack # <<>> /\ stack' = Front(stack)
      BY <1>10 DEF LeaveCollection, LeaveStruct, InLoop, Return, Unframe
    <2>2. /\ Len(stack') = Len(stack) - 1 /\ Len(stack) \in Nat \ {0}
          /\ \A i \in 1..(Len(stack) - 1) : stack'[i] = stack[i]
      BY <1>1, <2>1, FrontLastProperties
    <2>3. QED
      BY <2>1, <2>2, SameNodesDescend
  <1>11. CASE UNCHANGED vars
    BY <1>11 DEF vars, Descends, Size
  <1>12. QED
    BY <1>2, <1>3, <1>4, <1>5, <1>6, <1>7, <1>8, <1>9, <1>10, <1>11 DEF Next

\* However deep the payload nests, every validate_node call is made for a
\* node strictly below that of its caller, and no more calls are open than
\* the schema has nodes: the native stack is bounded by the schema.
THEOREM RecursionBound == Spec => []RecursionIsBounded
  <1>1. Init => Descends
    BY EmptySeq DEF Init, Descends
  <1>2. TypeInv /\ Descends => RecursionIsBounded
    <2> SUFFICES ASSUME TypeInv, Descends PROVE RecursionIsBounded
      OBVIOUS
    <2>1. /\ Size \in Nat /\ Len(stack) \in Nat
          /\ \A i \in 1..Len(stack) : stack[i].node \in 1..Size
      BY NodesAreNumbers
    <2>2. Len(stack) <= Size
      <3>1. CASE Len(stack) = 0
        BY <2>1, <3>1
      <3>2. CASE Len(stack) # 0
        <4>1. Len(stack) \in 1..Len(stack)
          BY <2>1, <3>2
        <4>2. stack[Len(stack)].node + Len(stack) <= Size + 1
          BY <4>1 DEF Descends
        <4>3. stack[Len(stack)].node \in 1..Size
          BY <2>1, <4>1
        <4>4. QED
          BY <2>1, <4>2, <4>3
      <3>3. QED
        BY <3>1, <3>2
    <2>3. QED
      BY <2>2 DEF RecursionIsBounded, Descends, Size
  <1>3. QED
    BY <1>1, <1>2, TypeInit, TypeStep, DescendStep, PTL DEF Spec

(***************************************************************************)
(* Conformance is what its definition says of every node: a node refers to *)
(* those before it, so the recursion is over the numbers of the nodes.     *)
(***************************************************************************)
\* Only what is below a node matters.
LEMMA LevelLooksBelow ==
  ASSUME NEW s, IsSchema(s), NEW id \in DOMAIN s.nodes, NEW strict, NEW V, NEW g, NEW h,
         \A k \in 1..(id - 1) : g[k] = h[k]
  PROVE  Level(s, strict, V, id, g) = Level(s, strict, V, id, h)
  <1> DEFINE n == s.nodes[id]
  <1>1. IsNode(n, id - 1)
    BY DEF IsSchema
  <1>2. n.kind \in {"optional", "list", "dict"} => g[n.of] = h[n.of]
    BY <1>1 DEF IsNode, Collections
  <1>3. ASSUME n.kind = "struct", NEW i \in DOMAIN n.fields
        PROVE  g[n.fields[i].of] = h[n.fields[i].of]
    <2> DEFINE F == [name : Text, required : BOOLEAN, of : 1..(id - 1)]
    <2>1. n.fields \in Seq(F)
      BY <1>1, <1>3 DEF IsNode, Collections
    <2>2. n.fields[i] \in F
      <3> HIDE DEF F
      <3> QED BY <1>3, <2>1, ElementOfSeq, LenProperties
    <2>3. QED
      BY <2>2
  <1>4. ASSUME NEW v, NEW extra
        PROVE  ConformsToNode(n, v, strict, extra, g) = ConformsToNode(n, v, strict, extra, h)
    <2> HIDE DEF n
    <2>1. CASE n.kind = "struct"
      BY <1>3, <2>1 DEF ConformsToNode, ConformsToLeaf
    <2>2. CASE n.kind # "struct"
      BY <1>2, <2>2 DEF ConformsToNode, ConformsToLeaf
    <2>3. QED
      BY <2>1, <2>2
  <1>5. QED
    BY <1>4 DEF Level

LEMMA ConformanceExists ==
  ASSUME NEW s, IsSchema(s), NEW strict, NEW V
  PROVE  \E g : g = [id \in 1..Len(s.nodes) |-> Level(s, strict, V, id, g)]
  <1> DEFINE L(g, id) == Level(s, strict, V, id, g)
             S == {n \in Nat : n <= Len(s.nodes) => \E g : g = [id \in 1..n |-> L(g, id)]}
  <1>1. Len(s.nodes) \in Nat /\ DOMAIN s.nodes = 1..Len(s.nodes)
    BY DEF IsSchema
  <1>2. ASSUME NEW g, NEW h, NEW id \in DOMAIN s.nodes, \A k \in 1..(id - 1) : g[k] = h[k]
        PROVE  L(g, id) = L(h, id)
    BY <1>2, LevelLooksBelow
  <1> HIDE DEF L
  <1>3. 0 \in S
    <2> DEFINE e == [id \in 1..0 |-> None]
    <2>1. e = [id \in 1..0 |-> L(e, id)]
      OBVIOUS
    <2>2. QED
      BY <2>1
  <1>4. ASSUME NEW n \in Nat, n \in S PROVE n + 1 \in S
    <2> SUFFICES ASSUME n + 1 <= Len(s.nodes) PROVE \E g : g = [id \in 1..(n + 1) |-> L(g, id)]
      OBVIOUS
    <2>1. PICK g : g = [id \in 1..n |-> L(g, id)]
      BY <1>1, <1>4
    <2> DEFINE h == [id \in 1..(n + 1) |-> IF id <= n THEN g[id] ELSE L(g, id)]
    <2>2. ASSUME NEW id \in 1..(n + 1) PROVE h[id] = L(h, id)
      <3>1. \A k \in 1..(id - 1) : g[k] = h[k]
        OBVIOUS
      <3>2. id \in DOMAIN s.nodes
        BY <1>1
      <3> HIDE DEF h
      <3>3. L(g, id) = L(h, id)
        BY <3>1, <3>2, <1>2
      <3>4. QED
        BY <2>1, <3>3 DEF h
    <2>3. h = [id \in 1..(n + 1) |-> h[id]]
      OBVIOUS
    <2> HIDE DEF h
    <2>4. h = [id \in 1..(n + 1) |-> L(h, id)]
      BY <2>2, <2>3
    <2>5. QED
      BY <2>4
  <1>5. Len(s.nodes) \in S
    <2> HIDE DEF S
    <2> QED BY <1>1, <1>3, <1>4, SetInduction
  <1>6. QED
    BY <1>1, <1>5 DEF L

LEMMA ConformanceUnfolds ==
  ASSUME NEW s, IsSchema(s), NEW strict, NEW V
  PROVE  LET c == Conformance(s, strict, V) IN
         c = [id \in 1..Len(s.nodes) |-> Level(s, strict, V, id, c)]
  BY ConformanceExists DEF Conformance

(***************************************************************************)
(* A leaf records no code exactly when the value conforms to it.           *)
(***************************************************************************)
\* A measure has no codes exactly when it is within its bounds.
LEMMA NoCodesWithin ==
  ASSUME NEW measure \in SUBSET Int, NEW bounds, AreBounds(bounds), NEW low \in Codes, NEW high \in Codes
  PROVE  BoundCodes(measure, bounds, low, high) = <<>> <=> \A x \in measure : Within(x, bounds)
  <1>1. bounds.min \subseteq Int /\ bounds.max \subseteq Int
    BY DEF AreBounds, IsOption
  <1> DEFINE below == \E x \in measure : \E m \in bounds.min : x < m
             above == \E x \in measure : \E m \in bounds.max : x > m
             first == IF below THEN <<low>> ELSE <<>>
             second == IF above THEN <<high>> ELSE <<>>
  <1>2. /\ first \in Seq(Codes) /\ second \in Seq(Codes)
        /\ first = <<>> <=> ~below
        /\ second = <<>> <=> ~above
    OBVIOUS
  <1>3. first \o second = <<>> <=> first = <<>> /\ second = <<>>
    <2> HIDE DEF first, second
    <2> QED BY <1>2, ConcatEqualIffEmpty
  <1>4. ~below /\ ~above <=> \A x \in measure : Within(x, bounds)
    BY <1>1 DEF Within
  <1>5. BoundCodes(measure, bounds, low, high) = first \o second
    BY DEF BoundCodes
  <1>6. QED
    <2> HIDE DEF first, second, below, above
    <2> QED BY <1>2, <1>3, <1>4, <1>5

LEMMA NoSizeCodesWithin ==
  ASSUME NEW size \in Int, NEW bounds, AreBounds(bounds)
  PROVE  SizeCodes(size, bounds) = <<>> <=> Within(size, bounds)
  <1>1. Some(size) \in SUBSET Int /\ \A x : x \in Some(size) <=> x = size
    BY DEF Some
  <1>2. "too_short" \in Codes /\ "too_long" \in Codes
    BY DEF Codes
  <1>3. QED
    BY <1>1, <1>2, NoCodesWithin DEF SizeCodes

\* What a leaf makes of a value.
LEMMA CoercedFacts ==
  ASSUME NEW n, n.kind \in Leaves \ {"enum"}, NEW v \in Values
  PROVE  /\ \A c, d \in Coerced(n, v) : c = d
         /\ n.kind = "bool" => (Coerced(n, v) # None <=> BoolsOf(v, Strict) # {})
         /\ n.kind = "int" => /\ \A i : i \in IntsOf(v, Strict) <=> \E c \in Coerced(n, v) : c.num = i
                              /\ \A c \in Coerced(n, v) : c.num \in Int
         /\ n.kind = "float" => /\ \A f : f \in FloatsOf(v, Strict) <=> \E c \in Coerced(n, v) : c.real = f
                                /\ \A c \in Coerced(n, v) : c.real \in SUBSET Int
         /\ n.kind = "str" => Coerced(n, v) = IF v.kind = "str" THEN {v} ELSE {}
         /\ n.kind = "sym" => (Coerced(n, v) # None <=> NamesOf(v, Strict) # {})
         /\ n.kind = "any" => Coerced(n, v) = {v}
  <1>1. IsInputValue(v)
    BY ValuesAssumption
  <1>2. v.kind = "str" => IsReading(Reads[v.text])
    BY <1>1, TextAssumption DEF IsInputValue
  <1>3. CASE n.kind = "bool"
    <2>1. CASE v.kind = "bool"
      BY <1>3, <2>1 DEF Coerced, CoercedBool, BoolsOf, Some, None
    <2>2. CASE Lenient(v)
      <3>1. v.kind = "str" /\ ~Strict /\ \A x, y \in Reads[v.text].bool : x = y
        BY <1>2, <2>2 DEF Lenient, IsReading, IsOption
      <3>2. /\ Coerced(n, v) = {BoolValue(b) : b \in Reads[v.text].bool}
            /\ BoolsOf(v, Strict) = Reads[v.text].bool
        BY <1>3, <2>2, <3>1 DEF Coerced, CoercedBool, BoolsOf
      <3>3. QED
        BY <1>3, <3>1, <3>2 DEF None
    <2>3. CASE v.kind # "bool" /\ ~Lenient(v)
      <3>1. Coerced(n, v) = {} /\ BoolsOf(v, Strict) = {}
        BY <1>3, <2>3 DEF Coerced, CoercedBool, BoolsOf, Lenient, None
      <3>2. QED
        BY <1>3, <3>1 DEF None
    <2>4. QED
      BY <2>1, <2>2, <2>3
  <1>4. CASE n.kind = "int"
    <2>1. CASE v.kind = "int"
      <3>1. Coerced(n, v) = {v} /\ IntsOf(v, Strict) = {v.num} /\ v.num \in Int
        BY <1>1, <1>4, <2>1 DEF Coerced, CoercedInt, IntsOf, Some, IsInputValue
      <3>2. QED
        BY <1>4, <3>1
    <2>2. CASE Lenient(v)
      <3>1. /\ v.kind = "str" /\ ~Strict /\ \A x, y \in Reads[v.text].int : x = y
            /\ Reads[v.text].int \subseteq Int
        BY <1>2, <2>2 DEF Lenient, IsReading, IsOption
      <3>2. /\ Coerced(n, v) = {IntValue(i) : i \in Reads[v.text].int}
            /\ IntsOf(v, Strict) = Reads[v.text].int
        BY <1>4, <2>2, <3>1 DEF Coerced, CoercedInt, IntsOf
      <3>3. \A i : IntValue(i).num = i
        BY DEF IntValue
      <3>4. QED
        BY <1>4, <3>1, <3>2, <3>3
    <2>3. CASE v.kind # "int" /\ ~Lenient(v)
      <3>1. Coerced(n, v) = {} /\ IntsOf(v, Strict) = {}
        BY <1>4, <2>3 DEF Coerced, CoercedInt, IntsOf, Lenient, None
      <3>2. QED
        BY <1>4, <3>1
    <2>4. QED
      BY <2>1, <2>2, <2>3
  <1>5. CASE n.kind = "float"
    <2>0. \A f : FloatValue(f).real = f
      BY DEF FloatValue
    <2>1. CASE v.kind = "float"
      <3>1. Coerced(n, v) = {v} /\ FloatsOf(v, Strict) = {v.real} /\ v.real \in SUBSET Int
        BY <1>1, <1>5, <2>1 DEF Coerced, CoercedFloat, FloatsOf, Some, IsInputValue, IsOption
      <3>2. QED
        BY <1>5, <3>1
    <2>2. CASE v.kind = "int"
      <3>1. /\ Coerced(n, v) = {FloatValue(Some(10 * v.num))}
            /\ FloatsOf(v, Strict) = {Some(10 * v.num)}
            /\ v.num \in Int
        BY <1>1, <1>5, <2>2 DEF Coerced, CoercedFloat, FloatsOf, Some, AsFloat, IsInputValue
      <3>2. Some(10 * v.num) \in SUBSET Int
        BY <3>1 DEF Some
      <3>3. QED
        BY <1>5, <2>0, <3>1, <3>2
    <2>3. CASE Lenient(v)
      <3>1. /\ v.kind = "str" /\ ~Strict /\ \A x, y \in Reads[v.text].float : x = y
            /\ \A f \in Reads[v.text].float : f \in SUBSET Int
        BY <1>2, <2>3 DEF Lenient, IsReading, IsOption
      <3>2. /\ Coerced(n, v) = {FloatValue(f) : f \in Reads[v.text].float}
            /\ FloatsOf(v, Strict) = Reads[v.text].float
        BY <1>5, <2>3, <3>1 DEF Coerced, CoercedFloat, FloatsOf
      <3>3. QED
        BY <1>5, <2>0, <3>1, <3>2
    <2>4. CASE v.kind \notin {"float", "int"} /\ ~Lenient(v)
      <3>1. Coerced(n, v) = {} /\ FloatsOf(v, Strict) = {}
        BY <1>5, <2>4 DEF Coerced, CoercedFloat, FloatsOf, Lenient, None
      <3>2. QED
        BY <1>5, <3>1
    <2>5. QED
      BY <2>1, <2>2, <2>3, <2>4
  <1>6. CASE n.kind = "str"
    BY <1>6 DEF Coerced, CoercedString, Some, None
  <1>7. CASE n.kind = "sym"
    BY <1>7 DEF Coerced, CoercedSymbol, NamesOf, Lenient, Some, None
  <1>8. CASE n.kind = "any"
    BY <1>8 DEF Coerced, Some
  <1>9. QED
    BY <1>3, <1>4, <1>5, <1>6, <1>7, <1>8 DEF Leaves

\* A leaf records an issue exactly when the value does not conform.
LEMMA LeafJudged ==
  ASSUME NEW n, NEW bound, IsNode(n, bound), n.kind \in Leaves \ {"enum"}, NEW v \in Values
  PROVE  ConformsToLeaf(n, v, Strict) <=>
           Coerced(n, v) # None /\ \A c \in Coerced(n, v) : ConstraintCodes(n, c) = <<>>
  <1>1. /\ n.kind = "bool" => (Coerced(n, v) # None <=> BoolsOf(v, Strict) # {})
        /\ n.kind = "int" => /\ \A i : i \in IntsOf(v, Strict) <=> \E c \in Coerced(n, v) : c.num = i
                             /\ \A c \in Coerced(n, v) : c.num \in Int
        /\ n.kind = "float" => /\ \A f : f \in FloatsOf(v, Strict) <=> \E c \in Coerced(n, v) : c.real = f
                               /\ \A c \in Coerced(n, v) : c.real \in SUBSET Int
        /\ n.kind = "str" => Coerced(n, v) = IF v.kind = "str" THEN {v} ELSE {}
        /\ n.kind = "sym" => (Coerced(n, v) # None <=> NamesOf(v, Strict) # {})
        /\ n.kind = "any" => Coerced(n, v) = {v}
        /\ \A c, d \in Coerced(n, v) : c = d
    BY CoercedFacts
  <1>2. n.kind \in {"int", "float", "str"} => AreBounds(n.bounds)
    BY DEF IsNode, Collections
  <1>3. {"too_small", "too_large"} \subseteq Codes
    BY DEF Codes
  <1>4. CASE n.kind \in {"any", "bool", "sym"}
    <2>1. \A c : ConstraintCodes(n, c) = <<>>
      BY <1>4 DEF ConstraintCodes
    <2>2. QED
      BY <1>1, <1>4, <2>1 DEF ConformsToLeaf, None
  <1>5. CASE n.kind = "int"
    <2>1. ASSUME NEW c \in Coerced(n, v)
          PROVE  ConstraintCodes(n, c) = <<>> <=> Within(c.num, n.bounds)
      <3>1. Some(c.num) \in SUBSET Int /\ \A x : x \in Some(c.num) <=> x = c.num
        BY <1>1, <1>5 DEF Some
      <3>2. ConstraintCodes(n, c) = BoundCodes(Some(c.num), n.bounds, "too_small", "too_large")
        BY <1>5 DEF ConstraintCodes
      <3>3. ConstraintCodes(n, c) = <<>> <=> \A x \in Some(c.num) : Within(x, n.bounds)
        BY <1>2, <1>3, <1>5, <3>1, <3>2, NoCodesWithin
      <3>4. QED
        BY <3>1, <3>3
    <2>2. ConformsToLeaf(n, v, Strict) <=> \E i \in IntsOf(v, Strict) : Within(i, n.bounds)
      BY <1>5 DEF ConformsToLeaf
    <2>3. ConformsToLeaf(n, v, Strict) <=> \E c \in Coerced(n, v) : Within(c.num, n.bounds)
      BY <1>1, <1>5, <2>2
    <2>4. QED
      BY <1>1, <2>1, <2>3 DEF None
  <1>6. CASE n.kind = "float"
    <2>1. ASSUME NEW c \in Coerced(n, v)
          PROVE  ConstraintCodes(n, c) = <<>> <=> \A x \in c.real : Within(x, n.bounds)
      <3>1. ConstraintCodes(n, c) = BoundCodes(c.real, n.bounds, "too_small", "too_large")
        BY <1>6 DEF ConstraintCodes
      <3>2. QED
        BY <1>1, <1>2, <1>3, <1>6, <3>1, NoCodesWithin
    <2>2. ConformsToLeaf(n, v, Strict)
            <=> \E f \in FloatsOf(v, Strict) : \A x \in f : Within(x, n.bounds)
      BY <1>6 DEF ConformsToLeaf
    <2>3. ConformsToLeaf(n, v, Strict) <=> \E c \in Coerced(n, v) : \A x \in c.real : Within(x, n.bounds)
      BY <1>1, <1>6, <2>2
    <2>4. QED
      BY <1>1, <2>1, <2>3 DEF None
  <1>7. CASE n.kind = "str"
    <2> DEFINE sizes == SizeCodes(Reads[v.text].len, n.bounds)
               formats == FormatCodes(v.text, n.format)
    <2>1. ConformsToLeaf(n, v, Strict) <=>
            /\ v.kind = "str"
            /\ Within(Reads[v.text].len, n.bounds)
            /\ n.format \subseteq Reads[v.text].formats
      BY <1>7 DEF ConformsToLeaf
    <2>2. Coerced(n, v) = IF v.kind = "str" THEN {v} ELSE {}
      BY <1>1, <1>7
    <2>3. ASSUME v.kind = "str"
          PROVE  ConstraintCodes(n, v) = <<>> <=>
                   /\ Within(Reads[v.text].len, n.bounds)
                   /\ n.format \subseteq Reads[v.text].formats
      <3>1. Reads[v.text].len \in Int
        BY <2>3, ValuesAssumption, TextAssumption DEF IsInputValue, IsReading
      <3>2. sizes = <<>> <=> Within(Reads[v.text].len, n.bounds)
        BY <1>2, <1>7, <3>1, NoSizeCodesWithin
      <3>3. formats = <<>> <=> n.format \subseteq Reads[v.text].formats
        BY DEF FormatCodes
      <3>4. sizes \in Seq(Codes) /\ formats \in Seq(Codes)
        <4>1. {"too_short", "too_long", "format_invalid"} \subseteq Codes
          BY DEF Codes
        <4>2. QED
          BY <4>1, BoundCodesAreCodes DEF SizeCodes, FormatCodes
      <3>5. ConstraintCodes(n, v) = sizes \o formats
        BY <1>7 DEF ConstraintCodes
      <3> HIDE DEF sizes, formats
      <3>6. sizes \o formats = <<>> <=> sizes = <<>> /\ formats = <<>>
        BY <3>4, ConcatEqualIffEmpty
      <3>7. QED
        BY <3>2, <3>3, <3>5, <3>6
    <2>4. QED
      BY <2>1, <2>2, <2>3 DEF None
  <1>8. QED
    BY <1>4, <1>5, <1>6, <1>7 DEF Leaves

(***************************************************************************)
(* The inductive invariant: while there is no issue, everything that was   *)
(* looked at conforms, and a conforming payload has no issue.              *)
(***************************************************************************)
Fits == Conformance(call.schema, call.strict, Values)

\* What is imposed on the struct that the k-th frame runs over.
ImposedAt(k) == IF k = 1 THEN Some(call.extra) ELSE None

\* How long the loop of a frame is, and whether the payload is all right at
\* a position of it.
LoopLength(f) ==
  IF f.loop = "fields" THEN Len(Node(f.node).fields)
  ELSE IF f.loop = "list" THEN Len(f.value.items) ELSE Len(f.value.entries)

FieldFits(f, i) ==
  LET field == Node(f.node).fields[i]  hits == Found(f.value.entries, field.name) IN
  IF hits = {} THEN ~field.required ELSE \A w \in hits : Fits[field.of][w][None]
Forbids(f, extra) == extra = Some("forbid") \/ (extra = None /\ Node(f.node).extra = "forbid")
KeyFits(f, extra, i) == Forbids(f, extra) => f.value.entries[i].key \in FieldNames(Node(f.node))
MemberFits(f, extra, i) ==
  CASE f.loop = "list" -> Fits[Node(f.node).of][f.value.items[i]][None]
    [] f.loop = "dict" -> Fits[Node(f.node).of][f.value.entries[i].value][None]
    [] f.loop = "fields" -> FieldFits(f, i)
    [] f.loop = "extras" -> KeyFits(f, extra, i)

\* The payload is all right up to the position of a frame.
SoFar(f, extra) ==
  /\ f.loop = "extras" => \A i \in 1..Len(Node(f.node).fields) : FieldFits(f, i)
  /\ \A i \in 1..(f.next - 1) : MemberFits(f, extra, i)

\* What the k-th of the frames s waits for; below all frames is the call.
Awaits(s, k) ==
  IF k = 0 THEN Fits[call.schema.root][call.input.value][Some(call.extra)]
  ELSE MemberFits(s[k], ImposedAt(k), s[k].next)

AllSoFar(s, k) == \A i \in 1..k : SoFar(s[i], ImposedAt(i))

Positioned ==
  \A k \in 1..Len(stack) :
    /\ stack[k].next <= LoopLength(stack[k]) + 1
    /\ k < Len(stack) \/ pc \in {"visit", "return"} => stack[k].next <= LoopLength(stack[k])

\* A frame runs over what the frame below it waits for, and so does the focus.
Linked ==
  /\ \A k \in 1..Len(stack) :
       Fits[stack[k].node][stack[k].value][ImposedAt(k)] <=> Awaits(stack, k - 1)
  /\ pc = "visit" =>
       (Fits[focus.node][focus.value][ImposedAt(Len(stack) + 1)] <=> Awaits(stack, Len(stack)))

\* There is no issue exactly while everything that was looked at is all right.
Judged ==
  pc # "done" =>
    (issues = <<>> <=> /\ AllSoFar(stack, Len(stack))
                       /\ pc = "return" => Awaits(stack, Len(stack)))

IsSequence(s) == Len(s) \in Nat /\ s = [i \in 1..Len(s) |-> s[i]]

\* As long as there is no issue, no member was left out.
Counted ==
  /\ IsSequence(partial) /\ Len(partial) = Len(stack)
  /\ \A k \in 1..Len(stack) : stack[k].loop \in Collections =>
       /\ IsSequence(partial[k])
       /\ issues = <<>> => Len(partial[k]) = stack[k].next - 1

Started == pc = "start" => issues = <<>> /\ stack = <<>>
FormKnown == pc \notin {"start", "done"} => call.input.form = "owned"

JudgeInv ==
  /\ Positioned /\ Linked /\ Judged /\ Counted /\ Started /\ FormKnown
  /\ AcceptsExactlyConforming

LEMMA FitsUnfolds ==
  ASSUME call \in Calls, NEW id \in DOMAIN call.schema.nodes, NEW v \in Values, NEW x \in Imposed
  PROVE  Fits[id][v][x] <=> ConformsToNode(Node(id), v, Strict, x, Fits)
  <1>1. IsSchema(call.schema)
    BY CallsAssumption
  <1>2. Fits = [k \in 1..Len(call.schema.nodes) |-> Level(call.schema, Strict, Values, k, Fits)]
    BY <1>1, ConformanceUnfolds DEF Fits, Strict
  <1>3. id \in 1..Len(call.schema.nodes)
    BY <1>1 DEF IsSchema
  <1>4. Fits[id] = Level(call.schema, Strict, Values, id, Fits)
    BY <1>2, <1>3
  <1>5. QED
    BY <1>4 DEF Level, Node

LEMMA ImposedFacts ==
  /\ None \in Imposed
  /\ call \in Calls => Some(call.extra) \in Imposed
  /\ call \in Calls => \A k : ImposedAt(k) \in Imposed
  /\ \A x, y : Some(x) = Some(y) <=> x = y
  /\ \A x : Some(x) # None
  BY CallsAssumption DEF Imposed, ImposedAt, Some, None

LEMMA LeafFits ==
  ASSUME call \in Calls, NEW id \in DOMAIN call.schema.nodes, NEW v \in Values, NEW x \in Imposed,
         Node(id).kind \in Leaves
  PROVE  Fits[id][v][x] <=> ConformsToLeaf(Node(id), v, Strict)
  BY FitsUnfolds DEF ConformsToNode, Leaves

LEMMA OptionalFits ==
  ASSUME call \in Calls, NEW id \in DOMAIN call.schema.nodes, NEW v \in Values, NEW x \in Imposed,
         Node(id).kind = "optional"
  PROVE  Fits[id][v][x] <=> v = Null \/ Fits[Node(id).of][v][x]
  BY FitsUnfolds DEF ConformsToNode, ConformsToLeaf

LEMMA OtherShapeUnfit ==
  ASSUME call \in Calls, NEW id \in DOMAIN call.schema.nodes, NEW v \in Values, NEW x \in Imposed,
         Node(id).kind \in Collections \cup {"struct"}, v.kind # ShapeOf(Node(id))
  PROVE  ~Fits[id][v][x]
  BY FitsUnfolds DEF ConformsToNode, ConformsToLeaf, Collections, ShapeOf

LEMMA LengthIsNat ==
  ASSUME call \in Calls, NEW f \in Frames, FrameFits(f)
  PROVE  /\ LoopLength(f) \in Nat
         /\ f.loop = "list" => DOMAIN f.value.items = 1..LoopLength(f)
         /\ f.loop \notin {"fields", "list"} => DOMAIN f.value.entries = 1..LoopLength(f)
         /\ f.loop \in {"fields", "extras"} =>
              /\ Len(Node(f.node).fields) \in Nat
              /\ DOMAIN Node(f.node).fields = 1..Len(Node(f.node).fields)
              /\ Len(f.value.entries) \in Nat
              /\ DOMAIN f.value.entries = 1..Len(f.value.entries)
  <1>1. /\ f.node \in DOMAIN call.schema.nodes /\ f.value \in Values
        /\ f.loop \in {"list", "dict", "fields", "extras"}
    BY DEF Frames, Loops, Collections
  <1>2. ASSUME f.value.kind = "dict"
        PROVE  Len(f.value.entries) \in Nat /\ DOMAIN f.value.entries = 1..Len(f.value.entries)
    BY <1>1, <1>2, ValueFacts, LenProperties
  <1>3. ASSUME f.value.kind = "list"
        PROVE  Len(f.value.items) \in Nat /\ DOMAIN f.value.items = 1..Len(f.value.items)
    BY <1>1, <1>3, ValueFacts, LenProperties
  <1>4. ASSUME Node(f.node).kind = "struct"
        PROVE  /\ Len(Node(f.node).fields) \in Nat
               /\ DOMAIN Node(f.node).fields = 1..Len(Node(f.node).fields)
    BY <1>1, <1>4, NodeFacts, LenProperties DEF IsNode, Collections
  <1>5. QED
    BY <1>1, <1>2, <1>3, <1>4 DEF FrameFits, LoopLength, Collections

LEMMA CollectionFits ==
  ASSUME call \in Calls, NEW f \in Frames, FrameFits(f), f.loop \in Collections, NEW x \in Imposed
  PROVE  /\ AreBounds(Node(f.node).bounds)
         /\ Fits[f.node][f.value][x] <=>
              /\ Within(LoopLength(f), Node(f.node).bounds)
              /\ \A i \in 1..LoopLength(f) : MemberFits(f, x, i)
  <1>1. /\ f.node \in DOMAIN call.schema.nodes /\ f.value \in Values
        /\ Node(f.node).kind = f.loop /\ f.value.kind = f.loop
    BY DEF Frames, FrameFits
  <1>2. AreBounds(Node(f.node).bounds)
    BY <1>1, NodeFacts DEF IsNode, Collections
  <1>3. Fits[f.node][f.value][x] <=> ConformsToNode(Node(f.node), f.value, Strict, x, Fits)
    BY <1>1, FitsUnfolds
  <1>4. CASE f.loop = "list"
    <2>1. DOMAIN f.value.items = 1..LoopLength(f) /\ LoopLength(f) = Len(f.value.items)
      BY <1>4, LengthIsNat DEF LoopLength
    <2>2. QED
      BY <1>1, <1>2, <1>3, <1>4, <2>1 DEF ConformsToNode, ConformsToLeaf, MemberFits
  <1>5. CASE f.loop = "dict"
    <2>1. DOMAIN f.value.entries = 1..LoopLength(f) /\ LoopLength(f) = Len(f.value.entries)
      BY <1>5, LengthIsNat DEF LoopLength
    <2>2. QED
      BY <1>1, <1>2, <1>3, <1>5, <2>1 DEF ConformsToNode, ConformsToLeaf, MemberFits
  <1>6. QED
    BY <1>4, <1>5 DEF Collections

LEMMA StructFits ==
  ASSUME call \in Calls, NEW f \in Frames, FrameFits(f), f.loop \in {"fields", "extras"}, NEW x \in Imposed
  PROVE  Fits[f.node][f.value][x] <=>
              /\ \A i \in 1..Len(Node(f.node).fields) : FieldFits(f, i)
              /\ \A i \in 1..Len(f.value.entries) : KeyFits(f, x, i)
  <1>1. /\ f.node \in DOMAIN call.schema.nodes /\ f.value \in Values
        /\ Node(f.node).kind = "struct" /\ f.value.kind = "dict"
    BY DEF Frames, FrameFits
  <1>2. Fits[f.node][f.value][x] <=> ConformsToNode(Node(f.node), f.value, Strict, x, Fits)
    BY <1>1, FitsUnfolds
  <1>3. /\ DOMAIN Node(f.node).fields = 1..Len(Node(f.node).fields)
        /\ DOMAIN f.value.entries = 1..Len(f.value.entries)
    BY LengthIsNat
  <1>4. Keys(f.value.entries) \subseteq FieldNames(Node(f.node))
          <=> \A i \in 1..Len(f.value.entries) : f.value.entries[i].key \in FieldNames(Node(f.node))
    BY <1>3 DEF Keys
  <1>5. ConformsToNode(Node(f.node), f.value, Strict, x, Fits) <=>
          /\ \A i \in 1..Len(Node(f.node).fields) : FieldFits(f, i)
          /\ Forbids(f, x) => Keys(f.value.entries) \subseteq FieldNames(Node(f.node))
    BY <1>1, <1>3 DEF ConformsToNode, ConformsToLeaf, FieldFits, Forbids
  <1>6. QED
    BY <1>2, <1>4, <1>5 DEF KeyFits

\* The operators depend on the call only.
LEMMA SameCall ==
  ASSUME call' = call
  PROVE  /\ Fits' = Fits
         /\ \A k : ImposedAt(k)' = ImposedAt(k)
         /\ \A k : AllSoFar(stack, k)' <=> AllSoFar(stack', k)
         /\ \A k : Awaits(stack, k)' <=> Awaits(stack', k)
         /\ \A k : LoopLength(stack[k])' = LoopLength(stack'[k])
  <1>1. Fits' = Fits /\ \A id : Node(id)' = Node(id)
    BY DEF Fits, Node
  <1>2. \A k : ImposedAt(k)' = ImposedAt(k)
    BY DEF ImposedAt
  <1>3. \A k, i : FieldFits(stack[k], i)' <=> FieldFits(stack'[k], i)
    BY <1>1 DEF FieldFits, Node
  <1>4. \A k, i : KeyFits(stack[k], ImposedAt(k), i)' <=> KeyFits(stack'[k], ImposedAt(k), i)
    BY <1>1, <1>2 DEF KeyFits, Forbids, Node
  <1>5. \A k, i : MemberFits(stack[k], ImposedAt(k), i)' <=> MemberFits(stack'[k], ImposedAt(k), i)
    <2>1. ASSUME NEW k, NEW i
          PROVE  MemberFits(stack[k], ImposedAt(k), i)' <=> MemberFits(stack'[k], ImposedAt(k), i)
      <3>1. /\ FieldFits(stack[k], i)' <=> FieldFits(stack'[k], i)
            /\ KeyFits(stack[k], ImposedAt(k), i)' <=> KeyFits(stack'[k], ImposedAt(k), i)
        BY <1>3, <1>4
      <3>2. QED
        BY <1>1, <3>1 DEF MemberFits, Node
    <2>2. QED
      BY <2>1
  <1>6. \A k : SoFar(stack[k], ImposedAt(k))' <=> SoFar(stack'[k], ImposedAt(k))
    BY <1>3, <1>5 DEF SoFar, Node
  <1>7. \A k : AllSoFar(stack, k)' <=> AllSoFar(stack', k)
    BY <1>6 DEF AllSoFar
  <1>8. \A k : Awaits(stack, k)' <=> Awaits(stack', k)
    <2>1. ASSUME NEW k
          PROVE  Awaits(stack, k)' <=> Awaits(stack', k)
      <3>1. MemberFits(stack[k], ImposedAt(k), stack[k].next)'
              <=> MemberFits(stack'[k], ImposedAt(k), stack'[k].next)
        BY <1>1, <1>2, <1>3, <1>4 DEF MemberFits, Node, FieldFits, KeyFits, Forbids
      <3>2. QED
        BY <1>1, <3>1 DEF Awaits
    <2>2. QED
      BY <2>1
  <1>9. \A k : LoopLength(stack[k])' = LoopLength(stack'[k])
    BY DEF LoopLength, Node
  <1>10. QED
    BY <1>1, <1>2, <1>7, <1>8, <1>9

\* Recording codes leaves the issues empty exactly when there are no codes.
LEMMA RecordedEmpty ==
  ASSUME issues \in Seq(IssueSet), NEW p \in Seq(Segments), NEW codes \in Seq(Codes),
         Record(p, codes)
  PROVE  issues' = <<>> <=> issues = <<>> /\ codes = <<>>
  <1>1. codes # <<>> \/ issues # <<>> => issues' # <<>>
    BY Recorded
  <1>2. codes = <<>> => IssuesAt(p, codes) = <<>>
    BY DEF IssuesAt
  <1>3. issues = <<>> /\ codes = <<>> => issues' = <<>>
    BY <1>2 DEF Record
  <1>4. QED
    BY <1>1, <1>3

\* A node has returned, and it has recorded an issue exactly when the value does
\* not fit.
LEMMA Settles ==
  ASSUME TypeInv, JudgeInv, pc = "visit", pc' = "return", UNCHANGED <<call, stack, partial>>,
         issues' = <<>> <=> issues = <<>> /\ Fits[focus.node][focus.value][ImposedAt(Len(stack) + 1)]
  PROVE  JudgeInv'
  <1> DEFINE N == Len(stack)
  <1>1. /\ Fits' = Fits /\ \A k : ImposedAt(k)' = ImposedAt(k)
        /\ \A k : AllSoFar(stack, k)' <=> AllSoFar(stack, k)
        /\ \A k : Awaits(stack, k)' <=> Awaits(stack, k)
        /\ \A k : LoopLength(stack[k])' = LoopLength(stack[k])
    BY SameCall
  <1>2. Positioned'
    BY <1>1 DEF JudgeInv, Positioned
  <1>3. Linked'
    BY <1>1 DEF JudgeInv, Linked
  <1>4. Judged'
    <2>1. issues = <<>> <=> AllSoFar(stack, N)
      BY DEF JudgeInv, Judged
    <2>2. Fits[focus.node][focus.value][ImposedAt(N + 1)] <=> Awaits(stack, N)
      BY DEF JudgeInv, Linked
    <2>3. issues' = <<>> <=> AllSoFar(stack, N)' /\ Awaits(stack, N)'
      BY <1>1, <2>1, <2>2
    <2>4. QED
      BY <2>3 DEF Judged
  <1>5. Counted'
    <2>1. issues' = <<>> => issues = <<>>
      OBVIOUS
    <2>2. QED
      BY <2>1 DEF JudgeInv, Counted
  <1>6. Started' /\ FormKnown' /\ AcceptsExactlyConforming'
    BY DEF JudgeInv, Started, FormKnown, AcceptsExactlyConforming
  <1>7. QED
    BY <1>2, <1>3, <1>4, <1>5, <1>6 DEF JudgeInv

(***************************************************************************)
(* The steps: a node settles, a frame is opened, advances or is closed.    *)
(***************************************************************************)
\* What is at hand when a node is about to be validated.
LEMMA VisitFacts ==
  ASSUME TypeInv, pc = "visit"
  PROVE  /\ call \in Calls /\ focus.node \in DOMAIN call.schema.nodes /\ focus.value \in Values
         /\ IsNode(Node(focus.node), focus.node - 1)
         /\ path \in Seq(Segments) /\ issues \in Seq(IssueSet)
         /\ ImposedAt(Len(stack) + 1) \in Imposed
  BY NodeFacts, ImposedFacts DEF TypeInv, TypeOK, IssueSet

\* A single code fills the issues.
LEMMA OneCode ==
  ASSUME issues \in Seq(IssueSet), NEW p \in Seq(Segments), NEW c \in Codes, Record(p, <<c>>)
  PROVE  issues' # <<>>
  <1>1. <<c>> \in Seq(Codes) /\ <<c>> # <<>>
    OBVIOUS
  <1>2. QED
    BY <1>1, Recorded

LEMMA PrimitiveJudged ==
  ASSUME TypeInv, JudgeInv, ValidatePrimitive
  PROVE  JudgeInv'
  <1> DEFINE n == Node(focus.node)  v == focus.value
             fits == Fits[focus.node][focus.value][ImposedAt(Len(stack) + 1)]
  <1>1. /\ call \in Calls /\ focus.node \in DOMAIN call.schema.nodes /\ v \in Values
        /\ IsNode(n, focus.node - 1) /\ path \in Seq(Segments) /\ issues \in Seq(IssueSet)
        /\ ImposedAt(Len(stack) + 1) \in Imposed
    BY VisitFacts DEF ValidatePrimitive
  <1>2. /\ pc = "visit" /\ pc' = "return" /\ n.kind \in Leaves \ {"enum"}
        /\ UNCHANGED <<call, stack, partial>>
        /\ \/ Coerced(n, v) = None /\ Record(path, <<CoercionCode(n, v)>>)
           \/ \E c \in Coerced(n, v) : Record(path, ConstraintCodes(n, c))
    BY DEF ValidatePrimitive, Return
  <1>3. fits <=> ConformsToLeaf(n, v, Strict)
    BY <1>1, <1>2, LeafFits
  <1> HIDE DEF n, v, fits
  <1>4. fits <=> Coerced(n, v) # None /\ \A c \in Coerced(n, v) : ConstraintCodes(n, c) = <<>>
    BY <1>1, <1>2, <1>3, LeafJudged
  <1>5. issues' = <<>> <=> issues = <<>> /\ fits
    <2>1. CASE Coerced(n, v) = None /\ Record(path, <<CoercionCode(n, v)>>)
      <3>1. CoercionCode(n, v) \in Codes
        BY SomeCodes DEF CoercionCode
      <3>2. QED
        BY <1>1, <1>4, <2>1, <3>1, OneCode
    <2>2. ASSUME NEW c \in Coerced(n, v), Record(path, ConstraintCodes(n, c))
          PROVE  issues' = <<>> <=> issues = <<>> /\ fits
      <3>1. \A d \in Coerced(n, v) : d = c
        BY <1>1, <1>2, CoercedFacts
      <3>2. fits <=> ConstraintCodes(n, c) = <<>>
        BY <1>4, <2>2, <3>1 DEF None
      <3>3. QED
        BY <1>1, <2>2, <3>2, RecordedEmpty, ConstraintCodesAreCodes
    <2>3. QED
      BY <1>2, <2>1, <2>2
  <1>6. QED
    BY <1>2, <1>5, Settles DEF fits

LEMMA EnumJudged ==
  ASSUME TypeInv, JudgeInv, ValidateEnum
  PROVE  JudgeInv'
  <1> DEFINE n == Node(focus.node)  v == focus.value
             fits == Fits[focus.node][focus.value][ImposedAt(Len(stack) + 1)]
  <1>1. /\ call \in Calls /\ focus.node \in DOMAIN call.schema.nodes /\ v \in Values
        /\ IsNode(n, focus.node - 1) /\ path \in Seq(Segments) /\ issues \in Seq(IssueSet)
        /\ ImposedAt(Len(stack) + 1) \in Imposed
    BY VisitFacts DEF ValidateEnum
  <1>2. /\ pc = "visit" /\ pc' = "return" /\ n.kind = "enum"
        /\ UNCHANGED <<call, stack, partial>>
    BY DEF ValidateEnum, Return
  <1>3. fits <=> ConformsToLeaf(n, v, Strict)
    BY <1>1, <1>2, LeafFits DEF Leaves
  <1>4. n.variants \in Seq(Text)
    BY <1>1, <1>2 DEF IsNode, Collections
  <1>5. fits <=> /\ v.kind = "sym" \/ Lenient(v)
                 /\ \E i \in DOMAIN n.variants : n.variants[i] = v.text
    BY <1>2, <1>3, <1>4 DEF ConformsToLeaf, NamesOf, Lenient, ToSet
  <1>6. \/ fits /\ UNCHANGED issues
        \/ ~fits /\ \E c \in Codes : Record(path, <<c>>)
    BY <1>5, SomeCodes DEF ValidateEnum
  <1> HIDE DEF n, v, fits
  <1>7. issues' = <<>> <=> issues = <<>> /\ fits
    BY <1>1, <1>6, OneCode
  <1>8. QED
    BY <1>2, <1>7, Settles DEF fits

LEMMA RejectShapeJudged ==
  ASSUME TypeInv, JudgeInv, RejectShape
  PROVE  JudgeInv'
  <1> DEFINE fits == Fits[focus.node][focus.value][ImposedAt(Len(stack) + 1)]
  <1>1. /\ call \in Calls /\ focus.node \in DOMAIN call.schema.nodes /\ focus.value \in Values
        /\ path \in Seq(Segments) /\ issues \in Seq(IssueSet)
        /\ ImposedAt(Len(stack) + 1) \in Imposed
    BY VisitFacts DEF RejectShape
  <1>2. /\ pc = "visit" /\ pc' = "return" /\ Record(path, <<"type_mismatch">>)
        /\ Node(focus.node).kind \in Collections \cup {"struct"}
        /\ focus.value.kind # ShapeOf(Node(focus.node))
        /\ UNCHANGED <<call, stack, partial>>
    BY DEF RejectShape, Return
  <1>3. ~fits
    BY <1>1, <1>2, OtherShapeUnfit
  <1>4. issues' # <<>>
    BY <1>1, <1>2, OneCode, SomeCodes
  <1>5. QED
    BY <1>2, <1>3, <1>4, Settles

LEMMA OptionalJudged ==
  ASSUME TypeInv, JudgeInv, ValidateOptional
  PROVE  JudgeInv'
  <1> DEFINE N == Len(stack)
  <1>1. /\ call \in Calls /\ focus.node \in DOMAIN call.schema.nodes /\ focus.value \in Values
        /\ ImposedAt(N + 1) \in Imposed
    BY VisitFacts DEF ValidateOptional
  <1>2. /\ pc = "visit" /\ Node(focus.node).kind = "optional"
        /\ UNCHANGED <<call, stack, partial, issues>>
    BY DEF ValidateOptional
  <1>3. Fits[focus.node][focus.value][ImposedAt(N + 1)]
          <=> focus.value = Null \/ Fits[Node(focus.node).of][focus.value][ImposedAt(N + 1)]
    BY <1>1, <1>2, OptionalFits
  <1>4. CASE focus.value = Null
    <2>1. pc' = "return"
      BY <1>4 DEF ValidateOptional, Return
    <2>2. QED
      BY <1>2, <1>3, <1>4, <2>1, Settles
  <1>5. CASE focus.value # Null
    <2>1. pc' = "visit" /\ focus'.node = Node(focus.node).of /\ focus'.value = focus.value
      BY <1>2, <1>5 DEF ValidateOptional, Visit
    <2>2. /\ Fits' = Fits /\ \A k : ImposedAt(k)' = ImposedAt(k)
          /\ \A k : AllSoFar(stack, k)' <=> AllSoFar(stack, k)
          /\ \A k : Awaits(stack, k)' <=> Awaits(stack, k)
          /\ \A k : LoopLength(stack[k])' = LoopLength(stack[k])
      BY <1>2, SameCall
    <2>3. Positioned' /\ Judged' /\ Counted'
      BY <1>2, <2>1, <2>2 DEF JudgeInv, Positioned, Judged, Counted
    <2>4. Linked'
      <3>1. Fits[focus'.node][focus'.value][ImposedAt(N + 1)] <=> Awaits(stack, N)
        BY <1>2, <1>3, <1>5, <2>1 DEF JudgeInv, Linked
      <3>2. QED
        BY <1>2, <2>2, <3>1 DEF JudgeInv, Linked
    <2>5. Started' /\ FormKnown' /\ AcceptsExactlyConforming'
      BY <1>2, <2>1 DEF JudgeInv, Started, FormKnown, AcceptsExactlyConforming
    <2>6. QED
      BY <2>3, <2>4, <2>5 DEF JudgeInv
  <1>6. QED
    BY <1>4, <1>5

LEMMA SequenceOverItself ==
  ASSUME NEW s
  PROVE  IsSequence(s) <=> s \in Seq(ToSet(s))
  <1>1. ASSUME s \in Seq(ToSet(s)) PROVE IsSequence(s)
    BY <1>1, LenProperties DEF IsSequence
  <1>2. ASSUME IsSequence(s) PROVE s \in Seq(ToSet(s))
    <2>1. DOMAIN s = 1..Len(s) /\ Len(s) \in Nat /\ s = [i \in 1..Len(s) |-> s[i]]
      BY <1>2 DEF IsSequence
    <2>2. \A i \in 1..Len(s) : s[i] \in ToSet(s)
      BY <2>1 DEF ToSet
    <2>3. QED
      BY <2>1, <2>2
  <1>3. QED
    BY <1>1, <1>2

\* A frame with nothing behind it.
LEMMA NothingSoFar ==
  ASSUME NEW f, f.next = 1, f.loop # "extras", NEW x
  PROVE  SoFar(f, x)
  BY DEF SoFar

\* A frame is opened over the focus, at its first position.
LEMMA Enters ==
  ASSUME TypeInv, JudgeInv, pc = "visit", pc' = "loop", UNCHANGED <<call, issues>>,
         NEW loop \in Loops \ {"extras"}, NEW out, Frame(loop, out),
         loop \in Collections => out = <<>>,
         FrameFits([loop |-> loop, node |-> focus.node, value |-> focus.value, next |-> 1])
  PROVE  JudgeInv'
  <1> DEFINE N == Len(stack)
             f == [loop |-> loop, node |-> focus.node, value |-> focus.value, next |-> 1]
  <1>1. f \in Frames /\ stack \in Seq(Frames)
    BY DEF Frames, TypeInv, TypeOK, StackOK
  <1>0. FrameFits(f)
    OBVIOUS
  <1>2. /\ f.loop = loop /\ f.node = focus.node /\ f.value = focus.value /\ f.next = 1
        /\ f.loop # "extras"
    OBVIOUS
  <1>3. stack' = Append(stack, f)
    BY DEF Frame
  <1> HIDE DEF f
  <1>4. /\ N \in Nat /\ stack' # <<>>
        /\ Len(stack') = N + 1
        /\ \A i \in 1..N : stack'[i] = stack[i]
        /\ stack'[N + 1] = f
    BY <1>1, <1>3, AppendThenFront, LenProperties
  <1>5. /\ Fits' = Fits /\ \A k : ImposedAt(k)' = ImposedAt(k)
        /\ \A k : AllSoFar(stack, k)' <=> AllSoFar(stack', k)
        /\ \A k : Awaits(stack, k)' <=> Awaits(stack', k)
        /\ \A k : LoopLength(stack[k])' = LoopLength(stack'[k])
    BY SameCall
  <1> DEFINE s == stack'
  <1>6. s = stack' /\ pc' = "loop" /\ issues' = issues /\ call' = call
    OBVIOUS
  <1>7. \A k \in 0..N : Awaits(s, k) <=> Awaits(stack, k)
    BY <1>4 DEF Awaits
  <1>8. AllSoFar(s, N + 1) <=> AllSoFar(stack, N)
    <2>1. SoFar(s[N + 1], ImposedAt(N + 1))
      BY <1>2, <1>4, NothingSoFar
    <2>2. \A i \in 1..N : s[i] = stack[i]
      BY <1>4
    <2>3. \A i \in 1..(N + 1) : i \in 1..N \/ i = N + 1
      BY <1>4
    <2>4. \A i \in 1..N : i \in 1..(N + 1)
      BY <1>4
    <2> HIDE DEF s
    <2>5. QED
      BY <2>1, <2>2, <2>3, <2>4 DEF AllSoFar
  <1>9. LoopLength(f) \in Nat
    BY <1>0, <1>1, LengthIsNat DEF TypeInv
  <1>10. Positioned'
    <2>1. ASSUME NEW k \in 1..(N + 1)
          PROVE  /\ s[k].next <= LoopLength(s[k]) + 1
                 /\ k < N + 1 => s[k].next <= LoopLength(s[k])
      <3>1. CASE k = N + 1
        BY <1>2, <1>4, <1>9, <3>1
      <3>2. CASE k \in 1..N
        BY <1>4, <3>2 DEF JudgeInv, Positioned
      <3>3. QED
        BY <1>4, <3>1, <3>2
    <2>2. QED
      BY <1>4, <1>5, <2>1 DEF Positioned
  <1>11. Linked'
    <2>1. ASSUME NEW k \in 1..(N + 1)
          PROVE  Fits[s[k].node][s[k].value][ImposedAt(k)] <=> Awaits(s, k - 1)
      <3>1. CASE k = N + 1
        BY <1>2, <1>4, <1>7, <3>1 DEF JudgeInv, Linked
      <3>2. CASE k \in 1..N
        <4>1. k - 1 \in 0..N /\ s[k] = stack[k]
          BY <1>4, <3>2
        <4>2. QED
          BY <1>7, <3>2, <4>1 DEF JudgeInv, Linked
      <3>3. QED
        BY <1>4, <3>1, <3>2
    <2>2. QED
      BY <1>4, <1>5, <2>1 DEF Linked
  <1>12. Judged'
    <2>1. issues = <<>> <=> AllSoFar(stack, N)
      BY DEF JudgeInv, Judged
    <2>2. issues' = <<>> <=> AllSoFar(stack, Len(stack))'
      BY <1>4, <1>5, <1>8, <2>1
    <2>3. QED
      BY <2>2 DEF Judged
  <1>13. Counted'
    <2>0. partial' = Append(partial, out)
      BY DEF Frame
    <2>1. /\ IsSequence(partial') /\ Len(partial') = N + 1
          /\ \A k \in 1..N : partial'[k] = partial[k]
          /\ partial'[N + 1] = out
      <3>1. IsSequence(partial) /\ Len(partial) = N
        BY DEF JudgeInv, Counted
      <3>2. partial \in Seq(ToSet(partial))
        BY <3>1, SequenceOverItself
      <3>3. /\ Append(partial, out) \in Seq(ToSet(Append(partial, out)))
            /\ Len(Append(partial, out)) = Len(partial) + 1
            /\ \A i \in 1..Len(partial) : Append(partial, out)[i] = partial[i]
            /\ Append(partial, out)[Len(partial) + 1] = out
        BY <3>2, Pushed
      <3>4. IsSequence(partial')
        BY <2>0, <3>3, SequenceOverItself
      <3>5. QED
        BY <2>0, <3>1, <3>3, <3>4
    <2>2. IsSequence(<<>>) /\ Len(<<>>) = 0
      BY DEF IsSequence
    <2>3. ASSUME NEW k \in 1..(N + 1), s[k].loop \in Collections
          PROVE  /\ IsSequence(partial'[k])
                 /\ issues' = <<>> => Len(partial'[k]) = s[k].next - 1
      <3>1. CASE k = N + 1
        BY <1>2, <1>4, <2>1, <2>2, <2>3, <3>1
      <3>2. CASE k \in 1..N
        BY <1>4, <2>1, <2>3, <3>2 DEF JudgeInv, Counted
      <3>3. QED
        BY <1>4, <3>1, <3>2
    <2>4. QED
      BY <1>4, <2>1, <2>3 DEF Counted, IsSequence
  <1>14. Started' /\ FormKnown' /\ AcceptsExactlyConforming'
    BY DEF JudgeInv, Started, FormKnown, AcceptsExactlyConforming
  <1>15. QED
    BY <1>10, <1>11, <1>12, <1>13, <1>14 DEF JudgeInv

LEMMA EnterJudged ==
  ASSUME TypeInv, JudgeInv, EnterCollection \/ EnterStruct
  PROVE  JudgeInv'
  <1>1. pc = "visit" /\ pc' = "loop" /\ UNCHANGED <<call, issues>>
    BY DEF EnterCollection, EnterStruct
  <1>2. CASE EnterCollection
    <2> DEFINE kind == Node(focus.node).kind
    <2>1. kind \in Collections /\ Frame(kind, <<>>) /\ focus.value.kind = kind
      BY <1>2 DEF EnterCollection, ShapeOf, Collections
    <2>2. FrameFits([loop |-> kind, node |-> focus.node, value |-> focus.value, next |-> 1])
      BY <2>1 DEF FrameFits, Collections
    <2>3. kind \in Loops \ {"extras"}
      BY <2>1 DEF Loops, Collections
    <2> HIDE DEF kind
    <2>4. QED
      BY <1>1, <2>1, <2>2, <2>3, Enters
  <1>3. CASE EnterStruct
    <2> DEFINE out == [fields |-> [i \in DOMAIN Node(focus.node).fields |-> None], extras |-> None]
    <2>1. /\ Node(focus.node).kind = "struct" /\ focus.value.kind = "dict"
          /\ Frame("fields", out)
      BY <1>3 DEF EnterStruct
    <2> HIDE DEF out
    <2>2. FrameFits([loop |-> "fields", node |-> focus.node, value |-> focus.value, next |-> 1])
      BY <2>1 DEF FrameFits, Collections
    <2>3. "fields" \in Loops \ {"extras"} /\ "fields" \notin Collections
      BY DEF Loops, Collections
    <2>4. QED
      BY <1>1, <2>1, <2>2, <2>3, Enters
  <1>4. QED
    BY <1>2, <1>3

\* What is at hand in the loop of the innermost frame.
LEMMA InnermostFacts ==
  ASSUME TypeInv, stack # <<>>
  PROVE  /\ call \in Calls
         /\ Last(stack) \in Frames /\ Last(stack) = stack[Len(stack)] /\ FrameFits(Last(stack))
         /\ Len(stack) \in Nat \ {0} /\ stack \in Seq(Frames)
         /\ path \in Seq(Segments) /\ issues \in Seq(IssueSet)
         /\ ImposedAt(Len(stack)) \in Imposed /\ ImposedAt(Len(stack) + 1) = None
  <1>1. /\ Last(stack) \in Frames /\ Last(stack) = stack[Len(stack)] /\ FrameFits(Last(stack))
        /\ Len(stack) \in Nat \ {0}
    BY TopOK DEF TypeInv
  <1>2. QED
    BY <1>1, ImposedFacts DEF TypeInv, TypeOK, StackOK, IssueSet, ImposedAt

\* The member the innermost frame is at is visited.
LEMMA VisitsMember ==
  ASSUME TypeInv, JudgeInv, pc = "loop", pc' = "visit", stack # <<>>,
         UNCHANGED <<call, stack, partial, issues>>,
         Last(stack).next <= LoopLength(Last(stack)),
         Fits[focus'.node][focus'.value][None]
           <=> MemberFits(Last(stack), ImposedAt(Len(stack)), Last(stack).next)
  PROVE  JudgeInv'
  <1> DEFINE N == Len(stack)
  <1>1. /\ Fits' = Fits /\ \A k : ImposedAt(k)' = ImposedAt(k)
        /\ \A k : AllSoFar(stack, k)' <=> AllSoFar(stack, k)
        /\ \A k : Awaits(stack, k)' <=> Awaits(stack, k)
        /\ \A k : LoopLength(stack[k])' = LoopLength(stack[k])
    BY SameCall
  <1>2. Last(stack) = stack[N] /\ N \in Nat \ {0} /\ ImposedAt(N + 1) = None
    BY InnermostFacts
  <1>3. Positioned'
    <2>1. \A k \in 1..N : stack[k].next <= LoopLength(stack[k])
      <3> TAKE k \in 1..N
      <3>1. k < N \/ k = N
        BY <1>2
      <3>2. QED
        BY <1>2, <3>1 DEF JudgeInv, Positioned
    <2>2. \A k \in 1..N : stack[k].next <= LoopLength(stack[k]) + 1
      BY DEF JudgeInv, Positioned
    <2>3. QED
      BY <1>1, <2>1, <2>2 DEF Positioned
  <1>4. Linked'
    <2>1. Awaits(stack, N) <=> MemberFits(Last(stack), ImposedAt(N), Last(stack).next)
      BY <1>2 DEF Awaits
    <2>2. QED
      BY <1>1, <1>2, <2>1 DEF JudgeInv, Linked
  <1>5. Judged' /\ Counted' /\ Started' /\ FormKnown' /\ AcceptsExactlyConforming'
    BY <1>1 DEF JudgeInv, Judged, Counted, Started, FormKnown, AcceptsExactlyConforming
  <1>6. QED
    BY <1>3, <1>4, <1>5 DEF JudgeInv

\* The innermost frame is replaced by one over the same node and value.
LEMMA TopMoves ==
  ASSUME TypeInv, JudgeInv, pc \in {"loop", "return"}, pc' = "loop", stack # <<>>, call' = call,
         NEW g \in Frames, g.node = Last(stack).node, g.value = Last(stack).value,
         stack' = [stack EXCEPT ![Len(stack)] = g],
         g.next <= LoopLength(g) + 1,
         issues' = <<>> => issues = <<>>,
         issues' = <<>> <=> AllSoFar(stack, Len(stack) - 1) /\ SoFar(g, ImposedAt(Len(stack))),
         IsSequence(partial'), Len(partial') = Len(stack),
         \A k \in 1..(Len(stack) - 1) : partial'[k] = partial[k],
         g.loop \in Collections => /\ IsSequence(partial'[Len(stack)])
                                   /\ issues' = <<>> => Len(partial'[Len(stack)]) = g.next - 1
  PROVE  JudgeInv'
  <1> DEFINE N == Len(stack)  s == stack'
  <1>1. /\ Fits' = Fits /\ \A k : ImposedAt(k)' = ImposedAt(k)
        /\ \A k : AllSoFar(stack, k)' <=> AllSoFar(s, k)
        /\ \A k : Awaits(stack, k)' <=> Awaits(s, k)
        /\ \A k : LoopLength(stack[k])' = LoopLength(s[k])
    BY SameCall
  <1>2. Last(stack) = stack[N] /\ N \in Nat \ {0} /\ stack \in Seq(Frames)
    BY InnermostFacts
  <1>3. /\ Len(s) = N
        /\ \A k \in 1..(N - 1) : s[k] = stack[k]
        /\ s[N] = g
    BY <1>2, ReplaceLast
  <1>4. s = stack'
    OBVIOUS
  <1> HIDE DEF s
  <1>5. \A k \in 1..N : k \in 1..(N - 1) \/ k = N
    BY <1>2
  <1>6. Positioned'
    <2>1. ASSUME NEW k \in 1..N
          PROVE  /\ s[k].next <= LoopLength(s[k]) + 1
                 /\ k < N => s[k].next <= LoopLength(s[k])
      <3>1. CASE k = N
        BY <1>2, <1>3, <3>1
      <3>2. CASE k \in 1..(N - 1)
        BY <1>2, <1>3, <3>2 DEF JudgeInv, Positioned
      <3>3. QED
        BY <1>5, <3>1, <3>2
    <2>2. QED
      BY <1>1, <1>3, <1>4, <2>1 DEF Positioned
  <1>7. Linked'
    <2>1. \A k \in 1..N : s[k].node = stack[k].node /\ s[k].value = stack[k].value
      BY <1>2, <1>3, <1>5
    <2>2. ASSUME NEW k \in 1..N PROVE Awaits(s, k - 1) <=> Awaits(stack, k - 1)
      <3>1. k - 1 = 0 \/ k - 1 \in 1..(N - 1)
        BY <1>2
      <3>2. QED
        BY <1>3, <3>1 DEF Awaits
    <2>3. \A k \in 1..N : Fits[s[k].node][s[k].value][ImposedAt(k)] <=> Awaits(s, k - 1)
      BY <2>1, <2>2 DEF JudgeInv, Linked
    <2>4. QED
      BY <1>1, <1>3, <1>4, <2>3 DEF Linked
  <1>8. Judged'
    <2>1. AllSoFar(s, N) <=> AllSoFar(stack, N - 1) /\ SoFar(g, ImposedAt(N))
      <3>1. \A k \in 1..(N - 1) : k \in 1..N
        BY <1>2
      <3>2. N \in 1..N
        BY <1>2
      <3>3. QED
        BY <1>3, <1>5, <3>1, <3>2 DEF AllSoFar
    <2>2. QED
      BY <1>1, <1>3, <1>4, <2>1 DEF Judged
  <1>9. Counted'
    <2>1. ASSUME NEW k \in 1..N, s[k].loop \in Collections
          PROVE  /\ IsSequence(partial'[k])
                 /\ issues' = <<>> => Len(partial'[k]) = s[k].next - 1
      <3>1. CASE k = N
        BY <1>3, <2>1, <3>1
      <3>2. CASE k \in 1..(N - 1)
        BY <1>2, <1>3, <2>1, <3>2 DEF JudgeInv, Counted
      <3>3. QED
        BY <1>5, <3>1, <3>2
    <2>2. QED
      BY <1>3, <1>4, <2>1 DEF Counted, IsSequence
  <1>10. Started' /\ FormKnown' /\ AcceptsExactlyConforming'
    BY DEF JudgeInv, Started, FormKnown, AcceptsExactlyConforming
  <1>11. QED
    BY <1>6, <1>7, <1>8, <1>9, <1>10 DEF JudgeInv

\* A step of the innermost loop: the member it is at has been dealt with.
LEMMA Advances ==
  ASSUME TypeInv, JudgeInv, pc \in {"loop", "return"}, pc' = "loop", stack # <<>>, call' = call,
         Advance, Last(stack).next <= LoopLength(Last(stack)),
         issues' = <<>> => issues = <<>>,
         issues' = <<>> <=> /\ AllSoFar(stack, Len(stack))
                            /\ MemberFits(Last(stack), ImposedAt(Len(stack)), Last(stack).next),
         IsSequence(partial'), Len(partial') = Len(stack),
         \A k \in 1..(Len(stack) - 1) : partial'[k] = partial[k],
         Last(stack).loop \in Collections =>
           /\ IsSequence(partial'[Len(stack)])
           /\ issues' = <<>> => Len(partial'[Len(stack)]) = Last(stack).next
  PROVE  JudgeInv'
  <1> DEFINE N == Len(stack)  f == Last(stack)  x == ImposedAt(N)
             g == [f EXCEPT !.next = @ + 1]
  <1>1. /\ call \in Calls /\ f \in Frames /\ f = stack[N] /\ FrameFits(f) /\ N \in Nat \ {0}
    BY InnermostFacts
  <1>2. f.next \in Nat \ {0} /\ LoopLength(f) \in Nat
    BY <1>1, LengthIsNat DEF Frames
  <1>3. /\ g \in Frames /\ g.node = f.node /\ g.value = f.value /\ g.loop = f.loop
        /\ g.next = f.next + 1
    BY <1>1, <1>2 DEF Frames
  <1>4. stack' = [stack EXCEPT ![N] = g]
    BY <1>1 DEF Advance, TypeInv, StackOK
  <1>5. AllSoFar(stack, N) <=> AllSoFar(stack, N - 1) /\ SoFar(f, x)
    <2>1. \A k \in 1..N : k \in 1..(N - 1) \/ k = N
      BY <1>1
    <2>2. N \in 1..N /\ \A k \in 1..(N - 1) : k \in 1..N
      BY <1>1
    <2> HIDE DEF f
    <2>3. QED
      BY <1>1, <2>1, <2>2 DEF AllSoFar
  <1> HIDE DEF f, g, x
  <1>6. /\ \A i : FieldFits(g, i) <=> FieldFits(f, i)
        /\ \A i : MemberFits(g, x, i) <=> MemberFits(f, x, i)
    BY <1>3 DEF MemberFits, FieldFits, KeyFits, Forbids
  <1>7. SoFar(g, x) <=> SoFar(f, x) /\ MemberFits(f, x, f.next)
    <2>1. \A i \in 1..f.next : i \in 1..(f.next - 1) \/ i = f.next
      BY <1>2
    <2>2. g.next - 1 = f.next /\ f.next \in 1..f.next /\ \A i \in 1..(f.next - 1) : i \in 1..f.next
      BY <1>2, <1>3
    <2>3. QED
      BY <1>3, <1>6, <2>1, <2>2 DEF SoFar
  <1>8. LoopLength(g) = LoopLength(f)
    BY <1>3 DEF LoopLength
  <1>9. /\ g.next <= LoopLength(g) + 1
        /\ issues' = <<>> <=> AllSoFar(stack, N - 1) /\ SoFar(g, x)
        /\ g.loop \in Collections => /\ IsSequence(partial'[N])
                                     /\ issues' = <<>> => Len(partial'[N]) = g.next - 1
    <2>1. f.next <= LoopLength(f)
      BY DEF f
    <2>2. issues' = <<>> <=> AllSoFar(stack, N) /\ MemberFits(f, x, f.next)
      BY DEF f, x
    <2>3. f.loop \in Collections => /\ IsSequence(partial'[N])
                                    /\ issues' = <<>> => Len(partial'[N]) = f.next
      BY DEF f
    <2>4. QED
      BY <1>2, <1>3, <1>5, <1>7, <1>8, <2>1, <2>2, <2>3
  <1>10. QED
    BY <1>3, <1>4, <1>9, TopMoves DEF f, x

\* The output built so far, with another last element.
LEMMA PartialKept ==
  ASSUME TypeInv, JudgeInv, stack # <<>>
  PROVE  /\ IsSequence(partial) /\ Len(partial) = Len(stack) /\ Last(partial) = partial[Len(stack)]
         /\ \A out : Collect(out) =>
              /\ IsSequence(partial') /\ Len(partial') = Len(stack)
              /\ \A k \in 1..(Len(stack) - 1) : partial'[k] = partial[k]
              /\ partial'[Len(stack)] = out
  <1>1. IsSequence(partial) /\ Len(partial) = Len(stack)
    BY DEF JudgeInv, Counted
  <1>2. Len(stack) \in Nat \ {0}
    BY InnermostFacts
  <1>3. partial \in Seq(ToSet(partial)) /\ partial # <<>>
    BY <1>1, <1>2, SequenceOverItself
  <1>4. Last(partial) = partial[Len(stack)]
    BY <1>1 DEF Last
  <1>5. ASSUME NEW out, Collect(out)
        PROVE  /\ IsSequence(partial') /\ Len(partial') = Len(stack)
               /\ \A k \in 1..(Len(stack) - 1) : partial'[k] = partial[k]
               /\ partial'[Len(stack)] = out
    <2> DEFINE t == [partial EXCEPT ![Len(partial)] = out]
    <2>1. /\ t \in Seq(ToSet(t)) /\ Len(t) = Len(partial)
          /\ \A i \in 1..(Len(partial) - 1) : t[i] = partial[i]
          /\ t[Len(partial)] = out
      BY <1>3, Replaced
    <2>2. partial' = t
      BY <1>5 DEF Collect
    <2> HIDE DEF t
    <2>3. IsSequence(t)
      BY <2>1, SequenceOverItself
    <2>4. QED
      BY <1>1, <2>1, <2>2, <2>3
  <1>6. QED
    BY <1>1, <1>4, <1>5

LEMMA TakeMemberJudged ==
  ASSUME TypeInv, JudgeInv, ExpectNeverPanics, TakeMember
  PROVE  JudgeInv'
  <1> DEFINE N == Len(stack)  f == Last(stack)
  <1>1. /\ pc = "return" /\ pc' = "loop" /\ stack # <<>> /\ UNCHANGED <<call, issues>>
        /\ Advance /\ f.loop \in Collections
        /\ \/ ret = None /\ UNCHANGED partial
           \/ \E out : Collect(Append(Last(partial), out))
    BY DEF TakeMember
  <1>2. f = stack[N] /\ N \in Nat \ {0} /\ f \in Frames
    BY <1>1, InnermostFacts
  <1> HIDE DEF f
  <1>3. f.next <= LoopLength(f)
    BY <1>1, <1>2 DEF JudgeInv, Positioned
  <1>4. issues = <<>> <=> AllSoFar(stack, N) /\ MemberFits(f, ImposedAt(N), f.next)
    BY <1>1, <1>2 DEF JudgeInv, Judged, Awaits
  <1>5. /\ IsSequence(partial) /\ Len(partial) = N /\ Last(partial) = partial[N]
    BY <1>1, PartialKept
  <1>6. IsSequence(partial[N]) /\ (issues = <<>> => Len(partial[N]) = f.next - 1)
    BY <1>1, <1>2 DEF JudgeInv, Counted
  <1>7. /\ IsSequence(partial') /\ Len(partial') = N
        /\ \A k \in 1..(N - 1) : partial'[k] = partial[k]
        /\ IsSequence(partial'[N])
        /\ issues' = <<>> => Len(partial'[N]) = f.next
    <2>1. CASE ret = None /\ UNCHANGED partial
      <3>1. issues' # <<>>
        BY <1>1, <2>1 DEF ExpectNeverPanics
      <3>2. QED
        BY <1>5, <1>6, <2>1, <3>1
    <2>2. ASSUME NEW out, Collect(Append(Last(partial), out))
          PROVE  /\ IsSequence(partial') /\ Len(partial') = N
                 /\ \A k \in 1..(N - 1) : partial'[k] = partial[k]
                 /\ IsSequence(partial'[N])
                 /\ issues' = <<>> => Len(partial'[N]) = f.next
      <3> DEFINE t == Append(partial[N], out)
      <3>1. t \in Seq(ToSet(t)) /\ Len(t) = Len(partial[N]) + 1
        <4>1. partial[N] \in Seq(ToSet(partial[N]))
          BY <1>6, SequenceOverItself
        <4>2. QED
          BY <4>1, Pushed
      <3>2. Collect(t)
        BY <1>5, <2>2
      <3> HIDE DEF t
      <3>3. IsSequence(t)
        BY <3>1, SequenceOverItself
      <3>4. /\ IsSequence(partial') /\ Len(partial') = N
            /\ \A k \in 1..(N - 1) : partial'[k] = partial[k]
            /\ partial'[N] = t
        BY <1>1, <3>2, PartialKept
      <3>5. f.next \in Nat
        BY <1>2 DEF Frames
      <3>6. QED
        BY <1>1, <1>6, <3>1, <3>3, <3>4, <3>5
    <2>3. QED
      BY <1>1, <2>1, <2>2
  <1>8. QED
    BY <1>1, <1>3, <1>4, <1>7, Advances DEF f

LEMMA TakeFieldJudged ==
  ASSUME TypeInv, JudgeInv, TakeField
  PROVE  JudgeInv'
  <1> DEFINE N == Len(stack)  f == Last(stack)
  <1>1. /\ pc = "return" /\ pc' = "loop" /\ stack # <<>> /\ UNCHANGED <<call, issues>>
        /\ Advance /\ f.loop \notin Collections
        /\ \E out : Collect(out)
    BY DEF TakeField, Collections
  <1>2. f = stack[N] /\ N \in Nat \ {0} /\ f \in Frames
    BY <1>1, InnermostFacts
  <1> HIDE DEF f
  <1>3. f.next <= LoopLength(f)
    BY <1>1, <1>2 DEF JudgeInv, Positioned
  <1>4. issues = <<>> <=> AllSoFar(stack, N) /\ MemberFits(f, ImposedAt(N), f.next)
    BY <1>1, <1>2 DEF JudgeInv, Judged, Awaits
  <1>5. /\ IsSequence(partial') /\ Len(partial') = N
        /\ \A k \in 1..(N - 1) : partial'[k] = partial[k]
    BY <1>1, PartialKept
  <1>6. QED
    BY <1>1, <1>3, <1>4, <1>5, Advances DEF f

LEMMA MissFieldJudged ==
  ASSUME TypeInv, JudgeInv, MissField
  PROVE  JudgeInv'
  <1> DEFINE N == Len(stack)  f == Last(stack)  field == Node(f.node).fields[f.next]
             codes == IF field.required THEN <<"required_missing">> ELSE <<>>
  <1>1. /\ pc = "loop" /\ pc' = "loop" /\ stack # <<>> /\ UNCHANGED <<call, partial>>
        /\ Advance /\ f.loop = "fields" /\ f.next <= Len(Node(f.node).fields)
        /\ Found(f.value.entries, field.name) = {}
        /\ Record(Append(path, KeySegment(field.name)), codes)
    BY DEF MissField, InLoop, None
  <1>2. /\ call \in Calls /\ f = stack[N] /\ N \in Nat \ {0} /\ f \in Frames /\ FrameFits(f)
        /\ path \in Seq(Segments) /\ issues \in Seq(IssueSet)
    BY <1>1, InnermostFacts
  <1>3. field.name \in Text
    BY <1>1, <1>2, FieldFacts
  <1>4. MemberFits(f, ImposedAt(N), f.next) <=> ~field.required
    BY <1>1 DEF MemberFits, FieldFits
  <1>5. codes \in Seq(Codes) /\ (codes = <<>> <=> ~field.required)
    <2>1. "required_missing" \in Codes
      BY DEF Codes
    <2>2. QED
      BY <2>1
  <1>6. f.next <= LoopLength(f) /\ f.loop \notin Collections
    BY <1>1 DEF LoopLength, Collections
  <1> HIDE DEF f, field, codes
  <1>7. Append(path, KeySegment(field.name)) \in Seq(Segments)
    BY <1>2, <1>3, SegmentFacts, AppendProperties
  <1>8. issues' = <<>> <=> issues = <<>> /\ codes = <<>>
    BY <1>1, <1>2, <1>5, <1>7, RecordedEmpty
  <1>9. issues = <<>> <=> AllSoFar(stack, N)
    BY <1>1 DEF JudgeInv, Judged
  <1>10. IsSequence(partial) /\ Len(partial) = N
    BY <1>1, PartialKept
  <1>11. QED
    BY <1>1, <1>4, <1>5, <1>6, <1>8, <1>9, <1>10, Advances DEF f

LEMMA ScanKeyJudged ==
  ASSUME TypeInv, JudgeInv, PathMirrorsStack, ScanKey
  PROVE  JudgeInv'
  <1> DEFINE N == Len(stack)  f == Last(stack)  n == Node(f.node)  e == f.value.entries[f.next]
             refused == e.key \notin FieldNames(n) /\ EffectiveExtra(n) = "forbid"
             codes == IF refused THEN <<"extra_key">> ELSE <<>>
  <1>1. /\ pc = "loop" /\ pc' = "loop" /\ stack # <<>> /\ call' = call
        /\ Advance /\ f.loop = "extras" /\ f.next <= Len(f.value.entries)
        /\ Record(Append(path, KeySegment(e.key)), codes)
        /\ UNCHANGED partial \/ \E out : Collect(out)
    BY DEF ScanKey, InLoop
  <1>2. /\ call \in Calls /\ f = stack[N] /\ N \in Nat \ {0} /\ f \in Frames /\ FrameFits(f)
        /\ stack \in Seq(Frames) /\ path \in Seq(Segments) /\ issues \in Seq(IssueSet)
    BY <1>1, InnermostFacts
  <1>3. e.key \in Text
    BY <1>1, <1>2, KeyFacts
  <1>4. EffectiveExtra(n) = "forbid" <=> Forbids(f, ImposedAt(N))
    <2>1. path = <<>> <=> N = 1
      <3>1. path = Spine(Front(stack))
        BY <1>1 DEF PathMirrorsStack
      <3>2. Front(stack) \in Seq(Frames) /\ Len(Front(stack)) = N - 1
        BY <1>1, <1>2, FrontLastProperties
      <3>3. Len(path) = N - 1
        BY <3>1, <3>2, SpineTyped
      <3>4. QED
        BY <1>2, <3>3, EmptySeq
    <2>2. QED
      BY <2>1, ImposedFacts DEF EffectiveExtra, Forbids, ImposedAt
  <1>5. MemberFits(f, ImposedAt(N), f.next) <=> ~refused
    BY <1>1, <1>4 DEF MemberFits, KeyFits
  <1>6. codes \in Seq(Codes) /\ (codes = <<>> <=> ~refused)
    <2>1. "extra_key" \in Codes
      BY DEF Codes
    <2> HIDE DEF refused
    <2>2. QED
      BY <2>1
  <1>7. f.next <= LoopLength(f) /\ f.loop \notin Collections
    BY <1>1 DEF LoopLength, Collections
  <1> HIDE DEF f, n, e, refused, codes
  <1>8. Append(path, KeySegment(e.key)) \in Seq(Segments)
    BY <1>2, <1>3, SegmentFacts, AppendProperties
  <1>9. issues' = <<>> <=> issues = <<>> /\ codes = <<>>
    BY <1>1, <1>2, <1>6, <1>8, RecordedEmpty
  <1>10. issues = <<>> <=> AllSoFar(stack, N)
    BY <1>1 DEF JudgeInv, Judged
  <1>11. /\ IsSequence(partial') /\ Len(partial') = N
         /\ \A k \in 1..(N - 1) : partial'[k] = partial[k]
    BY <1>1, PartialKept
  <1>12. QED
    BY <1>1, <1>5, <1>6, <1>7, <1>9, <1>10, <1>11, Advances DEF f

\* dict_find finds one value at most.
LEMMA FoundOnce ==
  ASSUME NEW entries, Len(entries) \in Nat, DOMAIN entries = 1..Len(entries), NEW k
  PROVE  \A v, w \in Found(entries, k) : v = w
  BY DEF Found

LEMMA VisitMemberJudged ==
  ASSUME TypeInv, JudgeInv, VisitMember
  PROVE  JudgeInv'
  <1> DEFINE N == Len(stack)  f == Last(stack)
  <1>1. /\ pc = "loop" /\ pc' = "visit" /\ stack # <<>>
        /\ UNCHANGED <<call, stack, partial, issues>>
        /\ f.next <= Len(Members(f)) /\ f.loop \in {"list", "dict"}
        /\ focus'.node = Node(f.node).of
        /\ focus'.value = IF f.loop = "list" THEN Members(f)[f.next] ELSE Members(f)[f.next].value
    BY DEF VisitMember, InLoop, Visit
  <1>2. f.next <= LoopLength(f)
    BY <1>1 DEF LoopLength, Members
  <1>3. Fits[focus'.node][focus'.value][None] <=> MemberFits(f, ImposedAt(N), f.next)
    BY <1>1 DEF MemberFits, Members
  <1>4. QED
    BY <1>1, <1>2, <1>3, VisitsMember

LEMMA VisitFieldJudged ==
  ASSUME TypeInv, JudgeInv, VisitField
  PROVE  JudgeInv'
  <1> DEFINE N == Len(stack)  f == Last(stack)  field == Node(f.node).fields[f.next]
             hits == Found(f.value.entries, field.name)
  <1>1. /\ pc = "loop" /\ pc' = "visit" /\ stack # <<>>
        /\ UNCHANGED <<call, stack, partial, issues>>
        /\ f.next <= Len(Node(f.node).fields) /\ f.loop = "fields"
        /\ focus'.node = field.of /\ focus'.value \in hits
    BY DEF VisitField, InLoop, Visit
  <1>2. f.next <= LoopLength(f)
    BY <1>1 DEF LoopLength
  <1>3. \A v, w \in hits : v = w
    <2>1. Len(f.value.entries) \in Nat /\ DOMAIN f.value.entries = 1..Len(f.value.entries)
      BY <1>1, InnermostFacts, LengthIsNat
    <2>2. QED
      BY <2>1, FoundOnce
  <1>4. MemberFits(f, ImposedAt(N), f.next) <=> \A w \in hits : Fits[field.of][w][None]
    BY <1>1 DEF MemberFits, FieldFits
  <1>5. Fits[focus'.node][focus'.value][None] <=> MemberFits(f, ImposedAt(N), f.next)
    <2> HIDE DEF hits, field
    <2> QED BY <1>1, <1>3, <1>4
  <1>6. QED
    BY <1>1, <1>2, <1>5, VisitsMember

\* Everything up to the innermost frame, and that frame.
LEMMA AllSoFarSplits ==
  ASSUME Len(stack) \in Nat \ {0}
  PROVE  AllSoFar(stack, Len(stack)) <=>
           AllSoFar(stack, Len(stack) - 1) /\ SoFar(stack[Len(stack)], ImposedAt(Len(stack)))
  <1>1. \A k \in 1..Len(stack) : k \in 1..(Len(stack) - 1) \/ k = Len(stack)
    OBVIOUS
  <1>2. Len(stack) \in 1..Len(stack) /\ \A k \in 1..(Len(stack) - 1) : k \in 1..Len(stack)
    OBVIOUS
  <1>3. QED
    BY <1>1, <1>2 DEF AllSoFar

LEMMA ScanExtrasJudged ==
  ASSUME TypeInv, JudgeInv, ScanExtras
  PROVE  JudgeInv'
  <1> DEFINE N == Len(stack)  f == Last(stack)  x == ImposedAt(N)
             g == [f EXCEPT !.loop = "extras", !.next = 1]
  <1>1. /\ pc = "loop" /\ pc' = "loop" /\ stack # <<>> /\ UNCHANGED <<call, partial, issues>>
        /\ f.loop = "fields" /\ f.next > Len(Node(f.node).fields)
        /\ stack' = [stack EXCEPT ![N] = g]
    BY DEF ScanExtras, InLoop
  <1>2. /\ call \in Calls /\ f = stack[N] /\ N \in Nat \ {0} /\ f \in Frames /\ FrameFits(f)
    BY <1>1, InnermostFacts
  <1>3. /\ g \in Frames /\ g.node = f.node /\ g.value = f.value
        /\ g.loop = "extras" /\ g.next = 1
    <2> DEFINE h == [f EXCEPT !.loop = "extras"]
    <2>1. "extras" \in Loops /\ 1 \in Nat \ {0}
      BY DEF Loops
    <2>2. h \in Frames /\ h.node = f.node /\ h.value = f.value /\ h.loop = "extras"
      BY <1>2, <2>1 DEF Frames
    <2>3. g = [h EXCEPT !.next = 1]
      OBVIOUS
    <2> HIDE DEF g, h
    <2>4. QED
      BY <2>1, <2>2, <2>3 DEF Frames
  <1>4. /\ f.next \in Nat /\ Len(Node(f.node).fields) \in Nat
        /\ LoopLength(f) = Len(Node(f.node).fields)
        /\ LoopLength(g) = Len(f.value.entries) /\ Len(f.value.entries) \in Nat
    <2>1. f.next \in Nat
      BY <1>2 DEF Frames
    <2> HIDE DEF g
    <2>2. QED
      BY <1>1, <1>2, <1>3, <2>1, LengthIsNat DEF LoopLength
  <1>5. f.next = LoopLength(f) + 1
    BY <1>1, <1>2, <1>4 DEF JudgeInv, Positioned
  <1>6. issues = <<>> <=> AllSoFar(stack, N - 1) /\ SoFar(f, x)
    BY <1>1, <1>2, AllSoFarSplits DEF JudgeInv, Judged
  <1>7. IsSequence(partial) /\ Len(partial) = N
    BY DEF JudgeInv, Counted
  <1> HIDE DEF f, g, x
  <1>8. SoFar(g, x) <=> SoFar(f, x)
    <2>1. \A i : FieldFits(g, i) <=> FieldFits(f, i)
      BY <1>3 DEF FieldFits
    <2>2. \A i : MemberFits(f, x, i) <=> FieldFits(f, i)
      BY <1>1 DEF MemberFits
    <2>3. SoFar(f, x) <=> \A i \in 1..Len(Node(f.node).fields) : FieldFits(f, i)
      BY <1>1, <1>4, <1>5, <2>2 DEF SoFar
    <2>4. SoFar(g, x) <=> \A i \in 1..Len(Node(f.node).fields) : FieldFits(f, i)
      BY <1>3, <2>1 DEF SoFar
    <2>5. QED
      BY <2>3, <2>4
  <1>9. g.next <= LoopLength(g) + 1 /\ g.loop \notin Collections
    BY <1>3, <1>4 DEF Collections
  <1>10. QED
    BY <1>1, <1>3, <1>6, <1>7, <1>8, <1>9, TopMoves DEF f, x

\* The innermost frame is closed.
LEMMA LeavesFrame ==
  ASSUME TypeInv, JudgeInv, pc = "loop", pc' = "return", stack # <<>>, call' = call, Unframe,
         issues' = <<>> => issues = <<>>,
         issues' = <<>> <=> /\ AllSoFar(stack, Len(stack) - 1)
                            /\ Fits[Last(stack).node][Last(stack).value][ImposedAt(Len(stack))]
  PROVE  JudgeInv'
  <1> DEFINE N == Len(stack)  s == stack'
  <1>1. /\ Fits' = Fits /\ \A k : ImposedAt(k)' = ImposedAt(k)
        /\ \A k : AllSoFar(stack, k)' <=> AllSoFar(s, k)
        /\ \A k : Awaits(stack, k)' <=> Awaits(s, k)
        /\ \A k : LoopLength(stack[k])' = LoopLength(s[k])
    BY SameCall
  <1>2. Last(stack) = stack[N] /\ N \in Nat \ {0} /\ stack \in Seq(Frames)
    BY InnermostFacts
  <1>3. /\ Len(s) = N - 1
        /\ \A k \in 1..(N - 1) : s[k] = stack[k]
    BY <1>2, FrontLastProperties DEF Unframe
  <1>4. s = stack'
    OBVIOUS
  <1> HIDE DEF s
  <1>5. \A k \in 1..(N - 1) : k \in 1..N /\ k < N
    BY <1>2
  <1>6. Positioned'
    <2>1. \A k \in 1..(N - 1) : s[k].next <= LoopLength(s[k]) + 1 /\ s[k].next <= LoopLength(s[k])
      BY <1>3, <1>5 DEF JudgeInv, Positioned
    <2>2. QED
      BY <1>1, <1>3, <1>4, <2>1 DEF Positioned
  <1>7. \A k \in 0..(N - 1) : Awaits(s, k) <=> Awaits(stack, k)
    BY <1>2, <1>3 DEF Awaits
  <1>8. Linked'
    <2>1. \A k \in 1..(N - 1) : k - 1 \in 0..(N - 1)
      BY <1>2
    <2>2. \A k \in 1..(N - 1) : Fits[s[k].node][s[k].value][ImposedAt(k)] <=> Awaits(s, k - 1)
      BY <1>3, <1>5, <1>7, <2>1 DEF JudgeInv, Linked
    <2>3. QED
      BY <1>1, <1>3, <1>4, <2>2 DEF Linked
  <1>9. Judged'
    <2>1. AllSoFar(s, N - 1) <=> AllSoFar(stack, N - 1)
      BY <1>3 DEF AllSoFar
    <2>2. N - 1 \in 0..(N - 1) /\ N \in 1..N
      BY <1>2
    <2>3. Fits[Last(stack).node][Last(stack).value][ImposedAt(N)] <=> Awaits(s, N - 1)
      BY <1>2, <1>7, <2>2 DEF JudgeInv, Linked
    <2>4. QED
      BY <1>1, <1>3, <1>4, <2>1, <2>3 DEF Judged
  <1>10. Counted'
    <2>1. partial \in Seq(ToSet(partial)) /\ Len(partial) = N /\ partial # <<>>
      BY <1>2, SequenceOverItself DEF JudgeInv, Counted
    <2>2. /\ partial' \in Seq(ToSet(partial')) /\ Len(partial') = N - 1
          /\ \A k \in 1..(N - 1) : partial'[k] = partial[k]
      BY <2>1, Popped DEF Unframe
    <2>3. ASSUME NEW k \in 1..(N - 1), s[k].loop \in Collections
          PROVE  /\ IsSequence(partial'[k])
                 /\ issues' = <<>> => Len(partial'[k]) = s[k].next - 1
      BY <1>3, <1>5, <2>2, <2>3 DEF JudgeInv, Counted
    <2>4. IsSequence(partial')
      BY <2>2, SequenceOverItself
    <2>5. QED
      BY <1>3, <1>4, <2>2, <2>3, <2>4 DEF Counted, IsSequence
  <1>11. Started' /\ FormKnown' /\ AcceptsExactlyConforming'
    BY DEF JudgeInv, Started, FormKnown, AcceptsExactlyConforming
  <1>12. QED
    BY <1>6, <1>8, <1>9, <1>10, <1>11 DEF JudgeInv

LEMMA LeaveCollectionJudged ==
  ASSUME TypeInv, JudgeInv, LeaveCollection
  PROVE  JudgeInv'
  <1> DEFINE N == Len(stack)  f == Last(stack)  x == ImposedAt(N)  bounds == Node(f.node).bounds
             codes == SizeCodes(Len(Last(partial)), bounds)
  <1>1. /\ pc = "loop" /\ pc' = "return" /\ stack # <<>> /\ call' = call /\ Unframe
        /\ f.loop \in Collections /\ f.next > Len(Members(f))
        /\ Record(path, codes)
    BY DEF LeaveCollection, InLoop, Return
  <1>2. /\ call \in Calls /\ f = stack[N] /\ N \in Nat \ {0} /\ f \in Frames /\ FrameFits(f)
        /\ path \in Seq(Segments) /\ issues \in Seq(IssueSet) /\ x \in Imposed
    BY <1>1, InnermostFacts
  <1>3. /\ AreBounds(bounds)
        /\ Fits[f.node][f.value][x] <=>
             /\ Within(LoopLength(f), bounds)
             /\ \A i \in 1..LoopLength(f) : MemberFits(f, x, i)
    <2> HIDE DEF f, x
    <2> QED BY <1>1, <1>2, CollectionFits
  <1>4. f.next = LoopLength(f) + 1
    <2>1. LoopLength(f) \in Nat /\ f.next \in Nat
      BY <1>2, LengthIsNat DEF Frames
    <2>2. LoopLength(f) = Len(Members(f))
      BY <1>1 DEF LoopLength, Members, Collections
    <2>3. QED
      BY <1>1, <1>2, <2>1, <2>2 DEF JudgeInv, Positioned
  <1>5. IsSequence(partial[N]) /\ (issues = <<>> => Len(partial[N]) = f.next - 1)
    BY <1>1, <1>2 DEF JudgeInv, Counted
  <1>6. Last(partial) = partial[N]
    BY <1>1, PartialKept
  <1>7. issues = <<>> <=> AllSoFar(stack, N - 1) /\ SoFar(f, x)
    BY <1>1, <1>2, AllSoFarSplits DEF JudgeInv, Judged
  <1>8. codes \in Seq(Codes)
    <2>1. {"too_short", "too_long"} \subseteq Codes
      BY DEF Codes
    <2>2. QED
      BY <2>1, BoundCodesAreCodes DEF SizeCodes
  <1>9. SizeCodes(Len(partial[N]), bounds) = <<>> <=> Within(Len(partial[N]), bounds)
    BY <1>3, <1>5, NoSizeCodesWithin DEF IsSequence
  <1>10. LoopLength(f) \in Nat
    BY <1>2, LengthIsNat
  <1> HIDE DEF f, x, bounds
  <1>11. SoFar(f, x) <=> \A i \in 1..LoopLength(f) : MemberFits(f, x, i)
    BY <1>1, <1>4, <1>10 DEF SoFar, Collections
  <1>12. issues' = <<>> <=> issues = <<>> /\ codes = <<>>
    <2> HIDE DEF codes
    <2> QED BY <1>1, <1>2, <1>8, RecordedEmpty
  <1>13. issues = <<>> => (codes = <<>> <=> Within(LoopLength(f), bounds))
    BY <1>4, <1>5, <1>6, <1>9, <1>10
  <1> HIDE DEF codes
  <1>14. issues' = <<>> <=> AllSoFar(stack, N - 1) /\ Fits[f.node][f.value][x]
    BY <1>3, <1>7, <1>11, <1>12, <1>13
  <1>15. QED
    BY <1>1, <1>12, <1>14, LeavesFrame DEF f, x

LEMMA LeaveStructJudged ==
  ASSUME TypeInv, JudgeInv, LeaveStruct
  PROVE  JudgeInv'
  <1> DEFINE N == Len(stack)  f == Last(stack)  x == ImposedAt(N)
  <1>1. /\ pc = "loop" /\ pc' = "return" /\ stack # <<>> /\ UNCHANGED <<call, issues>> /\ Unframe
        /\ f.loop = "extras" /\ f.next > Len(f.value.entries)
    BY DEF LeaveStruct, InLoop, Return
  <1>2. /\ call \in Calls /\ f = stack[N] /\ N \in Nat \ {0} /\ f \in Frames /\ FrameFits(f)
        /\ x \in Imposed
    BY <1>1, InnermostFacts
  <1>3. f.next = Len(f.value.entries) + 1 /\ Len(f.value.entries) \in Nat
    <2>1. /\ LoopLength(f) = Len(f.value.entries) /\ LoopLength(f) \in Nat /\ f.next \in Nat
      BY <1>1, <1>2, LengthIsNat DEF LoopLength, Frames
    <2>2. QED
      BY <1>1, <1>2, <2>1 DEF JudgeInv, Positioned
  <1>4. issues = <<>> <=> AllSoFar(stack, N - 1) /\ SoFar(f, x)
    BY <1>1, <1>2, AllSoFarSplits DEF JudgeInv, Judged
  <1> HIDE DEF f, x
  <1>5. Fits[f.node][f.value][x] <=>
          /\ \A i \in 1..Len(Node(f.node).fields) : FieldFits(f, i)
          /\ \A i \in 1..Len(f.value.entries) : KeyFits(f, x, i)
    BY <1>1, <1>2, StructFits
  <1>6. SoFar(f, x) <=> Fits[f.node][f.value][x]
    <2>1. \A i : MemberFits(f, x, i) <=> KeyFits(f, x, i)
      BY <1>1 DEF MemberFits
    <2>2. QED
      BY <1>1, <1>3, <1>5, <2>1 DEF SoFar
  <1>7. QED
    BY <1>1, <1>4, <1>6, LeavesFrame DEF f, x

LEMMA JudgeInit == Init => JudgeInv
  <1> SUFFICES ASSUME Init PROVE JudgeInv
    OBVIOUS
  <1>1. pc = "start" /\ stack = <<>> /\ partial = <<>> /\ issues = <<>> /\ Len(stack) = 0
    BY DEF Init
  <1>2. IsSequence(partial) /\ Len(partial) = 0
    BY <1>1 DEF IsSequence
  <1>3. Judged
    BY <1>1 DEF Judged, AllSoFar
  <1>4. QED
    BY <1>1, <1>2, <1>3
       DEF JudgeInv, Positioned, Linked, Counted, Started, FormKnown, AcceptsExactlyConforming

LEMMA RejectMalformedJudged ==
  ASSUME TypeInv, JudgeInv, RejectMalformedJson
  PROVE  JudgeInv'
  <1>1. /\ pc = "start" /\ pc' = "done" /\ UNCHANGED <<call, stack, partial>> /\ stack = <<>>
        /\ call.input.form = "malformed" /\ Record(<<>>, <<"format_invalid">>)
    BY DEF RejectMalformedJson, JudgeInv, Started
  <1>2. issues' # <<>>
    <2>1. issues \in Seq(IssueSet) /\ <<>> \in Seq(Segments)
      BY DEF TypeInv, TypeOK, IssueSet
    <2>2. QED
      BY <1>1, <2>1, OneCode, SomeCodes
  <1>3. /\ Positioned' /\ Linked' /\ Judged' /\ Counted' /\ Started' /\ FormKnown'
    <2>1. Len(stack) = 0 /\ Len(stack') = 0 /\ IsSequence(partial) /\ Len(partial) = 0
      BY <1>1 DEF JudgeInv, Counted
    <2>2. QED
      BY <1>1, <2>1 DEF Positioned, Linked, Judged, Counted, Started, FormKnown, IsSequence
  <1>4. AcceptsExactlyConforming'
    BY <1>1, <1>2 DEF AcceptsExactlyConforming
  <1>5. QED
    BY <1>3, <1>4 DEF JudgeInv

LEMMA RootJudged ==
  ASSUME TypeInv, JudgeInv, ValidateRoot
  PROVE  JudgeInv'
  <1>1. /\ pc = "start" /\ pc' = "visit" /\ UNCHANGED <<call, stack, partial, issues>>
        /\ stack = <<>> /\ issues = <<>> /\ Len(stack) = 0
        /\ call.input.form = "owned"
        /\ focus'.node = call.schema.root /\ focus'.value = call.input.value
    BY DEF ValidateRoot, Visit, JudgeInv, Started
  <1>2. /\ Fits' = Fits /\ \A k : ImposedAt(k)' = ImposedAt(k)
        /\ \A k : AllSoFar(stack, k)' <=> AllSoFar(stack, k)
        /\ \A k : Awaits(stack, k)' <=> Awaits(stack, k)
    BY <1>1, SameCall
  <1>3. Positioned' /\ Counted' /\ Started' /\ FormKnown' /\ AcceptsExactlyConforming'
    BY <1>1 DEF JudgeInv, Positioned, Counted, Started, FormKnown, AcceptsExactlyConforming
  <1>4. Linked'
    <2>1. Fits[focus'.node][focus'.value][ImposedAt(1)] <=> Awaits(stack, 0)
      BY <1>1 DEF Awaits, ImposedAt
    <2>2. QED
      BY <1>1, <1>2, <2>1 DEF Linked
  <1>5. Judged'
    <2>1. AllSoFar(stack, 0)
      BY DEF AllSoFar
    <2>2. QED
      BY <1>1, <1>2, <2>1 DEF Judged
  <1>6. QED
    BY <1>3, <1>4, <1>5 DEF JudgeInv

LEMMA FinishJudged ==
  ASSUME TypeInv, JudgeInv, Finish
  PROVE  JudgeInv'
  <1>1. /\ pc = "return" /\ pc' = "done" /\ UNCHANGED <<call, stack, partial, issues>>
        /\ stack = <<>> /\ Len(stack) = 0 /\ call.input.form = "owned"
    BY DEF Finish, JudgeInv, FormKnown
  <1>2. issues = <<>> <=> Fits[call.schema.root][call.input.value][Some(call.extra)]
    BY <1>1 DEF JudgeInv, Judged, AllSoFar, Awaits
  <1>3. AcceptsExactlyConforming'
    BY <1>1, <1>2 DEF AcceptsExactlyConforming, Fits
  <1>4. Positioned' /\ Linked' /\ Judged' /\ Counted' /\ Started' /\ FormKnown'
    BY <1>1 DEF JudgeInv, Positioned, Linked, Judged, Counted, Started, FormKnown
  <1>5. QED
    BY <1>3, <1>4 DEF JudgeInv

LEMMA JudgeStep ==
  TypeInv /\ ExpectNeverPanics /\ PathMirrorsStack /\ JudgeInv /\ [Next]_vars => JudgeInv'
  <1> SUFFICES ASSUME TypeInv, ExpectNeverPanics, PathMirrorsStack, JudgeInv, [Next]_vars
               PROVE  JudgeInv'
    OBVIOUS
  <1>1. CASE UNCHANGED vars
    <2>1. /\ UNCHANGED <<call, pc, focus, stack, partial, issues>>
      BY <1>1 DEF vars
    <2>2. /\ Fits' = Fits /\ \A k : ImposedAt(k)' = ImposedAt(k)
          /\ \A k : AllSoFar(stack, k)' <=> AllSoFar(stack, k)
          /\ \A k : Awaits(stack, k)' <=> Awaits(stack, k)
          /\ \A k : LoopLength(stack[k])' = LoopLength(stack[k])
      BY <2>1, SameCall
    <2>3. QED
      BY <2>1, <2>2 DEF JudgeInv, Positioned, Linked, Judged, Counted, Started, FormKnown,
                        AcceptsExactlyConforming
  <1>2. CASE Next
    BY <1>2, RejectMalformedJudged, RootJudged, PrimitiveJudged, EnumJudged, OptionalJudged,
       RejectShapeJudged, EnterJudged, VisitMemberJudged, TakeMemberJudged,
       LeaveCollectionJudged, VisitFieldJudged, MissFieldJudged, TakeFieldJudged,
       ScanExtrasJudged, ScanKeyJudged, LeaveStructJudged, FinishJudged DEF Next
  <1>3. QED
    BY <1>1, <1>2

\* For every schema, payload and set of options: the validator reports no issue
\* exactly when the payload conforms to the schema, whatever the order in which
\* it walks the two.
THEOREM AcceptsConforming == Spec => []AcceptsExactlyConforming
  <1>1. Init => ExpectNeverPanics
    BY DEF Init, ExpectNeverPanics
  <1>2. Init => PathMirrorsStack
    BY EmptySeq DEF Init, PathMirrorsStack, Spine
  <1>3. JudgeInv => AcceptsExactlyConforming
    BY DEF JudgeInv
  <1>4. QED
    BY <1>1, <1>2, <1>3, TypeInit, TypeStep, ExplainedStep, PathStep, JudgeInit, JudgeStep,
       PTL DEF Spec

(***************************************************************************)
(* The values a path leads to.                                             *)
(***************************************************************************)
\* The values that the segments of a path lead to exist, one by one.
LEMMA ReachedUnfolds ==
  ASSUME NEW v, NEW p, Len(p) \in Nat
  PROVE  \E g : /\ g = [i \in 0..Len(p) |-> Further(v, p, i, g)]
                /\ Reached(v, p) = g[Len(p)]
  <1> DEFINE L(g, i) == Further(v, p, i, g)
             S == {n \in Nat : \E g : g = [i \in 0..n |-> L(g, i)]}
  <1>1. ASSUME NEW g, NEW h, NEW i \in Nat, i = 0 \/ g[i - 1] = h[i - 1]
        PROVE  L(g, i) = L(h, i)
    BY <1>1 DEF Further
  <1> HIDE DEF L
  <1>2. 0 \in S
    <2> DEFINE e == [i \in 0..0 |-> L(<<>>, 0)]
    <2>1. \A i \in 0..0 : L(e, i) = L(<<>>, 0)
      <3> HIDE DEF e
      <3>1. L(e, 0) = L(<<>>, 0)
        BY <1>1
      <3>2. QED
        BY <3>1
    <2>2. e = [i \in 0..0 |-> L(e, i)]
      BY <2>1
    <2> HIDE DEF e
    <2>3. QED
      BY <2>2
  <1>3. ASSUME NEW n \in Nat, n \in S PROVE n + 1 \in S
    <2>1. PICK g : g = [i \in 0..n |-> L(g, i)]
      BY <1>3
    <2> DEFINE h == [i \in 0..(n + 1) |-> IF i <= n THEN g[i] ELSE L(g, i)]
    <2>2. ASSUME NEW i \in 0..(n + 1) PROVE h[i] = L(h, i)
      <3>1. i = 0 \/ g[i - 1] = h[i - 1]
        OBVIOUS
      <3> HIDE DEF h
      <3>2. L(g, i) = L(h, i)
        BY <3>1, <1>1
      <3>3. QED
        BY <2>1, <3>2 DEF h
    <2>3. h = [i \in 0..(n + 1) |-> h[i]]
      OBVIOUS
    <2> HIDE DEF h
    <2>4. h = [i \in 0..(n + 1) |-> L(h, i)]
      BY <2>2, <2>3
    <2>5. QED
      BY <2>4
  <1>4. Len(p) \in S
    <2> HIDE DEF S
    <2> QED BY <1>2, <1>3, SetInduction
  <1>5. \E g : g = [i \in 0..Len(p) |-> Further(v, p, i, g)]
    BY <1>4 DEF L
  <1> DEFINE reached == CHOOSE g : g = [i \in 0..Len(p) |-> Further(v, p, i, g)]
  <1>6. reached = [i \in 0..Len(p) |-> Further(v, p, i, reached)]
    BY <1>5
  <1>7. Reached(v, p) = reached[Len(p)]
    BY DEF Reached
  <1> HIDE DEF reached
  <1>8. QED
    BY <1>6, <1>7

\* Values of which each is below the one before it lead down the path.
LEMMA LeadsDown ==
  ASSUME NEW v, NEW p, Len(p) \in Nat, NEW w, w[0] = v,
         \A i \in 1..Len(p) : w[i] \in Below(w[i - 1], p[i])
  PROVE  w[Len(p)] \in Reached(v, p)
  <1>1. PICK g : /\ g = [i \in 0..Len(p) |-> Further(v, p, i, g)]
                 /\ Reached(v, p) = g[Len(p)]
    BY ReachedUnfolds
  <1>2. \A i \in 0..Len(p) : g[i] = Further(v, p, i, g)
    BY <1>1
  <1> DEFINE S == {n \in Nat : n <= Len(p) => w[n] \in g[n]}
  <1>3. 0 \in S
    <2>1. Further(v, p, 0, g) = {v}
      BY DEF Further
    <2>2. g[0] = Further(v, p, 0, g)
      BY <1>2
    <2>3. QED
      BY <2>1, <2>2
  <1>4. ASSUME NEW n \in Nat, n \in S PROVE n + 1 \in S
    <2> SUFFICES ASSUME n + 1 <= Len(p) PROVE w[n + 1] \in g[n + 1]
      OBVIOUS
    <2>1. w[n] \in g[n] /\ w[n + 1] \in Below(w[n], p[n + 1])
      BY <1>4
    <2>2. g[n + 1] = UNION {Below(x, p[n + 1]) : x \in g[n]}
      <3>1. g[n + 1] = Further(v, p, n + 1, g)
        BY <1>2
      <3>2. n + 1 # 0 /\ (n + 1) - 1 = n
        OBVIOUS
      <3>3. QED
        BY <3>1, <3>2 DEF Further
    <2>3. QED
      BY <2>1, <2>2
  <1>5. Len(p) \in S
    <2> HIDE DEF S
    <2> QED BY <1>3, <1>4, SetInduction
  <1>6. QED
    BY <1>1, <1>5

\* A key no entry of which is found is the key of no entry.
LEMMA NotFound ==
  ASSUME NEW entries, Len(entries) \in Nat, DOMAIN entries = 1..Len(entries), NEW k,
         Found(entries, k) = {}
  PROVE  k \notin Keys(entries)
  <1> DEFINE S == {n \in Nat : \A j \in 1..n : j \in DOMAIN entries => entries[j].key # k}
  <1>1. \A j \in DOMAIN entries : entries[j].key # k \/ \E h \in 1..(j - 1) : entries[h].key = k
    BY DEF Found
  <1>2. 0 \in S
    OBVIOUS
  <1>3. ASSUME NEW n \in Nat, n \in S PROVE n + 1 \in S
    <2> SUFFICES ASSUME n + 1 \in DOMAIN entries PROVE entries[n + 1].key # k
      BY <1>3
    <2>1. \A h \in 1..n : h \in DOMAIN entries /\ entries[h].key # k
      BY <1>3
    <2>2. QED
      BY <1>1, <2>1
  <1>4. Len(entries) \in S
    <2> HIDE DEF S
    <2> QED BY <1>2, <1>3, SetInduction
  <1>5. QED
    BY <1>4 DEF Keys

\* A value is where the innermost of the first k frames s is at.
HeldAt(s, k, w) ==
  IF k = 0 THEN w = call.input.value ELSE w \in Below(s[k].value, SegmentOf(s[k]))

\* Every frame runs over a value the frame below it is at, and so does the focus.
Chained ==
  /\ \A k \in 1..Len(stack) : HeldAt(stack, k - 1, stack[k].value)
  /\ pc = "visit" => HeldAt(stack, Len(stack), focus.value)

LEMMA BelowKey ==
  ASSUME NEW v, v.kind = "dict", NEW i \in DOMAIN v.entries
  PROVE  v.entries[i].value \in Below(v, KeySegment(v.entries[i].key))
  BY DEF Below, KeySegment, ToSet

LEMMA BelowIndex ==
  ASSUME NEW v, v.kind = "list", NEW i \in DOMAIN v.items, i \in Int
  PROVE  v.items[i] \in Below(v, IndexSegment(i - 1))
  BY DEF Below, IndexSegment

\* The path leads from the payload to where the validation is.
LEMMA PathReaches ==
  ASSUME TypeInv, Chained
  PROVE  /\ stack # <<>> => Last(stack).value \in Reached(call.input.value, Spine(Front(stack)))
         /\ pc = "visit" => focus.value \in Reached(call.input.value, Spine(stack))
  <1>1. stack \in Seq(Frames) /\ Len(stack) \in Nat
    BY LenProperties DEF TypeInv, StackOK
  <1> DEFINE N == Len(stack)
  <1>2. ASSUME stack # <<>>
        PROVE  Last(stack).value \in Reached(call.input.value, Spine(Front(stack)))
    <2>1. /\ Front(stack) \in Seq(Frames) /\ Len(Front(stack)) = N - 1 /\ N \in Nat \ {0}
          /\ \A i \in 1..(N - 1) : Front(stack)[i] = stack[i]
          /\ Last(stack) = stack[N]
      BY <1>1, <1>2, FrontLastProperties
    <2> DEFINE p == Spine(Front(stack))  w == [i \in 0..(N - 1) |-> stack[i + 1].value]
    <2>2. Len(p) = N - 1 /\ \A i \in 1..(N - 1) : p[i] = SegmentOf(stack[i])
      BY <2>1, SpineTyped
    <2>3. w[0] = call.input.value
      BY <2>1 DEF Chained, HeldAt
    <2>4. ASSUME NEW i \in 1..(N - 1) PROVE w[i] \in Below(w[i - 1], p[i])
      <3>1. i + 1 \in 1..N /\ (i + 1) - 1 = i /\ i # 0
        BY <2>1
      <3>2. stack[i + 1].value \in Below(stack[i].value, SegmentOf(stack[i]))
        BY <3>1 DEF Chained, HeldAt
      <3>3. w[i] = stack[i + 1].value /\ w[i - 1] = stack[i].value
        BY <2>1
      <3>4. QED
        BY <2>2, <3>2, <3>3
    <2>5. w[N - 1] = Last(stack).value
      BY <2>1
    <2> HIDE DEF p, w
    <2>6. w[Len(p)] \in Reached(call.input.value, p)
      BY <2>1, <2>2, <2>3, <2>4, LeadsDown
    <2>7. QED
      BY <2>2, <2>5, <2>6 DEF p
  <1>3. ASSUME pc = "visit"
        PROVE  focus.value \in Reached(call.input.value, Spine(stack))
    <2> DEFINE p == Spine(stack)
               w == [i \in 0..N |-> IF i = N THEN focus.value ELSE stack[i + 1].value]
    <2>1. Len(p) = N /\ \A i \in 1..N : p[i] = SegmentOf(stack[i])
      BY <1>1, SpineTyped
    <2>2. w[0] = call.input.value
      <3>1. CASE N = 0
        BY <1>3, <3>1 DEF Chained, HeldAt
      <3>2. CASE N # 0
        BY <1>1, <3>2 DEF Chained, HeldAt
      <3>3. QED
        BY <3>1, <3>2
    <2>3. ASSUME NEW i \in 1..N PROVE w[i] \in Below(w[i - 1], p[i])
      <3>1. w[i] \in Below(stack[i].value, SegmentOf(stack[i]))
        <4>1. CASE i = N
          BY <1>1, <1>3, <4>1 DEF Chained, HeldAt
        <4>2. CASE i # N
          <5>1. i + 1 \in 1..N /\ (i + 1) - 1 = i /\ i # 0 /\ w[i] = stack[i + 1].value
            BY <1>1, <4>2
          <5>2. QED
            BY <5>1 DEF Chained, HeldAt
        <4>3. QED
          BY <4>1, <4>2
      <3>2. w[i - 1] = stack[i].value
        BY <1>1
      <3>3. QED
        BY <2>1, <3>1, <3>2
    <2>4. w[N] = focus.value
      BY <1>1
    <2> HIDE DEF p, w
    <2>5. w[Len(p)] \in Reached(call.input.value, p)
      BY <1>1, <2>1, <2>2, <2>3, LeadsDown
    <2>6. QED
      BY <2>1, <2>4, <2>5 DEF p
  <1>4. QED
    BY <1>2, <1>3

\* Issues that point into the payload, whoever records them.
LEMMA RecordedPoint ==
  ASSUME issues \in Seq(IssueSet), IssuesAddressPayload, call' = call, call.input.form = "owned",
         NEW p \in Seq(Segments), NEW codes \in Seq(Codes), Record(p, codes),
         \A i \in 1..Len(codes) : PointsInto(call.input.value, Issue(p, codes[i]))
  PROVE  IssuesAddressPayload'
  <1>1. /\ Len(codes) \in Nat /\ DOMAIN codes = 1..Len(codes)
        /\ Len(issues) \in Nat /\ DOMAIN issues = 1..Len(issues)
    BY LenProperties
  <1> DEFINE new == IssuesAt(p, codes)
  <1>2. new = [i \in 1..Len(codes) |-> Issue(p, codes[i])]
    BY <1>1 DEF IssuesAt
  <1>3. new \in Seq(IssueSet) /\ Len(new) = Len(codes)
    <2>1. \A i \in 1..Len(codes) : codes[i] \in Codes
      BY ElementOfSeq
    <2>2. \A i \in 1..Len(codes) : Issue(p, codes[i]) \in IssueSet
      BY <2>1 DEF Issue, IssueSet
    <2>3. QED
      BY <1>1, <1>2, <2>2
  <1>4. issues' = issues \o new
    BY DEF Record
  <1>5. \A i \in 1..Len(codes) : new[i] = Issue(p, codes[i])
    BY <1>2
  <1> HIDE DEF new
  <1>6. DOMAIN (issues \o new) = 1..(Len(issues) + Len(new))
    <2>1. issues \o new \in Seq(IssueSet) /\ Len(issues \o new) = Len(issues) + Len(new)
      BY <1>3, ConcatProperties
    <2>2. QED
      BY <2>1, LenProperties
  <1>7. ASSUME NEW i \in 1..(Len(issues) + Len(new))
        PROVE  PointsInto(call.input.value, (issues \o new)[i])
    <2>1. CASE i \in 1..Len(issues)
      <3>1. (issues \o new)[i] = issues[i]
        BY <1>1, <1>3, <2>1
      <3>2. issues[i] \in ToSet(issues)
        BY <1>1, <2>1 DEF ToSet
      <3>3. QED
        BY <3>1, <3>2 DEF IssuesAddressPayload
    <2>2. CASE i \notin 1..Len(issues)
      <3>1. (issues \o new)[i] = new[i - Len(issues)] /\ i - Len(issues) \in 1..Len(codes)
        BY <1>1, <1>3, <2>2
      <3>2. QED
        BY <1>5, <3>1
    <2>3. QED
      BY <2>1, <2>2
  <1>8. \A issue \in ToSet(issues') : PointsInto(call.input.value, issue)
    BY <1>4, <1>6, <1>7 DEF ToSet
  <1>9. QED
    BY <1>8 DEF IssuesAddressPayload

\* The codes that are about a value that is there.
ValueCodes == Codes \ {"required_missing"}

LEMMA BoundCodesInPlace ==
  ASSUME NEW measure, NEW bounds, NEW low \in ValueCodes, NEW high \in ValueCodes
  PROVE  BoundCodes(measure, bounds, low, high) \in Seq(ValueCodes)
  BY DEF BoundCodes

LEMMA ConstraintCodesInPlace ==
  ASSUME NEW n, NEW v
  PROVE  ConstraintCodes(n, v) \in Seq(ValueCodes)
  <1>1. {"too_small", "too_large", "too_short", "too_long", "format_invalid"} \subseteq ValueCodes
    BY DEF Codes, ValueCodes
  <1>2. FormatCodes(v.text, n.format) \in Seq(ValueCodes)
    BY <1>1 DEF FormatCodes
  <1>3. SizeCodes(Reads[v.text].len, n.bounds) \in Seq(ValueCodes)
    BY <1>1, BoundCodesInPlace DEF SizeCodes
  <1>4. SizeCodes(Reads[v.text].len, n.bounds) \o FormatCodes(v.text, n.format) \in Seq(ValueCodes)
    BY <1>2, <1>3, ConcatProperties
  <1>5. \A x : BoundCodes(x, n.bounds, "too_small", "too_large") \in Seq(ValueCodes)
    BY <1>1, BoundCodesInPlace
  <1>6. <<>> \in Seq(ValueCodes)
    OBVIOUS
  <1>7. QED
    BY <1>4, <1>5, <1>6 DEF ConstraintCodes

\* Issues about a value the path leads to.
LEMMA RecordedInPlace ==
  ASSUME issues \in Seq(IssueSet), IssuesAddressPayload, call' = call, call.input.form = "owned",
         NEW p \in Seq(Segments), NEW codes \in Seq(ValueCodes), Record(p, codes),
         Reached(call.input.value, p) # {}
  PROVE  IssuesAddressPayload'
  <1>1. \A i \in 1..Len(codes) : codes[i] \in ValueCodes
    BY ElementOfSeq
  <1>2. codes \in Seq(Codes)
    <2>1. Len(codes) \in Nat /\ codes = [i \in 1..Len(codes) |-> codes[i]]
      BY LenProperties
    <2>2. \A i \in 1..Len(codes) : codes[i] \in Codes
      BY <1>1 DEF ValueCodes
    <2>3. QED
      BY <2>1, <2>2
  <1>3. \A i \in 1..Len(codes) : PointsInto(call.input.value, Issue(p, codes[i]))
    <2> TAKE i \in 1..Len(codes)
    <2>1. codes[i] # "required_missing"
      BY <1>1 DEF ValueCodes
    <2>2. Issue(p, codes[i]).path = p /\ Issue(p, codes[i]).code = codes[i]
      BY DEF Issue
    <2>3. QED
      BY <2>1, <2>2 DEF PointsInto
  <1>4. QED
    BY <1>2, <1>3, RecordedPoint

\* The invariant.
AddressInv == Chained /\ FormKnown /\ (pc = "start" => stack = <<>>) /\ IssuesAddressPayload

LEMMA SameChain ==
  ASSUME call' = call
  PROVE  \A k, w : /\ HeldAt(stack, k, focus.value)' <=> HeldAt(stack', k, focus'.value)
                   /\ HeldAt(stack, k - 1, stack[k].value)' <=> HeldAt(stack', k - 1, stack'[k].value)
  BY DEF HeldAt, SegmentOf, Node

LEMMA ChainStep ==
  ASSUME TypeInv, AddressInv, [Next]_vars
  PROVE  Chained' /\ FormKnown' /\ (pc' = "start" => stack' = <<>>) /\ call' = call
  <1>1. /\ StackOK /\ stack \in Seq(Frames) /\ Len(stack) \in Nat
        /\ stack # <<>> => /\ Last(stack) = stack[Len(stack)] /\ Last(stack) \in Frames
                           /\ FrameFits(Last(stack)) /\ Len(stack) \in Nat \ {0}
    BY TopOK, LenProperties DEF TypeInv, StackOK
  <1>2. Chained /\ FormKnown /\ (pc = "start" => stack = <<>>)
    BY DEF AddressInv
  <1>3. ASSUME call' = call, stack' = stack, pc' # "visit"
        PROVE  Chained'
    BY <1>2, <1>3, SameChain DEF Chained
  <1>4. ASSUME call' = call, stack # <<>>, Len(stack') = Len(stack), pc' # "visit",
               \A k \in 1..(Len(stack) - 1) : stack'[k] = stack[k],
               stack'[Len(stack)].value = Last(stack).value
        PROVE  Chained'
    <2>1. ASSUME NEW k \in 1..Len(stack) PROVE HeldAt(stack', k - 1, stack'[k].value)
      <3>1. stack'[k].value = stack[k].value
        BY <1>1, <1>4
      <3>2. k = 1 \/ k - 1 \in 1..(Len(stack) - 1)
        BY <1>1
      <3>3. HeldAt(stack, k - 1, stack[k].value)
        BY <1>2 DEF Chained
      <3>4. QED
        BY <1>1, <1>4, <3>1, <3>2, <3>3 DEF HeldAt
    <2>2. QED
      BY <1>4, <2>1, SameChain DEF Chained
  <1>5. CASE \/ RejectMalformedJson \/ ValidatePrimitive \/ ValidateEnum \/ RejectShape \/ Finish
    <2>1. call' = call /\ stack' = stack /\ pc' \in {"return", "done"}
          /\ (pc' = "return" => pc = "visit")
      BY <1>5 DEF RejectMalformedJson, ValidatePrimitive, ValidateEnum, RejectShape, Finish, Return
    <2>2. QED
      BY <1>2, <1>3, <2>1 DEF FormKnown
  <1>6. CASE ValidateRoot
    <2>1. /\ call' = call /\ stack' = stack /\ stack = <<>> /\ pc' = "visit"
          /\ call.input.form = "owned" /\ focus'.value = call.input.value
      BY <1>2, <1>6 DEF ValidateRoot, Visit
    <2>2. Len(stack) = 0
      BY <2>1
    <2>3. QED
      BY <2>1, <2>2 DEF Chained, HeldAt, FormKnown
  <1>7. CASE ValidateOptional
    <2>1. /\ call' = call /\ stack' = stack /\ pc = "visit" /\ pc' \in {"visit", "return"}
          /\ pc' = "visit" => focus'.value = focus.value
      BY <1>7 DEF ValidateOptional, Visit, Return
    <2>2. CASE pc' = "visit"
      <3>1. HeldAt(stack', Len(stack), focus'.value)
        BY <1>2, <2>1, <2>2 DEF Chained
      <3>2. QED
        BY <1>2, <2>1, <2>2, <3>1, SameChain DEF Chained, FormKnown
    <2>3. CASE pc' = "return"
      BY <1>2, <1>3, <2>1, <2>3 DEF FormKnown
    <2>4. QED
      BY <2>1, <2>2, <2>3
  <1>8. CASE EnterCollection \/ EnterStruct
    <2>1. /\ pc = "visit" /\ pc' = "loop" /\ call' = call
          /\ focus \in [node : DOMAIN call.schema.nodes, value : Values]
          /\ \E loop \in Loops : \E out : Frame(loop, out)
      BY <1>8 DEF EnterCollection, EnterStruct, Loops, TypeInv, TypeOK
    <2>2. PICK f \in Frames : stack' = Append(stack, f) /\ f.value = focus.value
      BY <2>1 DEF Frame, Frames
    <2>3. /\ Len(stack') = Len(stack) + 1
          /\ \A i \in 1..Len(stack) : stack'[i] = stack[i]
          /\ stack'[Len(stack) + 1] = f
      BY <1>1, <2>2, AppendThenFront
    <2>4. ASSUME NEW k \in 1..Len(stack') PROVE HeldAt(stack', k - 1, stack'[k].value)
      <3>1. CASE k = Len(stack) + 1
        <4>1. HeldAt(stack, Len(stack), focus.value)
          BY <1>2, <2>1 DEF Chained
        <4>2. k - 1 = Len(stack) /\ (Len(stack) = 0 \/ Len(stack) \in 1..Len(stack))
          BY <1>1, <3>1
        <4>3. QED
          BY <2>1, <2>2, <2>3, <3>1, <4>1, <4>2 DEF HeldAt
      <3>2. CASE k \in 1..Len(stack)
        <4>1. HeldAt(stack, k - 1, stack[k].value)
          BY <1>2, <3>2 DEF Chained
        <4>2. k - 1 = 0 \/ k - 1 \in 1..Len(stack)
          BY <3>2
        <4>3. QED
          BY <2>1, <2>3, <3>2, <4>1, <4>2 DEF HeldAt
      <3>3. QED
        BY <1>1, <2>3, <3>1, <3>2
    <2>5. QED
      BY <1>2, <2>1, <2>4, SameChain DEF Chained, FormKnown
  <1>9. CASE VisitMember \/ VisitField
    <2> DEFINE f == Last(stack)
    <2>1. /\ pc = "loop" /\ pc' = "visit" /\ stack # <<>> /\ call' = call /\ stack' = stack
      BY <1>9 DEF VisitMember, VisitField, InLoop, Visit
    <2>2. focus'.value \in Below(f.value, SegmentOf(f))
      <3>1. f.next \in Nat \ {0}
        BY <1>1, <2>1 DEF Frames
      <3>2. CASE VisitMember
        <4>1. /\ f.loop \in {"list", "dict"} /\ f.next <= Len(Members(f))
              /\ focus'.value = IF f.loop = "list" THEN Members(f)[f.next] ELSE Members(f)[f.next].value
          BY <3>2 DEF VisitMember, InLoop, Visit
        <4>2. f.value.kind = f.loop
          BY <1>1, <2>1, <4>1 DEF FrameFits, Collections
        <4>3. f.next \in DOMAIN Members(f) /\ f.next \in Int
          <5>1. DOMAIN Members(f) = 1..Len(Members(f)) /\ Len(Members(f)) \in Nat
            BY <1>1, <2>1, <4>1, <4>2, LengthIsNat DEF Members, LoopLength, TypeInv
          <5>2. QED
            BY <3>1, <4>1, <5>1
        <4> HIDE DEF f
        <4>4. QED
          BY <4>1, <4>2, <4>3, BelowKey, BelowIndex DEF Members, SegmentOf
      <3>3. CASE VisitField
        <4> DEFINE name == Node(f.node).fields[f.next].name
        <4>1. f.loop = "fields" /\ focus'.value \in Found(f.value.entries, name)
          BY <3>3 DEF VisitField, InLoop, Visit
        <4>2. f.value.kind = "dict" /\ SegmentOf(f) = KeySegment(name)
          BY <1>1, <2>1, <4>1 DEF FrameFits, SegmentOf
        <4> HIDE DEF f, name
        <4>3. PICK i \in DOMAIN f.value.entries :
                f.value.entries[i].key = name /\ focus'.value = f.value.entries[i].value
          BY <4>1 DEF Found
        <4>4. QED
          BY <4>2, <4>3, BelowKey
      <3>4. QED
        BY <1>9, <3>2, <3>3
    <2>3. HeldAt(stack', Len(stack), focus'.value)
      BY <1>1, <2>1, <2>2 DEF HeldAt
    <2>4. QED
      BY <1>2, <2>1, <2>3, SameChain DEF Chained, FormKnown
  <1>10. CASE TakeMember \/ TakeField \/ MissField \/ ScanKey
    <2>1. /\ pc \in {"loop", "return"} /\ pc' = "loop" /\ stack # <<>> /\ call' = call /\ Advance
      BY <1>10 DEF TakeMember, TakeField, MissField, ScanKey, InLoop
    <2> DEFINE g == [stack[Len(stack)] EXCEPT !.next = @ + 1]
    <2>2. g \in Frames /\ g.value = Last(stack).value
      <3>1. stack[Len(stack)] \in Frames /\ stack[Len(stack)] = Last(stack)
        BY <1>1, <2>1
      <3>2. QED
        BY <3>1 DEF Frames
    <2>3. stack' = [stack EXCEPT ![Len(stack)] = g]
      BY <1>1, <2>1 DEF Advance
    <2> HIDE DEF g
    <2>4. /\ Len(stack') = Len(stack) /\ stack'[Len(stack)] = g
          /\ \A k \in 1..(Len(stack) - 1) : stack'[k] = stack[k]
      BY <1>1, <2>1, <2>2, <2>3, ReplaceLast
    <2>5. QED
      BY <1>2, <1>4, <2>1, <2>2, <2>4 DEF FormKnown
  <1>11. CASE ScanExtras
    <2> DEFINE g == [Last(stack) EXCEPT !.loop = "extras", !.next = 1]
    <2>1. /\ pc = "loop" /\ pc' = "loop" /\ stack # <<>> /\ call' = call
          /\ stack' = [stack EXCEPT ![Len(stack)] = g]
      BY <1>11 DEF ScanExtras, InLoop
    <2>2. g.value = Last(stack).value
      BY <1>1, <2>1 DEF Frames
    <2> HIDE DEF g
    <2>3. /\ Len(stack') = Len(stack) /\ stack'[Len(stack)] = g
          /\ \A k \in 1..(Len(stack) - 1) : stack'[k] = stack[k]
      BY <1>1, <2>1
    <2>4. QED
      BY <1>2, <1>4, <2>1, <2>2, <2>3 DEF FormKnown
  <1>12. CASE LeaveCollection \/ LeaveStruct
    <2>1. /\ pc = "loop" /\ pc' = "return" /\ stack # <<>> /\ call' = call /\ stack' = Front(stack)
      BY <1>12 DEF LeaveCollection, LeaveStruct, InLoop, Return, Unframe
    <2>2. /\ Len(stack') = Len(stack) - 1
          /\ \A k \in 1..(Len(stack) - 1) : stack'[k] = stack[k]
      BY <1>1, <2>1, FrontLastProperties
    <2>3. ASSUME NEW k \in 1..Len(stack') PROVE HeldAt(stack', k - 1, stack'[k].value)
      <3>1. k \in 1..Len(stack) /\ (k - 1 = 0 \/ k - 1 \in 1..(Len(stack) - 1)) /\ stack'[k] = stack[k]
        BY <1>1, <2>1, <2>2
      <3>2. HeldAt(stack, k - 1, stack[k].value)
        BY <1>2, <3>1 DEF Chained
      <3>3. QED
        BY <2>1, <2>2, <3>1, <3>2 DEF HeldAt
    <2>4. QED
      BY <1>2, <2>1, <2>3, SameChain DEF Chained, FormKnown
  <1>13. CASE UNCHANGED vars
    <2>1. UNCHANGED <<call, stack, pc, focus>>
      BY <1>13 DEF vars
    <2>2. QED
      BY <1>2, <2>1, SameChain DEF Chained, FormKnown
  <1>14. QED
    BY <1>5, <1>6, <1>7, <1>8, <1>9, <1>10, <1>11, <1>12, <1>13 DEF Next

\* One segment further.
LEMMA ReachedFurther ==
  ASSUME NEW v, NEW p \in Seq(Segments), NEW u \in Reached(v, p),
         NEW segment \in Segments, NEW w \in Below(u, segment)
  PROVE  w \in Reached(v, Append(p, segment))
  <1> DEFINE q == Append(p, segment)
  <1>1. /\ Len(p) \in Nat /\ Len(q) = Len(p) + 1
        /\ \A i \in 1..Len(p) : q[i] = p[i]
        /\ q[Len(p) + 1] = segment
    BY AppendThenFront, LenProperties
  <1>2. PICK g : g = [i \in 0..Len(p) |-> Further(v, p, i, g)] /\ Reached(v, p) = g[Len(p)]
    BY <1>1, ReachedUnfolds
  <1> HIDE DEF q
  <1>3. Len(q) \in Nat
    BY <1>1
  <1>4. PICK h : h = [i \in 0..Len(q) |-> Further(v, q, i, h)] /\ Reached(v, q) = h[Len(q)]
    BY <1>3, ReachedUnfolds
  <1>5. /\ \A i \in 0..Len(p) : g[i] = Further(v, p, i, g)
        /\ \A i \in 0..Len(q) : h[i] = Further(v, q, i, h)
    BY <1>2, <1>4
  <1> DEFINE S == {n \in Nat : n <= Len(p) => g[n] = h[n]}
  <1>6. 0 \in S
    <2>1. g[0] = Further(v, p, 0, g) /\ h[0] = Further(v, q, 0, h)
      BY <1>1, <1>5
    <2>2. QED
      BY <2>1 DEF Further
  <1>7. ASSUME NEW n \in Nat, n \in S PROVE n + 1 \in S
    <2> SUFFICES ASSUME n + 1 <= Len(p) PROVE g[n + 1] = h[n + 1]
      OBVIOUS
    <2>1. g[n + 1] = Further(v, p, n + 1, g) /\ h[n + 1] = Further(v, q, n + 1, h)
      BY <1>1, <1>5
    <2>2. g[n] = h[n] /\ p[n + 1] = q[n + 1] /\ n + 1 # 0 /\ (n + 1) - 1 = n
      BY <1>1, <1>7
    <2>3. QED
      BY <2>1, <2>2 DEF Further
  <1>8. g[Len(p)] = h[Len(p)]
    <2>1. Len(p) \in S
      <3> HIDE DEF S
      <3> QED BY <1>1, <1>6, <1>7, SetInduction
    <2>2. QED
      BY <2>1
  <1>9. h[Len(q)] = UNION {Below(x, segment) : x \in h[Len(p)]}
    <2>1. h[Len(q)] = Further(v, q, Len(q), h)
      BY <1>3, <1>5
    <2>2. q[Len(q)] = segment /\ Len(q) # 0 /\ Len(q) - 1 = Len(p)
      BY <1>1
    <2>3. QED
      BY <2>1, <2>2 DEF Further
  <1>10. QED
    BY <1>2, <1>4, <1>8, <1>9 DEF q

LEMMA AddressStep ==
  ASSUME TypeInv, PathMirrorsStack, AddressInv, [Next]_vars
  PROVE  AddressInv'
  <1>1. Chained' /\ FormKnown' /\ (pc' = "start" => stack' = <<>>) /\ call' = call
    BY ChainStep
  <1> SUFFICES IssuesAddressPayload'
    BY <1>1 DEF AddressInv
  <1>2. /\ IssuesAddressPayload /\ Chained
        /\ pc \notin {"start", "done"} => call.input.form = "owned"
    BY DEF AddressInv, FormKnown
  <1>3. path \in Seq(Segments) /\ issues \in Seq(IssueSet)
    BY DEF TypeInv, TypeOK, IssueSet
  <1>4. \A c \in ValueCodes : <<c>> \in Seq(ValueCodes)
    OBVIOUS
  <1>5. <<>> \in Seq(ValueCodes)
    OBVIOUS
  <1>6. {"type_mismatch", "coerce_failed", "value_not_in", "extra_key", "too_short", "too_long"}
          \subseteq ValueCodes
    BY DEF ValueCodes, Codes
  <1>7. stack # <<>> => /\ Last(stack) \in Frames /\ FrameFits(Last(stack)) /\ call \in Calls
    BY InnermostFacts
  <1>8. ASSUME pc = "visit", NEW codes \in Seq(ValueCodes), Record(path, codes)
        PROVE  IssuesAddressPayload'
    <2>1. Reached(call.input.value, path) # {}
      BY <1>2, <1>8, PathReaches DEF PathMirrorsStack
    <2>2. QED
      BY <1>1, <1>2, <1>3, <1>8, <2>1, RecordedInPlace
  <1>9. ASSUME pc = "loop", stack # <<>>
        PROVE  /\ Last(stack).value \in Reached(call.input.value, path)
               /\ call.input.form = "owned"
    BY <1>2, <1>9, PathReaches DEF PathMirrorsStack
  <1>10. CASE UNCHANGED issues
    BY <1>1, <1>2, <1>10 DEF IssuesAddressPayload
  <1>11. CASE RejectMalformedJson
    BY <1>1, <1>11 DEF RejectMalformedJson, IssuesAddressPayload
  <1>12. CASE ValidatePrimitive
    <2>1. \A n, v : CoercionCode(n, v) \in ValueCodes
      BY <1>6 DEF CoercionCode
    <2>2. pc = "visit" /\ \E codes \in Seq(ValueCodes) : Record(path, codes)
      BY <1>4, <1>12, <2>1, ConstraintCodesInPlace DEF ValidatePrimitive
    <2>3. QED
      BY <1>8, <2>2
  <1>13. CASE ValidateEnum \/ RejectShape
    <2>1. /\ pc = "visit"
          /\ UNCHANGED issues \/ \E c \in ValueCodes : Record(path, <<c>>)
      BY <1>6, <1>13 DEF ValidateEnum, RejectShape
    <2>2. QED
      BY <1>4, <1>8, <1>10, <2>1
  <1>14. CASE LeaveCollection
    <2>1. pc = "loop" /\ stack # <<>> /\ \E size, bounds : Record(path, SizeCodes(size, bounds))
      BY <1>14 DEF LeaveCollection, InLoop
    <2>2. \A size, bounds : SizeCodes(size, bounds) \in Seq(ValueCodes)
      BY <1>6, BoundCodesInPlace DEF SizeCodes
    <2>3. QED
      BY <1>1, <1>2, <1>3, <1>9, <2>1, <2>2, RecordedInPlace
  <1>15. CASE MissField
    <2> DEFINE f == Last(stack)  field == Node(f.node).fields[f.next]
               codes == IF field.required THEN <<"required_missing">> ELSE <<>>
               p == Append(path, KeySegment(field.name))
    <2>1. /\ pc = "loop" /\ stack # <<>>
          /\ f.loop = "fields" /\ f.next <= Len(Node(f.node).fields)
          /\ Found(f.value.entries, field.name) = {}
          /\ Record(p, codes)
      BY <1>15 DEF MissField, InLoop, None
    <2>2. f \in Frames /\ FrameFits(f) /\ call \in Calls
      BY <1>7, <2>1
    <2>3. f.value \in Reached(call.input.value, path) /\ call.input.form = "owned"
      BY <1>9, <2>1
    <2>4. codes \in Seq(Codes) /\ \A i \in 1..Len(codes) : codes[i] = "required_missing"
      <3>1. "required_missing" \in Codes
        BY DEF Codes
      <3>2. QED
        BY <3>1
    <2> HIDE DEF f, field, codes
    <2>5. field.name \in Text
      BY <2>1, <2>2, FieldFacts DEF field
    <2>6. KeySegment(field.name) \in Segments /\ KeySegment(field.name).key = field.name
      BY <2>5, SegmentFacts DEF KeySegment
    <2>7. p \in Seq(Segments) /\ Front(p) = path /\ Last(p).key = field.name
      BY <1>3, <2>6, AppendThenFront
    <2>8. f.value.kind = "dict" /\ field.name \notin Keys(f.value.entries)
      <3>1. /\ f.value.kind = "dict" /\ Len(f.value.entries) \in Nat
            /\ DOMAIN f.value.entries = 1..Len(f.value.entries)
        BY <2>1, <2>2, LengthIsNat DEF FrameFits
      <3>2. QED
        BY <2>1, <3>1, NotFound
    <2> HIDE DEF p
    <2>9. \A i \in 1..Len(codes) : PointsInto(call.input.value, Issue(p, codes[i]))
      <3> TAKE i \in 1..Len(codes)
      <3>1. Issue(p, codes[i]).path = p /\ Issue(p, codes[i]).code = "required_missing"
        BY <2>4 DEF Issue
      <3>2. QED
        BY <2>3, <2>7, <2>8, <3>1 DEF PointsInto
    <2>10. QED
      BY <1>1, <1>2, <1>3, <2>1, <2>3, <2>4, <2>7, <2>9, RecordedPoint
  <1>16. CASE ScanKey
    <2> DEFINE f == Last(stack)  e == f.value.entries[f.next]
               p == Append(path, KeySegment(e.key))
    <2>1. /\ pc = "loop" /\ stack # <<>>
          /\ f.loop = "extras" /\ f.next <= Len(f.value.entries)
          /\ Record(p, <<"extra_key">>) \/ Record(p, <<>>)
      BY <1>16 DEF ScanKey, InLoop
    <2>2. f \in Frames /\ FrameFits(f) /\ call \in Calls
      BY <1>7, <2>1
    <2>3. f.value \in Reached(call.input.value, path) /\ call.input.form = "owned"
      BY <1>9, <2>1
    <2> HIDE DEF f
    <2>4. e.key \in Text
      BY <2>1, <2>2, KeyFacts
    <2>5. KeySegment(e.key) \in Segments
      BY <2>4, SegmentFacts
    <2>6. e.value \in Below(f.value, KeySegment(e.key))
      <3>1. /\ f.value.kind = "dict" /\ Len(f.value.entries) \in Nat /\ f.next \in Nat \ {0}
            /\ DOMAIN f.value.entries = 1..Len(f.value.entries)
        BY <2>1, <2>2, LengthIsNat DEF FrameFits, Frames
      <3>2. f.next \in DOMAIN f.value.entries
        BY <2>1, <3>1
      <3>3. QED
        BY <3>1, <3>2, BelowKey
    <2> HIDE DEF e
    <2>7. Reached(call.input.value, p) # {}
      BY <1>3, <2>3, <2>5, <2>6, ReachedFurther
    <2>8. p \in Seq(Segments)
      BY <1>3, <2>5, AppendThenFront
    <2> HIDE DEF p
    <2>9. QED
      BY <1>1, <1>2, <1>3, <1>4, <1>5, <1>6, <2>1, <2>3, <2>7, <2>8, RecordedInPlace
  <1>17. CASE \/ ValidateRoot \/ ValidateOptional \/ EnterCollection \/ VisitMember \/ TakeMember
              \/ EnterStruct \/ VisitField \/ TakeField \/ ScanExtras \/ LeaveStruct \/ Finish
              \/ UNCHANGED vars
    <2>1. UNCHANGED issues
      BY <1>17 DEF ValidateRoot, ValidateOptional, EnterCollection, VisitMember, TakeMember,
                   EnterStruct, VisitField, TakeField, ScanExtras, LeaveStruct, Finish, vars
    <2>2. QED
      BY <1>10, <2>1
  <1>18. QED
    BY <1>11, <1>12, <1>13, <1>14, <1>15, <1>16, <1>17 DEF Next

\* Every issue is reported at a value the caller sent, or at a key a dict of
\* his lacks: the path of the validator is never one that the payload does not
\* have, whatever was pushed and popped before.
THEOREM IssuesPointIntoPayload == Spec => []IssuesAddressPayload
  <1>1. Init => PathMirrorsStack
    BY EmptySeq DEF Init, PathMirrorsStack, Spine
  <1>2. Init => AddressInv
    <2> SUFFICES ASSUME Init PROVE AddressInv
      OBVIOUS
    <2>1. pc = "start" /\ stack = <<>> /\ issues = <<>> /\ Len(stack) = 0
      BY DEF Init
    <2>2. QED
      BY <2>1 DEF AddressInv, Chained, FormKnown, IssuesAddressPayload, ToSet
  <1>3. AddressInv => IssuesAddressPayload
    BY DEF AddressInv
  <1>4. TypeInv /\ PathMirrorsStack /\ AddressInv /\ [Next]_vars => AddressInv'
    BY AddressStep
  <1>5. QED
    BY <1>1, <1>2, <1>3, <1>4, TypeInit, TypeStep, PathStep, PTL DEF Spec

(***************************************************************************)
(* The struct at the root: what its frame has built, and what the output   *)
(* holds of the payload.                                                   *)
(***************************************************************************)
RootNode == Node(call.schema.root)
RootEntries == call.input.value.entries
Entries == Seq([key : Text, value : Values])

\* The keys among the first n entries that no field of the root names.
UnknownKeys(n) == {RootEntries[j].key : j \in 1..n} \ FieldNames(RootNode)

\* The extras of a struct hold these keys.
ExtrasAre(extras, keys) ==
  /\ IsOption(extras, Entries)
  /\ call.extra = "allow" => UNION {Keys(d) : d \in extras} = keys

\* A field of the root is there exactly if the payload has it.
FieldHeld(fields, i) == fields[i] # None <=> RootNode.fields[i].name \in Keys(RootEntries)

\* A struct that holds what the payload holds.
Reflects(o) ==
  /\ o.kind = "struct"
  /\ o.names = [i \in DOMAIN RootNode.fields |-> RootNode.fields[i].name]
  /\ \A i \in DOMAIN RootNode.fields : FieldHeld(o.fields, i)
  /\ ExtrasAre(o.extras, Keys(RootEntries) \ FieldNames(RootNode))

\* What the first frame has built: clean as long as there is no issue, and
\* waiting while a field of it is being validated.
RootBuilt(f, p, waits, clean) ==
  /\ f.node = call.schema.root /\ f.value = call.input.value /\ f.value.kind = "dict"
  /\ f.loop \in {"fields", "extras"}
  /\ p = [fields |-> p.fields, extras |-> p.extras]
  /\ p.fields = [i \in DOMAIN RootNode.fields |-> p.fields[i]]
  /\ \A i \in DOMAIN RootNode.fields :
       IF f.loop = "extras" \/ i < f.next
       THEN clean => FieldHeld(p.fields, i) ELSE p.fields[i] = None
  /\ waits => f.loop = "fields" /\ RootNode.fields[f.next].name \in Keys(RootEntries)
  /\ ExtrasAre(p.extras, IF f.loop = "extras" THEN UnknownKeys(f.next - 1) ELSE {})

Clean == issues = <<>>
Waits == Len(stack) > 1 \/ pc \in {"visit", "return"}
AtRoot(x) == x.node = call.schema.root /\ x.value = call.input.value

RootInv ==
  RootNode.kind = "struct" =>
    /\ stack = <<>> /\ pc = "visit" => AtRoot(focus)
    /\ stack # <<>> => RootBuilt(stack[1], partial[1], Waits, Clean)
    /\ stack = <<>> /\ pc = "return" /\ Clean => \A o \in ret : Reflects(o)
    /\ \A o \in output : Reflects(o)

\* All of it depends on the call alone, which never changes.
LEMMA RootInvNext ==
  ASSUME call' = call,
         RootNode.kind = "struct" =>
           /\ stack' = <<>> /\ pc' = "visit" => AtRoot(focus')
           /\ stack' # <<>> => RootBuilt(stack'[1], partial'[1], Waits', Clean')
           /\ stack' = <<>> /\ pc' = "return" /\ Clean' => \A o \in ret' : Reflects(o)
           /\ \A o \in output' : Reflects(o)
  PROVE  RootInv'
  <1>1. /\ RootNode' = RootNode /\ RootEntries' = RootEntries
        /\ \A x : AtRoot(x)' <=> AtRoot(x)
    BY DEF RootNode, RootEntries, Node, AtRoot
  <1>2. \A n : UnknownKeys(n)' = UnknownKeys(n)
    BY <1>1 DEF UnknownKeys, FieldNames
  <1>3. \A e, k : ExtrasAre(e, k)' <=> ExtrasAre(e, k)
    BY DEF ExtrasAre
  <1>4. \A fs, i : FieldHeld(fs, i)' <=> FieldHeld(fs, i)
    BY <1>1 DEF FieldHeld
  <1>5. \A o : Reflects(o)' <=> Reflects(o)
    BY <1>1, <1>2, <1>3, <1>4 DEF Reflects
  <1>6. \A f, p, w, c : RootBuilt(f, p, w, c)' <=> RootBuilt(f, p, w, c)
    BY <1>1, <1>2, <1>3, <1>4 DEF RootBuilt
  <1>7. QED
    BY <1>1, <1>5, <1>6 DEF RootInv

LEMMA BuiltWeakens ==
  ASSUME NEW f, NEW p, NEW w \in BOOLEAN, NEW c \in BOOLEAN, NEW x \in BOOLEAN, NEW d \in BOOLEAN,
         RootBuilt(f, p, w, c), x => w, d => c
  PROVE  RootBuilt(f, p, x, d)
  BY DEF RootBuilt

\* No action takes an issue back.
LEMMA IssuesStay ==
  ASSUME TypeInv, [Next]_vars, Clean'
  PROVE  Clean
  <1>1. /\ call \in Calls /\ StackOK /\ stack \in Seq(Frames)
        /\ path \in Seq(Segments) /\ issues \in Seq(IssueSet)
    BY DEF TypeInv, TypeOK, StackOK, IssueSet
  <1>2. \A c \in Codes : <<c>> \in Seq(Codes)
    OBVIOUS
  <1>3. <<>> \in Seq(Codes) /\ <<>> \in Seq(Segments)
    OBVIOUS
  <1>4. \A c \in Codes, b \in BOOLEAN : (IF b THEN <<c>> ELSE <<>>) \in Seq(Codes)
    BY <1>2, <1>3
  <1>5. \A x \in Segments : Append(path, x) \in Seq(Segments)
    BY <1>1, AppendProperties
  <1>6. stack # <<>> => Last(stack) \in Frames /\ FrameFits(Last(stack))
    BY <1>1, TopOK
  <1>7. ASSUME NEW p \in Seq(Segments), NEW codes \in Seq(Codes), Record(p, codes)
        PROVE  Clean
    BY <1>1, <1>7, Recorded DEF Clean
  <1>8. CASE UNCHANGED issues
    BY <1>8 DEF Clean
  <1>9. CASE RejectMalformedJson
    BY <1>2, <1>3, <1>7, <1>9, SomeCodes DEF RejectMalformedJson
  <1>10. CASE ValidatePrimitive
    <2>1. \A n, v : CoercionCode(n, v) \in Codes
      BY SomeCodes DEF CoercionCode
    <2>2. \E codes \in Seq(Codes) : Record(path, codes)
      BY <1>2, <1>10, <2>1, ConstraintCodesAreCodes DEF ValidatePrimitive
    <2>3. QED
      BY <1>1, <1>7, <2>2
  <1>11. CASE ValidateEnum
    <2>1. UNCHANGED issues \/ \E c \in Codes : Record(path, <<c>>)
      BY <1>11, SomeCodes DEF ValidateEnum
    <2>2. QED
      BY <1>1, <1>2, <1>7, <1>8, <2>1
  <1>12. CASE RejectShape
    BY <1>1, <1>2, <1>7, <1>12, SomeCodes DEF RejectShape
  <1>13. CASE LeaveCollection
    <2>1. {"too_short", "too_long"} \subseteq Codes
      BY DEF Codes
    <2>2. \E codes \in Seq(Codes) : Record(path, codes)
      BY <1>13, <2>1, BoundCodesAreCodes DEF LeaveCollection, SizeCodes
    <2>3. QED
      BY <1>1, <1>7, <2>2
  <1>14. CASE MissField
    <2>1. Node(Last(stack).node).fields[Last(stack).next].name \in Text
      BY <1>1, <1>6, <1>14, FieldFacts DEF MissField, InLoop
    <2> DEFINE p == Append(path, KeySegment(Node(Last(stack).node).fields[Last(stack).next].name))
    <2>2. p \in Seq(Segments)
      BY <1>5, <2>1, SegmentFacts
    <2>3. \E codes \in Seq(Codes) : Record(p, codes)
      <3>1. Record(p, <<"required_missing">>) \/ Record(p, <<>>)
        BY <1>14 DEF MissField
      <3>2. QED
        BY <1>2, <1>3, <3>1, SomeCodes
    <2> HIDE DEF p
    <2>4. QED
      BY <1>7, <2>2, <2>3
  <1>15. CASE ScanKey
    <2>1. Last(stack).value.entries[Last(stack).next].key \in Text
      BY <1>1, <1>6, <1>15, KeyFacts DEF ScanKey, InLoop
    <2> DEFINE p == Append(path, KeySegment(Last(stack).value.entries[Last(stack).next].key))
    <2>2. p \in Seq(Segments)
      BY <1>5, <2>1, SegmentFacts
    <2>3. \E codes \in Seq(Codes) : Record(p, codes)
      <3>1. Record(p, <<"extra_key">>) \/ Record(p, <<>>)
        BY <1>15 DEF ScanKey
      <3>2. QED
        BY <1>2, <1>3, <3>1, SomeCodes
    <2> HIDE DEF p
    <2>4. QED
      BY <1>7, <2>2, <2>3
  <1>16. CASE \/ ValidateRoot \/ ValidateOptional \/ EnterCollection \/ VisitMember \/ TakeMember
              \/ EnterStruct \/ VisitField \/ TakeField \/ ScanExtras \/ LeaveStruct \/ Finish
              \/ UNCHANGED vars
    <2>1. UNCHANGED issues
      BY <1>16 DEF ValidateRoot, ValidateOptional, EnterCollection, VisitMember, TakeMember,
                   EnterStruct, VisitField, TakeField, ScanExtras, LeaveStruct, Finish, vars
    <2>2. QED
      BY <1>8, <2>1
  <1>17. QED
    BY <1>9, <1>10, <1>11, <1>12, <1>13, <1>14, <1>15, <1>16 DEF Next

\* The first frame is left as it is by what happens above it.
LEMMA KeepsRoot ==
  ASSUME TypeInv, RootInv, [Next]_vars, UNCHANGED <<call, output>>, stack # <<>>, stack' # <<>>,
         stack'[1] = stack[1], partial'[1] = partial[1], Waits' => Waits
  PROVE  RootInv'
  <1>1. ASSUME RootNode.kind = "struct"
        PROVE  RootBuilt(stack'[1], partial'[1], Waits', Clean') /\ \A o \in output : Reflects(o)
    <2>1. RootBuilt(stack[1], partial[1], Waits, Clean) /\ \A o \in output : Reflects(o)
      BY <1>1 DEF RootInv
    <2>2. Clean' => Clean
      BY IssuesStay
    <2>3. {Waits, Waits', Clean, Clean'} \subseteq BOOLEAN
      BY DEF Waits, Clean
    <2>4. RootBuilt(stack[1], partial[1], Waits', Clean')
      BY <2>1, <2>2, <2>3, BuiltWeakens
    <2>5. QED
      BY <2>1, <2>4
  <1>2. QED
    BY <1>1, RootInvNext

\* A move of the top of two frames or more.
LEMMA FirstKept ==
  ASSUME TypeInv, JudgeInv, stack # <<>>, Len(stack) # 1
  PROVE  /\ Waits /\ Len(stack) > 1
         /\ \A f : stack' = [stack EXCEPT ![Len(stack)] = f] =>
              stack' # <<>> /\ Len(stack') = Len(stack) /\ stack'[1] = stack[1]
         /\ Advance => stack' # <<>> /\ Len(stack') = Len(stack) /\ stack'[1] = stack[1]
         /\ \A out : Collect(out) => partial'[1] = partial[1]
         /\ Unframe => /\ stack' # <<>> /\ stack'[1] = stack[1]
                       /\ partial'[1] = partial[1]
  <1> DEFINE N == Len(stack)
  <1>1. /\ N \in Nat \ {0} /\ stack \in Seq(Frames)
    BY InnermostFacts
  <1>2. N > 1 /\ 1 \in 1..(N - 1)
    <2>1. N \in Nat \ {0} /\ N # 1
      BY <1>1
    <2> HIDE DEF N
    <2>2. QED
      BY <2>1
  <1>3. IsSequence(partial) /\ Len(partial) = N /\ partial \in Seq(ToSet(partial)) /\ partial # <<>>
    <2>1. IsSequence(partial) /\ Len(partial) = N
      BY DEF JudgeInv, Counted
    <2>2. QED
      BY <1>1, <2>1, SequenceOverItself
  <1>4. ASSUME NEW f, stack' = [stack EXCEPT ![N] = f]
        PROVE  stack' # <<>> /\ Len(stack') = N /\ stack'[1] = stack[1]
    <2>1. stack \in Seq(ToSet(stack))
      BY <1>1, OverItself
    <2>2. LET t == [stack EXCEPT ![N] = f] IN
          /\ t # <<>> /\ Len(t) = N /\ \A i \in 1..(N - 1) : t[i] = stack[i]
      BY <2>1, Replaced
    <2>3. QED
      BY <1>2, <1>4, <2>2
  <1>5. ASSUME Advance PROVE stack' # <<>> /\ Len(stack') = N /\ stack'[1] = stack[1]
    <2>1. stack' = [stack EXCEPT ![N] = [stack[N] EXCEPT !.next = @ + 1]]
      BY <1>5 DEF Advance
    <2>2. QED
      BY <1>4, <2>1
  <1>6. \A out : Collect(out) => partial'[1] = partial[1]
    BY <1>2, PartialKept
  <1>7. ASSUME Unframe
        PROVE  stack' # <<>> /\ stack'[1] = stack[1] /\ partial'[1] = partial[1]
    <2>1. stack' = Front(stack) /\ partial' = Front(partial)
      BY <1>7 DEF Unframe
    <2>2. /\ Front(stack) \in Seq(Frames) /\ Len(Front(stack)) = N - 1
          /\ \A i \in 1..(N - 1) : Front(stack)[i] = stack[i]
      BY <1>1, FrontLastProperties
    <2>3. \A i \in 1..(Len(partial) - 1) : Front(partial)[i] = partial[i]
      BY <1>3, Popped
    <2>4. Front(stack) # <<>>
      BY <1>2, <2>2, EmptySeq
    <2>5. QED
      BY <1>2, <1>3, <2>1, <2>2, <2>3, <2>4
  <1>8. QED
    BY <1>1, <1>2, <1>4, <1>5, <1>6, <1>7 DEF Waits

LEMMA CollectionAbove ==
  ASSUME TypeInv, RootInv, RootNode.kind = "struct", stack # <<>>, Last(stack).loop \in Collections
  PROVE  Len(stack) # 1
  <1>1. stack[1].loop \in {"fields", "extras"}
    BY DEF RootInv, RootBuilt
  <1>2. Last(stack) = stack[Len(stack)]
    BY InnermostFacts
  <1>3. QED
    BY <1>1, <1>2 DEF Collections

\* A node has returned or is looked into: nothing was built.
LEMMA VisitKeepsRoot ==
  ASSUME TypeInv, RootInv, [Next]_vars,
         ValidatePrimitive \/ ValidateEnum \/ ValidateOptional \/ RejectShape
  PROVE  RootInv'
  <1>1. /\ UNCHANGED <<call, output, stack, partial>> /\ pc = "visit" /\ pc' \in {"visit", "return"}
    BY DEF ValidatePrimitive, ValidateEnum, ValidateOptional, RejectShape, Return, Visit
  <1>2. CASE stack # <<>>
    BY <1>1, <1>2, KeepsRoot DEF Waits
  <1>3. CASE stack = <<>>
    <2> SUFFICES ASSUME RootNode.kind = "struct" PROVE RootInv'
      BY <1>1, RootInvNext
    <2>1. Node(focus.node).kind = "struct"
      BY <1>1, <1>3 DEF RootInv, AtRoot, RootNode
    <2>2. pc' = "return" /\ ret' = {}
      BY <2>1 DEF ValidatePrimitive, ValidateEnum, ValidateOptional, RejectShape, Return, Leaves,
                  None
    <2>3. QED
      BY <1>1, <1>3, <2>2, RootInvNext DEF RootInv
  <1>4. QED
    BY <1>2, <1>3

LEMMA StartsRoot ==
  ASSUME JudgeInv, RootInv, RejectMalformedJson \/ ValidateRoot
  PROVE  RootInv'
  <1>1. /\ UNCHANGED <<call, output, stack>> /\ pc = "start" /\ stack = <<>>
        /\ \/ pc' = "done"
           \/ pc' = "visit" /\ focus' = [node |-> call.schema.root, value |-> call.input.value]
    BY DEF RejectMalformedJson, ValidateRoot, Visit, JudgeInv, Started
  <1>2. QED
    BY <1>1, RootInvNext DEF RootInv, AtRoot

LEMMA EnterKeepsRoot ==
  ASSUME TypeInv, JudgeInv, RootInv, [Next]_vars, EnterCollection \/ EnterStruct
  PROVE  RootInv'
  <1> DEFINE n == Node(focus.node)
             out == [fields |-> [i \in DOMAIN n.fields |-> None], extras |-> None]
  <1>1. /\ UNCHANGED <<call, output, issues>> /\ pc = "visit" /\ pc' = "loop"
        /\ \E f, x : stack' = Append(stack, f) /\ partial' = Append(partial, x)
    BY DEF EnterCollection, EnterStruct, Frame
  <1>2. stack \in Seq(ToSet(stack)) /\ partial \in Seq(ToSet(partial)) /\ Len(partial) = Len(stack)
    <2>1. stack \in Seq(Frames) /\ IsSequence(partial) /\ Len(partial) = Len(stack)
      BY DEF TypeInv, StackOK, JudgeInv, Counted
    <2>2. QED
      BY <2>1, OverItself, SequenceOverItself
  <1>3. CASE stack # <<>>
    <2>1. Len(stack) \in Nat \ {0} /\ 1 \in 1..Len(stack)
      BY <1>3, InnermostFacts
    <2>2. stack'[1] = stack[1] /\ partial'[1] = partial[1] /\ stack' # <<>>
      BY <1>1, <1>2, <2>1, Pushed
    <2>3. QED
      BY <1>1, <1>3, <2>2, KeepsRoot DEF Waits
  <1>4. CASE stack = <<>>
    <2> SUFFICES ASSUME RootNode.kind = "struct" PROVE RootInv'
      BY <1>1, RootInvNext
    <2>1. n.kind = "struct" /\ n = RootNode /\ AtRoot(focus)
      BY <1>1, <1>4 DEF RootInv, AtRoot, RootNode
    <2> DEFINE f == [loop |-> "fields", node |-> focus.node, value |-> focus.value, next |-> 1]
    <2>2. /\ focus.value.kind = "dict"
          /\ stack' = Append(stack, f) /\ partial' = Append(partial, out)
      BY <2>1 DEF EnterCollection, EnterStruct, Frame, Collections
    <2>3. Len(stack) = 0 /\ Len(partial) = 0
      BY <1>2, <1>4
    <2> HIDE DEF n, out, f
    <2>4. stack'[1] = f /\ partial'[1] = out /\ Len(stack') = 1 /\ stack' # <<>>
      BY <1>2, <2>2, <2>3, Pushed
    <2>5. ~Waits'
      BY <1>1, <2>4 DEF Waits
    <2>6. RootNode.fields \in Seq([name : Text, required : BOOLEAN, of : 1..(focus.node - 1)])
      BY <1>1, <2>1, VisitFacts DEF IsNode, Collections, n
    <2>7. \A i \in DOMAIN RootNode.fields : ~(i < 1)
      BY <2>6, LenProperties
    <2>8. RootBuilt(f, out, FALSE, TRUE)
      BY <2>1, <2>2, <2>7 DEF RootBuilt, f, out, AtRoot, ExtrasAre, IsOption, None
    <2>9. RootBuilt(f, out, Waits', Clean')
      <3>1. {Waits', Clean'} \subseteq BOOLEAN
        BY DEF Waits, Clean
      <3>2. QED
        BY <2>5, <2>8, <3>1, BuiltWeakens
    <2>10. QED
      BY <1>1, <2>4, <2>9, RootInvNext DEF RootInv
  <1>5. QED
    BY <1>3, <1>4

LEMMA MemberKeepsRoot ==
  ASSUME TypeInv, JudgeInv, RootInv, [Next]_vars, VisitMember \/ TakeMember \/ LeaveCollection
  PROVE  RootInv'
  <1>1. /\ UNCHANGED <<call, output>> /\ stack # <<>> /\ Last(stack).loop \in Collections
        /\ pc' # "done" /\ (pc' = "visit" => stack' = stack)
    BY DEF VisitMember, TakeMember, LeaveCollection, InLoop, Return, Visit
  <1>2. CASE RootNode.kind # "struct"
    BY <1>1, <1>2, RootInvNext
  <1>3. CASE RootNode.kind = "struct"
    <2>1. Len(stack) # 1
      BY <1>1, <1>3, CollectionAbove
    <2>2. /\ UNCHANGED stack \/ Advance \/ Unframe
          /\ UNCHANGED partial \/ Unframe \/ \E out : Collect(out)
      BY DEF VisitMember, TakeMember, LeaveCollection
    <2>3. Waits /\ stack' # <<>> /\ stack'[1] = stack[1] /\ partial'[1] = partial[1]
      BY <1>1, <2>1, <2>2, FirstKept
    <2>4. QED
      BY <1>1, <2>3, KeepsRoot
  <1>4. QED
    BY <1>2, <1>3

LEMMA FieldAboveKeepsRoot ==
  ASSUME TypeInv, JudgeInv, RootInv, [Next]_vars, Len(stack) # 1,
         VisitField \/ MissField \/ TakeField \/ ScanExtras \/ ScanKey \/ LeaveStruct
  PROVE  RootInv'
  <1>1. /\ UNCHANGED <<call, output>> /\ stack # <<>>
    BY DEF VisitField, MissField, TakeField, ScanExtras, ScanKey, LeaveStruct, InLoop
  <1>2. /\ \/ UNCHANGED stack \/ Advance \/ Unframe
           \/ \E f : stack' = [stack EXCEPT ![Len(stack)] = f]
        /\ UNCHANGED partial \/ Unframe \/ \E out : Collect(out)
    BY DEF VisitField, MissField, TakeField, ScanExtras, ScanKey, LeaveStruct
  <1>3. Waits /\ stack' # <<>> /\ stack'[1] = stack[1] /\ partial'[1] = partial[1]
    BY <1>1, <1>2, FirstKept
  <1>4. QED
    BY <1>1, <1>3, KeepsRoot

\* The frame of the root, when it is the only one.
LEMMA OnlyRoot ==
  ASSUME TypeInv, JudgeInv, PathMirrorsStack, RootInv, RootNode.kind = "struct",
         stack # <<>>, Len(stack) = 1
  PROVE  /\ Last(stack) = stack[1] /\ Last(partial) = partial[1]
         /\ RootBuilt(stack[1], partial[1], pc \in {"visit", "return"}, Clean)
         /\ Node(stack[1].node) = RootNode /\ stack[1].value.entries = RootEntries
         /\ RootEntries \in Entries /\ Len(RootEntries) \in Nat
         /\ DOMAIN RootEntries = 1..Len(RootEntries)
         /\ Len(RootNode.fields) \in Nat /\ DOMAIN RootNode.fields = 1..Len(RootNode.fields)
         /\ stack[1].next \in Nat \ {0} /\ stack[1].next <= LoopLength(stack[1]) + 1
         /\ pc = "return" => stack[1].next <= LoopLength(stack[1])
         /\ pc = "loop" => path = <<>>
         /\ \A g : stack' = [stack EXCEPT ![1] = g] =>
              stack' # <<>> /\ Len(stack') = 1 /\ stack'[1] = g
         /\ Advance => /\ stack' # <<>> /\ Len(stack') = 1
                       /\ stack'[1] = [stack[1] EXCEPT !.next = @ + 1]
         /\ \A out : Collect(out) => partial'[1] = out
  <1>1. /\ call \in Calls /\ stack \in Seq(Frames) /\ Last(stack) = stack[1]
        /\ stack[1] \in Frames /\ FrameFits(stack[1])
    BY InnermostFacts
  <1>2. RootBuilt(stack[1], partial[1], pc \in {"visit", "return"}, Clean)
    BY DEF RootInv, Waits
  <1>3. Node(stack[1].node) = RootNode /\ stack[1].value.entries = RootEntries
    BY <1>2 DEF RootBuilt, RootNode, RootEntries
  <1>4. /\ RootEntries \in Entries /\ Len(RootEntries) \in Nat
        /\ DOMAIN RootEntries = 1..Len(RootEntries)
    <2>1. stack[1].value \in Values /\ stack[1].value.kind = "dict"
      BY <1>1, <1>2 DEF Frames, RootBuilt
    <2>2. QED
      BY <1>3, <2>1, ValueFacts, LenProperties DEF Entries
  <1>5. Len(RootNode.fields) \in Nat /\ DOMAIN RootNode.fields = 1..Len(RootNode.fields)
    <2> DEFINE id == call.schema.root  F == [name : Text, required : BOOLEAN, of : 1..(id - 1)]
    <2>1. IsNode(RootNode, id - 1)
      BY <1>1, NodeFacts, CallsAssumption DEF IsSchema, RootNode
    <2>2. RootNode.fields \in Seq(F)
      BY <2>1 DEF IsNode, Collections
    <2> HIDE DEF F
    <2>3. QED
      BY <2>2, LenProperties
  <1>6. /\ stack[1].next \in Nat \ {0} /\ stack[1].next <= LoopLength(stack[1]) + 1
        /\ pc = "return" => stack[1].next <= LoopLength(stack[1])
    BY <1>1 DEF Frames, JudgeInv, Positioned
  <1>7. pc = "loop" => path = <<>>
    <2> HAVE pc = "loop"
    <2>1. path = Spine(Front(stack)) /\ Front(stack) \in Seq(Frames) /\ Len(Front(stack)) = 0
      BY <1>1, FrontLastProperties DEF PathMirrorsStack
    <2>2. QED
      BY <1>1, <2>1, SpineTyped, EmptySeq DEF TypeInv, TypeOK
  <1>8. ASSUME NEW g, stack' = [stack EXCEPT ![1] = g]
        PROVE  stack' # <<>> /\ Len(stack') = 1 /\ stack'[1] = g
    <2>1. stack \in Seq(ToSet(stack))
      BY <1>1, OverItself
    <2>2. LET t == [stack EXCEPT ![Len(stack)] = g] IN
          /\ t # <<>> /\ Len(t) = Len(stack) /\ t[Len(stack)] = g
      BY <2>1, Replaced
    <2>3. QED
      BY <1>8, <2>2
  <1>9. ASSUME Advance
        PROVE  stack' # <<>> /\ Len(stack') = 1 /\ stack'[1] = [stack[1] EXCEPT !.next = @ + 1]
    <2>1. stack' = [stack EXCEPT ![1] = [stack[1] EXCEPT !.next = @ + 1]]
      BY <1>1, <1>9 DEF Advance
    <2>2. QED
      BY <1>8, <2>1
  <1>10. Last(partial) = partial[1] /\ \A out : Collect(out) => partial'[1] = out
    BY PartialKept
  <1>11. QED
    BY <1>1, <1>2, <1>3, <1>4, <1>5, <1>6, <1>7, <1>8, <1>9, <1>10

\* What is left to show of a step of that frame.
LEMMA OnlyRootStep ==
  ASSUME UNCHANGED <<call, output>>, RootInv, stack' # <<>>, Len(stack') = 1,
         RootBuilt(stack'[1], partial'[1], pc' \in {"visit", "return"}, Clean')
  PROVE  RootInv'
  BY RootInvNext DEF RootInv, Waits

LEMMA VisitFieldOfRoot ==
  ASSUME TypeInv, JudgeInv, PathMirrorsStack, RootInv, RootNode.kind = "struct", Len(stack) = 1,
         VisitField
  PROVE  RootInv'
  <1> DEFINE f == stack[1]  name == RootNode.fields[f.next].name
  <1>1. /\ UNCHANGED <<call, output, stack, partial, issues>> /\ pc = "loop" /\ stack # <<>>
        /\ Last(stack).loop = "fields"
        /\ Found(Last(stack).value.entries, Node(Last(stack).node).fields[Last(stack).next].name) # {}
    BY DEF VisitField, InLoop
  <1>2. Found(RootEntries, name) # {} /\ f.loop = "fields"
    BY <1>1, OnlyRoot
  <1>3. name \in Keys(RootEntries)
    BY <1>2 DEF Found, Keys
  <1>4. RootBuilt(f, partial[1], pc \in {"visit", "return"}, Clean)
    BY <1>1, OnlyRoot
  <1>5. RootBuilt(f, partial[1], TRUE, Clean)
    BY <1>2, <1>3, <1>4 DEF RootBuilt
  <1>6. {pc' \in {"visit", "return"}, Clean, Clean'} \subseteq BOOLEAN /\ Clean' = Clean
    BY <1>1 DEF Clean
  <1>7. RootBuilt(f, partial[1], pc' \in {"visit", "return"}, Clean')
    BY <1>5, <1>6, BuiltWeakens
  <1>8. QED
    BY <1>1, <1>7, OnlyRootStep

\* The field the root is at has been dealt with.
LEMMA FieldDone ==
  ASSUME TypeInv, JudgeInv, PathMirrorsStack, RootInv, [Next]_vars, RootNode.kind = "struct",
         stack # <<>>, Len(stack) = 1, UNCHANGED <<call, output>>, pc' = "loop",
         stack[1].loop = "fields", stack[1].next <= Len(RootNode.fields), Advance,
         NEW held, partial'[1] = [partial[1] EXCEPT !.fields[stack[1].next] = held],
         Clean' => (held # None <=> RootNode.fields[stack[1].next].name \in Keys(RootEntries))
  PROVE  RootInv'
  <1> DEFINE f == stack[1]  p == partial[1]  g == [f EXCEPT !.next = @ + 1]  q == partial'[1]
             D == DOMAIN RootNode.fields
  <1>1. RootBuilt(f, p, pc \in {"visit", "return"}, Clean)
    BY OnlyRoot
  <1>2. /\ f.next \in Nat \ {0} /\ Len(RootNode.fields) \in Nat /\ D = 1..Len(RootNode.fields)
        /\ stack' # <<>> /\ Len(stack') = 1 /\ stack'[1] = g
    BY OnlyRoot
  <1>3. f \in Frames
    BY InnermostFacts
  <1>4. g.node = f.node /\ g.value = f.value /\ g.loop = "fields" /\ g.next = f.next + 1
    BY <1>3 DEF Frames
  <1>5. Clean' => Clean
    BY IssuesStay
  <1>6. f.next \in D
    BY <1>2
  <1>7. /\ p = [fields |-> p.fields, extras |-> p.extras]
        /\ p.fields = [i \in D |-> p.fields[i]]
    BY <1>1 DEF RootBuilt
  <1>8. q = [p EXCEPT !.fields[f.next] = held]
    OBVIOUS
  <1> HIDE DEF g, q, D, p
  <1>9. q.extras = p.extras /\ q.fields = [p.fields EXCEPT ![f.next] = held]
        /\ q = [fields |-> q.fields, extras |-> q.extras]
    BY <1>7, <1>8
  <1>10. /\ q.fields = [i \in D |-> q.fields[i]] /\ q.fields[f.next] = held
         /\ \A i \in D : i # f.next => q.fields[i] = p.fields[i]
    BY <1>6, <1>7, <1>9
  <1>11. ASSUME NEW i \in D
         PROVE  IF i < g.next THEN Clean' => FieldHeld(q.fields, i) ELSE q.fields[i] = None
    <2>1. IF i < f.next THEN Clean => FieldHeld(p.fields, i) ELSE p.fields[i] = None
      BY <1>1 DEF RootBuilt, D, p
    <2>2. CASE i = f.next
      BY <1>2, <1>4, <1>10, <2>2 DEF FieldHeld
    <2>3. CASE i # f.next
      <3>1. i \in Nat /\ (i < g.next <=> i < f.next)
        BY <1>2, <1>4, <2>3
      <3>2. QED
        BY <1>5, <1>10, <2>1, <2>3, <3>1 DEF FieldHeld
    <2>4. QED
      BY <2>2, <2>3
  <1>12. RootBuilt(g, q, FALSE, Clean')
    BY <1>1, <1>4, <1>9, <1>10, <1>11 DEF RootBuilt, D, p
  <1>13. RootBuilt(g, q, pc' \in {"visit", "return"}, Clean')
    <2>1. {pc' \in {"visit", "return"}, Clean'} \subseteq BOOLEAN
      BY DEF Clean
    <2>2. QED
      BY <1>12, <2>1, BuiltWeakens
  <1>14. QED
    BY <1>2, <1>13, OnlyRootStep DEF q

LEMMA TakeFieldOfRoot ==
  ASSUME TypeInv, JudgeInv, ExpectNeverPanics, PathMirrorsStack, RootInv, [Next]_vars,
         RootNode.kind = "struct", Len(stack) = 1, TakeField
  PROVE  RootInv'
  <1>1. /\ UNCHANGED <<call, output, issues, ret>> /\ pc = "return" /\ pc' = "loop" /\ stack # <<>>
        /\ Last(stack).loop = "fields" /\ Advance
        /\ Collect([Last(partial) EXCEPT !.fields[Last(stack).next] = ret])
    BY DEF TakeField
  <1>2. /\ stack[1].loop = "fields"
        /\ partial'[1] = [partial[1] EXCEPT !.fields[stack[1].next] = ret]
    BY <1>1, OnlyRoot
  <1>3. stack[1].next <= Len(RootNode.fields)
    BY <1>1, <1>2, OnlyRoot DEF LoopLength
  <1>4. RootBuilt(stack[1], partial[1], pc \in {"visit", "return"}, Clean)
    BY <1>1, OnlyRoot
  <1>5. RootNode.fields[stack[1].next].name \in Keys(RootEntries)
    BY <1>1, <1>4 DEF RootBuilt
  <1>6. Clean' => ret # None
    BY <1>1 DEF ExpectNeverPanics, Clean
  <1>7. QED
    BY <1>1, <1>2, <1>3, <1>5, <1>6, FieldDone

LEMMA MissFieldOfRoot ==
  ASSUME TypeInv, JudgeInv, PathMirrorsStack, RootInv, [Next]_vars,
         RootNode.kind = "struct", Len(stack) = 1, MissField
  PROVE  RootInv'
  <1> DEFINE f == stack[1]  p == partial[1]  name == RootNode.fields[f.next].name
  <1>1. /\ UNCHANGED <<call, output, partial>> /\ pc' = "loop" /\ stack # <<>>
        /\ Last(stack).loop = "fields" /\ Advance
        /\ Last(stack).next <= Len(Node(Last(stack).node).fields)
        /\ Found(Last(stack).value.entries, Node(Last(stack).node).fields[Last(stack).next].name) = {}
    BY DEF MissField, InLoop, None
  <1>2. /\ f.loop = "fields" /\ f.next <= Len(RootNode.fields) /\ Found(RootEntries, name) = {}
        /\ f.next \in DOMAIN RootNode.fields
    BY <1>1, OnlyRoot
  <1>3. name \notin Keys(RootEntries)
    BY <1>1, <1>2, OnlyRoot, NotFound
  <1>4. RootBuilt(f, p, pc \in {"visit", "return"}, Clean) /\ f.next \in Nat
    BY <1>1, OnlyRoot
  <1>5. /\ p.fields[f.next] = None
        /\ p = [fields |-> p.fields, extras |-> p.extras]
        /\ p.fields = [i \in DOMAIN RootNode.fields |-> p.fields[i]]
    <2>1. ~(f.next < f.next) /\ f.loop # "extras"
      BY <1>2, <1>4
    <2> HIDE DEF f, p
    <2>2. QED
      BY <1>2, <1>4, <2>1 DEF RootBuilt
  <1>6. partial'[1] = [p EXCEPT !.fields[f.next] = None]
    <2>1. [p.fields EXCEPT ![f.next] = None] = p.fields
      BY <1>2, <1>5
    <2>2. [p EXCEPT !.fields = p.fields] = p
      BY <1>5
    <2>3. QED
      BY <1>1, <2>1, <2>2
  <1>7. QED
    BY <1>1, <1>2, <1>3, <1>6, FieldDone

LEMMA ScanExtrasOfRoot ==
  ASSUME TypeInv, JudgeInv, PathMirrorsStack, RootInv, RootNode.kind = "struct", Len(stack) = 1,
         ScanExtras
  PROVE  RootInv'
  <1> DEFINE f == stack[1]  p == partial[1]  g == [f EXCEPT !.loop = "extras", !.next = 1]
  <1>1. /\ UNCHANGED <<call, output, partial, issues, pc>> /\ pc = "loop" /\ stack # <<>>
        /\ Last(stack).loop = "fields" /\ Last(stack).next > Len(Node(Last(stack).node).fields)
        /\ stack' = [stack EXCEPT ![Len(stack)] = [Last(stack) EXCEPT !.loop = "extras", !.next = 1]]
    BY DEF ScanExtras, InLoop
  <1>2. /\ f.loop = "fields" /\ f.next > Len(RootNode.fields)
        /\ stack' # <<>> /\ Len(stack') = 1 /\ stack'[1] = g
    BY <1>1, OnlyRoot
  <1>3. /\ f.next \in Nat /\ Len(RootNode.fields) \in Nat
        /\ DOMAIN RootNode.fields = 1..Len(RootNode.fields)
        /\ RootBuilt(f, p, pc \in {"visit", "return"}, Clean)
    BY <1>1, OnlyRoot
  <1>4. f \in Frames
    BY <1>1, InnermostFacts
  <1>5. g.node = f.node /\ g.value = f.value /\ g.loop = "extras" /\ g.next = 1
    <2> DEFINE h == [f EXCEPT !.loop = "extras"]
    <2>1. h.node = f.node /\ h.value = f.value /\ h.loop = "extras"
          /\ DOMAIN h = {"loop", "node", "value", "next"}
      BY <1>4 DEF Frames
    <2>2. g = [h EXCEPT !.next = 1]
      OBVIOUS
    <2> HIDE DEF g, h
    <2>3. QED
      BY <2>1, <2>2
  <1>6. \A i \in DOMAIN RootNode.fields : i < f.next
    BY <1>2, <1>3
  <1>7. UnknownKeys(0) = {}
    BY DEF UnknownKeys
  <1> HIDE DEF g
  <1>8. RootBuilt(g, p, FALSE, Clean)
    <2>1. /\ \A i \in DOMAIN RootNode.fields : Clean => FieldHeld(p.fields, i)
          /\ ExtrasAre(p.extras, {})
      BY <1>2, <1>3, <1>6 DEF RootBuilt
    <2>2. UnknownKeys(g.next - 1) = {}
      BY <1>5, <1>7
    <2>3. QED
      BY <1>3, <1>5, <2>1, <2>2 DEF RootBuilt
  <1>9. RootBuilt(g, p, pc' \in {"visit", "return"}, Clean')
    <2>1. {pc' \in {"visit", "return"}, Clean'} \subseteq BOOLEAN /\ Clean' = Clean
      BY <1>1 DEF Clean
    <2>2. QED
      BY <1>1, <1>8, <2>1, BuiltWeakens
  <1>10. QED
    BY <1>1, <1>2, <1>9, OnlyRootStep

\* An extra adds its key to those that are held.
LEMMA WithExtraKeys ==
  ASSUME NEW extras, IsOption(extras, Entries), NEW e \in [key : Text, value : Values]
  PROVE  /\ IsOption(WithExtra(extras, e), Entries)
         /\ UNION {Keys(d) : d \in WithExtra(extras, e)}
              = {e.key} \cup UNION {Keys(d) : d \in extras}
  <1> DEFINE E == [key : Text, value : Values]
             before == IF extras = None THEN <<>> ELSE CHOOSE d \in extras : TRUE
             after == Append(before, e)
  <1>1. /\ before \in Entries
        /\ extras = None => before = <<>>
        /\ extras # None => before \in extras /\ extras = {before}
    <2>1. <<>> \in Entries
      BY EmptySeq DEF Entries
    <2>2. ASSUME extras # None PROVE before \in extras
      BY <2>2 DEF None
    <2> HIDE DEF before
    <2>3. extras # None => extras = {before}
      BY <2>2 DEF IsOption
    <2>4. extras = None => before = <<>>
      BY DEF before
    <2>5. QED
      BY <2>1, <2>2, <2>3, <2>4 DEF IsOption
  <1>2. WithExtra(extras, e) = {after}
    BY DEF WithExtra, Some
  <1> HIDE DEF before
  <1>3. after \in Seq(E) /\ Keys(after) = Keys(before) \cup {e.key}
    <2>1. before \in Seq(E) /\ e \in E
      BY <1>1 DEF Entries
    <2> HIDE DEF E
    <2>2. /\ after \in Seq(E) /\ Len(after) = Len(before) + 1
          /\ \A i \in 1..Len(before) : after[i] = before[i]
          /\ after[Len(before) + 1] = e /\ Len(before) \in Nat
          /\ DOMAIN after = 1..(Len(before) + 1) /\ DOMAIN before = 1..Len(before)
      BY <2>1, AppendThenFront, LenProperties
    <2>3. \A i : i \in DOMAIN after <=> i \in DOMAIN before \/ i = Len(before) + 1
      BY <2>2
    <2> HIDE DEF after
    <2>4. QED
      BY <2>2, <2>3 DEF Keys
  <1> HIDE DEF after
  <1>4. extras = None => Keys(before) = {}
    BY <1>1 DEF Keys
  <1>5. UNION {Keys(d) : d \in extras} = Keys(before)
    BY <1>1, <1>4 DEF None
  <1>6. IsOption({after}, Entries)
    BY <1>3 DEF IsOption, Entries
  <1>7. QED
    BY <1>2, <1>3, <1>5, <1>6

LEMMA ScanKeyOfRoot ==
  ASSUME TypeInv, JudgeInv, PathMirrorsStack, RootInv, [Next]_vars,
         RootNode.kind = "struct", Len(stack) = 1, ScanKey
  PROVE  RootInv'
  <1> DEFINE f == stack[1]  p == partial[1]  g == [f EXCEPT !.next = @ + 1]  q == partial'[1]
             e == RootEntries[f.next]
             stored == e.key \notin FieldNames(RootNode) /\ call.extra = "allow"
  <1>1. /\ UNCHANGED <<call, output, pc>> /\ pc = "loop" /\ stack # <<>>
        /\ Last(stack).loop = "extras" /\ Last(stack).next <= Len(Last(stack).value.entries)
        /\ Advance
    BY DEF ScanKey, InLoop
  <1>2. /\ f.loop = "extras" /\ f.next <= Len(RootEntries)
        /\ stack' # <<>> /\ Len(stack') = 1 /\ stack'[1] = g /\ path = <<>>
    BY <1>1, OnlyRoot
  <1>3. /\ f.next \in Nat \ {0} /\ RootEntries \in Entries /\ Len(RootEntries) \in Nat
        /\ RootBuilt(f, p, pc \in {"visit", "return"}, Clean)
    BY <1>1, OnlyRoot
  <1>4. f \in Frames
    BY <1>1, InnermostFacts
  <1>5. g.node = f.node /\ g.value = f.value /\ g.loop = "extras" /\ g.next = f.next + 1
    BY <1>2, <1>4 DEF Frames
  <1>6. e \in [key : Text, value : Values]
    <2> DEFINE E == [key : Text, value : Values]
    <2>1. RootEntries \in Seq(E) /\ f.next \in 1..Len(RootEntries)
      BY <1>2, <1>3 DEF Entries
    <2> HIDE DEF E
    <2>2. e \in E
      BY <2>1, ElementOfSeq
    <2>3. QED
      BY <2>2 DEF E
  <1>7. UnknownKeys(f.next) = UnknownKeys(f.next - 1) \cup ({e.key} \ FieldNames(RootNode))
    <2>1. \A j : j \in 1..f.next <=> j \in 1..(f.next - 1) \/ j = f.next
      BY <1>3
    <2> HIDE DEF f
    <2>2. QED
      BY <2>1 DEF UnknownKeys
  <1>8. Clean' => Clean
    BY IssuesStay
  <1>9. IF stored THEN q = [p EXCEPT !.extras = WithExtra(p.extras, e)] ELSE q = p
    <2>1. EffectiveExtra(RootNode) = call.extra
      BY <1>2 DEF EffectiveExtra
    <2>2. /\ Last(stack) = f /\ Last(partial) = p /\ Node(f.node) = RootNode
          /\ f.value.entries = RootEntries
      BY <1>1, OnlyRoot
    <2> HIDE DEF f, p
    <2>3. IF stored THEN Collect([p EXCEPT !.extras = WithExtra(@, e)]) ELSE UNCHANGED partial
      BY <2>1, <2>2 DEF ScanKey
    <2>4. QED
      BY <1>1, <2>3, OnlyRoot DEF p
  <1>10. p = [fields |-> p.fields, extras |-> p.extras] /\ ExtrasAre(p.extras, UnknownKeys(f.next - 1))
    BY <1>2, <1>3 DEF RootBuilt
  <1> HIDE DEF q, e, p
  <1>11. /\ q = [fields |-> q.fields, extras |-> q.extras] /\ q.fields = p.fields
         /\ q.extras = IF stored THEN WithExtra(p.extras, e) ELSE p.extras
    BY <1>9, <1>10
  <1>12. ExtrasAre(q.extras, UnknownKeys(f.next))
    <2>1. CASE stored
      BY <1>6, <1>7, <1>10, <1>11, <2>1, WithExtraKeys DEF ExtrasAre
    <2>2. CASE ~stored
      BY <1>7, <1>10, <1>11, <2>2 DEF ExtrasAre
    <2>3. QED
      BY <2>1, <2>2
  <1>13. UnknownKeys(g.next - 1) = UnknownKeys(f.next)
    <2>1. g.next - 1 = f.next
      BY <1>3, <1>5
    <2>2. QED
      BY <2>1
  <1>14. \A i \in DOMAIN RootNode.fields : Clean' => FieldHeld(q.fields, i)
    BY <1>2, <1>3, <1>8, <1>11 DEF RootBuilt, p
  <1>15. p.fields = [i \in DOMAIN RootNode.fields |-> p.fields[i]]
    BY <1>3 DEF RootBuilt, p
  <1> HIDE DEF g
  <1>16. RootBuilt(g, q, FALSE, Clean')
    BY <1>3, <1>5, <1>11, <1>12, <1>13, <1>14, <1>15 DEF RootBuilt
  <1>17. RootBuilt(g, q, pc' \in {"visit", "return"}, Clean')
    <2>1. {pc' \in {"visit", "return"}, Clean'} \subseteq BOOLEAN
      BY DEF Clean
    <2>2. QED
      BY <1>1, <1>16, <2>1, BuiltWeakens
  <1>18. QED
    BY <1>1, <1>2, <1>17, OnlyRootStep DEF q

LEMMA LeaveStructOfRoot ==
  ASSUME TypeInv, JudgeInv, PathMirrorsStack, RootInv, RootNode.kind = "struct", Len(stack) = 1,
         LeaveStruct
  PROVE  RootInv'
  <1> DEFINE f == stack[1]  p == partial[1]
             o == StructValue([i \in DOMAIN RootNode.fields |-> RootNode.fields[i].name],
                              p.fields, p.extras)
  <1>1. /\ UNCHANGED <<call, output, issues>> /\ pc' = "return" /\ stack # <<>>
        /\ Last(stack).loop = "extras" /\ Last(stack).next > Len(Last(stack).value.entries)
        /\ stack' = Front(stack)
    BY DEF LeaveStruct, InLoop, Return, Unframe
  <1>2. ret' = {o}
    <2>1. Last(stack) = f /\ Last(partial) = p /\ Node(f.node) = RootNode
      BY <1>1, OnlyRoot
    <2>2. QED
      BY <2>1 DEF LeaveStruct, Return, Some
  <1>3. /\ f.loop = "extras" /\ f.next \in Nat /\ Len(RootEntries) \in Nat
        /\ f.next > Len(RootEntries) /\ f.next <= LoopLength(f) + 1
        /\ LoopLength(f) = Len(RootEntries)
        /\ RootBuilt(f, p, pc \in {"visit", "return"}, Clean)
    BY <1>1, OnlyRoot DEF LoopLength
  <1>4. f.next - 1 = Len(RootEntries)
    BY <1>3
  <1>5. stack' = <<>>
    <2>1. stack \in Seq(Frames)
      BY <1>1, InnermostFacts
    <2>2. Front(stack) \in Seq(Frames) /\ Len(Front(stack)) = 0
      BY <1>1, <2>1, FrontLastProperties
    <2>3. QED
      BY <1>1, <2>2, EmptySeq
  <1>8. DOMAIN RootEntries = 1..Len(RootEntries)
    BY <1>1, OnlyRoot
  <1>6. Clean => Reflects(o)
    <2>1. /\ o.kind = "struct" /\ o.fields = p.fields /\ o.extras = p.extras
          /\ o.names = [i \in DOMAIN RootNode.fields |-> RootNode.fields[i].name]
      BY DEF StructValue
    <2> HIDE DEF o, f, p
    <2>2. ExtrasAre(p.extras, Keys(RootEntries) \ FieldNames(RootNode))
      <3>1. UnknownKeys(f.next - 1) = Keys(RootEntries) \ FieldNames(RootNode)
        BY <1>4, <1>8 DEF UnknownKeys, Keys
      <3>2. QED
        BY <1>3, <3>1 DEF RootBuilt
    <2>3. Clean => \A i \in DOMAIN RootNode.fields : FieldHeld(p.fields, i)
      BY <1>3 DEF RootBuilt
    <2>4. QED
      BY <2>1, <2>2, <2>3 DEF Reflects
  <1> HIDE DEF o
  <1>7. QED
    BY <1>1, <1>2, <1>5, <1>6, RootInvNext DEF RootInv, Clean

LEMMA FinishKeepsRoot ==
  ASSUME RootInv, Finish
  PROVE  RootInv'
  <1>1. /\ UNCHANGED <<call, stack, issues>> /\ pc = "return" /\ pc' = "done" /\ stack = <<>>
        /\ output' = IF Clean THEN ret ELSE {}
    BY DEF Finish, Clean, None
  <1>2. QED
    BY <1>1, RootInvNext DEF RootInv

LEMMA RootStep ==
  TypeInv /\ ExpectNeverPanics /\ PathMirrorsStack /\ JudgeInv /\ RootInv /\ [Next]_vars => RootInv'
  <1> SUFFICES ASSUME TypeInv, ExpectNeverPanics, PathMirrorsStack, JudgeInv, RootInv, [Next]_vars
               PROVE  RootInv'
    OBVIOUS
  <1>1. CASE UNCHANGED vars
    <2>1. /\ UNCHANGED <<call, pc, focus, ret, stack, partial, issues, output>>
      BY <1>1 DEF vars
    <2>2. QED
      BY <2>1, RootInvNext DEF RootInv, Waits, Clean
  <1>2. CASE \/ VisitField \/ MissField \/ TakeField \/ ScanExtras \/ ScanKey \/ LeaveStruct
    <2>1. call' = call /\ output' = output
      BY <1>2 DEF VisitField, MissField, TakeField, ScanExtras, ScanKey, LeaveStruct
    <2>2. CASE RootNode.kind # "struct"
      BY <2>1, <2>2, RootInvNext
    <2>3. CASE RootNode.kind = "struct" /\ Len(stack) = 1
      BY <1>2, <2>3, VisitFieldOfRoot, MissFieldOfRoot, TakeFieldOfRoot, ScanExtrasOfRoot,
         ScanKeyOfRoot, LeaveStructOfRoot
    <2>4. QED
      BY <1>2, <2>2, <2>3, FieldAboveKeepsRoot
  <1>3. QED
    BY <1>1, <1>2, StartsRoot, VisitKeepsRoot, EnterKeepsRoot, MemberKeepsRoot, FinishKeepsRoot
       DEF Next

LEMMA RootInit == Init => RootInv
  BY DEF Init, RootInv, None

(***************************************************************************)
(* The instance holds what the payload holds.                              *)
(***************************************************************************)
Variables == DOMAIN instance.ivars
AllFrozen == \A x \in Variables : IsFrozen(instance.ivars[x])

\* The first n fields of the plan that the payload has, and the keys that
\* @attributes has for fields and for the first n extras.
FieldsDone(n) == {Plan[j] : j \in 1..n} \cap Keys(RootEntries)
SymbolKeys(names) == {SymbolKey(k) : k \in names}
ExtraKeys(n) == {StringKey(ExtrasOf(Root)[j].key) : j \in 1..n}
AttributesAre(keys) == \A h \in attributes : DOMAIN h = keys

InFields ==
  /\ position \in 1..(Len(Plan) + 1)
  /\ Variables = FieldsDone(position - 1)
  /\ AttributesAre(SymbolKeys(Variables))
InExtras ==
  /\ position \in 1..(Len(ExtrasOf(Root)) + 1)
  /\ Variables = FieldNames(RootNode) \cap Keys(RootEntries)
  /\ AttributesAre(SymbolKeys(Variables) \cup ExtraKeys(position - 1))

InstanceInv ==
  /\ stage = "validating" => position = 1 /\ Variables = {}
  /\ stage \in {"fields", "extras"} => Root \in output
  /\ call.freeze = "deep" => AllFrozen
  /\ RootNode.kind = "struct" => (stage = "fields" => InFields) /\ (stage = "extras" => InExtras)
  /\ FieldsReachInstance /\ AttributesHoldPayload /\ DeepFreezeIsDeep

LEMMA CallStays == [Next]_vars => call' = call
  BY DEF Next, vars, RejectMalformedJson, ValidateRoot, ValidatePrimitive, ValidateEnum,
         ValidateOptional, RejectShape, EnterCollection, VisitMember, TakeMember, LeaveCollection,
         EnterStruct, VisitField, MissField, TakeField, ScanExtras, ScanKey, LeaveStruct, Finish

\* Past the validator, its variables do not change.
LEMMA AfterValidation ==
  [MNext]_<<vars, mvars>> => (Validate /\ [Next]_vars) \/ UNCHANGED vars
  BY DEF MNext, Validate, RejectRoot, Allocate, MaterializeField, StartExtras, MaterializeExtra,
         Finalize, RubyRaises

LEMMA SamePayload ==
  ASSUME UNCHANGED vars
  PROVE  /\ call' = call /\ output' = output
         /\ RootNode' = RootNode /\ RootEntries' = RootEntries /\ Plan' = Plan /\ Root' = Root
         /\ \A n : FieldsDone(n)' = FieldsDone(n)
         /\ \A n : ExtraKeys(n)' = ExtraKeys(n)
  <1>1. call' = call /\ output' = output
    BY DEF vars
  <1>2. RootNode' = RootNode /\ RootEntries' = RootEntries /\ Plan' = Plan /\ Root' = Root
    BY <1>1 DEF RootNode, RootEntries, Plan, Root, Node
  <1>3. QED
    BY <1>1, <1>2 DEF FieldsDone, ExtraKeys

\* The last place of a sequence that holds what the i-th place holds.
LEMMA LastPlace ==
  ASSUME NEW s, Len(s) \in Nat, NEW i \in 1..Len(s)
  PROVE  \E j \in 1..Len(s) : s[j] = s[i] /\ \A h \in (j + 1)..Len(s) : s[h] # s[i]
  <1> DEFINE From(j) == \A h \in (j + 1)..Len(s) : s[h] # s[i]
             S == {n \in Nat : n < Len(s) => From(Len(s) - n) \/ \E j \in 1..Len(s) : s[j] = s[i] /\ From(j)}
  <1>1. 0 \in S
    OBVIOUS
  <1>2. ASSUME NEW n \in Nat, n \in S PROVE n + 1 \in S
    <2> SUFFICES ASSUME n + 1 < Len(s), From(Len(s) - n), s[Len(s) - n] # s[i]
                 PROVE  From(Len(s) - (n + 1))
      BY <1>2
    <2>1. \A h \in (Len(s) - (n + 1) + 1)..Len(s) : h = Len(s) - n \/ h \in (Len(s) - n + 1)..Len(s)
      OBVIOUS
    <2>2. QED
      BY <2>1
  <1>3. Len(s) - i \in S
    <2> HIDE DEF S
    <2>1. Len(s) - i \in Nat
      OBVIOUS
    <2>2. QED
      BY <1>1, <1>2, <2>1, SetInduction
  <1>4. Len(s) - (Len(s) - i) = i
    OBVIOUS
  <1>5. QED
    BY <1>3, <1>4

\* What the output of an accepted payload says of the plan and of the extras.
LEMMA RootFacts ==
  ASSUME call \in Calls, RootInv, RootNode.kind = "struct", Root \in output
  PROVE  /\ Len(Plan) \in Nat /\ DOMAIN Plan = 1..Len(Plan)
         /\ FieldNames(RootNode) = {Plan[j] : j \in 1..Len(Plan)}
         /\ \A j \in 1..Len(Plan) : ValueOf(Plan[j]) # None <=> Plan[j] \in Keys(RootEntries)
         /\ ExtrasOf(Root) \in Entries
         /\ call.extra = "allow" =>
              Keys(ExtrasOf(Root)) = Keys(RootEntries) \ FieldNames(RootNode)
  <1>1. Reflects(Root)
    BY DEF RootInv
  <1>2. Plan = [i \in DOMAIN RootNode.fields |-> RootNode.fields[i].name]
    BY DEF Plan, RootNode
  <1>3. Len(RootNode.fields) \in Nat /\ DOMAIN RootNode.fields = 1..Len(RootNode.fields)
    <2> DEFINE id == call.schema.root  F == [name : Text, required : BOOLEAN, of : 1..(id - 1)]
    <2>1. IsNode(RootNode, id - 1)
      BY NodeFacts, CallsAssumption DEF IsSchema, RootNode
    <2>2. RootNode.fields \in Seq(F)
      BY <2>1 DEF IsNode, Collections
    <2> HIDE DEF F
    <2>3. QED
      BY <2>2, LenProperties
  <1>4. /\ Len(Plan) = Len(RootNode.fields) /\ DOMAIN Plan = 1..Len(Plan)
        /\ \A j \in 1..Len(Plan) : Plan[j] = RootNode.fields[j].name
    BY <1>2, <1>3
  <1>5. Root.names = Plan
    BY <1>1, <1>2 DEF Reflects
  <1>6. FieldNames(RootNode) = {Plan[j] : j \in 1..Len(Plan)}
    BY <1>3, <1>4 DEF FieldNames
  <1>7. ASSUME NEW j \in 1..Len(Plan)
        PROVE  ValueOf(Plan[j]) # None <=> Plan[j] \in Keys(RootEntries)
    <2> DEFINE name == Plan[j]
               J == {k \in DOMAIN Root.names :
                       /\ Root.names[k] = name
                       /\ \A h \in (k + 1)..Len(Root.names) : Root.names[h] # name}
    <2>1. \E k \in 1..Len(Plan) : Plan[k] = name /\ \A h \in (k + 1)..Len(Plan) : Plan[h] # name
      BY <1>3, <1>4, LastPlace
    <2>2. J # {}
      BY <1>4, <1>5, <2>1
    <2>3. ASSUME NEW k \in J
          PROVE  Root.fields[k] # None <=> name \in Keys(RootEntries)
      BY <1>1, <1>3, <1>4, <1>5 DEF Reflects, FieldHeld
    <2>4. ValueOf(name) = UNION {Root.fields[k] : k \in J}
      BY DEF ValueOf
    <2> HIDE DEF J, name
    <2>5. ValueOf(name) # None <=> name \in Keys(RootEntries)
      BY <2>2, <2>3, <2>4 DEF None
    <2>6. QED
      BY <2>5 DEF name
  <1>8. /\ ExtrasOf(Root) \in Entries
        /\ call.extra = "allow" => Keys(ExtrasOf(Root)) = Keys(RootEntries) \ FieldNames(RootNode)
    <2> DEFINE e == Root.extras  K == Keys(RootEntries) \ FieldNames(RootNode)  d == The(e)
    <2>1. IsOption(e, Entries) /\ (call.extra = "allow" => UNION {Keys(x) : x \in e} = K)
      BY <1>1 DEF Reflects, ExtrasAre
    <2> HIDE DEF e, K
    <2>2. CASE e = None
      <3>1. ExtrasOf(Root) = <<>> /\ <<>> \in Entries /\ Keys(<<>>) = {}
        BY <2>2, EmptySeq DEF ExtrasOf, Entries, Keys, e
      <3>2. UNION {Keys(x) : x \in e} = {}
        BY <2>2 DEF None
      <3>3. QED
        BY <2>1, <3>1, <3>2 DEF K
    <2>3. CASE e # None
      <3>1. d \in e
        BY <2>3 DEF The, None
      <3>2. ExtrasOf(Root) = d
        BY <2>3 DEF ExtrasOf, e
      <3> HIDE DEF d
      <3>3. e = {d} /\ d \in Entries
        BY <2>1, <3>1 DEF IsOption
      <3>4. UNION {Keys(x) : x \in e} = Keys(d)
        BY <3>3
      <3>5. QED
        BY <2>1, <3>2, <3>3, <3>4 DEF K
    <2>4. QED
      BY <2>2, <2>3
  <1>9. QED
    BY <1>3, <1>4, <1>6, <1>7, <1>8

\* What is left to show of a step past the validator.
LEMMA InstanceStep ==
  ASSUME UNCHANGED vars,
         stage' \notin {"validating", "returned"},
         stage' \in {"fields", "extras"} => Root \in output,
         call.freeze = "deep" => AllFrozen',
         RootNode.kind = "struct" => (stage' = "fields" => InFields') /\ (stage' = "extras" => InExtras')
  PROVE  InstanceInv'
  <1>1. call' = call /\ output' = output /\ Root' = Root /\ RootNode' = RootNode
    BY SamePayload
  <1>2. FieldsReachInstance' /\ AttributesHoldPayload' /\ DeepFreezeIsDeep'
    BY DEF FieldsReachInstance, AttributesHoldPayload, DeepFreezeIsDeep
  <1>3. QED
    BY <1>1, <1>2 DEF InstanceInv

LEMMA InstanceInit == MInit => InstanceInv
  <1> SUFFICES ASSUME MInit PROVE InstanceInv
    OBVIOUS
  <1>1. stage = "validating" /\ position = 1 /\ Variables = {}
    BY DEF MInit, Variables
  <1>2. QED
    BY <1>1 DEF InstanceInv, AllFrozen, FieldsReachInstance, AttributesHoldPayload,
                DeepFreezeIsDeep

LEMMA ValidateKeepsInstance ==
  ASSUME InstanceInv, Validate
  PROVE  InstanceInv'
  <1>1. UNCHANGED <<stage, position, instance, attributes>> /\ stage = "validating"
    BY DEF Validate, mvars
  <1>2. position' = 1 /\ Variables' = {} /\ stage' = "validating"
    BY <1>1 DEF InstanceInv, Variables
  <1>3. QED
    BY <1>2 DEF InstanceInv, AllFrozen, FieldsReachInstance, AttributesHoldPayload, DeepFreezeIsDeep

LEMMA EndKeepsInstance ==
  ASSUME InstanceInv, UNCHANGED <<vars, instance>>, stage' \in {"failed", "raised"}
  PROVE  InstanceInv'
  <1>1. call.freeze = "deep" => AllFrozen'
    BY DEF InstanceInv, AllFrozen, Variables, vars
  <1>2. QED
    BY <1>1, InstanceStep

LEMMA AllocateStartsInstance ==
  ASSUME InstanceInv, Allocate
  PROVE  InstanceInv'
  <1>1. /\ UNCHANGED <<vars, position, instance>> /\ stage = "validating" /\ stage' = "fields"
        /\ output # {} /\ attributes' \in {{}, {<<>>}}
    BY DEF Allocate, Some, None
  <1>2. Root \in output
    BY <1>1 DEF Root, The
  <1>3. position' = 1 /\ Variables' = {}
    BY <1>1 DEF InstanceInv, Variables
  <1>4. ASSUME RootNode.kind = "struct" PROVE InFields'
    <2>3. Variables' = FieldsDone(position - 1)'
      BY <1>3 DEF FieldsDone
    <2>4. AttributesAre(SymbolKeys(Variables))'
      <3>1. \A h \in attributes' : DOMAIN h = {}
        BY <1>1
      <3>2. SymbolKeys(Variables)' = {}
        BY <1>3 DEF SymbolKeys
      <3>3. QED
        BY <3>1, <3>2 DEF AttributesAre
    <2>5. position' \in 1..(Len(Plan') + 1)
      BY <1>3
    <2>6. QED
      BY <2>3, <2>4, <2>5 DEF InFields
  <1>5. call.freeze = "deep" => AllFrozen'
    BY <1>3 DEF AllFrozen
  <1>6. QED
    BY <1>1, <1>2, <1>4, <1>5, InstanceStep

\* A store under a key adds the key to what @attributes has.
LEMMA StoredKeys ==
  ASSUME NEW keys, AttributesAre(keys), NEW k, NEW r, Stored(k, r)
  PROVE  \A h \in attributes' : DOMAIN h = keys \cup {k}
  BY DEF AttributesAre, Stored, Put

LEMMA SymbolKeysGrow ==
  ASSUME NEW names, NEW k
  PROVE  SymbolKeys(names \cup {k}) = SymbolKeys(names) \cup {SymbolKey(k)}
  BY DEF SymbolKeys

LEMMA FieldKeepsInstance ==
  ASSUME call \in Calls, RootInv, InstanceInv, MaterializeField,
         call.freeze = "deep" => \A r : IsFrozen(Finished(r))
  PROVE  InstanceInv'
  <1> DEFINE name == Plan[position]  value == ValueOf(name)
  <1>1. UNCHANGED vars /\ stage = "fields" /\ position <= Len(Plan) /\ position' = position + 1
    BY DEF MaterializeField
  <1>2. \/ value = None /\ UNCHANGED <<stage, instance, attributes>>
        \/ /\ value # None /\ UNCHANGED stage
           /\ \E r : /\ instance' = [instance EXCEPT !.ivars = Put(@, name, Finished(r))]
                     /\ Stored(SymbolKey(name), Finished(r))
        \/ UNCHANGED instance /\ stage' = "failed"
    BY DEF MaterializeField, End, None
  <1>3. CASE UNCHANGED instance /\ stage' = "failed"
    BY <1>1, <1>3, EndKeepsInstance
  <1>4. CASE value = None /\ UNCHANGED <<stage, instance, attributes>>
    <2>1. Root \in output /\ (call.freeze = "deep" => AllFrozen') /\ Variables' = Variables
      BY <1>1, <1>4 DEF InstanceInv, AllFrozen, Variables
    <2>2. ASSUME RootNode.kind = "struct" PROVE InFields'
      <3>1. /\ position \in 1..(Len(Plan) + 1) /\ Variables = FieldsDone(position - 1)
            /\ AttributesAre(SymbolKeys(Variables))
        BY <1>1, <2>2 DEF InstanceInv, InFields
      <3>2. Len(Plan) \in Nat /\ name \notin Keys(RootEntries) /\ position \in 1..Len(Plan)
        BY <1>1, <1>4, <2>1, <2>2, <3>1, RootFacts
      <3>3. FieldsDone(position) = FieldsDone(position - 1)
        <4>1. \A j : j \in 1..position <=> j \in 1..(position - 1) \/ j = position
          BY <3>2
        <4>2. QED
          BY <3>2, <4>1 DEF FieldsDone
      <3>4. position' - 1 = position /\ position' \in 1..(Len(Plan) + 1)
        BY <1>1, <3>2
      <3>5. Variables' = FieldsDone(position - 1)'
        BY <1>1, <2>1, <3>1, <3>3, <3>4, SamePayload
      <3>6. AttributesAre(SymbolKeys(Variables))'
        BY <1>4, <2>1, <3>1 DEF AttributesAre, SymbolKeys
      <3>7. QED
        BY <1>1, <3>4, <3>5, <3>6, SamePayload DEF InFields
    <2>3. QED
      BY <1>1, <1>4, <2>1, <2>2, InstanceStep
  <1>5. ASSUME NEW r, value # None, UNCHANGED stage,
               instance' = [instance EXCEPT !.ivars = Put(@, name, Finished(r))],
               Stored(SymbolKey(name), Finished(r))
        PROVE  InstanceInv'
    <2>1. instance'.ivars = Put(instance.ivars, name, Finished(r))
      BY <1>5
    <2>2. Variables' = Variables \cup {name}
      BY <2>1 DEF Variables, Put
    <2>3. call.freeze = "deep" => AllFrozen'
      BY <2>1, <2>2 DEF InstanceInv, AllFrozen, Variables, Put
    <2>4. Root \in output
      BY <1>1 DEF InstanceInv
    <2>5. ASSUME RootNode.kind = "struct" PROVE InFields'
      <3>1. /\ position \in 1..(Len(Plan) + 1) /\ Variables = FieldsDone(position - 1)
            /\ AttributesAre(SymbolKeys(Variables))
        BY <1>1, <2>5 DEF InstanceInv, InFields
      <3>2. Len(Plan) \in Nat /\ name \in Keys(RootEntries) /\ position \in 1..Len(Plan)
        BY <1>1, <1>5, <2>4, <2>5, <3>1, RootFacts
      <3>3. FieldsDone(position) = FieldsDone(position - 1) \cup {name}
        <4>1. \A j : j \in 1..position <=> j \in 1..(position - 1) \/ j = position
          BY <3>2
        <4>2. QED
          BY <3>2, <4>1 DEF FieldsDone
      <3>4. position' - 1 = position /\ position' \in 1..(Len(Plan) + 1)
        BY <1>1, <3>2
      <3>5. Variables' = FieldsDone(position - 1)'
        BY <1>1, <2>2, <3>1, <3>3, <3>4, SamePayload
      <3>6. AttributesAre(SymbolKeys(Variables))'
        <4>1. \A h \in attributes' : DOMAIN h = SymbolKeys(Variables \cup {name})
          <5>1. \A h \in attributes' : DOMAIN h = SymbolKeys(Variables) \cup {SymbolKey(name)}
            BY <1>5, <3>1, StoredKeys
          <5>2. SymbolKeys(Variables \cup {name}) = SymbolKeys(Variables) \cup {SymbolKey(name)}
            BY SymbolKeysGrow
          <5> HIDE DEF name
          <5>3. QED
            BY <5>1, <5>2
        <4>2. SymbolKeys(Variables)' = SymbolKeys(Variables \cup {name})
          BY <2>2 DEF SymbolKeys
        <4>3. QED
          BY <4>1, <4>2 DEF AttributesAre
      <3>7. QED
        BY <1>1, <3>4, <3>5, <3>6, SamePayload DEF InFields
    <2>6. QED
      BY <1>1, <1>5, <2>3, <2>4, <2>5, InstanceStep
  <1>6. QED
    BY <1>2, <1>3, <1>4, <1>5

LEMMA StartExtrasKeepsInstance ==
  ASSUME call \in Calls, RootInv, InstanceInv, StartExtras
  PROVE  InstanceInv'
  <1>1. /\ UNCHANGED <<vars, instance, attributes>> /\ stage = "fields" /\ position > Len(Plan)
        /\ stage' = "extras" /\ position' = 1
    BY DEF StartExtras
  <1>2. Root \in output /\ (call.freeze = "deep" => AllFrozen') /\ Variables' = Variables
    BY <1>1 DEF InstanceInv, AllFrozen, Variables
  <1>3. ASSUME RootNode.kind = "struct" PROVE InExtras'
    <2>1. /\ position \in 1..(Len(Plan) + 1) /\ Variables = FieldsDone(position - 1)
          /\ AttributesAre(SymbolKeys(Variables))
      BY <1>1, <1>3 DEF InstanceInv, InFields
    <2>2. /\ Len(Plan) \in Nat /\ FieldNames(RootNode) = {Plan[j] : j \in 1..Len(Plan)}
          /\ ExtrasOf(Root) \in Entries
      BY <1>2, <1>3, RootFacts
    <2>3. position - 1 = Len(Plan)
      BY <1>1, <2>1, <2>2
    <2>4. Variables = FieldNames(RootNode) \cap Keys(RootEntries)
      BY <2>1, <2>2, <2>3 DEF FieldsDone
    <2>5. ExtraKeys(0) = {}
      BY DEF ExtraKeys
    <2>6. ExtraKeys(position - 1)' = {}
      <3>1. position' - 1 = 0
        BY <1>1
      <3>2. QED
        BY <1>1, <2>5, <3>1, SamePayload
    <2>7. SymbolKeys(Variables)' = SymbolKeys(Variables)
      BY <1>2 DEF SymbolKeys
    <2>8. AttributesAre(SymbolKeys(Variables) \cup ExtraKeys(position - 1))'
      <3>1. \A h \in attributes' : DOMAIN h = SymbolKeys(Variables)
        BY <1>1, <2>1 DEF AttributesAre
      <3>2. QED
        BY <2>6, <2>7, <3>1 DEF AttributesAre
    <2>9. position' \in 1..(Len(ExtrasOf(Root)') + 1)
      <3>1. ExtrasOf(Root)' = ExtrasOf(Root) /\ Len(ExtrasOf(Root)) \in Nat
        BY <1>1, <2>2, SamePayload, LenProperties DEF Entries
      <3>2. QED
        BY <1>1, <3>1
    <2>10. QED
      BY <1>1, <1>2, <2>4, <2>8, <2>9, SamePayload DEF InExtras
  <1>4. QED
    BY <1>1, <1>2, <1>3, InstanceStep

LEMMA ExtraKeepsInstance ==
  ASSUME call \in Calls, RootInv, InstanceInv, MaterializeExtra
  PROVE  InstanceInv'
  <1> DEFINE e == ExtrasOf(Root)[position]
  <1>1. /\ UNCHANGED <<vars, instance>> /\ stage = "extras" /\ position <= Len(ExtrasOf(Root))
        /\ position' = position + 1
        /\ \/ /\ UNCHANGED stage
              /\ \E r : Stored(StringKey(e.key), Finished(r))
           \/ stage' = "failed"
    BY DEF MaterializeExtra, End
  <1>2. CASE stage' = "failed"
    BY <1>1, <1>2, EndKeepsInstance
  <1>3. ASSUME NEW r, UNCHANGED stage, Stored(StringKey(e.key), r)
        PROVE  InstanceInv'
    <2>1. Root \in output /\ (call.freeze = "deep" => AllFrozen') /\ Variables' = Variables
      BY <1>1 DEF InstanceInv, AllFrozen, Variables
    <2>2. ASSUME RootNode.kind = "struct" PROVE InExtras'
      <3>1. /\ position \in 1..(Len(ExtrasOf(Root)) + 1)
            /\ Variables = FieldNames(RootNode) \cap Keys(RootEntries)
            /\ AttributesAre(SymbolKeys(Variables) \cup ExtraKeys(position - 1))
        BY <1>1, <2>2 DEF InstanceInv, InExtras
      <3>2. Len(ExtrasOf(Root)) \in Nat
        BY <2>1, <2>2, RootFacts, LenProperties DEF Entries
      <3>3. /\ position' - 1 = position /\ position' \in 1..(Len(ExtrasOf(Root)) + 1)
            /\ position \in Nat \ {0}
        <4> DEFINE n == Len(ExtrasOf(Root))
        <4>1. n \in Nat /\ position \in 1..(n + 1) /\ position <= n /\ position' = position + 1
          BY <1>1, <3>1, <3>2
        <4> HIDE DEF n
        <4>2. position' - 1 = position /\ position' \in 1..(n + 1) /\ position \in Nat \ {0}
          BY <4>1
        <4>3. QED
          BY <4>2 DEF n
      <3>4. ExtraKeys(position) = ExtraKeys(position - 1) \cup {StringKey(e.key)}
        <4>1. \A j : j \in 1..position <=> j \in 1..(position - 1) \/ j = position
          BY <3>3
        <4>2. QED
          BY <4>1 DEF ExtraKeys
      <3>5. \A h \in attributes' : DOMAIN h = SymbolKeys(Variables) \cup ExtraKeys(position)
        <4> DEFINE K == SymbolKeys(Variables) \cup ExtraKeys(position - 1)
        <4>1. \A h \in attributes' : DOMAIN h = K \cup {StringKey(e.key)}
          <5>1. AttributesAre(K)
            BY <3>1
          <5> HIDE DEF K
          <5>2. QED
            BY <1>3, <5>1, StoredKeys
        <4>2. QED
          BY <3>4, <4>1
      <3>6. /\ SymbolKeys(Variables)' = SymbolKeys(Variables)
            /\ ExtraKeys(position - 1)' = ExtraKeys(position)
        <4>1. SymbolKeys(Variables)' = SymbolKeys(Variables)
          BY <2>1 DEF SymbolKeys
        <4>2. ExtraKeys(position - 1)' = ExtraKeys(position)
          BY <1>1, <3>3, SamePayload
        <4>3. QED
          BY <4>1, <4>2
      <3>7. AttributesAre(SymbolKeys(Variables) \cup ExtraKeys(position - 1))'
        BY <3>5, <3>6 DEF AttributesAre
      <3>8. QED
        BY <1>1, <2>1, <3>1, <3>3, <3>7, SamePayload DEF InExtras
    <2>3. QED
      BY <1>1, <1>3, <2>1, <2>2, InstanceStep
  <1>4. QED
    BY <1>1, <1>2, <1>3

LEMMA FinalizeEndsInstance ==
  ASSUME call \in Calls, RootInv, InstanceInv, Finalize,
         \A r : IsFrozen(DeepFreeze(r))
  PROVE  InstanceInv'
  <1> DEFINE hash(h) == CASE call.freeze = "none" -> RHash(h)
                          [] call.freeze = "shallow" -> Freeze(RHash(h))
                          [] call.freeze = "deep" -> DeepFreeze(RHash(h))
             x == hash(The(attributes))
             ivars == IF call.store THEN Put(instance.ivars, "attributes", x) ELSE instance.ivars
  <1>1. /\ UNCHANGED <<vars, position, attributes>> /\ stage = "extras"
        /\ position > Len(ExtrasOf(Root)) /\ stage' = "returned"
        /\ instance' = [ivars |-> ivars, frozen |-> call.freeze # "none"]
    BY DEF Finalize, End
  <1>2. call.freeze = "deep" => IsFrozen(x)
    <2> HAVE call.freeze = "deep"
    <2>1. x = DeepFreeze(RHash(The(attributes)))
      OBVIOUS
    <2> HIDE DEF x
    <2>2. QED
      BY <2>1
  <1> HIDE DEF x
  <1>3. instance'.ivars = ivars /\ instance'.frozen = (call.freeze # "none")
    BY <1>1
  <1>4. Variables' = IF call.store THEN Variables \cup {"attributes"} ELSE Variables
    BY <1>3 DEF Variables, Put
  <1>5. call.freeze = "deep" => AllFrozen'
    <2> HAVE call.freeze = "deep"
    <2>1. \A y \in Variables : IsFrozen(instance.ivars[y])
      BY DEF InstanceInv, AllFrozen
    <2>2. CASE call.store
      BY <1>2, <1>3, <1>4, <2>1, <2>2 DEF AllFrozen, Variables, Put
    <2>3. CASE ~call.store
      BY <1>3, <1>4, <2>1, <2>3 DEF AllFrozen, Variables
    <2>4. QED
      BY <2>2, <2>3
  <1> HIDE DEF ivars
  <1>6. Root \in output /\ call' = call /\ RootNode' = RootNode /\ RootEntries' = RootEntries
    BY <1>1, SamePayload DEF InstanceInv
  <1>7. DeepFreezeIsDeep'
    BY <1>3, <1>5, <1>6 DEF DeepFreezeIsDeep, AllFrozen, Variables
  <1>8. RootNode.kind = "struct" => InExtras
    BY <1>1 DEF InstanceInv
  <1>9. FieldsReachInstance'
    <2>1. RootNode.kind = "struct" =>
            Variables' = (FieldNames(RootNode) \cap Keys(RootEntries))
                           \cup (IF call.store THEN {"attributes"} ELSE {})
      BY <1>4, <1>8 DEF InExtras
    <2>2. QED
      BY <1>6, <2>1 DEF FieldsReachInstance, Variables, RootNode, RootEntries, Payload
  <1>10. AttributesHoldPayload'
    <2> SUFFICES ASSUME RootNode.kind = "struct", call.extra = "allow", NEW h \in attributes
                 PROVE  DOMAIN h = {IF k \in FieldNames(RootNode) THEN SymbolKey(k) ELSE StringKey(k) :
                                      k \in Keys(RootEntries)}
      BY <1>1, <1>6 DEF AttributesHoldPayload, RootNode, RootEntries, Payload
    <2> DEFINE n == Len(ExtrasOf(Root))
    <2>1. /\ ExtrasOf(Root) \in Entries
          /\ Keys(ExtrasOf(Root)) = Keys(RootEntries) \ FieldNames(RootNode)
      BY <1>6, RootFacts
    <2>2. n \in Nat /\ DOMAIN ExtrasOf(Root) = 1..n
      BY <2>1, LenProperties DEF Entries
    <2>3. position \in 1..(n + 1) /\ position > n
      BY <1>1, <1>8 DEF InExtras
    <2> HIDE DEF n
    <2>4. position - 1 = n
      BY <2>2, <2>3
    <2>5. ExtraKeys(n) = {StringKey(k) : k \in Keys(RootEntries) \ FieldNames(RootNode)}
      <3>1. ExtraKeys(n) = {StringKey(k) : k \in Keys(ExtrasOf(Root))}
        BY <2>2 DEF ExtraKeys, Keys
      <3>2. QED
        BY <2>1, <3>1
    <2>6. DOMAIN h = SymbolKeys(FieldNames(RootNode) \cap Keys(RootEntries)) \cup ExtraKeys(n)
      BY <1>8, <2>4 DEF InExtras, AttributesAre
    <2>7. QED
      BY <2>5, <2>6 DEF SymbolKeys
  <1>11. QED
    BY <1>1, <1>5, <1>6, <1>7, <1>9, <1>10 DEF InstanceInv

(***************************************************************************)
(* Freezing.                                                               *)
(***************************************************************************)
\* What is inside an object, level by level.
LEMMA LevelsUnfold ==
  ASSUME NEW r
  PROVE  Levels(r, Inside) =
           [k \in 0..Depth |-> IF k = 0 THEN {r} ELSE UNION {Inside(y) : y \in Levels(r, Inside)[k - 1]}]
  <1> DEFINE L(g, k) == IF k = 0 THEN {r} ELSE UNION {Inside(y) : y \in g[k - 1]}
             S == {n \in Nat : \E g : g = [k \in 0..n |-> L(g, k)]}
  <1>1. ASSUME NEW g, NEW h, NEW k \in Nat, k = 0 \/ g[k - 1] = h[k - 1]
        PROVE  L(g, k) = L(h, k)
    BY <1>1
  <1> HIDE DEF L
  <1>2. 0 \in S
    <2> DEFINE e == [k \in 0..0 |-> L(<<>>, 0)]
    <2>1. \A k \in 0..0 : L(e, k) = L(<<>>, 0)
      <3> HIDE DEF e
      <3>1. L(e, 0) = L(<<>>, 0)
        BY <1>1
      <3>2. QED
        BY <3>1
    <2>2. e = [k \in 0..0 |-> L(e, k)]
      BY <2>1
    <2> HIDE DEF e
    <2>3. QED
      BY <2>2
  <1>3. ASSUME NEW n \in Nat, n \in S PROVE n + 1 \in S
    <2>1. PICK g : g = [k \in 0..n |-> L(g, k)]
      BY <1>3
    <2> DEFINE h == [k \in 0..(n + 1) |-> IF k <= n THEN g[k] ELSE L(g, k)]
    <2>2. ASSUME NEW k \in 0..(n + 1) PROVE h[k] = L(h, k)
      <3>1. k = 0 \/ g[k - 1] = h[k - 1]
        OBVIOUS
      <3> HIDE DEF h
      <3>2. L(g, k) = L(h, k)
        BY <3>1, <1>1
      <3>3. QED
        BY <2>1, <3>2 DEF h
    <2>3. h = [k \in 0..(n + 1) |-> h[k]]
      OBVIOUS
    <2> HIDE DEF h
    <2>4. h = [k \in 0..(n + 1) |-> L(h, k)]
      BY <2>2, <2>3
    <2>5. QED
      BY <2>4
  <1>4. Depth \in S
    <2>1. Depth \in Nat
      BY DepthAssumption
    <2> HIDE DEF S
    <2>2. QED
      BY <1>2, <1>3, <2>1, SetInduction
  <1>5. \E g : g = [k \in 0..Depth |-> IF k = 0 THEN {r} ELSE UNION {Inside(y) : y \in g[k - 1]}]
    BY <1>4 DEF L
  <1> DEFINE level == CHOOSE g :
               g = [k \in 0..Depth |-> IF k = 0 THEN {r} ELSE UNION {Inside(y) : y \in g[k - 1]}]
  <1>6. level = [k \in 0..Depth |-> IF k = 0 THEN {r} ELSE UNION {Inside(y) : y \in level[k - 1]}]
    BY <1>5
  <1>7. Levels(r, Inside) = level
    BY DEF Levels
  <1> HIDE DEF level
  <1>8. QED
    BY <1>6, <1>7

LEMMA LevelFacts ==
  ASSUME NEW r
  PROVE  /\ Levels(r, Inside)[0] = {r}
         /\ \A k \in 0..Depth : k + 1 \in 0..Depth =>
              Levels(r, Inside)[k + 1] = UNION {Inside(y) : y \in Levels(r, Inside)[k]}
  <1> DEFINE l == Levels(r, Inside)
  <1>1. Depth \in Nat
    BY DepthAssumption
  <1>2. l = [k \in 0..Depth |-> IF k = 0 THEN {r} ELSE UNION {Inside(y) : y \in l[k - 1]}]
    BY LevelsUnfold
  <1> HIDE DEF l
  <1>3. l[0] = {r}
    BY <1>1, <1>2
  <1>4. ASSUME NEW k \in 0..Depth, k + 1 \in 0..Depth
        PROVE  l[k + 1] = UNION {Inside(y) : y \in l[k]}
    <2>1. l[k + 1] = UNION {Inside(y) : y \in l[(k + 1) - 1]}
      BY <1>1, <1>2, <1>4
    <2>2. (k + 1) - 1 = k
      BY <1>1
    <2>3. QED
      BY <2>1, <2>2
  <1>5. QED
    BY <1>3, <1>4 DEF l

\* deep_freeze_value is made of what it returns of the things k levels above
\* the deepest.
LEMMA DeepFreezeUnfolds ==
  ASSUME NEW r
  PROVE  \E made :
           /\ made = [k \in 0..Depth |->
                        [y \in Levels(r, Inside)[Depth - k] |->
                           FrozenWith(y, IF k = 0 THEN <<>> ELSE made[k - 1])]]
           /\ DeepFreeze(r) = made[Depth][r]
  <1> DEFINE L(g, k) == [y \in Levels(r, Inside)[Depth - k] |->
                           FrozenWith(y, IF k = 0 THEN <<>> ELSE g[k - 1])]
             S == {n \in Nat : \E g : g = [k \in 0..n |-> L(g, k)]}
  <1>1. ASSUME NEW g, NEW h, NEW k \in Nat, k = 0 \/ g[k - 1] = h[k - 1]
        PROVE  L(g, k) = L(h, k)
    <2>1. (IF k = 0 THEN <<>> ELSE g[k - 1]) = (IF k = 0 THEN <<>> ELSE h[k - 1])
      BY <1>1
    <2>2. QED
      BY <2>1
  <1> HIDE DEF L
  <1>2. 0 \in S
    <2> DEFINE e == [k \in 0..0 |-> L(<<>>, 0)]
    <2>1. \A k \in 0..0 : L(e, k) = L(<<>>, 0)
      <3> HIDE DEF e
      <3>1. L(e, 0) = L(<<>>, 0)
        BY <1>1
      <3>2. QED
        BY <3>1
    <2>2. e = [k \in 0..0 |-> L(e, k)]
      BY <2>1
    <2> HIDE DEF e
    <2>3. QED
      BY <2>2
  <1>3. ASSUME NEW n \in Nat, n \in S PROVE n + 1 \in S
    <2>1. PICK g : g = [k \in 0..n |-> L(g, k)]
      BY <1>3
    <2> DEFINE h == [k \in 0..(n + 1) |-> IF k <= n THEN g[k] ELSE L(g, k)]
    <2>2. ASSUME NEW k \in 0..(n + 1) PROVE h[k] = L(h, k)
      <3>1. k = 0 \/ g[k - 1] = h[k - 1]
        OBVIOUS
      <3> HIDE DEF h
      <3>2. L(g, k) = L(h, k)
        BY <3>1, <1>1
      <3>3. QED
        BY <2>1, <3>2 DEF h
    <2>3. h = [k \in 0..(n + 1) |-> h[k]]
      OBVIOUS
    <2> HIDE DEF h
    <2>4. h = [k \in 0..(n + 1) |-> L(h, k)]
      BY <2>2, <2>3
    <2>5. QED
      BY <2>4
  <1>4. Depth \in S
    <2>1. Depth \in Nat
      BY DepthAssumption
    <2> HIDE DEF S
    <2>2. QED
      BY <1>2, <1>3, <2>1, SetInduction
  <1>5. \E g : g = [k \in 0..Depth |->
                      [y \in Levels(r, Inside)[Depth - k] |->
                         FrozenWith(y, IF k = 0 THEN <<>> ELSE g[k - 1])]]
    BY <1>4 DEF L
  <1> DEFINE made == CHOOSE g :
               g = [k \in 0..Depth |->
                      [y \in Levels(r, Inside)[Depth - k] |->
                         FrozenWith(y, IF k = 0 THEN <<>> ELSE g[k - 1])]]
  <1>6. made = [k \in 0..Depth |->
                  [y \in Levels(r, Inside)[Depth - k] |->
                     FrozenWith(y, IF k = 0 THEN <<>> ELSE made[k - 1])]]
    BY <1>5
  <1>7. DeepFreeze(r) = made[Depth][r]
    BY DEF DeepFreeze, Recursively
  <1> HIDE DEF made
  <1>8. QED
    BY <1>6, <1>7

\* What it returns of one thing is frozen, and holds only what it returned of
\* the things in it.
LEMMA FrozenWithFacts ==
  ASSUME NEW y, NEW inner
  PROVE  LET x == FrozenWith(y, inner) IN
         /\ x.class \in {"String", "Array", "Hash"} => x.frozen
         /\ Inside(x) = {inner[z] : z \in Inside(y)}
  <1> DEFINE x == FrozenWith(y, inner)
  <1>1. CASE y.class = "Array"
    <2> DEFINE f == [i \in DOMAIN y.items |-> inner[y.items[i]]]
    <2>1. DOMAIN f = DOMAIN y.items /\ \A i \in DOMAIN f : f[i] = inner[y.items[i]]
      OBVIOUS
    <2>2. x = Freeze(RArray(f))
      BY <1>1 DEF FrozenWith
    <2>3. Inside(y) = {y.items[i] : i \in DOMAIN y.items}
      BY <1>1 DEF Inside, ToSet
    <2> HIDE DEF f, x
    <2>4. x.class = "Array" /\ x.items = f /\ x.frozen = TRUE
      BY <2>2 DEF Freeze, RArray
    <2>5. Inside(x) = {f[i] : i \in DOMAIN f}
      BY <2>4 DEF Inside, ToSet
    <2>6. Inside(x) = {inner[z] : z \in Inside(y)}
      BY <2>1, <2>3, <2>5
    <2>7. QED
      BY <2>4, <2>6 DEF x
  <1>2. CASE y.class = "Hash"
    <2> DEFINE f == [k \in DOMAIN y.pairs |-> inner[y.pairs[k]]]
    <2>1. DOMAIN f = DOMAIN y.pairs /\ \A k \in DOMAIN f : f[k] = inner[y.pairs[k]]
      OBVIOUS
    <2>2. x = Freeze(RHash(f))
      BY <1>2 DEF FrozenWith
    <2>3. Inside(y) = {y.pairs[k] : k \in DOMAIN y.pairs}
      BY <1>2 DEF Inside
    <2> HIDE DEF f, x
    <2>4. x.class = "Hash" /\ x.pairs = f /\ x.frozen = TRUE
      BY <2>2 DEF Freeze, RHash
    <2>5. Inside(x) = {f[k] : k \in DOMAIN f}
      BY <2>4 DEF Inside
    <2>6. Inside(x) = {inner[z] : z \in Inside(y)}
      BY <2>1, <2>3, <2>5
    <2>7. QED
      BY <2>4, <2>6 DEF x
  <1>3. CASE y.class \notin {"Array", "Hash"}
    <2>1. Inside(y) = {}
      BY <1>3 DEF Inside
    <2>2. x = Freeze(y)
      BY <1>3 DEF FrozenWith
    <2>3. CASE y.class = "String"
      <3> DEFINE s == [RString(y.text) EXCEPT !.frozen = TRUE]
      <3>1. s.class = "String" /\ s.frozen = TRUE
        BY DEF RString
      <3>2. x = s
        BY <2>2, <2>3 DEF Freeze
      <3> HIDE DEF s, x
      <3>3. Inside(x) = {}
        BY <3>1, <3>2 DEF Inside
      <3>4. QED
        BY <2>1, <3>1, <3>2, <3>3 DEF x
    <2>4. CASE y.class # "String"
      <3>1. x = y
        BY <1>3, <2>2, <2>4 DEF Freeze
      <3> HIDE DEF x
      <3>2. QED
        BY <1>3, <2>1, <2>4, <3>1 DEF x
    <2>5. QED
      BY <2>3, <2>4
  <1>4. QED
    BY <1>1, <1>2, <1>3

\* What is k levels inside a deeply frozen object was made of something k
\* levels inside the object.
LEMMA DeepFreezeFreezes ==
  ASSUME NEW r
  PROVE  IsFrozen(DeepFreeze(r))
  <1> DEFINE from == Levels(r, Inside)
             result == DeepFreeze(r)
             to == Levels(result, Inside)
  <1>1. PICK made :
          /\ made = [k \in 0..Depth |->
                       [y \in from[Depth - k] |->
                          FrozenWith(y, IF k = 0 THEN <<>> ELSE made[k - 1])]]
          /\ result = made[Depth][r]
    BY DeepFreezeUnfolds
  <1>2. Depth \in Nat
    BY DepthAssumption
  <1>3. /\ from[0] = {r}
        /\ \A k \in 0..Depth : k + 1 \in 0..Depth => from[k + 1] = UNION {Inside(y) : y \in from[k]}
    BY LevelFacts
  <1>4. /\ to[0] = {result}
        /\ \A k \in 0..Depth : k + 1 \in 0..Depth => to[k + 1] = UNION {Inside(y) : y \in to[k]}
    BY LevelFacts
  <1> HIDE DEF from, result, to
  <1> DEFINE inner(k) == IF k = 0 THEN <<>> ELSE made[k - 1]
  <1>5. ASSUME NEW k \in 0..Depth, NEW y \in from[Depth - k]
        PROVE  made[k][y] = FrozenWith(y, inner(k))
    <2> DEFINE row == [z \in from[Depth - k] |-> FrozenWith(z, inner(k))]
    <2>1. made[k] = row
      BY <1>1
    <2>2. row[y] = FrozenWith(y, inner(k))
      BY <1>5
    <2> HIDE DEF row
    <2>3. QED
      BY <2>1, <2>2
  <1> HIDE DEF inner
  <1> DEFINE MadeOf(k) == \A x \in to[k] : \E y \in from[k] : x = made[Depth - k][y]
             S == {k \in Nat : k <= Depth => MadeOf(k)}
  <1>6. 0 \in S
    <2>1. Depth - 0 = Depth
      BY <1>2
    <2>2. result = made[Depth - 0][r] /\ r \in from[0]
      BY <1>1, <1>3, <2>1
    <2>3. \A x \in to[0] : x = result
      BY <1>4
    <2>4. MadeOf(0)
      BY <2>2, <2>3
    <2>5. QED
      BY <2>4
  <1>7. ASSUME NEW k \in Nat, k \in S PROVE k + 1 \in S
    <2> SUFFICES ASSUME k + 1 <= Depth, NEW x \in to[k + 1]
                 PROVE  \E z \in from[k + 1] : x = made[Depth - (k + 1)][z]
      OBVIOUS
    <2>1. k \in 0..Depth /\ k + 1 \in 0..Depth /\ Depth - k \in 0..Depth /\ Depth - k # 0
          /\ Depth - (Depth - k) = k /\ (Depth - k) - 1 = Depth - (k + 1) /\ k <= Depth
      BY <1>2
    <2>2. PICK w \in to[k] : x \in Inside(w)
      BY <1>4, <2>1
    <2>3. PICK y \in from[k] : w = made[Depth - k][y]
      BY <1>7, <2>1, <2>2
    <2>4. w = FrozenWith(y, inner(Depth - k))
      BY <1>5, <2>1, <2>3
    <2>5. Inside(w) = {inner(Depth - k)[z] : z \in Inside(y)}
      BY <2>4, FrozenWithFacts
    <2>6. PICK z \in Inside(y) : x = inner(Depth - k)[z]
      BY <2>2, <2>5
    <2>7. inner(Depth - k) = made[Depth - (k + 1)]
      BY <2>1 DEF inner
    <2>8. z \in from[k + 1]
      BY <1>3, <2>1, <2>3, <2>6
    <2>9. QED
      BY <2>6, <2>7, <2>8
  <1>8. \A k \in Nat : k \in S
    <2> HIDE DEF S
    <2>1. QED
      BY <1>6, <1>7, SetInduction
  <1>9. ASSUME NEW k \in 0..Depth, NEW x \in to[k], x.class \in {"String", "Array", "Hash"}
        PROVE  x.frozen
    <2>1. MadeOf(k)
      BY <1>2, <1>8
    <2>2. PICK y \in from[k] : x = made[Depth - k][y]
      BY <2>1
    <2>3. x = FrozenWith(y, inner(Depth - k))
      <3>1. Depth - k \in 0..Depth /\ Depth - (Depth - k) = k
        BY <1>2
      <3>2. QED
        BY <1>5, <2>2, <3>1
    <2>4. QED
      BY <1>9, <2>3, FrozenWithFacts
  <1>10. QED
    BY <1>9 DEF IsFrozen, to, result

(***************************************************************************)
(* Every step of the materialisation.                                      *)
(***************************************************************************)
LEMMA MaterializeKeepsInstance ==
  TypeInv /\ RootInv /\ InstanceInv /\ [MNext]_<<vars, mvars>> => InstanceInv'
  <1> SUFFICES ASSUME TypeInv, RootInv, InstanceInv, [MNext]_<<vars, mvars>>
               PROVE  InstanceInv'
    OBVIOUS
  <1>1. call \in Calls
    BY DEF TypeInv
  <1>2. \A r : IsFrozen(DeepFreeze(r))
    BY DeepFreezeFreezes
  <1>3. call.freeze = "deep" => \A r : IsFrozen(Finished(r))
    BY <1>2 DEF Finished
  <1>4. CASE Validate
    BY <1>4, ValidateKeepsInstance
  <1>5. CASE RejectRoot
    BY <1>5, EndKeepsInstance DEF RejectRoot, End
  <1>6. CASE Allocate
    BY <1>6, AllocateStartsInstance
  <1>7. CASE MaterializeField
    BY <1>1, <1>3, <1>7, FieldKeepsInstance
  <1>8. CASE StartExtras
    BY <1>1, <1>8, StartExtrasKeepsInstance
  <1>9. CASE MaterializeExtra
    BY <1>1, <1>9, ExtraKeepsInstance
  <1>10. CASE Finalize
    BY <1>1, <1>2, <1>10, FinalizeEndsInstance
  <1>11. CASE RubyRaises
    BY <1>11, EndKeepsInstance DEF RubyRaises
  <1>12. CASE UNCHANGED <<vars, mvars>>
    <2>1. UNCHANGED <<vars, stage, position, instance, attributes>>
      BY <1>12 DEF mvars
    <2>2. /\ RootNode' = RootNode /\ RootEntries' = RootEntries /\ Plan' = Plan /\ Root' = Root
          /\ \A n : FieldsDone(n)' = FieldsDone(n)
          /\ \A n : ExtraKeys(n)' = ExtraKeys(n)
      BY <2>1, SamePayload
    <2>3. call' = call /\ output' = output /\ Variables' = Variables
      BY <2>1, SamePayload DEF Variables
    <2>4. AllFrozen' <=> AllFrozen
      BY <2>1, <2>3 DEF AllFrozen
    <2>5. \A keys : AttributesAre(keys)' <=> AttributesAre(keys)
      BY <2>1 DEF AttributesAre
    <2>6. InFields' <=> InFields
      BY <2>1, <2>2, <2>3, <2>5 DEF InFields
    <2>7. InExtras' <=> InExtras
      BY <2>1, <2>2, <2>3, <2>5 DEF InExtras
    <2>8. FieldsReachInstance' <=> FieldsReachInstance
      BY <2>1, <2>3 DEF FieldsReachInstance, Payload, Node
    <2>9. AttributesHoldPayload' <=> AttributesHoldPayload
      BY <2>1, <2>3 DEF AttributesHoldPayload, Payload, Node
    <2>10. DeepFreezeIsDeep' <=> DeepFreezeIsDeep
      BY <2>1, <2>3 DEF DeepFreezeIsDeep
    <2>11. QED
      BY <2>1, <2>2, <2>3, <2>4, <2>6, <2>7, <2>8, <2>9, <2>10 DEF InstanceInv
  <1>13. QED
    BY <1>4, <1>5, <1>6, <1>7, <1>8, <1>9, <1>10, <1>11, <1>12 DEF MNext

\* The invariant of a call: that of its validation, and that of its instance.
CallInv ==
  TypeInv /\ ExpectNeverPanics /\ PathMirrorsStack /\ JudgeInv /\ RootInv /\ InstanceInv

LEMMA MaterializeKeepsCall == CallInv /\ [MNext]_<<vars, mvars>> => CallInv'
  <1> SUFFICES ASSUME CallInv, [MNext]_<<vars, mvars>> PROVE CallInv'
    OBVIOUS
  <1>1. TypeInv /\ ExpectNeverPanics /\ PathMirrorsStack /\ JudgeInv /\ RootInv /\ InstanceInv
    BY DEF CallInv
  <1>2. [Next]_vars
    BY AfterValidation
  <1>3. TypeInv' /\ ExpectNeverPanics' /\ PathMirrorsStack' /\ JudgeInv' /\ RootInv'
    BY <1>1, <1>2, TypeStep, ExplainedStep, PathStep, JudgeStep, RootStep
  <1>4. InstanceInv'
    BY <1>1, MaterializeKeepsInstance
  <1>5. QED
    BY <1>3, <1>4 DEF CallInv

LEMMA MaterializeStartsCall == MInit => CallInv
  <1> SUFFICES ASSUME MInit PROVE CallInv
    OBVIOUS
  <1>1. Init
    BY DEF MInit
  <1>2. ExpectNeverPanics
    BY <1>1 DEF Init, ExpectNeverPanics
  <1>3. PathMirrorsStack
    BY <1>1, EmptySeq DEF Init, PathMirrorsStack, Spine
  <1>4. QED
    BY <1>1, <1>2, <1>3, TypeInit, JudgeInit, RootInit, InstanceInit DEF CallInv

LEMMA CallInvImplies ==
  CallInv => FieldsReachInstance /\ AttributesHoldPayload /\ DeepFreezeIsDeep
  BY DEF CallInv, InstanceInv

\* For every schema and payload: the instance that build returns has a variable
\* for exactly those fields of the struct at the root that the payload holds.
THEOREM InstanceHasThePayload == MSpec => []FieldsReachInstance
  <1>1. CallInv => FieldsReachInstance
    BY CallInvImplies
  <1>2. QED
    BY <1>1, MaterializeStartsCall, MaterializeKeepsCall, PTL DEF MSpec

\* For every schema and payload: where extra keys are allowed, @attributes has
\* an entry for each key of the payload and no other, whatever their order.
THEOREM AttributesHaveThePayload == MSpec => []AttributesHoldPayload
  <1>1. CallInv => AttributesHoldPayload
    BY CallInvImplies
  <1>2. QED
    BY <1>1, MaterializeStartsCall, MaterializeKeepsCall, PTL DEF MSpec

\* With freeze: :deep every string, array and hash that can be reached from the
\* returned instance is frozen, however they are nested.
THEOREM FreezeReachesEverything == MSpec => []DeepFreezeIsDeep
  <1>1. CallInv => DeepFreezeIsDeep
    BY CallInvImplies
  <1>2. QED
    BY <1>1, MaterializeStartsCall, MaterializeKeepsCall, PTL DEF MSpec

(***************************************************************************)
(* No offence is reported twice.                                           *)
(***************************************************************************)
\* Only the innermost frame scans the keys of its payload.
Scanning ==
  \A k \in 1..Len(stack) :
    k < Len(stack) \/ pc \in {"visit", "return"} => stack[k].loop # "extras"

\* The segments of the positions that a frame has passed.
Passed(f) ==
  {SegmentOf([f EXCEPT !.next = j]) : j \in 1..(f.next - 1)}
    \cup {KeySegment(name) : name \in IF f.loop = "extras" THEN FieldNames(Node(f.node)) ELSE {}}

\* A path follows that of the first k frames of s, and parts from the frames
\* at the next one, by a member that is done with.
Follows(s, p, k) == Len(p) >= k /\ \A h \in 1..k : p[h] = SegmentOf(s[h])
PartsAt(s, p, k) == Follows(s, p, k - 1) /\ Len(p) >= k /\ p[k] \in Passed(s[k])
Parts(s, p) == \E k \in 1..Len(s) : PartsAt(s, p, k)

\* Nothing will be reported at such a path any more.
Past(p) == Parts(stack, p) \/ (pc = "return" /\ Follows(stack, p, Len(stack)))

Indexed(p) == \A h \in 1..Len(p) : "index" \in DOMAIN p[h] => p[h].index \in DOMAIN Numeral

ReportedOnce ==
  DistinctFields(call.schema) =>
    \A i, j \in 1..Len(issues) :
      i # j /\ issues[i].code = issues[j].code /\ issues[i].path = issues[j].path
        => RepeatsKey(call.input.value, issues[i].path)

OrderInv ==
  /\ Scanning
  /\ pc # "done" => \A i \in 1..Len(issues) : Past(issues[i].path)
  /\ \A i \in 1..Len(issues) : Indexed(issues[i].path)
  /\ ReportedOnce

\* A position that is passed is added to those that were.
LEMMA AdvancePasses ==
  ASSUME NEW f \in Frames, NEW g, g = [f EXCEPT !.next = @ + 1]
  PROVE  Passed(f) \subseteq Passed(g) /\ SegmentOf(f) \in Passed(g)
  <1>1. f = [loop |-> f.loop, node |-> f.node, value |-> f.value, next |-> f.next] /\ f.next \in Nat \ {0}
    BY DEF Frames
  <1>2. /\ g.loop = f.loop /\ g.node = f.node /\ g.value = f.value /\ g.next = f.next + 1
        /\ \A j : [g EXCEPT !.next = j] = [f EXCEPT !.next = j]
        /\ [g EXCEPT !.next = f.next] = f
    BY <1>1
  <1> DEFINE n == f.next  m == g.next
  <1>3. n \in Nat \ {0} /\ m = n + 1
    BY <1>1, <1>2
  <1> HIDE DEF n, m
  <1>4. n \in 1..(m - 1) /\ \A j \in 1..(n - 1) : j \in 1..(m - 1)
    BY <1>3
  <1>5. Passed(f) \subseteq Passed(g)
    <2>1. \A j \in 1..(f.next - 1) : j \in 1..(g.next - 1)
      BY <1>4 DEF n, m
    <2> DEFINE At(e, j) == SegmentOf([e EXCEPT !.next = j])
               More(e) == {KeySegment(name) : name \in IF e.loop = "extras" THEN FieldNames(Node(e.node)) ELSE {}}
    <2>2. \A j : At(g, j) = At(f, j)
      BY <1>2
    <2>3. More(g) = More(f)
      BY <1>2
    <2>4. \A e : Passed(e) = {At(e, j) : j \in 1..(e.next - 1)} \cup More(e)
      BY DEF Passed
    <2> HIDE DEF At, More
    <2>5. QED
      BY <2>1, <2>2, <2>3, <2>4
  <1>6. SegmentOf(f) \in Passed(g)
    BY <1>2, <1>4 DEF Passed, n, m
  <1>7. QED
    BY <1>5, <1>6

\* The segment of a position of a frame.
LEMMA SegmentAt ==
  ASSUME NEW f \in Frames, NEW j
  PROVE  /\ f.loop = "list" => SegmentOf([f EXCEPT !.next = j]) = IndexSegment(j - 1)
         /\ f.loop = "fields" => SegmentOf([f EXCEPT !.next = j]) = KeySegment(Node(f.node).fields[j].name)
         /\ f.loop \in {"dict", "extras"} =>
              SegmentOf([f EXCEPT !.next = j]) = KeySegment(f.value.entries[j].key)
  <1> DEFINE g == [f EXCEPT !.next = j]
  <1>1. g.loop = f.loop /\ g.node = f.node /\ g.value = f.value /\ g.next = j
    BY DEF Frames
  <1> HIDE DEF g
  <1>2. QED
    BY <1>1 DEF SegmentOf, g

\* All fields of a struct are behind it when it turns to the keys.
LEMMA ScanPasses ==
  ASSUME NEW f \in Frames, f.loop = "fields", f.next = Len(Node(f.node).fields) + 1,
         Len(Node(f.node).fields) \in Nat,
         DOMAIN Node(f.node).fields = 1..Len(Node(f.node).fields),
         NEW g, g = [f EXCEPT !.loop = "extras", !.next = 1]
  PROVE  Passed(f) \subseteq Passed(g)
  <1>1. g.loop = "extras" /\ g.node = f.node
    BY DEF Frames
  <1>2. ASSUME NEW x \in Passed(f) PROVE x \in Passed(g)
    <2>1. PICK j \in 1..(f.next - 1) : x = SegmentOf([f EXCEPT !.next = j])
      BY <1>2 DEF Passed
    <2>2. x = KeySegment(Node(f.node).fields[j].name)
      BY <2>1, SegmentAt
    <2> DEFINE n == f.next  last == Len(Node(f.node).fields)
    <2>5. j \in 1..(n - 1) /\ n = last + 1 /\ last \in Nat
      OBVIOUS
    <2>6. j \in DOMAIN Node(f.node).fields
      <3> HIDE DEF n, last
      <3>1. j \in 1..last
        BY <2>5
      <3>2. QED
        BY <3>1 DEF last
    <2>3. Node(f.node).fields[j].name \in FieldNames(Node(g.node))
      BY <1>1, <2>6 DEF FieldNames
    <2>4. QED
      BY <1>1, <2>2, <2>3 DEF Passed
  <1>3. QED
    BY <1>2

(***************************************************************************)
(* What is past stays past.                                                *)
(***************************************************************************)
LEMMA SamePlaces ==
  ASSUME call' = call
  PROVE  \A p : Past(p)' <=> Parts(stack', p) \/ (pc' = "return" /\ Follows(stack', p, Len(stack')))
  <1>1. \A f : SegmentOf(f)' = SegmentOf(f) /\ Node(f)' = Node(f)
    BY DEF SegmentOf, Node
  <1>2. \A p : Follows(stack, p, Len(stack))' <=> Follows(stack', p, Len(stack'))
    BY DEF Follows, SegmentOf, Node
  <1>3. \A p, k : PartsAt(stack, p, k)' <=> PartsAt(stack', p, k)
    BY DEF PartsAt, Follows, Passed, SegmentOf, Node, FieldNames
  <1>4. \A p : Parts(stack, p)' <=> Parts(stack', p)
    BY <1>3 DEF Parts
  <1>5. QED
    BY <1>2, <1>4 DEF Past

\* The frames that stay, the innermost of them perhaps further on.
LEMMA FramesStay ==
  ASSUME NEW s, NEW t, Len(s) \in Nat, Len(t) \in Nat, Len(t) >= Len(s), NEW p,
         \A k \in 1..(Len(s) - 1) : t[k] = s[k],
         Len(s) # 0 => Passed(s[Len(s)]) \subseteq Passed(t[Len(s)]),
         Parts(s, p)
  PROVE  Parts(t, p)
  <1>1. PICK k \in 1..Len(s) : PartsAt(s, p, k)
    BY DEF Parts
  <1>2. k \in 1..Len(t) /\ k - 1 <= Len(s) - 1 /\ k - 1 \in Nat
    OBVIOUS
  <1>3. Follows(t, p, k - 1)
    BY <1>1, <1>2 DEF PartsAt, Follows
  <1>4. p[k] \in Passed(t[k])
    <2>1. CASE k = Len(s)
      BY <1>1, <2>1 DEF PartsAt
    <2>2. CASE k # Len(s)
      <3>1. t[k] = s[k]
        BY <2>2
      <3>2. QED
        BY <1>1, <3>1 DEF PartsAt
    <2>3. QED
      BY <2>1, <2>2
  <1>5. QED
    BY <1>1, <1>2, <1>3, <1>4 DEF Parts, PartsAt

\* The member that returned is passed.
LEMMA MemberPasses ==
  ASSUME NEW s, NEW t, Len(s) \in Nat \ {0}, Len(t) = Len(s), NEW p,
         \A k \in 1..(Len(s) - 1) : t[k] = s[k],
         SegmentOf(s[Len(s)]) \in Passed(t[Len(s)]),
         Follows(s, p, Len(s))
  PROVE  Parts(t, p)
  <1>1. Len(s) \in 1..Len(t) /\ Len(p) >= Len(s) /\ p[Len(s)] \in Passed(t[Len(s)])
    BY DEF Follows
  <1>2. Follows(t, p, Len(s) - 1)
    <2>1. \A h \in 1..(Len(s) - 1) : p[h] = SegmentOf(t[h])
      BY DEF Follows
    <2>2. Len(p) >= Len(s) - 1
      <3>1. Len(p) >= Len(s)
        BY DEF Follows
      <3>2. QED
        BY <3>1 DEF Follows
    <2>3. QED
      BY <2>1, <2>2 DEF Follows
  <1>3. QED
    BY <1>1, <1>2 DEF Parts, PartsAt

\* A frame that is left takes what parts from it along.
LEMMA FrameLeft ==
  ASSUME NEW s, NEW t, Len(s) \in Nat \ {0}, Len(t) = Len(s) - 1, NEW p,
         \A k \in 1..(Len(s) - 1) : t[k] = s[k],
         Parts(s, p)
  PROVE  Parts(t, p) \/ Follows(t, p, Len(t))
  <1>1. PICK k \in 1..Len(s) : PartsAt(s, p, k)
    BY DEF Parts
  <1>2. CASE k = Len(s)
    BY <1>1, <1>2 DEF PartsAt, Follows
  <1>3. CASE k # Len(s)
    <2>1. k \in 1..Len(t) /\ t[k] = s[k] /\ \A h \in 1..(k - 1) : t[h] = s[h]
      BY <1>3
    <2>2. PartsAt(t, p, k)
      BY <1>1, <2>1 DEF PartsAt, Follows
    <2>3. QED
      BY <2>1, <2>2 DEF Parts
  <1>4. QED
    BY <1>2, <1>3

LEMMA AdvanceFacts ==
  ASSUME StackOK, stack # <<>>, Advance
  PROVE  /\ Len(stack) \in Nat \ {0} /\ Len(stack') = Len(stack)
         /\ Last(stack) = stack[Len(stack)] /\ Last(stack) \in Frames
         /\ \A k \in 1..(Len(stack) - 1) : stack'[k] = stack[k]
         /\ stack'[Len(stack)] = [Last(stack) EXCEPT !.next = @ + 1]
  <1> DEFINE f == [stack[Len(stack)] EXCEPT !.next = @ + 1]
  <1>1. stack[Len(stack)] \in Frames /\ stack \in Seq(Frames) /\ Len(stack) \in Nat \ {0}
        /\ Last(stack) = stack[Len(stack)]
    BY TopOK DEF StackOK
  <1>2. f \in Frames
    BY <1>1 DEF Frames
  <1>3. stack' = [stack EXCEPT ![Len(stack)] = f]
    BY <1>1 DEF Advance
  <1>4. f = [Last(stack) EXCEPT !.next = @ + 1]
    BY <1>1
  <1> HIDE DEF f
  <1>5. QED
    BY <1>1, <1>2, <1>3, <1>4, ReplaceLast

LEMMA PastStep ==
  ASSUME TypeInv, JudgeInv, [Next]_vars, pc' # "done"
  PROVE  \A p : Past(p) => Past(p)'
  <1>1. StackOK /\ stack \in Seq(Frames) /\ Len(stack) \in Nat /\ call' = call
    BY LenProperties, CallStays DEF TypeInv, StackOK
  <1> SUFFICES ASSUME NEW p, Past(p) PROVE Past(p)'
    OBVIOUS
  <1>2. /\ Parts(stack, p) \/ (pc = "return" /\ Follows(stack, p, Len(stack)))
        /\ Past(p)' <=> Parts(stack', p) \/ (pc' = "return" /\ Follows(stack', p, Len(stack')))
    BY <1>1, SamePlaces DEF Past
  <1>3. CASE \/ ValidateRoot \/ ValidatePrimitive \/ ValidateEnum \/ ValidateOptional \/ RejectShape
             \/ VisitMember \/ VisitField
    <2>1. pc # "return" /\ stack' = stack
      BY <1>3 DEF ValidateRoot, ValidatePrimitive, ValidateEnum, ValidateOptional, RejectShape,
                  VisitMember, VisitField, InLoop
    <2>2. QED
      BY <1>2, <2>1
  <1>4. CASE EnterCollection \/ EnterStruct
    <2>1. /\ pc = "visit"
          /\ focus \in [node : DOMAIN call.schema.nodes, value : Values]
          /\ \E loop \in Loops : \E out : Frame(loop, out)
      BY <1>4 DEF EnterCollection, EnterStruct, Loops, TypeInv, TypeOK
    <2>2. PICK f \in Frames : stack' = Append(stack, f)
      BY <2>1 DEF Frame, Frames
    <2>3. /\ Len(stack') = Len(stack) + 1
          /\ \A k \in 1..Len(stack) : stack'[k] = stack[k]
      BY <1>1, <2>2, AppendThenFront
    <2>4. Len(stack) # 0 => stack'[Len(stack)] = stack[Len(stack)]
      BY <1>1, <2>3
    <2>5. Parts(stack', p)
      <3>1. Parts(stack, p)
        BY <1>2, <2>1
      <3>2. QED
        BY <1>1, <2>3, <2>4, <3>1, FramesStay
    <2>6. QED
      BY <1>2, <2>5
  <1>5. ASSUME stack # <<>>, Advance PROVE Past(p)'
    <2>1. /\ Len(stack) \in Nat \ {0} /\ Len(stack') = Len(stack)
          /\ Last(stack) = stack[Len(stack)] /\ Last(stack) \in Frames
          /\ \A k \in 1..(Len(stack) - 1) : stack'[k] = stack[k]
          /\ stack'[Len(stack)] = [Last(stack) EXCEPT !.next = @ + 1]
      BY <1>1, <1>5, AdvanceFacts
    <2>2. /\ Passed(stack[Len(stack)]) \subseteq Passed(stack'[Len(stack)])
          /\ SegmentOf(stack[Len(stack)]) \in Passed(stack'[Len(stack)])
      BY <2>1, AdvancePasses
    <2>3. Parts(stack', p)
      BY <1>2, <2>1, <2>2, FramesStay, MemberPasses
    <2>4. QED
      BY <1>2, <2>3
  <1>6. CASE TakeMember \/ TakeField \/ MissField \/ ScanKey
    BY <1>5, <1>6 DEF TakeMember, TakeField, MissField, ScanKey, InLoop
  <1>7. CASE ScanExtras
    <2> DEFINE f == Last(stack)  g == [f EXCEPT !.loop = "extras", !.next = 1]
    <2>1. /\ pc = "loop" /\ stack # <<>> /\ f.loop = "fields" /\ f.next > Len(Node(f.node).fields)
          /\ stack' = [stack EXCEPT ![Len(stack)] = g]
      BY <1>7 DEF ScanExtras, InLoop
    <2>2. /\ f \in Frames /\ f = stack[Len(stack)] /\ FrameFits(f) /\ Len(stack) \in Nat \ {0}
          /\ call \in Calls
      BY <2>1, InnermostFacts
    <2>3. /\ Len(Node(f.node).fields) \in Nat
          /\ DOMAIN Node(f.node).fields = 1..Len(Node(f.node).fields)
      BY <2>1, <2>2, LengthIsNat
    <2>4. f.next = Len(Node(f.node).fields) + 1
      <3>1. f.next <= LoopLength(f) + 1
        BY <2>2 DEF JudgeInv, Positioned
      <3>2. f.next \in Nat /\ LoopLength(f) = Len(Node(f.node).fields)
        BY <2>1, <2>2 DEF Frames, LoopLength
      <3>3. QED
        BY <2>1, <2>3, <3>1, <3>2
    <2>5. g \in Frames
      <3> DEFINE h == [f EXCEPT !.loop = "extras"]
      <3>1. "extras" \in Loops /\ 1 \in Nat \ {0}
        BY DEF Loops
      <3>2. h \in Frames
        BY <2>2, <3>1 DEF Frames
      <3>3. g = [h EXCEPT !.next = 1]
        OBVIOUS
      <3> HIDE DEF f, g, h
      <3>4. QED
        BY <3>1, <3>2, <3>3 DEF Frames
    <2>6. Passed(f) \subseteq Passed(g)
      BY <2>1, <2>2, <2>3, <2>4, ScanPasses
    <2> HIDE DEF f, g
    <2>7. /\ Len(stack') = Len(stack)
          /\ \A k \in 1..(Len(stack) - 1) : stack'[k] = stack[k]
          /\ stack'[Len(stack)] = g
      BY <1>1, <2>1, <2>5, ReplaceLast
    <2>8. Parts(stack', p)
      <3>1. Parts(stack, p)
        BY <1>2, <2>1
      <3>2. QED
        BY <1>1, <2>2, <2>6, <2>7, <3>1, FramesStay
    <2>9. QED
      BY <1>2, <2>8
  <1>8. CASE LeaveCollection \/ LeaveStruct
    <2>1. pc = "loop" /\ pc' = "return" /\ stack # <<>> /\ stack' = Front(stack)
      BY <1>8 DEF LeaveCollection, LeaveStruct, InLoop, Return, Unframe
    <2>2. /\ Len(stack) \in Nat \ {0} /\ Len(stack') = Len(stack) - 1
          /\ \A k \in 1..(Len(stack) - 1) : stack'[k] = stack[k]
      BY <1>1, <2>1, FrontLastProperties
    <2>3. QED
      BY <1>2, <2>1, <2>2, FrameLeft
  <1>9. CASE UNCHANGED vars
    BY <1>2, <1>9 DEF vars
  <1>10. CASE RejectMalformedJson \/ Finish
    BY <1>10 DEF RejectMalformedJson, Finish
  <1>11. QED
    BY <1>3, <1>4, <1>6, <1>7, <1>8, <1>9, <1>10 DEF Next

(***************************************************************************)
(* Where an issue is recorded.                                             *)
(***************************************************************************)
\* A frame runs over a value that the path below it leads to.
LEMMA FrameReached ==
  ASSUME TypeInv, Chained, NEW k \in 1..Len(stack), NEW q \in Seq(Segments), Follows(stack, q, k - 1)
  PROVE  stack[k].value \in Reached(call.input.value, SubSeq(q, 1, k - 1))
  <1> DEFINE p == SubSeq(q, 1, k - 1)  w == [i \in 0..(k - 1) |-> stack[i + 1].value]
  <1>1. Len(stack) \in Nat /\ Len(q) \in Nat /\ k \in Nat /\ k - 1 \in Nat /\ k - 1 <= Len(q)
    BY LenProperties DEF TypeInv, StackOK, Follows
  <1>2. Len(p) = k - 1 /\ \A h \in 1..(k - 1) : p[h] = q[h]
    BY <1>1
  <1>3. w[0] = call.input.value
    BY <1>1 DEF Chained, HeldAt
  <1>4. ASSUME NEW i \in 1..(k - 1) PROVE w[i] \in Below(w[i - 1], p[i])
    <2>1. i + 1 \in 1..Len(stack) /\ (i + 1) - 1 = i /\ i # 0
      BY <1>1
    <2>2. stack[i + 1].value \in Below(stack[i].value, SegmentOf(stack[i]))
      BY <2>1 DEF Chained, HeldAt
    <2>3. w[i] = stack[i + 1].value /\ w[i - 1] = stack[i].value
      BY <1>1
    <2>4. p[i] = SegmentOf(stack[i])
      BY <1>2 DEF Follows
    <2>5. QED
      BY <2>2, <2>3, <2>4
  <1>5. w[k - 1] = stack[k].value
    BY <1>1
  <1> HIDE DEF p, w
  <1>6. w[Len(p)] \in Reached(call.input.value, p)
    BY <1>1, <1>2, <1>3, <1>4, LeadsDown
  <1>7. QED
    BY <1>2, <1>5, <1>6 DEF p

\* A member that has the segment of one that is past repeats its key.
LEMMA AgainRepeats ==
  ASSUME TypeInv, Chained, DistinctFields(call.schema), NEW q \in Seq(Segments),
         NEW k \in 1..Len(stack), PartsAt(stack, q, k), q[k] = SegmentOf(stack[k]),
         stack[k].next <= LoopLength(stack[k]),
         stack[k].loop = "extras" =>
           stack[k].value.entries[stack[k].next].key \notin FieldNames(Node(stack[k].node))
  PROVE  RepeatsKey(call.input.value, q)
  <1> DEFINE f == stack[k]  n == f.next
  <1>1. f \in Frames /\ FrameFits(f) /\ call \in Calls
    <2>1. stack \in Seq(Frames) /\ call \in Calls
      BY DEF TypeInv, StackOK
    <2>2. f \in Frames
      BY <2>1, ElementOfSeq
    <2>3. QED
      BY <2>1, <2>2 DEF TypeInv, StackOK
  <1>2. Follows(stack, q, k - 1) /\ k \in 1..Len(q) /\ q[k] \in Passed(f)
    BY LenProperties DEF PartsAt
  <1>3. f.value \in Reached(call.input.value, SubSeq(q, 1, k - 1))
    BY <1>2, FrameReached
  <1>4. f = [f EXCEPT !.next = n] /\ n \in Nat \ {0} /\ n <= LoopLength(f) /\ LoopLength(f) \in Nat
        /\ f.loop \in {"list", "dict", "fields", "extras"}
    BY <1>1, LengthIsNat DEF Frames, Loops, Collections
  <1>5. q[k] = SegmentOf(f)
    OBVIOUS
  <1>6. /\ f.loop = "extras" => f.value.entries[n].key \notin FieldNames(Node(f.node))
        /\ f.loop = "list" => SegmentOf(f) = IndexSegment(n - 1)
        /\ f.loop = "fields" => SegmentOf(f) = KeySegment(Node(f.node).fields[n].name)
        /\ f.loop \in {"dict", "extras"} => SegmentOf(f) = KeySegment(f.value.entries[n].key)
    BY <1>1, <1>4, SegmentAt
  <1>7. ASSUME NEW j \in 1..(n - 1), q[k] = SegmentOf([f EXCEPT !.next = j])
        PROVE  RepeatsKey(call.input.value, q)
    <2>1. j \in Nat /\ j # n /\ j \in 1..LoopLength(f) /\ n \in 1..LoopLength(f)
      <3> HIDE DEF n
      <3>1. QED
        BY <1>4
    <2>2. CASE f.loop = "list"
      <3>1. IndexSegment(j - 1) = IndexSegment(n - 1)
        BY <1>1, <1>5, <1>6, <1>7, <2>2, SegmentAt
      <3>2. j - 1 = n - 1
        BY <3>1 DEF IndexSegment
      <3>3. QED
        BY <1>4, <2>1, <3>2
    <2>3. CASE f.loop = "fields"
      <3> DEFINE node == Node(f.node)
      <3>1. KeySegment(node.fields[j].name) = KeySegment(node.fields[n].name)
        BY <1>1, <1>5, <1>6, <1>7, <2>3, SegmentAt
      <3>2. node.fields[j].name = node.fields[n].name
        BY <3>1 DEF KeySegment
      <3>3. DOMAIN node.fields = 1..LoopLength(f) /\ node.kind = "struct"
        BY <1>1, <2>3, LengthIsNat DEF LoopLength, FrameFits
      <3>4. node \in ToSet(call.schema.nodes)
        BY <1>1 DEF Node, ToSet, Frames
      <3> HIDE DEF node
      <3>5. j = n
        BY <2>1, <3>2, <3>3, <3>4 DEF DistinctFields
      <3>6. QED
        BY <2>1, <3>5
    <2>4. CASE f.loop \in {"dict", "extras"}
      <3>1. /\ q[k] = KeySegment(f.value.entries[j].key)
            /\ q[k] = KeySegment(f.value.entries[n].key)
        BY <1>1, <1>5, <1>6, <1>7, <2>4, SegmentAt
      <3>2. f.value.kind = "dict" /\ DOMAIN f.value.entries = 1..LoopLength(f)
        BY <1>1, <2>4, LengthIsNat DEF FrameFits, Collections
      <3> HIDE DEF f, n
      <3>3. QED
        BY <1>2, <1>3, <2>1, <3>1, <3>2 DEF RepeatsKey
    <2>5. QED
      BY <1>4, <2>2, <2>3, <2>4
  <1>8. ASSUME f.loop = "extras", NEW name \in FieldNames(Node(f.node)), q[k] = KeySegment(name)
        PROVE  FALSE
    BY <1>5, <1>6, <1>8 DEF KeySegment
  <1>9. QED
    BY <1>2, <1>7, <1>8 DEF Passed

LEMMA ScanningStep == TypeInv /\ JudgeInv /\ Scanning /\ [Next]_vars => Scanning'
  <1> SUFFICES ASSUME TypeInv, JudgeInv, Scanning, [Next]_vars PROVE Scanning'
    OBVIOUS
  <1>1. StackOK /\ stack \in Seq(Frames) /\ Len(stack) \in Nat
    BY LenProperties DEF TypeInv, StackOK
  <1>2. CASE \/ ValidatePrimitive \/ ValidateEnum \/ ValidateOptional \/ RejectShape
    <2>1. pc = "visit" /\ stack' = stack
      BY <1>2 DEF ValidatePrimitive, ValidateEnum, ValidateOptional, RejectShape
    <2>2. QED
      BY <2>1 DEF Scanning
  <1>3. CASE ValidateRoot \/ RejectMalformedJson \/ Finish \/ UNCHANGED vars
    <2>1. /\ stack' = stack
          /\ pc' \notin {"visit", "return"} \/ pc' = pc \/ stack = <<>>
      BY <1>3 DEF ValidateRoot, RejectMalformedJson, Finish, vars, JudgeInv, Started
    <2>2. stack = <<>> => Len(stack) = 0
      OBVIOUS
    <2>3. QED
      BY <2>1, <2>2 DEF Scanning
  <1>4. CASE VisitMember \/ VisitField
    <2>1. stack # <<>> /\ stack' = stack /\ Last(stack).loop \in {"list", "dict", "fields"}
      BY <1>4 DEF VisitMember, VisitField, InLoop, Collections
    <2>2. Last(stack) = stack[Len(stack)]
      BY <1>1, <2>1, TopOK
    <2>3. QED
      BY <1>1, <2>1, <2>2 DEF Scanning
  <1>5. CASE EnterCollection \/ EnterStruct
    <2>1. /\ pc = "visit" /\ pc' = "loop"
          /\ focus \in [node : DOMAIN call.schema.nodes, value : Values]
          /\ \E loop \in Loops : \E out : Frame(loop, out)
      BY <1>5 DEF EnterCollection, EnterStruct, Loops, TypeInv, TypeOK
    <2>2. PICK f \in Frames : stack' = Append(stack, f)
      BY <2>1 DEF Frame, Frames
    <2>3. /\ Len(stack') = Len(stack) + 1
          /\ \A k \in 1..Len(stack) : stack'[k] = stack[k]
      BY <1>1, <2>2, AppendThenFront
    <2>4. QED
      BY <1>1, <2>1, <2>3 DEF Scanning
  <1>6. ASSUME pc' = "loop", Len(stack') = Len(stack), \A k \in 1..(Len(stack) - 1) : stack'[k] = stack[k]
        PROVE  Scanning'
    BY <1>1, <1>6 DEF Scanning
  <1>7. CASE TakeMember \/ TakeField \/ MissField \/ ScanKey
    <2>1. stack # <<>> /\ Advance /\ pc' = "loop"
      BY <1>7 DEF TakeMember, TakeField, MissField, ScanKey, InLoop
    <2>2. QED
      BY <1>1, <1>6, <2>1, AdvanceFacts
  <1>8. CASE ScanExtras
    <2> DEFINE g == [Last(stack) EXCEPT !.loop = "extras", !.next = 1]
    <2>1. pc' = "loop" /\ stack # <<>> /\ stack' = [stack EXCEPT ![Len(stack)] = g]
      BY <1>8 DEF ScanExtras, InLoop
    <2> HIDE DEF g
    <2>2. Len(stack') = Len(stack) /\ \A k \in 1..(Len(stack) - 1) : stack'[k] = stack[k]
      BY <1>1, <2>1
    <2>3. QED
      BY <1>6, <2>1, <2>2
  <1>9. CASE LeaveCollection \/ LeaveStruct
    <2>1. pc' = "return" /\ stack # <<>> /\ stack' = Front(stack)
      BY <1>9 DEF LeaveCollection, LeaveStruct, InLoop, Return, Unframe
    <2>2. /\ Len(stack) \in Nat \ {0} /\ Len(stack') = Len(stack) - 1
          /\ \A k \in 1..(Len(stack) - 1) : stack'[k] = stack[k]
      BY <1>1, <2>1, FrontLastProperties
    <2>3. QED
      BY <2>2 DEF Scanning
  <1>10. QED
    BY <1>2, <1>3, <1>4, <1>5, <1>7, <1>8, <1>9 DEF Next

\* Where the path is among the frames.
LEMMA PathPlaces ==
  ASSUME TypeInv, PathMirrorsStack
  PROVE  /\ Len(stack) \in Nat /\ Len(path) \in Nat
         /\ pc # "loop" => Len(path) = Len(stack) /\ Follows(stack, path, Len(stack))
         /\ pc = "loop" =>
              LET p == Append(path, SegmentOf(Last(stack))) IN
              /\ Len(stack) \in Nat \ {0}
              /\ Len(path) = Len(stack) - 1 /\ Follows(stack, path, Len(stack) - 1)
              /\ SegmentOf(Last(stack)) \in Segments =>
                   p \in Seq(Segments) /\ Len(p) = Len(stack) /\ Follows(stack, p, Len(stack))
  <1>1. stack \in Seq(Frames) /\ Len(stack) \in Nat /\ path \in Seq(Segments) /\ Len(path) \in Nat
    BY LenProperties DEF TypeInv, TypeOK, StackOK
  <1>2. CASE pc # "loop"
    <2>1. path = Spine(stack)
      BY <1>2 DEF PathMirrorsStack
    <2>2. Len(path) = Len(stack) /\ \A h \in 1..Len(stack) : path[h] = SegmentOf(stack[h])
      BY <1>1, <2>1, SpineTyped
    <2>3. QED
      BY <1>1, <1>2, <2>2 DEF Follows
  <1>3. CASE pc = "loop"
    <2> DEFINE x == SegmentOf(Last(stack))  p == Append(path, x)
    <2>1. path = Spine(Front(stack)) /\ stack # <<>>
      BY <1>3 DEF PathMirrorsStack, TypeInv, TypeOK
    <2>2. /\ Front(stack) \in Seq(Frames) /\ Len(stack) \in Nat \ {0}
          /\ Len(Front(stack)) = Len(stack) - 1
          /\ \A i \in 1..(Len(stack) - 1) : Front(stack)[i] = stack[i]
          /\ Last(stack) = stack[Len(stack)]
      BY <1>1, <2>1, FrontLastProperties
    <2>3. /\ Len(path) = Len(stack) - 1
          /\ \A h \in 1..(Len(stack) - 1) : path[h] = SegmentOf(stack[h])
      BY <2>1, <2>2, SpineTyped
    <2>4. Follows(stack, path, Len(stack) - 1)
      BY <2>2, <2>3 DEF Follows
    <2>5. ASSUME x \in Segments
          PROVE  p \in Seq(Segments) /\ Len(p) = Len(stack) /\ Follows(stack, p, Len(stack))
      <3> HIDE DEF x
      <3>1. /\ p \in Seq(Segments) /\ Len(p) = Len(path) + 1
            /\ \A i \in 1..Len(path) : p[i] = path[i]
            /\ p[Len(path) + 1] = x
        BY <1>1, <2>5, AppendThenFront
      <3> HIDE DEF p
      <3>2. Len(p) = Len(stack) /\ p[Len(stack)] = x
            /\ \A i \in 1..(Len(stack) - 1) : p[i] = path[i]
        BY <2>2, <2>3, <3>1
      <3>3. ASSUME NEW h \in 1..Len(stack) PROVE p[h] = SegmentOf(stack[h])
        <4>1. CASE h = Len(stack)
          BY <2>2, <3>2, <4>1 DEF x
        <4>2. CASE h # Len(stack)
          <5>1. h \in 1..(Len(stack) - 1)
            BY <2>2, <4>2
          <5>2. QED
            BY <2>3, <3>2, <5>1
        <4>3. QED
          BY <4>1, <4>2
      <3>4. QED
        BY <1>1, <3>1, <3>2, <3>3 DEF Follows
    <2> HIDE DEF x
    <2>6. QED
      BY <1>1, <1>3, <2>2, <2>3, <2>4, <2>5 DEF x
  <1>4. QED
    BY <1>2, <1>3

\* A path along the frames, each at a position of its loop.
LEMMA AlongFrames ==
  ASSUME TypeInv, Chained, NEW q \in Seq(Segments), Len(q) <= Len(stack), Follows(stack, q, Len(q)),
         \A h \in 1..Len(q) :
           /\ stack[h].next <= LoopLength(stack[h])
           /\ stack[h].loop = "extras" =>
                stack[h].value.entries[stack[h].next].key \notin FieldNames(Node(stack[h].node))
  PROVE  /\ Indexed(q)
         /\ DistinctFields(call.schema) /\ Parts(stack, q) => RepeatsKey(call.input.value, q)
  <1>1. stack \in Seq(Frames) /\ Len(stack) \in Nat /\ Len(q) \in Nat /\ call \in Calls
    BY LenProperties DEF TypeInv, StackOK
  <1>2. ASSUME NEW h \in 1..Len(q), "index" \in DOMAIN q[h] PROVE q[h].index \in DOMAIN Numeral
    <2> DEFINE f == stack[h]  n == f.next
    <2>1. h \in 1..Len(stack) /\ q[h] = SegmentOf(f)
      BY <1>1 DEF Follows
    <2>2. f \in Frames /\ FrameFits(f)
      BY <1>1, <2>1, ElementOfSeq DEF TypeInv, StackOK
    <2>3. f.loop = "list"
      BY <1>2, <2>1 DEF SegmentOf, KeySegment
    <2>4. q[h] = IndexSegment(n - 1)
      BY <2>1, <2>3 DEF SegmentOf
    <2>5. f.value \in Values /\ f.value.kind = "list" /\ n \in Nat \ {0}
      BY <2>2, <2>3 DEF Frames, FrameFits, Collections
    <2>6. n <= Len(f.value.items) /\ Len(f.value.items) \in Nat
      BY <1>1, <2>2, <2>3, LengthIsNat DEF LoopLength
    <2> HIDE DEF f, n
    <2>7. n \in 1..Len(f.value.items)
      BY <2>5, <2>6
    <2>8. n - 1 \in DOMAIN Numeral
      BY <2>5, <2>7, NumeralAssumption
    <2>9. QED
      BY <2>4, <2>8 DEF IndexSegment
  <1>3. ASSUME DistinctFields(call.schema), Parts(stack, q) PROVE RepeatsKey(call.input.value, q)
    <2>1. PICK k \in 1..Len(stack) : PartsAt(stack, q, k)
      BY <1>3 DEF Parts
    <2>2. k \in 1..Len(q)
      BY <1>1, <2>1 DEF PartsAt
    <2>3. q[k] = SegmentOf(stack[k])
      BY <2>2 DEF Follows
    <2>4. QED
      BY <1>3, <2>1, <2>2, <2>3, AgainRepeats
  <1>4. QED
    BY <1>2, <1>3 DEF Indexed

\* Nothing will be reported at such a path after the step.
PastThen(p) == Parts(stack', p) \/ (pc' = "return" /\ Follows(stack', p, Len(stack')))

LEMMA SamePlacesOfIssues ==
  ASSUME call' = call
  PROVE  \A i : Past(issues[i].path)' <=> PastThen(issues'[i].path)
  <1>1. \A i : Follows(stack, issues[i].path, Len(stack))' <=> Follows(stack', issues'[i].path, Len(stack'))
    BY DEF Follows, SegmentOf, Node
  <1>2. \A i, k : PartsAt(stack, issues[i].path, k)' <=> PartsAt(stack', issues'[i].path, k)
    BY DEF PartsAt, Follows, Passed, SegmentOf, Node, FieldNames
  <1>3. \A i : Parts(stack, issues[i].path)' <=> Parts(stack', issues'[i].path)
    BY <1>2 DEF Parts
  <1>4. QED
    BY <1>1, <1>3 DEF Past, PastThen

\* Issues that are recorded, at a place that is past from then on and, unless
\* the payload repeats a key, was not before.
LEMMA ReportsOnce ==
  ASSUME issues \in Seq(IssueSet), OrderInv, pc # "done", call' = call, Scanning',
         NEW p \in Seq(Segments), NEW codes \in Seq(Codes), Record(p, codes),
         \A i, j \in 1..Len(codes) : codes[i] = codes[j] => i = j,
         codes # <<>> =>
           /\ Indexed(p)
           /\ DistinctFields(call.schema) /\ Past(p) => RepeatsKey(call.input.value, p)
           /\ pc' # "done" => PastThen(p),
         pc' # "done" => \A q : Past(q) => PastThen(q)
  PROVE  OrderInv'
  <1>1. /\ Len(codes) \in Nat /\ DOMAIN codes = 1..Len(codes)
        /\ Len(issues) \in Nat /\ DOMAIN issues = 1..Len(issues)
    BY LenProperties
  <1> DEFINE new == IssuesAt(p, codes)  N == Len(issues)
  <1>2. new = [i \in 1..Len(codes) |-> Issue(p, codes[i])]
    BY <1>1 DEF IssuesAt
  <1>3. new \in Seq(IssueSet) /\ Len(new) = Len(codes)
    <2>1. \A i \in 1..Len(codes) : codes[i] \in Codes
      BY ElementOfSeq
    <2>2. \A i \in 1..Len(codes) : Issue(p, codes[i]) \in IssueSet
      BY <2>1 DEF Issue, IssueSet
    <2>3. QED
      BY <1>1, <1>2, <2>2
  <1>4. issues' = issues \o new
    BY DEF Record
  <1>5. \A i \in 1..Len(codes) : new[i].path = p /\ new[i].code = codes[i]
    BY <1>2 DEF Issue
  <1>6. codes # <<>> <=> 1..Len(codes) # {}
    BY <1>1
  <1> HIDE DEF new
  <1>7. Len(issues') = N + Len(codes)
    <2>1. issues \in Seq(IssueSet) /\ new \in Seq(IssueSet)
      BY <1>3
    <2>2. Len(issues \o new) = Len(issues) + Len(new)
      BY <2>1, ConcatProperties
    <2>3. QED
      BY <1>3, <1>4, <2>2
  <1>8. ASSUME NEW i \in 1..(N + Len(codes))
        PROVE  \/ i \in 1..N /\ issues'[i] = issues[i]
               \/ /\ i - N \in 1..Len(codes) /\ codes # <<>>
                  /\ issues'[i].path = p /\ issues'[i].code = codes[i - N]
    <2>1. CASE i \in 1..N
      BY <1>1, <1>3, <1>4, <2>1
    <2>2. CASE i \notin 1..N
      <3>1. i - N \in 1..Len(codes) /\ issues'[i] = new[i - N]
        BY <1>1, <1>3, <1>4, <2>2
      <3>2. QED
        BY <1>5, <1>6, <3>1
    <2>3. QED
      BY <2>1, <2>2
  <1>9. ASSUME pc' # "done", NEW i \in 1..(N + Len(codes)) PROVE PastThen(issues'[i].path)
    <2>1. CASE i \in 1..N /\ issues'[i] = issues[i]
      BY <1>9, <2>1 DEF OrderInv
    <2>2. CASE codes # <<>> /\ issues'[i].path = p
      BY <1>9, <2>2
    <2>3. QED
      BY <1>8, <2>1, <2>2
  <1>10. \A i \in 1..Len(issues') : Indexed(issues'[i].path)
    BY <1>7, <1>8 DEF OrderInv
  <1>11. ASSUME DistinctFields(call.schema), NEW i \in 1..(N + Len(codes)), NEW j \in 1..(N + Len(codes)),
                i # j, issues'[i].code = issues'[j].code, issues'[i].path = issues'[j].path
         PROVE  RepeatsKey(call.input.value, issues'[i].path)
    <2>1. ASSUME NEW k \in 1..N, issues[k].path = p, codes # <<>>
          PROVE  RepeatsKey(call.input.value, p)
      BY <1>11, <2>1 DEF OrderInv
    <2>2. CASE i \in 1..N /\ issues'[i] = issues[i] /\ j \in 1..N /\ issues'[j] = issues[j]
      BY <1>11, <2>2 DEF OrderInv, ReportedOnce
    <2>3. CASE i \in 1..N /\ issues'[i] = issues[i] /\ codes # <<>> /\ issues'[j].path = p
      BY <1>11, <2>1, <2>3
    <2>4. CASE j \in 1..N /\ issues'[j] = issues[j] /\ codes # <<>> /\ issues'[i].path = p
      BY <1>11, <2>1, <2>4
    <2>5. CASE /\ i - N \in 1..Len(codes) /\ issues'[i].code = codes[i - N]
               /\ j - N \in 1..Len(codes) /\ issues'[j].code = codes[j - N]
      <3>1. i - N = j - N
        BY <1>11, <2>5
      <3>2. QED
        BY <1>1, <1>11, <3>1
    <2>6. QED
      BY <1>8, <2>2, <2>3, <2>4, <2>5
  <1>12. ReportedOnce'
    BY <1>7, <1>11 DEF ReportedOnce
  <1>13. (pc # "done" => \A i \in 1..Len(issues) : Past(issues[i].path))'
    BY <1>7, <1>9, SamePlacesOfIssues
  <1>14. (\A i \in 1..Len(issues) : Indexed(issues[i].path))'
    BY <1>10 DEF Indexed
  <1>15. QED
    BY <1>12, <1>13, <1>14 DEF OrderInv

\* The codes that one look at a value gives are different.
LEMMA BoundCodesDiffer ==
  ASSUME NEW measure, NEW bounds, NEW low, NEW high, low # high
  PROVE  LET c == BoundCodes(measure, bounds, low, high) IN
         /\ \A i, j \in 1..Len(c) : c[i] = c[j] => i = j
         /\ Len(c) \in Nat /\ \A i \in 1..Len(c) : c[i] \in {low, high}
  <1> DEFINE a == IF \E x \in measure : \E m \in bounds.min : x < m THEN <<low>> ELSE <<>>
             b == IF \E x \in measure : \E m \in bounds.max : x > m THEN <<high>> ELSE <<>>
  <1>1. /\ a \in {<<low>>, <<>>} /\ b \in {<<high>>, <<>>}
        /\ BoundCodes(measure, bounds, low, high) = a \o b
    BY DEF BoundCodes
  <1> HIDE DEF a, b
  <1>2. QED
    BY <1>1

LEMMA ConstraintCodesDiffer ==
  ASSUME NEW n, NEW v
  PROVE  LET c == ConstraintCodes(n, v) IN \A i, j \in 1..Len(c) : c[i] = c[j] => i = j
  <1>1. CASE n.kind \in {"int", "float"}
    <2>1. \A x : LET c == BoundCodes(x, n.bounds, "too_small", "too_large") IN
                 \A i, j \in 1..Len(c) : c[i] = c[j] => i = j
      BY BoundCodesDiffer
    <2>2. \E x : ConstraintCodes(n, v) = BoundCodes(x, n.bounds, "too_small", "too_large")
      BY <1>1 DEF ConstraintCodes
    <2>3. QED
      BY <2>1, <2>2
  <1>2. CASE n.kind = "str"
    <2> DEFINE a == SizeCodes(Reads[v.text].len, n.bounds)  b == FormatCodes(v.text, n.format)
    <2>1. /\ \A i, j \in 1..Len(a) : a[i] = a[j] => i = j
          /\ Len(a) \in Nat /\ \A i \in 1..Len(a) : a[i] \in {"too_short", "too_long"}
      BY BoundCodesDiffer DEF SizeCodes
    <2>2. a \in Seq(Codes)
      <3>1. "too_short" \in Codes /\ "too_long" \in Codes
        BY DEF Codes
      <3>2. QED
        BY <3>1, BoundCodesAreCodes DEF SizeCodes
    <2>3. b \in {<<>>, <<"format_invalid">>}
      BY DEF FormatCodes
    <2>4. ConstraintCodes(n, v) = a \o b
      BY <1>2 DEF ConstraintCodes
    <2> HIDE DEF a, b
    <2>5. CASE b = <<>>
      <3>1. a \o b = a
        BY <2>2, <2>5
      <3>2. QED
        BY <2>1, <2>4, <3>1
    <2>6. CASE b = <<"format_invalid">>
      <3> DEFINE c == a \o b
      <3>1. b \in Seq(Codes) /\ Len(b) = 1 /\ b[1] = "format_invalid"
        BY <2>6 DEF Codes
      <3>2. /\ Len(c) = Len(a) + 1 /\ c[Len(a) + 1] = "format_invalid"
            /\ \A i \in 1..Len(a) : c[i] = a[i]
        <4>1. /\ Len(c) = Len(a) + Len(b)
              /\ \A i \in 1..Len(c) : c[i] = IF i <= Len(a) THEN a[i] ELSE b[i - Len(a)]
          <5>1. /\ Len(a \o b) = Len(a) + Len(b)
                /\ \A i \in 1..(Len(a) + Len(b)) :
                     (a \o b)[i] = IF i <= Len(a) THEN a[i] ELSE b[i - Len(a)]
            <6>1. a \in Seq(Codes) /\ b \in Seq(Codes)
              BY <2>2, <3>1
            <6>2. QED
              BY <6>1, ConcatProperties
          <5>2. QED
            BY <5>1
        <4> HIDE DEF c
        <4>2. QED
          BY <2>1, <3>1, <4>1
      <3> HIDE DEF c
      <3>3. \A i \in 1..Len(c) : i \in 1..Len(a) \/ i = Len(a) + 1
        BY <2>1, <3>2
      <3>4. \A i \in 1..Len(a) : c[i] # "format_invalid"
        BY <2>1, <3>2
      <3>5. \A i, j \in 1..Len(c) : c[i] = c[j] => i = j
        BY <2>1, <3>2, <3>3, <3>4
      <3>6. QED
        BY <2>4, <3>5 DEF c
    <2>7. QED
      BY <2>3, <2>5, <2>6
  <1>3. CASE n.kind \notin {"int", "float", "str"}
    <2>1. ConstraintCodes(n, v) = <<>>
      BY <1>3 DEF ConstraintCodes
    <2>2. QED
      BY <2>1
  <1>4. QED
    BY <1>1, <1>2, <1>3

LEMMA OneCodeOnly == ASSUME NEW c PROVE \A i, j \in 1..Len(<<c>>) : <<c>>[i] = <<c>>[j] => i = j
  OBVIOUS

LEMMA OrderStep ==
  ASSUME TypeInv, PathMirrorsStack, JudgeInv, AddressInv, OrderInv, [Next]_vars
  PROVE  OrderInv'
  <1>1. /\ stack \in Seq(Frames) /\ path \in Seq(Segments) /\ issues \in Seq(IssueSet)
        /\ Chained /\ Scanning
    BY DEF TypeInv, TypeOK, StackOK, IssueSet, AddressInv, OrderInv
  <1>2. call' = call /\ Scanning' /\ TypeInv' /\ PathMirrorsStack'
    BY CallStays, ScanningStep, TypeStep, PathStep, <1>1
  <1>3. ASSUME pc' # "done" PROVE \A q : Past(q) => PastThen(q)
    BY <1>2, <1>3, PastStep, SamePlaces DEF PastThen
  \* A node that records what it finds, on its way out of it.
  <1>4. ASSUME pc = "visit" \/ pc = "loop", pc' = "return", path' = path,
               NEW codes \in Seq(Codes), Record(path, codes),
               \A i, j \in 1..Len(codes) : codes[i] = codes[j] => i = j
        PROVE  OrderInv'
    <2>1. /\ Len(stack) \in Nat /\ Len(path) \in Nat /\ Len(path) <= Len(stack)
          /\ Follows(stack, path, Len(path))
          /\ \A h \in 1..Len(path) : h \in 1..Len(stack) /\ (h < Len(stack) \/ pc = "visit")
      BY <1>4, PathPlaces
    <2>2. \A h \in 1..Len(path) :
            stack[h].next <= LoopLength(stack[h]) /\ stack[h].loop # "extras"
      BY <1>1, <2>1 DEF JudgeInv, Positioned, Scanning
    <2>3. /\ Indexed(path)
          /\ DistinctFields(call.schema) /\ Past(path) => RepeatsKey(call.input.value, path)
      BY <1>1, <1>4, <2>1, <2>2, AlongFrames DEF Past
    <2>4. PastThen(path)
      <3>1. stack' \in Seq(Frames)' /\ path = Spine(stack)'
        BY <1>2, <1>4 DEF TypeInv, StackOK, PathMirrorsStack
      <3>2. Len(stack') \in Nat /\ path = [h \in 1..Len(stack') |-> SegmentOf(stack'[h])]
        BY <1>2, <3>1, LenProperties DEF Spine, SegmentOf, Node
      <3>3. Len(path) = Len(stack') /\ \A h \in 1..Len(stack') : path[h] = SegmentOf(stack'[h])
        BY <3>2
      <3>4. QED
        BY <1>4, <3>2, <3>3 DEF PastThen, Follows
    <2>5. QED
      BY <1>1, <1>2, <1>3, <1>4, <2>3, <2>4, ReportsOnce
  \* A struct that reports a key and goes on to the next position.
  <1>5. ASSUME pc = "loop", pc' = "loop", stack # <<>>, Advance,
               SegmentOf(Last(stack)) \in Segments,
               Last(stack).next <= LoopLength(Last(stack)),
               NEW codes, codes = <<>> \/ \E c \in Codes : codes = <<c>>,
               Record(Append(path, SegmentOf(Last(stack))), codes),
               codes # <<>> /\ Last(stack).loop = "extras" =>
                 Last(stack).value.entries[Last(stack).next].key \notin FieldNames(Node(Last(stack).node))
        PROVE  OrderInv'
    <2> DEFINE p == Append(path, SegmentOf(Last(stack)))
    <2>1. /\ Len(stack) \in Nat \ {0} /\ p \in Seq(Segments)
          /\ Len(p) = Len(stack) /\ Follows(stack, p, Len(stack))
      BY <1>5, PathPlaces
    <2>2. Record(p, codes)
      BY <1>5
    <2> HIDE DEF p
    <2>3. Last(stack) = stack[Len(stack)]
      BY <1>1, <1>5, FrontLastProperties
    <2>4. ASSUME codes # <<>>
          PROVE  /\ Indexed(p)
                 /\ DistinctFields(call.schema) /\ Past(p) => RepeatsKey(call.input.value, p)
      <3>1. ASSUME NEW h \in 1..Len(p)
            PROVE  /\ stack[h].next <= LoopLength(stack[h])
                   /\ stack[h].loop = "extras" =>
                        stack[h].value.entries[stack[h].next].key \notin FieldNames(Node(stack[h].node))
        <4>1. CASE h = Len(stack)
          BY <1>5, <2>3, <2>4, <4>1
        <4>2. CASE h # Len(stack)
          <5>1. h \in 1..Len(stack) /\ h < Len(stack)
            BY <2>1, <4>2
          <5>2. QED
            BY <1>1, <5>1 DEF JudgeInv, Positioned, Scanning
        <4>3. QED
          BY <4>1, <4>2
      <3>2. QED
        BY <1>1, <1>5, <2>1, <3>1, AlongFrames DEF Past
    <2>5. PastThen(p)
      <3>1. /\ Len(stack') = Len(stack) /\ Last(stack) \in Frames
            /\ \A k \in 1..(Len(stack) - 1) : stack'[k] = stack[k]
            /\ stack'[Len(stack)] = [Last(stack) EXCEPT !.next = @ + 1]
        BY <1>5, AdvanceFacts DEF TypeInv
      <3>2. SegmentOf(stack[Len(stack)]) \in Passed(stack'[Len(stack)])
        BY <2>3, <3>1, AdvancePasses
      <3>3. QED
        BY <2>1, <3>1, <3>2, MemberPasses DEF PastThen
    <2>6. codes \in Seq(Codes) /\ \A i, j \in 1..Len(codes) : codes[i] = codes[j] => i = j
      <3>1. CASE codes = <<>>
        BY <3>1
      <3>2. ASSUME NEW c \in Codes, codes = <<c>> PROVE codes \in Seq(Codes)
        BY <3>2
      <3>3. QED
        BY <1>5, <3>1, <3>2, OneCodeOnly
    <2>7. QED
      BY <1>1, <1>2, <1>3, <1>5, <2>1, <2>2, <2>4, <2>5, <2>6, ReportsOnce
  <1>6. CASE RejectMalformedJson
    <2>1. /\ pc = "start" /\ pc' = "done" /\ Record(<<>>, <<"format_invalid">>) /\ stack = <<>>
      BY <1>6 DEF RejectMalformedJson, JudgeInv, Started
    <2>2. ~Past(<<>>) /\ Indexed(<<>>) /\ <<>> \in Seq(Segments)
      BY <2>1 DEF Past, Parts, Indexed
    <2>3. <<"format_invalid">> \in Seq(Codes)
      BY SomeCodes
    <2>4. QED
      BY <1>1, <1>2, <2>1, <2>2, <2>3, OneCodeOnly, ReportsOnce
  <1>7. CASE ValidatePrimitive \/ ValidateEnum \/ RejectShape
    <2>1. /\ pc = "visit" /\ path' = path
          /\ \/ pc' = "return" /\ UNCHANGED issues
             \/ pc' = "return" /\ \E c \in Codes : Record(path, <<c>>)
             \/ pc' = "return" /\ \E n, v : Record(path, ConstraintCodes(n, v))
      <3>1. \A n, v : CoercionCode(n, v) \in Codes
        BY SomeCodes DEF CoercionCode
      <3>2. QED
        BY <1>7, <3>1, SomeCodes DEF ValidatePrimitive, ValidateEnum, RejectShape, Return
    <2>2. UNCHANGED issues => Record(path, <<>>)
      BY <1>1 DEF Record, IssuesAt
    <2>3. \A c \in Codes : <<c>> \in Seq(Codes)
      OBVIOUS
    <2>4. /\ <<>> \in Seq(Codes) /\ \A i, j \in 1..Len(<<>>) : <<>>[i] = <<>>[j] => i = j
      OBVIOUS
    <2>5. QED
      BY <1>4, <2>1, <2>2, <2>3, <2>4, OneCodeOnly, ConstraintCodesAreCodes, ConstraintCodesDiffer
  <1>8. CASE LeaveCollection
    <2>1. /\ pc = "loop" /\ pc' = "return" /\ path' = path
          /\ \E size, bounds : Record(path, SizeCodes(size, bounds))
      BY <1>8 DEF LeaveCollection, InLoop, Return
    <2>2. "too_short" \in Codes /\ "too_long" \in Codes
      BY DEF Codes
    <2>3. \A size, bounds : SizeCodes(size, bounds) \in Seq(Codes)
      BY <2>2, BoundCodesAreCodes DEF SizeCodes
    <2>4. \A size, bounds : LET c == SizeCodes(size, bounds) IN
                            \A i, j \in 1..Len(c) : c[i] = c[j] => i = j
      BY BoundCodesDiffer DEF SizeCodes
    <2>5. QED
      BY <1>4, <2>1, <2>3, <2>4
  <1>9. CASE MissField
    <2> DEFINE f == Last(stack)  field == Node(f.node).fields[f.next]
               codes == IF field.required THEN <<"required_missing">> ELSE <<>>
    <2>1. /\ pc = "loop" /\ pc' = "loop" /\ stack # <<>> /\ Advance
          /\ f.loop = "fields" /\ f.next <= Len(Node(f.node).fields)
          /\ Record(Append(path, KeySegment(field.name)), codes)
      BY <1>9 DEF MissField, InLoop
    <2>2. f \in Frames /\ FrameFits(f) /\ call \in Calls
      BY <2>1, InnermostFacts
    <2>3. codes = <<>> \/ \E c \in Codes : codes = <<c>>
      BY SomeCodes
    <2> HIDE DEF f, codes
    <2>4. KeySegment(field.name) \in Segments
      BY <2>1, <2>2, FieldFacts, SegmentFacts
    <2>5. SegmentOf(f) = KeySegment(field.name) /\ f.next <= LoopLength(f)
      BY <2>1 DEF SegmentOf, LoopLength
    <2> HIDE DEF field
    <2>6. QED
      BY <1>5, <2>1, <2>3, <2>4, <2>5 DEF f
  <1>10. CASE ScanKey
    <2> DEFINE f == Last(stack)  key == f.value.entries[f.next].key
               codes == IF key \notin FieldNames(Node(f.node)) /\ EffectiveExtra(Node(f.node)) = "forbid"
                        THEN <<"extra_key">> ELSE <<>>
    <2>1. /\ pc = "loop" /\ pc' = "loop" /\ stack # <<>> /\ Advance
          /\ f.loop = "extras" /\ f.next <= Len(f.value.entries)
          /\ Record(Append(path, KeySegment(key)), codes)
      BY <1>10 DEF ScanKey, InLoop
    <2>2. f \in Frames /\ FrameFits(f) /\ call \in Calls
      BY <2>1, InnermostFacts
    <2>3. /\ codes = <<>> \/ \E c \in Codes : codes = <<c>>
          /\ codes # <<>> => key \notin FieldNames(Node(f.node))
      BY SomeCodes
    <2> HIDE DEF f, codes
    <2>4. KeySegment(key) \in Segments
      BY <2>1, <2>2, KeyFacts, SegmentFacts
    <2>5. SegmentOf(f) = KeySegment(key) /\ f.next <= LoopLength(f)
      BY <2>1 DEF SegmentOf, LoopLength
    <2>6. QED
      BY <1>5, <2>1, <2>3, <2>4, <2>5 DEF f
  <1>11. CASE \/ ValidateRoot \/ ValidateOptional \/ EnterCollection \/ VisitMember \/ TakeMember
              \/ EnterStruct \/ VisitField \/ TakeField \/ ScanExtras \/ LeaveStruct \/ Finish
              \/ UNCHANGED vars
    <2>1. UNCHANGED issues /\ (pc' # "done" => pc # "done")
      BY <1>11 DEF ValidateRoot, ValidateOptional, EnterCollection, VisitMember, TakeMember,
                   EnterStruct, VisitField, TakeField, ScanExtras, LeaveStruct, Finish, vars,
                   InLoop
    <2>2. (pc # "done" => \A i \in 1..Len(issues) : Past(issues[i].path))'
      BY <1>2, <1>3, <2>1, SamePlacesOfIssues DEF OrderInv
    <2>3. (\A i \in 1..Len(issues) : Indexed(issues[i].path))' /\ ReportedOnce'
      BY <1>2, <2>1 DEF OrderInv, ReportedOnce, Indexed
    <2>4. QED
      BY <1>2, <2>2, <2>3 DEF OrderInv
  <1>12. QED
    BY <1>6, <1>7, <1>8, <1>9, <1>10, <1>11 DEF Next

LEMMA OrderInit == Init => OrderInv
  <1> SUFFICES ASSUME Init PROVE OrderInv
    OBVIOUS
  <1>1. stack = <<>> /\ issues = <<>>
    BY DEF Init
  <1>2. QED
    BY <1>1 DEF OrderInv, Scanning, ReportedOnce

(***************************************************************************)
(* The text of a path gives the path back.                                 *)
(***************************************************************************)
\* The texts of the first segments of a path exist, one by one.
LEMMA TextUnfolds ==
  ASSUME NEW p, Len(p) \in Nat
  PROVE  \E g : g = [i \in 0..Len(p) |-> Longer(p, i, g)] /\ format_path(p) = g[Len(p)]
  <1> DEFINE L(g, i) == Longer(p, i, g)
             S == {n \in Nat : \E g : g = [i \in 0..n |-> L(g, i)]}
  <1>1. ASSUME NEW g, NEW h, NEW i \in Nat, i = 0 \/ g[i - 1] = h[i - 1]
        PROVE  L(g, i) = L(h, i)
    BY <1>1 DEF Longer
  <1> HIDE DEF L
  <1>2. 0 \in S
    <2> DEFINE e == [i \in 0..0 |-> L(<<>>, 0)]
    <2>1. \A i \in 0..0 : L(e, i) = L(<<>>, 0)
      <3> HIDE DEF e
      <3>1. L(e, 0) = L(<<>>, 0)
        BY <1>1
      <3>2. QED
        BY <3>1
    <2>2. e = [i \in 0..0 |-> L(e, i)]
      BY <2>1
    <2> HIDE DEF e
    <2>3. QED
      BY <2>2
  <1>3. ASSUME NEW n \in Nat, n \in S PROVE n + 1 \in S
    <2>1. PICK g : g = [i \in 0..n |-> L(g, i)]
      BY <1>3
    <2> DEFINE h == [i \in 0..(n + 1) |-> IF i <= n THEN g[i] ELSE L(g, i)]
    <2>2. ASSUME NEW i \in 0..(n + 1) PROVE h[i] = L(h, i)
      <3>1. i = 0 \/ g[i - 1] = h[i - 1]
        OBVIOUS
      <3> HIDE DEF h
      <3>2. L(g, i) = L(h, i)
        BY <3>1, <1>1
      <3>3. QED
        BY <2>1, <3>2 DEF h
    <2>3. h = [i \in 0..(n + 1) |-> h[i]]
      OBVIOUS
    <2> HIDE DEF h
    <2>4. h = [i \in 0..(n + 1) |-> L(h, i)]
      BY <2>2, <2>3
    <2>5. QED
      BY <2>4
  <1>4. Len(p) \in S
    <2> HIDE DEF S
    <2> QED BY <1>2, <1>3, SetInduction
  <1>5. \E g : g = [i \in 0..Len(p) |-> Longer(p, i, g)]
    BY <1>4 DEF L
  <1> DEFINE text == CHOOSE g : g = [i \in 0..Len(p) |-> Longer(p, i, g)]
  <1>6. text = [i \in 0..Len(p) |-> Longer(p, i, text)]
    BY <1>5
  <1>7. format_path(p) = text[Len(p)]
    BY DEF format_path
  <1> HIDE DEF text
  <1>8. QED
    BY <1>6, <1>7

\* A mark between two texts, seen from within the whole.
Marked(u, m, k) == Append(u, m) \o k
FreeOf(k, m) == \A j \in 1..Len(k) : k[j] # m

IsMarked(x, u, m, k) ==
  /\ x \in Seq(Characters) /\ Len(u) \in Nat /\ Len(k) \in Nat
  /\ Len(x) = Len(u) + 1 + Len(k)
  /\ \A i \in 1..Len(u) : x[i] = u[i]
  /\ x[Len(u) + 1] = m
  /\ \A j \in 1..Len(k) : x[Len(u) + 1 + j] = k[j]

LEMMA MarkedFacts ==
  ASSUME NEW m \in Characters, NEW u \in Seq(Characters), NEW k \in Seq(Characters)
  PROVE  IsMarked(Marked(u, m, k), u, m, k)
  <1> DEFINE v == Append(u, m)  x == Marked(u, m, k)
  <1>1. /\ v \in Seq(Characters) /\ Len(v) = Len(u) + 1 /\ Len(u) \in Nat /\ Len(k) \in Nat
        /\ \A i \in 1..Len(u) : v[i] = u[i]
        /\ v[Len(u) + 1] = m
    BY AppendThenFront, LenProperties
  <1>2. x = v \o k
    BY DEF Marked
  <1> HIDE DEF v, x
  <1>3. /\ x \in Seq(Characters) /\ Len(x) = Len(v) + Len(k)
        /\ \A i \in 1..(Len(v) + Len(k)) : x[i] = IF i <= Len(v) THEN v[i] ELSE k[i - Len(v)]
    <2>1. /\ v \o k \in Seq(Characters) /\ Len(v \o k) = Len(v) + Len(k)
          /\ \A i \in 1..(Len(v) + Len(k)) : (v \o k)[i] = IF i <= Len(v) THEN v[i] ELSE k[i - Len(v)]
      BY <1>1, ConcatProperties
    <2>2. QED
      BY <1>2, <2>1
  <1>4. \A j \in 1..Len(k) : x[Len(u) + 1 + j] = k[j]
    <2> TAKE j \in 1..Len(k)
    <2>1. Len(u) + 1 + j \in 1..(Len(v) + Len(k)) /\ ~(Len(u) + 1 + j <= Len(v))
          /\ (Len(u) + 1 + j) - Len(v) = j
      BY <1>1
    <2>2. QED
      BY <1>3, <2>1
  <1>5. QED
    BY <1>1, <1>3, <1>4 DEF x, IsMarked

\* A text is split in one way at the last of its marks.
LEMMA SplitsAtMark ==
  ASSUME NEW m \in Characters, NEW u \in Seq(Characters), NEW v \in Seq(Characters), 
         NEW k \in Seq(Characters), NEW l \in Seq(Characters), FreeOf(k, m), FreeOf(l, m),
         Marked(u, m, k) = Marked(v, m, l)
  PROVE  u = v /\ k = l
  <1> DEFINE x == Marked(u, m, k)
  <1>0. x = Marked(u, m, k) /\ x = Marked(v, m, l)
    OBVIOUS
  <1> HIDE DEF x
  <1>1. IsMarked(Marked(u, m, k), u, m, k) /\ IsMarked(Marked(v, m, l), v, m, l)
    BY MarkedFacts
  <1>2. IsMarked(x, u, m, k) /\ IsMarked(x, v, m, l)
    BY <1>0, <1>1
  <1>3. /\ Len(u) \in Nat /\ Len(k) \in Nat
        /\ Len(x) = Len(u) + 1 + Len(k)
        /\ \A i \in 1..Len(u) : x[i] = u[i]
        /\ x[Len(u) + 1] = m
        /\ \A j \in 1..Len(k) : x[Len(u) + 1 + j] = k[j]
    BY <1>2 DEF IsMarked
  <1>4. /\ Len(v) \in Nat /\ Len(l) \in Nat
        /\ Len(x) = Len(v) + 1 + Len(l)
        /\ \A i \in 1..Len(v) : x[i] = v[i]
        /\ x[Len(v) + 1] = m
        /\ \A j \in 1..Len(l) : x[Len(v) + 1 + j] = l[j]
    BY <1>2 DEF IsMarked
  <1>6. ASSUME Len(u) < Len(v) PROVE FALSE
    <2> DEFINE j == Len(v) - Len(u)
    <2>1. j \in 1..Len(k) /\ Len(u) + 1 + j = Len(v) + 1
      BY <1>3, <1>4, <1>6
    <2> HIDE DEF j
    <2>2. k[j] = x[Len(v) + 1] /\ x[Len(v) + 1] = m
      BY <1>3, <1>4, <2>1
    <2>3. QED
      BY <2>1, <2>2 DEF FreeOf
  <1>7. ASSUME Len(v) < Len(u) PROVE FALSE
    <2> DEFINE j == Len(u) - Len(v)
    <2>1. j \in 1..Len(l) /\ Len(v) + 1 + j = Len(u) + 1
      BY <1>3, <1>4, <1>7
    <2> HIDE DEF j
    <2>2. l[j] = x[Len(u) + 1] /\ x[Len(u) + 1] = m
      BY <1>3, <1>4, <2>1
    <2>3. QED
      BY <2>1, <2>2 DEF FreeOf
  <1>8. Len(u) = Len(v) /\ Len(k) = Len(l)
    BY <1>3, <1>4, <1>6, <1>7
  <1>9. u = v
    <2>1. \A i \in 1..Len(u) : u[i] = v[i]
      BY <1>3, <1>4, <1>8
    <2>2. QED
      BY <1>8, <2>1, SeqEqual
  <1>10. k = l
    <2>1. \A j \in 1..Len(k) : k[j] = l[j]
      BY <1>3, <1>4, <1>8
    <2>2. QED
      BY <1>8, <2>1, SeqEqual
  <1>11. QED
    BY <1>9, <1>10

LEMMA WithoutMark ==
  ASSUME NEW C, NEW M, NEW s \in Seq(C \ M)
  PROVE  s \in Seq(C) /\ \A j \in 1..Len(s) : s[j] \notin M
  <1>1. Len(s) \in Nat /\ s = [i \in 1..Len(s) |-> s[i]] /\ \A i \in 1..Len(s) : s[i] \in C \ M
    BY LenProperties, ElementOfSeq
  <1>2. QED
    BY <1>1

\* A segment that stays apart from what is before it in a text.
Sound(segment) ==
  /\ segment \in Segments
  /\ "key" \in DOMAIN segment => Plain(segment.key)
  /\ "index" \in DOMAIN segment => segment.index \in DOMAIN Numeral

\* What one round of format_path appends: the segment can be read off its end.
LEMMA JoinFacts ==
  ASSUME NEW u \in Seq(Characters), NEW s, Sound(s)
  PROVE  /\ Join(u, s) \in Seq(Characters) /\ Join(u, s) # <<>>
         /\ "key" \in DOMAIN s =>
              /\ s = KeySegment(s.key) /\ s.key \in Text
              /\ Spelling[s.key] \in Seq(Characters) /\ Spelling[s.key] # <<>>
              /\ FreeOf(Spelling[s.key], ".")
              /\ Join(u, s) = IF u = <<>> THEN Spelling[s.key] ELSE Marked(u, ".", Spelling[s.key])
              /\ Last(Join(u, s)) # "]"
         /\ "key" \notin DOMAIN s =>
              /\ s = IndexSegment(s.index) /\ s.index \in DOMAIN Numeral
              /\ Numeral[s.index] \in Seq(Characters)
              /\ FreeOf(Numeral[s.index], "[")
              /\ Last(Join(u, s)) = "]" /\ Front(Join(u, s)) = Marked(u, "[", Numeral[s.index])
  <1>1. {".", "[", "]"} \subseteq Characters /\ s \in Segments /\ Len(u) \in Nat
    BY SpellingAssumption, LenProperties DEF Sound
  <1>2. CASE "key" \in DOMAIN s
    <2> DEFINE k == Spelling[s.key]
    <2>1. s = KeySegment(s.key) /\ s.key \in Text
      BY <1>1, <1>2 DEF Segments, KeySegment
    <2>2. /\ k \in Seq(Characters) /\ k # <<>> /\ Len(k) \in Nat \ {0}
          /\ DOMAIN k = 1..Len(k)
          /\ \A j \in 1..Len(k) : k[j] \notin {".", "[", "]"}
      <3>1. k \in Seq(Characters) /\ k # <<>> /\ ToSet(k) \cap {".", "[", "]"} = {}
        BY <1>2, <2>1, SpellingAssumption DEF Sound, Plain
      <3> HIDE DEF k
      <3>2. Len(k) \in Nat \ {0} /\ DOMAIN k = 1..Len(k)
        BY <3>1, EmptySeq, LenProperties
      <3>3. QED
        BY <3>1, <3>2 DEF ToSet
    <2>0. FreeOf(k, ".")
      BY <2>2 DEF FreeOf
    <2>3. Join(u, s) = IF u = <<>> THEN k ELSE Marked(u, ".", k)
      <3>1. k \in Seq(Characters) => <<>> \o k = k
        OBVIOUS
      <3>2. QED
        BY <1>2, <2>2, <3>1 DEF Join, Marked
    <2> HIDE DEF k
    <2>4. CASE u = <<>>
      <3>1. Join(u, s) = k
        BY <2>3, <2>4
      <3>2. Last(k) = k[Len(k)]
        BY <2>2, FrontLastProperties
      <3>3. Join(u, s) \in Seq(Characters) /\ Join(u, s) # <<>> /\ Last(Join(u, s)) # "]"
        BY <2>2, <3>1, <3>2
      <3>4. QED
        BY <1>2, <2>0, <2>1, <2>2, <2>3, <3>3 DEF k
    <2>5. CASE u # <<>>
      <3> DEFINE x == Marked(u, ".", k)
      <3>1. x = Join(u, s)
        BY <2>3, <2>5
      <3>2. /\ x \in Seq(Characters)
            /\ Len(x) = Len(u) + 1 + Len(k)
            /\ \A j \in 1..Len(k) : x[Len(u) + 1 + j] = k[j]
        <4>1. "." \in Characters
          BY <1>1
        <4>2. QED
          <5>1. IsMarked(Marked(u, ".", k), u, ".", k)
            BY <2>2, <4>1, MarkedFacts
          <5>2. QED
            BY <5>1 DEF IsMarked, x
      <3> HIDE DEF x
      <3>3. x # <<>> /\ Last(x) = x[Len(x)] /\ x[Len(x)] = k[Len(k)]
        <4>1. Len(x) # 0 /\ Len(k) \in 1..Len(k)
          BY <1>1, <2>2, <3>2
        <4>2. x # <<>>
          BY <3>2, <4>1, EmptySeq
        <4>3. QED
          BY <3>2, <4>1, <4>2, FrontLastProperties
      <3>4. Join(u, s) \in Seq(Characters) /\ Join(u, s) # <<>> /\ Last(Join(u, s)) # "]"
        BY <2>2, <3>1, <3>2, <3>3
      <3>5. QED
        BY <1>2, <2>0, <2>1, <2>2, <2>3, <3>4 DEF k
    <2>6. QED
      BY <2>4, <2>5
  <1>3. CASE "key" \notin DOMAIN s
    <2> DEFINE k == Numeral[s.index]
    <2>1. s = IndexSegment(s.index) /\ s.index \in DOMAIN Numeral
      BY <1>1, <1>3 DEF Segments, IndexSegment, Sound
    <2>2. k \in Seq(Characters \ {"[", "]"})
      BY <2>1, NumeralAssumption
    <2> HIDE DEF k
    <2>3. k \in Seq(Characters) /\ \A j \in 1..Len(k) : k[j] \notin {"[", "]"}
      BY <2>2, WithoutMark
    <2>0. FreeOf(k, "[")
      BY <2>3 DEF FreeOf
    <2> DEFINE v == Append(u, "[") \o k
    <2>4. v \in Seq(Characters)
      BY <1>1, <2>3, AppendProperties, ConcatProperties
    <2>5. Join(u, s) = Append(v, "]")
      <3>1. Join(u, s) = ((u \o <<"[">>) \o k) \o <<"]">>
        BY <1>3 DEF Join, k
      <3>2. \A w \in Seq(Characters), c \in Characters : w \o <<c>> = Append(w, c)
        OBVIOUS
      <3>3. u \o <<"[">> = Append(u, "[")
        BY <1>1, <3>2
      <3>4. QED
        BY <1>1, <2>4, <3>1, <3>2, <3>3
    <2> HIDE DEF v
    <2>6. /\ Append(v, "]") \in Seq(Characters) /\ Append(v, "]") # <<>>
          /\ Last(Append(v, "]")) = "]" /\ Front(Append(v, "]")) = v
      BY <1>1, <2>4, AppendThenFront
    <2>7. v = Marked(u, "[", k)
      BY DEF Marked, v
    <2>8. QED
      BY <1>3, <2>0, <2>1, <2>3, <2>5, <2>6, <2>7 DEF k
  <1>4. QED
    BY <1>2, <1>3

\* One round of format_path can be undone.
LEMMA JoinTells ==
  ASSUME NEW u \in Seq(Characters), NEW v \in Seq(Characters), NEW s, Sound(s), NEW t, Sound(t),
         Join(u, s) = Join(v, t)
  PROVE  u = v /\ s = t
  <1>1. {".", "[", "]"} \subseteq Characters
    BY SpellingAssumption
  <1>2. ASSUME "key" \in DOMAIN s, "key" \in DOMAIN t PROVE u = v /\ s = t
    <2> DEFINE k == Spelling[s.key]  l == Spelling[t.key]  x == Join(u, s)
    <2>1. /\ s = KeySegment(s.key) /\ s.key \in Text /\ t = KeySegment(t.key) /\ t.key \in Text
          /\ k \in Seq(Characters) /\ FreeOf(k, ".")
          /\ l \in Seq(Characters) /\ FreeOf(l, ".")
          /\ x = IF u = <<>> THEN k ELSE Marked(u, ".", k)
          /\ x = IF v = <<>> THEN l ELSE Marked(v, ".", l)
      BY <1>2, JoinFacts
    <2>2. k = l => s = t
      <3>1. k = l => s.key = t.key
        BY <2>1, SpellingAssumption
      <3>2. QED
        BY <2>1, <3>1
    <2> HIDE DEF k, l, x
    <2>3. ASSUME NEW w \in Seq(Characters), NEW m \in Seq(Characters), x = Marked(w, ".", m),
                 FreeOf(x, ".")
          PROVE  FALSE
      <3>1. /\ Len(w) \in Nat /\ Len(m) \in Nat /\ Len(x) = Len(w) + 1 + Len(m)
            /\ x[Len(w) + 1] = "."
        <4>1. "." \in Characters
          BY <1>1
        <4>2. IsMarked(Marked(w, ".", m), w, ".", m)
          BY <4>1, MarkedFacts
        <4>3. QED
          BY <2>3, <4>2 DEF IsMarked
      <3>2. Len(w) + 1 \in 1..Len(x)
        BY <3>1
      <3>3. x[Len(w) + 1] # "."
        BY <2>3, <3>2 DEF FreeOf
      <3>4. QED
        BY <3>1, <3>3
    <2>4. CASE u = <<>> /\ v = <<>>
      BY <2>1, <2>2, <2>4
    <2>5. CASE u = <<>> /\ v # <<>>
      BY <2>1, <2>3, <2>5
    <2>6. CASE u # <<>> /\ v = <<>>
      BY <2>1, <2>3, <2>6
    <2>7. CASE u # <<>> /\ v # <<>>
      <3>1. Marked(u, ".", k) = Marked(v, ".", l) /\ "." \in Characters
        BY <1>1, <2>1, <2>7
      <3>2. u = v /\ k = l
        BY <2>1, <3>1, SplitsAtMark
      <3>3. QED
        BY <2>2, <3>2
    <2>8. QED
      BY <2>4, <2>5, <2>6, <2>7
  <1>3. ASSUME "key" \notin DOMAIN s, "key" \notin DOMAIN t PROVE u = v /\ s = t
    <2> DEFINE k == Numeral[s.index]  l == Numeral[t.index]  x == Front(Join(u, s))
    <2>1. /\ s = IndexSegment(s.index) /\ s.index \in DOMAIN Numeral
          /\ t = IndexSegment(t.index) /\ t.index \in DOMAIN Numeral
          /\ k \in Seq(Characters) /\ FreeOf(k, "[")
          /\ l \in Seq(Characters) /\ FreeOf(l, "[")
          /\ x = Marked(u, "[", k) /\ x = Marked(v, "[", l)
      BY <1>3, JoinFacts
    <2>2. k = l => s = t
      <3>1. k = l => s.index = t.index
        BY <2>1, NumeralAssumption
      <3>2. QED
        BY <2>1, <3>1
    <2> HIDE DEF k, l, x
    <2>3. "[" \in Characters
      BY <1>1
    <2>6. Marked(u, "[", k) = Marked(v, "[", l)
      BY <2>1
    <2>4. u = v /\ k = l
      BY <2>1, <2>3, <2>6, SplitsAtMark
    <2>5. QED
      BY <2>2, <2>4
  <1>4. ("key" \in DOMAIN s) <=> ("key" \in DOMAIN t)
    <2> DEFINE x == Join(u, s)
    <2>1. ("key" \in DOMAIN s) <=> Last(x) # "]"
      BY JoinFacts
    <2>2. ("key" \in DOMAIN t) <=> Last(Join(v, t)) # "]"
      BY JoinFacts
    <2>3. x = Join(v, t)
      OBVIOUS
    <2> HIDE DEF x
    <2>4. QED
      BY <2>1, <2>2, <2>3
  <1>5. QED
    BY <1>2, <1>3, <1>4

\* The texts along a path.
LEMMA TextFacts ==
  ASSUME NEW p, Len(p) \in Nat, \A i \in 1..Len(p) : Sound(p[i]),
         NEW g, g = [i \in 0..Len(p) |-> Longer(p, i, g)]
  PROVE  /\ g[0] = <<>>
         /\ \A i \in 0..Len(p) : g[i] \in Seq(Characters)
         /\ \A i \in 1..Len(p) : g[i] = Join(g[i - 1], p[i]) /\ g[i] # <<>>
  <1>1. \A i \in 0..Len(p) : g[i] = Longer(p, i, g)
    OBVIOUS
  <1>2. g[0] = <<>>
    BY <1>1 DEF Longer
  <1>3. \A i \in 1..Len(p) : g[i] = Join(g[i - 1], p[i])
    BY <1>1 DEF Longer
  <1> DEFINE S == {n \in Nat : n <= Len(p) => g[n] \in Seq(Characters)}
  <1>4. 0 \in S
    BY <1>2
  <1>5. ASSUME NEW n \in Nat, n \in S PROVE n + 1 \in S
    <2> SUFFICES ASSUME n + 1 <= Len(p) PROVE g[n + 1] \in Seq(Characters)
      OBVIOUS
    <2>1. g[n] \in Seq(Characters) /\ n + 1 \in 1..Len(p) /\ (n + 1) - 1 = n
      BY <1>5
    <2>2. g[n + 1] = Join(g[n], p[n + 1]) /\ Sound(p[n + 1])
      BY <1>3, <2>1
    <2> DEFINE u == g[n]  x == p[n + 1]
    <2>3. u \in Seq(Characters) /\ Sound(x)
      BY <2>1, <2>2
    <2>4. g[n + 1] = Join(u, x)
      BY <2>2
    <2> HIDE DEF u, x
    <2>5. Join(u, x) \in Seq(Characters)
      BY <2>3, JoinFacts
    <2>6. QED
      BY <2>4, <2>5
  <1>6. \A i \in 0..Len(p) : g[i] \in Seq(Characters)
    <2>1. Nat \subseteq S
      <3> HIDE DEF S
      <3> QED BY <1>4, <1>5, SetInduction
    <2>2. QED
      BY <2>1
  <1>7. ASSUME NEW i \in 1..Len(p) PROVE g[i] # <<>>
    <2>1. i - 1 \in 0..Len(p)
      OBVIOUS
    <2>2. g[i - 1] \in Seq(Characters) /\ Sound(p[i]) /\ g[i] = Join(g[i - 1], p[i])
      BY <1>3, <1>6, <2>1
    <2>3. QED
      BY <2>2, JoinFacts
  <1>8. QED
    BY <1>2, <1>3, <1>6, <1>7

LEMMA TextTellsPath ==
  ASSUME NEW p \in Seq(Segments), NEW q \in Seq(Segments), format_path(p) = format_path(q),
         \A i \in 1..Len(p) : Sound(p[i]), \A i \in 1..Len(q) : Sound(q[i])
  PROVE  p = q
  <1>1. Len(p) \in Nat /\ Len(q) \in Nat
    BY LenProperties
  <1>2. PICK g : g = [i \in 0..Len(p) |-> Longer(p, i, g)] /\ format_path(p) = g[Len(p)]
    BY <1>1, TextUnfolds
  <1>3. PICK h : h = [i \in 0..Len(q) |-> Longer(q, i, h)] /\ format_path(q) = h[Len(q)]
    BY <1>1, TextUnfolds
  <1>4. /\ g[0] = <<>>
        /\ \A i \in 0..Len(p) : g[i] \in Seq(Characters)
        /\ \A i \in 1..Len(p) : g[i] = Join(g[i - 1], p[i]) /\ g[i] # <<>>
    BY <1>1, <1>2, TextFacts
  <1>5. /\ h[0] = <<>>
        /\ \A i \in 0..Len(q) : h[i] \in Seq(Characters)
        /\ \A i \in 1..Len(q) : h[i] = Join(h[i - 1], q[i]) /\ h[i] # <<>>
    BY <1>1, <1>3, TextFacts
  <1> DEFINE Told(m) == \A n \in 0..Len(q) : g[m] = h[n] => m = n /\ \A i \in 1..m : p[i] = q[i]
             S == {m \in Nat : m <= Len(p) => Told(m)}
  <1>6. 0 \in S
    <2>1. ASSUME NEW n \in 0..Len(q), g[0] = h[n] PROVE 0 = n
      <3>1. n \notin 1..Len(q)
        BY <1>4, <1>5, <2>1
      <3>2. QED
        BY <1>1, <3>1
    <2>2. Told(0)
      BY <2>1
    <2> HIDE DEF Told
    <2>3. QED
      BY <2>2
  <1> HIDE DEF Told
  <1>7. ASSUME NEW m \in Nat, m \in S PROVE m + 1 \in S
    <2> SUFFICES ASSUME m + 1 <= Len(p) PROVE Told(m + 1)
      OBVIOUS
    <2> SUFFICES ASSUME NEW n \in 0..Len(q), g[m + 1] = h[n]
                 PROVE  m + 1 = n /\ \A i \in 1..(m + 1) : p[i] = q[i]
      BY DEF Told
    <2>0. Told(m)
      BY <1>1, <1>7
    <2>1. m + 1 \in 1..Len(p) /\ m \in 0..Len(p) /\ (m + 1) - 1 = m
      BY <1>1
    <2>2. g[m + 1] = Join(g[m], p[m + 1]) /\ g[m + 1] # <<>> /\ g[m] \in Seq(Characters)
          /\ Sound(p[m + 1])
      BY <1>4, <2>1
    <2>3. n \in 1..Len(q) /\ n - 1 \in 0..Len(q)
      <3>1. n # 0
        BY <1>5, <2>2
      <3>2. QED
        BY <1>1, <3>1
    <2>4. h[n] = Join(h[n - 1], q[n]) /\ h[n - 1] \in Seq(Characters) /\ Sound(q[n])
      BY <1>5, <2>3
    <2>5. Join(g[m], p[m + 1]) = Join(h[n - 1], q[n])
      BY <2>2, <2>4
    <2>6. g[m] = h[n - 1] /\ p[m + 1] = q[n]
      BY <2>2, <2>4, <2>5, JoinTells
    <2>7. m = n - 1 /\ \A i \in 1..m : p[i] = q[i]
      BY <2>0, <2>3, <2>6 DEF Told
    <2>8. m + 1 = n /\ \A i \in 1..(m + 1) : i \in 1..m \/ i = m + 1
      BY <2>3, <2>7
    <2>9. QED
      BY <2>6, <2>7, <2>8
  <1>8. Len(p) = Len(q) /\ \A i \in 1..Len(p) : p[i] = q[i]
    <2>1. Len(p) \in S
      <3> HIDE DEF S
      <3> QED BY <1>1, <1>6, <1>7, SetInduction
    <2>2. Told(Len(p))
      BY <1>1, <2>1
    <2>3. Len(q) \in 0..Len(q)
      BY <1>1
    <2>4. g[Len(p)] = h[Len(q)]
      <3>1. format_path(p) = g[Len(p)] /\ format_path(q) = h[Len(q)]
        BY <1>2, <1>3
      <3>2. QED
        BY <3>1
    <2>5. QED
      BY <2>2, <2>3, <2>4 DEF Told
  <1>9. QED
    BY <1>8, SeqEqual

LEMMA OnceIsNoIssueTwice == TypeInv /\ OrderInv => NoIssueTwice
  <1> SUFFICES ASSUME TypeInv, OrderInv, DistinctFields(call.schema),
                      NEW i \in DOMAIN issues, NEW j \in DOMAIN issues,
                      i # j, issues[i].code = issues[j].code, Alike(issues[i].path, issues[j].path)
               PROVE  RepeatsKey(call.input.value, issues[i].path)
    BY DEF NoIssueTwice
  <1>1. /\ issues \in Seq(IssueSet) /\ i \in 1..Len(issues) /\ j \in 1..Len(issues)
    BY LenProperties DEF TypeInv, TypeOK, IssueSet
  <1>2. /\ issues[i].path \in Seq(Segments) /\ Indexed(issues[i].path)
        /\ issues[j].path \in Seq(Segments) /\ Indexed(issues[j].path)
    <2>1. issues[i] \in IssueSet /\ issues[j] \in IssueSet
      BY <1>1, ElementOfSeq
    <2>2. QED
      BY <1>1, <2>1 DEF IssueSet, OrderInv
  <1>3. \A p \in Seq(Segments) : Indexed(p) /\ PlainPath(p) => \A h \in 1..Len(p) : Sound(p[h])
    <2> TAKE p \in Seq(Segments)
    <2>1. \A h \in 1..Len(p) : p[h] \in Segments
      BY ElementOfSeq
    <2>2. QED
      BY <2>1 DEF Indexed, PlainPath, Sound
  <1>4. issues[i].path = issues[j].path
    <2> DEFINE p == issues[i].path  q == issues[j].path
    <2>1. p \in Seq(Segments) /\ q \in Seq(Segments) /\ Indexed(p) /\ Indexed(q)
          /\ (p = q \/ (PlainPath(p) /\ PlainPath(q) /\ format_path(p) = format_path(q)))
      BY <1>2 DEF Alike
    <2> HIDE DEF p, q
    <2>2. p = q
      BY <1>3, <2>1, TextTellsPath
    <2>3. QED
      BY <2>2 DEF p, q
  <1>5. QED
    BY <1>1, <1>4 DEF OrderInv, ReportedOnce

\* No offence is reported twice: what the validator is done with it never comes
\* back to, and neither do the two loops of a struct meet at a key; and the
\* text format_path makes of a path, as long as no key in it is empty or holds
\* a dot or a bracket, leads back to that path alone.
THEOREM IssuesAreDistinct == Spec => []NoIssueTwice
  <1>1. Init => PathMirrorsStack
    BY EmptySeq DEF Init, PathMirrorsStack, Spine
  <1>2. Init => AddressInv
    <2> SUFFICES ASSUME Init PROVE AddressInv
      OBVIOUS
    <2>1. pc = "start" /\ stack = <<>> /\ issues = <<>> /\ Len(stack) = 0
      BY DEF Init
    <2>2. QED
      BY <2>1 DEF AddressInv, Chained, FormKnown, IssuesAddressPayload, ToSet
  <1>3. TypeInv /\ PathMirrorsStack /\ JudgeInv /\ AddressInv /\ OrderInv /\ [Next]_vars => OrderInv'
    BY OrderStep
  <1>4. TypeInv /\ PathMirrorsStack /\ AddressInv /\ [Next]_vars => AddressInv'
    BY AddressStep
  <1>5. Init => ExpectNeverPanics
    BY DEF Init, ExpectNeverPanics
  <1>6. QED
    BY <1>1, <1>2, <1>3, <1>4, <1>5, TypeInit, TypeStep, ExplainedStep, PathStep, JudgeInit,
       JudgeStep, OrderInit, OnceIsNoIssueTwice, PTL DEF Spec

(***************************************************************************)
(* An output, taken for a payload, conforms strictly: what it conforms to  *)
(* is what its definition says of every node.                              *)
(***************************************************************************)
\* The fields a struct holds exist as entries, one by one.
LEMMA HeldUnfolds ==
  ASSUME NEW v, Len(v.names) \in Nat
  PROVE  \E g : g = [i \in 0..Len(v.names) |-> HeldBefore(v, i, g)] /\ HeldFields(v) = g[Len(v.names)]
  <1> DEFINE L(g, i) == HeldBefore(v, i, g)
             S == {n \in Nat : \E g : g = [i \in 0..n |-> L(g, i)]}
  <1>1. ASSUME NEW g, NEW h, NEW i \in Nat, i = 0 \/ g[i - 1] = h[i - 1]
        PROVE  L(g, i) = L(h, i)
    BY <1>1 DEF HeldBefore
  <1> HIDE DEF L
  <1>2. 0 \in S
    <2> DEFINE e == [i \in 0..0 |-> L(<<>>, 0)]
    <2>1. \A i \in 0..0 : L(e, i) = L(<<>>, 0)
      <3> HIDE DEF e
      <3>1. L(e, 0) = L(<<>>, 0)
        BY <1>1
      <3>2. QED
        BY <3>1
    <2>2. e = [i \in 0..0 |-> L(e, i)]
      BY <2>1
    <2> HIDE DEF e
    <2>3. QED
      BY <2>2
  <1>3. ASSUME NEW n \in Nat, n \in S PROVE n + 1 \in S
    <2>1. PICK g : g = [i \in 0..n |-> L(g, i)]
      BY <1>3
    <2> DEFINE h == [i \in 0..(n + 1) |-> IF i <= n THEN g[i] ELSE L(g, i)]
    <2>2. ASSUME NEW i \in 0..(n + 1) PROVE h[i] = L(h, i)
      <3>1. i = 0 \/ g[i - 1] = h[i - 1]
        OBVIOUS
      <3> HIDE DEF h
      <3>2. L(g, i) = L(h, i)
        BY <3>1, <1>1
      <3>3. QED
        BY <2>1, <3>2 DEF h
    <2>3. h = [i \in 0..(n + 1) |-> h[i]]
      OBVIOUS
    <2> HIDE DEF h
    <2>4. h = [i \in 0..(n + 1) |-> L(h, i)]
      BY <2>2, <2>3
    <2>5. QED
      BY <2>4
  <1>4. Len(v.names) \in S
    <2> HIDE DEF S
    <2> QED BY <1>2, <1>3, SetInduction
  <1>5. \E g : g = [i \in 0..Len(v.names) |-> HeldBefore(v, i, g)]
    BY <1>4 DEF L
  <1> DEFINE held == CHOOSE g : g = [i \in 0..Len(v.names) |-> HeldBefore(v, i, g)]
  <1>6. held = [i \in 0..Len(v.names) |-> HeldBefore(v, i, held)]
    BY <1>5
  <1>7. HeldFields(v) = held[Len(v.names)]
    BY DEF HeldFields
  <1> HIDE DEF held
  <1>8. QED
    BY <1>6, <1>7

\* Every entry is that of a field the struct holds, and each of those has one.
HoldsFields(h, v, n) ==
  /\ \A a \in 1..Len(h) : \E i \in 1..n : \E w \in v.fields[i] : h[a] = Entry(v.names[i], w)
  /\ \A i \in 1..n : v.fields[i] # None => \E a \in 1..Len(h) : h[a].key = v.names[i]

LEMMA OneMoreHeld ==
  ASSUME NEW v, NEW n \in Nat, NEW h, h \in Seq(ToSet(h)), HoldsFields(h, v, n),
         v.fields[n + 1] # None, NEW w \in v.fields[n + 1]
  PROVE  HoldsFields(Append(h, Entry(v.names[n + 1], w)), v, n + 1)
  <1> DEFINE e == Entry(v.names[n + 1], w)  t == Append(h, e)
  <1>1. /\ Len(h) \in Nat /\ Len(t) = Len(h) + 1
        /\ \A i \in 1..Len(h) : t[i] = h[i]
        /\ t[Len(h) + 1] = e
    BY Pushed
  <1>2. e.key = v.names[n + 1]
    BY DEF Entry
  <1>3. e = Entry(v.names[n + 1], w)
    OBVIOUS
  <1> HIDE DEF e, t
  <1>4. ASSUME NEW a \in 1..Len(t)
        PROVE  \E i \in 1..(n + 1) : \E x \in v.fields[i] : t[a] = Entry(v.names[i], x)
    <2>1. CASE a = Len(h) + 1
      BY <1>1, <1>3, <2>1
    <2>2. CASE a \in 1..Len(h)
      <3>1. PICK i \in 1..n : \E x \in v.fields[i] : h[a] = Entry(v.names[i], x)
        BY <2>2 DEF HoldsFields
      <3>2. i \in 1..(n + 1)
        OBVIOUS
      <3>3. QED
        BY <1>1, <2>2, <3>1, <3>2
    <2>3. QED
      BY <1>1, <2>1, <2>2
  <1>5. ASSUME NEW i \in 1..(n + 1), v.fields[i] # None
        PROVE  \E a \in 1..Len(t) : t[a].key = v.names[i]
    <2>1. CASE i = n + 1
      <3>1. Len(h) + 1 \in 1..Len(t)
        BY <1>1
      <3>2. QED
        BY <1>1, <1>2, <2>1, <3>1
    <2>2. CASE i \in 1..n
      <3>1. PICK a \in 1..Len(h) : h[a].key = v.names[i]
        BY <1>5, <2>2 DEF HoldsFields
      <3>2. a \in 1..Len(t) /\ t[a] = h[a]
        BY <1>1
      <3>3. QED
        BY <3>1, <3>2
    <2>3. QED
      BY <2>1, <2>2
  <1>6. QED
    BY <1>4, <1>5 DEF HoldsFields, t, e

LEMMA HeldFacts ==
  ASSUME NEW v, Len(v.names) \in Nat
  PROVE  HeldFields(v) \in Seq(ToSet(HeldFields(v))) /\ HoldsFields(HeldFields(v), v, Len(v.names))
  <1>1. PICK g : g = [i \in 0..Len(v.names) |-> HeldBefore(v, i, g)] /\ HeldFields(v) = g[Len(v.names)]
    BY HeldUnfolds
  <1> DEFINE Right(n) == g[n] \in Seq(ToSet(g[n])) /\ HoldsFields(g[n], v, n)
             S == {n \in Nat : n <= Len(v.names) => Right(n)}
  <1>2. \A i \in 0..Len(v.names) : g[i] = HeldBefore(v, i, g)
    BY <1>1
  <1>3. 0 \in S
    <2>1. g[0] = <<>>
      BY <1>2 DEF HeldBefore
    <2>2. <<>> \in Seq(ToSet(<<>>)) /\ Len(<<>>) = 0
      BY EmptySeq
    <2>3. Right(0)
      BY <2>1, <2>2 DEF HoldsFields
    <2>4. QED
      BY <2>3
  <1>4. ASSUME NEW n \in Nat, n \in S PROVE n + 1 \in S
    <2> SUFFICES ASSUME n + 1 <= Len(v.names) PROVE Right(n + 1)
      OBVIOUS
    <2>1. g[n] \in Seq(ToSet(g[n])) /\ HoldsFields(g[n], v, n)
      BY <1>4
    <2>2. g[n + 1] = HeldBefore(v, n + 1, g) /\ (n + 1) - 1 = n /\ n + 1 # 0
      BY <1>2
    <2>3. CASE v.fields[n + 1] = None
      <3>1. g[n + 1] = g[n]
        BY <2>2, <2>3 DEF HeldBefore
      <3>2. HoldsFields(g[n], v, n + 1)
        <4>1. \A i \in 1..(n + 1) : i \in 1..n \/ i = n + 1
          OBVIOUS
        <4>2. \A i \in 1..n : i \in 1..(n + 1)
          OBVIOUS
        <4>3. QED
          BY <2>1, <2>3, <4>1, <4>2 DEF HoldsFields
      <3>3. QED
        BY <2>1, <3>1, <3>2
    <2>4. CASE v.fields[n + 1] # None
      <3> DEFINE w == CHOOSE x \in v.fields[n + 1] : TRUE
      <3>1. w \in v.fields[n + 1]
        BY <2>4 DEF None
      <3>2. g[n + 1] = Append(g[n], Entry(v.names[n + 1], w))
        BY <2>2, <2>4 DEF HeldBefore
      <3> HIDE DEF w
      <3>3. HoldsFields(Append(g[n], Entry(v.names[n + 1], w)), v, n + 1)
        BY <2>1, <2>4, <3>1, OneMoreHeld
      <3> DEFINE h == Append(g[n], Entry(v.names[n + 1], w))
      <3>4. h \in Seq(ToSet(h))
        <4>1. ASSUME NEW s, NEW e, s \in Seq(ToSet(s)) PROVE Append(s, e) \in Seq(ToSet(Append(s, e)))
          BY <4>1, Pushed
        <4>2. QED
          BY <2>1, <4>1
      <3> HIDE DEF HoldsFields
      <3>5. QED
        BY <3>2, <3>3, <3>4
    <2>5. QED
      BY <2>3, <2>4
  <1>5. Right(Len(v.names))
    <2> HIDE DEF Right
    <2>1. Len(v.names) \in S
      <3> HIDE DEF S
      <3> QED BY <1>3, <1>4, SetInduction
    <2>2. QED
      BY <2>1
  <1>6. QED
    BY <1>1, <1>5

\* A struct as a payload: its entries are those of the fields it holds and those
\* of its extras.
EntryOf(v, e) ==
  \/ \E i \in 1..Len(v.names) : \E w \in v.fields[i] : e = Entry(v.names[i], w)
  \/ \E d \in v.extras : \E a \in 1..Len(d) : e = d[a]

LEMMA PayloadOfStruct ==
  ASSUME NEW v, v.kind = "struct", Len(v.names) \in Nat, \A d \in v.extras : IsSequence(d)
  PROVE  LET p == AsPayload(v) IN
         /\ p.kind = "dict" /\ IsSequence(p.entries)
         /\ \A a \in 1..Len(p.entries) : EntryOf(v, p.entries[a])
         /\ \A i \in 1..Len(v.names) : v.fields[i] # None =>
              \E a \in 1..Len(p.entries) : p.entries[a].key = v.names[i]
  <1> DEFINE h == HeldFields(v)
             d == IF v.extras = None THEN <<>> ELSE CHOOSE x \in v.extras : TRUE
             U == ToSet(h) \cup ToSet(d)
             t == h \o d
  <1>1. h \in Seq(ToSet(h)) /\ HoldsFields(h, v, Len(v.names))
    BY HeldFacts
  <1>2. d \in Seq(ToSet(d)) /\ (d = <<>> \/ d \in v.extras)
    <2>1. CASE v.extras = None
      BY <2>1, EmptySeq
    <2>2. CASE v.extras # None
      <3>1. d \in v.extras
        BY <2>2 DEF None
      <3>2. QED
        BY <3>1, SequenceOverItself
    <2>3. QED
      BY <2>1, <2>2
  <1>3. AsPayload(v) = DictValue(t)
    BY DEF AsPayload
  <1> HIDE DEF h, d
  <1>4. h \in Seq(U) /\ d \in Seq(U)
    BY <1>1, <1>2, OverMore
  <1>5. /\ t \in Seq(U) /\ Len(t) = Len(h) + Len(d) /\ Len(h) \in Nat /\ Len(d) \in Nat
        /\ \A a \in 1..Len(h) : t[a] = h[a]
        /\ \A a \in (Len(h) + 1)..(Len(h) + Len(d)) : t[a] = d[a - Len(h)]
    <2> HIDE DEF U
    <2> QED BY <1>4, ConcatProperties, LenProperties
  <1>6. IsSequence(t)
    <2> HIDE DEF U, t
    <2> QED BY <1>5, OverItself, SequenceOverItself
  <1> HIDE DEF t
  <1>7. ASSUME NEW a \in 1..Len(t) PROVE EntryOf(v, t[a])
    <2>1. CASE a \in 1..Len(h)
      BY <1>1, <1>5, <2>1 DEF HoldsFields, EntryOf
    <2>2. CASE a \notin 1..Len(h)
      <3>1. a - Len(h) \in 1..Len(d) /\ t[a] = d[a - Len(h)]
        BY <1>5, <2>2
      <3>2. d \in v.extras
        <4>1. d # <<>>
          BY <3>1
        <4>2. QED
          BY <1>2, <4>1
      <3>3. QED
        BY <3>1, <3>2 DEF EntryOf
    <2>3. QED
      BY <2>1, <2>2
  <1>8. ASSUME NEW i \in 1..Len(v.names), v.fields[i] # None
        PROVE  \E a \in 1..Len(t) : t[a].key = v.names[i]
    <2>1. PICK a \in 1..Len(h) : h[a].key = v.names[i]
      BY <1>1, <1>8 DEF HoldsFields
    <2>2. a \in 1..Len(t) /\ t[a] = h[a]
      BY <1>5
    <2>3. QED
      BY <2>1, <2>2
  <1>9. AsPayload(v).kind = "dict" /\ AsPayload(v).entries = t
    BY <1>3 DEF DictValue
  <1>10. QED
    BY <1>6, <1>7, <1>8, <1>9

\* A payload is its own.
LEMMA PayloadOfPayload ==
  ASSUME NEW v
  PROVE  /\ AsPayload(v).kind # "struct"
         /\ v.kind # "struct" => AsPayload(v) = v
         /\ AsPayload(AsPayload(v)) = AsPayload(v)
  <1>1. AsPayload(v).kind # "struct"
    BY DEF AsPayload, DictValue
  <1>2. QED
    BY <1>1 DEF AsPayload

\* The parts of an output exist, depth by depth.
LEMMA PartsUnfold ==
  ASSUME NEW o, NEW depth \in Nat
  PROVE  PartsWithin(o, depth) = [k \in 0..depth |-> Deeper(o, k, PartsWithin(o, depth))]
  <1> DEFINE L(g, i) == Deeper(o, i, g)
             S == {n \in Nat : \E g : g = [i \in 0..n |-> L(g, i)]}
  <1>1. ASSUME NEW g, NEW h, NEW i \in Nat, i = 0 \/ g[i - 1] = h[i - 1]
        PROVE  L(g, i) = L(h, i)
    BY <1>1 DEF Deeper
  <1> HIDE DEF L
  <1>2. 0 \in S
    <2> DEFINE e == [i \in 0..0 |-> L(<<>>, 0)]
    <2>1. \A i \in 0..0 : L(e, i) = L(<<>>, 0)
      <3> HIDE DEF e
      <3>1. L(e, 0) = L(<<>>, 0)
        BY <1>1
      <3>2. QED
        BY <3>1
    <2>2. e = [i \in 0..0 |-> L(e, i)]
      BY <2>1
    <2> HIDE DEF e
    <2>3. QED
      BY <2>2
  <1>3. ASSUME NEW n \in Nat, n \in S PROVE n + 1 \in S
    <2>1. PICK g : g = [i \in 0..n |-> L(g, i)]
      BY <1>3
    <2> DEFINE h == [i \in 0..(n + 1) |-> IF i <= n THEN g[i] ELSE L(g, i)]
    <2>2. ASSUME NEW i \in 0..(n + 1) PROVE h[i] = L(h, i)
      <3>1. i = 0 \/ g[i - 1] = h[i - 1]
        OBVIOUS
      <3> HIDE DEF h
      <3>2. L(g, i) = L(h, i)
        BY <3>1, <1>1
      <3>3. QED
        BY <2>1, <3>2 DEF h
    <2>3. h = [i \in 0..(n + 1) |-> h[i]]
      OBVIOUS
    <2> HIDE DEF h
    <2>4. h = [i \in 0..(n + 1) |-> L(h, i)]
      BY <2>2, <2>3
    <2>5. QED
      BY <2>4
  <1>4. depth \in S
    <2> HIDE DEF S
    <2> QED BY <1>2, <1>3, SetInduction
  <1>5. \E g : g = [i \in 0..depth |-> Deeper(o, i, g)]
    BY <1>4 DEF L
  <1> DEFINE parts == CHOOSE g : g = [i \in 0..depth |-> Deeper(o, i, g)]
  <1>6. parts = [i \in 0..depth |-> Deeper(o, i, parts)]
    BY <1>5
  <1>7. PartsWithin(o, depth) = parts
    BY DEF PartsWithin
  <1> HIDE DEF parts
  <1>8. QED
    BY <1>6, <1>7

\* What a node is judged by, and what the nodes below it are.
PartsFor(v) == {v, AsPayload(v)} \cup MembersOf(AsPayload(v))

LEMMA WithPayloadsFacts ==
  ASSUME NEW V, NEW v \in WithPayloads(V)
  PROVE  V \subseteq WithPayloads(V) /\ AsPayload(v) \in WithPayloads(V)
  BY PayloadOfPayload DEF WithPayloads

\* A step further down there is all that a node before this one is judged by.
LEMMA PartsFacts ==
  ASSUME NEW o, NEW depth \in Nat
  PROVE  LET parts == PartsWithin(o, depth) IN
         /\ o \in parts[0]
         /\ \A k \in 0..depth : \A v \in parts[k] : AsPayload(v) \in parts[k]
         /\ \A k \in 0..depth : \A j \in 0..depth : k < j =>
              \A v \in parts[k] : PartsFor(v) \subseteq parts[j]
  <1> DEFINE parts == PartsWithin(o, depth)
  <1>1. \A k \in 0..depth : parts[k] = Deeper(o, k, parts)
    BY PartsUnfold
  <1> HIDE DEF parts
  <1>2. parts[0] = WithPayloads({o})
    <2>1. 0 \in 0..depth
      OBVIOUS
    <2>2. parts[0] = Deeper(o, 0, parts)
      BY <1>1, <2>1
    <2>3. QED
      BY <2>2 DEF Deeper
  <1>3. ASSUME NEW k \in 0..depth, k + 1 \in 0..depth
        PROVE  /\ parts[k] \subseteq parts[k + 1]
               /\ \A v \in parts[k] : MembersOf(AsPayload(v)) \subseteq parts[k + 1]
               /\ \A v \in parts[k + 1] :
                    v \in parts[k] \/ \E w \in parts[k] : v \in WithPayloads(MembersOf(AsPayload(w)))
               /\ \A w \in parts[k] : WithPayloads(MembersOf(AsPayload(w))) \subseteq parts[k + 1]
    <2>1. parts[k + 1] = parts[k] \cup UNION {WithPayloads(MembersOf(AsPayload(v))) : v \in parts[k]}
      <3>1. (k + 1) - 1 = k /\ k + 1 # 0 /\ parts[k + 1] = Deeper(o, k + 1, parts)
        BY <1>1, <1>3
      <3>2. QED
        BY <3>1 DEF Deeper
    <2>2. \A V : V \subseteq WithPayloads(V)
      BY DEF WithPayloads
    <2>3. QED
      BY <2>1, <2>2
  <1> DEFINE Closed(n) == \A v \in parts[n] : AsPayload(v) \in parts[n]
             Reaches(n) == \A k \in 0..depth : k < n => \A v \in parts[k] : PartsFor(v) \subseteq parts[n]
             S == {n \in Nat : n <= depth => Closed(n) /\ Reaches(n)}
  <1>4. 0 \in S
    <2>1. Closed(0)
      BY <1>2, WithPayloadsFacts
    <2>2. Reaches(0)
      OBVIOUS
    <2>3. QED
      BY <2>1, <2>2
  <1>5. ASSUME NEW n \in Nat, n \in S PROVE n + 1 \in S
    <2> SUFFICES ASSUME n + 1 <= depth PROVE Closed(n + 1) /\ Reaches(n + 1)
      OBVIOUS
    <2>1. Closed(n) /\ Reaches(n) /\ n \in 0..depth /\ n + 1 \in 0..depth
      BY <1>5
    <2>2. Closed(n + 1)
      <3> TAKE v \in parts[n + 1]
      <3>1. CASE v \in parts[n]
        BY <1>3, <2>1, <3>1
      <3>2. ASSUME NEW w \in parts[n], v \in WithPayloads(MembersOf(AsPayload(w)))
            PROVE  AsPayload(v) \in parts[n + 1]
        <4>1. AsPayload(v) \in WithPayloads(MembersOf(AsPayload(w)))
          BY <3>2, WithPayloadsFacts
        <4>2. QED
          BY <1>3, <2>1, <4>1
      <3>3. QED
        BY <1>3, <2>1, <3>1, <3>2
    <2>3. Reaches(n + 1)
      <3> TAKE k \in 0..depth
      <3> HAVE k < n + 1
      <3> TAKE v \in parts[k]
      <3>1. CASE k = n
        BY <1>3, <2>1, <3>1 DEF PartsFor
      <3>2. CASE k < n
        BY <1>3, <2>1, <3>2
      <3>3. QED
        BY <3>1, <3>2
    <2>4. QED
      BY <2>2, <2>3
  <1>6. Nat \subseteq S
    <2> HIDE DEF S
    <2> QED BY <1>4, <1>5, SetInduction
  <1>7. \A n \in 0..depth : Closed(n) /\ Reaches(n)
    BY <1>6
  <1>8. o \in parts[0]
    BY <1>2 DEF WithPayloads
  <1>9. QED
    BY <1>7, <1>8 DEF parts

\* A node looks at the value it judges and at its members only, and asks only the
\* nodes before it.
SameBelow(g, h, id, v, extra) ==
  \A k \in 1..(id - 1) : \A w \in {v} \cup MembersOf(v) : \A e \in {extra, None} :
    g[k][w][e] = h[k][w][e]

LEMMA NodeLooksBelow ==
  ASSUME NEW s, IsSchema(s), NEW id \in DOMAIN s.nodes, NEW v, NEW strict, NEW extra, NEW g, NEW h,
         SameBelow(g, h, id, v, extra)
  PROVE  ConformsToNode(s.nodes[id], v, strict, extra, g) = ConformsToNode(s.nodes[id], v, strict, extra, h)
  <1> DEFINE n == s.nodes[id]
             Same(k, w, e) == g[k][w][e] = h[k][w][e]
  <1>1. IsNode(n, id - 1)
    BY DEF IsSchema
  <1>2. \A k \in 1..(id - 1) : Same(k, v, extra)
    BY DEF SameBelow
  <1>3. \A k \in 1..(id - 1) : \A w \in MembersOf(v) : Same(k, w, None)
    BY DEF SameBelow
  <1>4. CASE n.kind \in Leaves
    BY <1>4 DEF ConformsToNode, Leaves
  <1>5. CASE n.kind = "optional"
    <2>1. Same(n.of, v, extra)
      BY <1>1, <1>2, <1>5 DEF IsNode, Collections
    <2>2. QED
      BY <1>5, <2>1 DEF ConformsToNode, ConformsToLeaf
  <1>6. CASE n.kind = "list"
    <2>1. n.of \in 1..(id - 1)
      BY <1>1, <1>6 DEF IsNode, Collections
    <2>2. v.kind = "list" => \A i \in DOMAIN v.items : v.items[i] \in MembersOf(v)
      BY DEF MembersOf, ToSet
    <2>3. v.kind = "list" => \A i \in DOMAIN v.items : Same(n.of, v.items[i], None)
      BY <1>3, <2>1, <2>2
    <2>4. QED
      BY <1>6, <2>3 DEF ConformsToNode, ConformsToLeaf
  <1>7. CASE n.kind = "dict"
    <2>1. n.of \in 1..(id - 1)
      BY <1>1, <1>7 DEF IsNode, Collections
    <2>2. v.kind = "dict" => \A i \in DOMAIN v.entries : v.entries[i].value \in MembersOf(v)
      BY DEF MembersOf, ToSet
    <2>3. v.kind = "dict" => \A i \in DOMAIN v.entries : Same(n.of, v.entries[i].value, None)
      BY <1>3, <2>1, <2>2
    <2>4. QED
      BY <1>7, <2>3 DEF ConformsToNode, ConformsToLeaf
  <1>8. CASE n.kind = "struct"
    <2>1. ASSUME NEW i \in DOMAIN n.fields PROVE n.fields[i].of \in 1..(id - 1)
      <3> DEFINE F == [name : Text, required : BOOLEAN, of : 1..(id - 1)]
      <3>1. n.fields \in Seq(F)
        BY <1>1, <1>8 DEF IsNode, Collections
      <3>2. n.fields[i] \in F
        <4> HIDE DEF F
        <4> QED BY <2>1, <3>1, ElementOfSeq, LenProperties
      <3>3. QED
        BY <3>2
    <2>2. v.kind = "dict" => \A k : Found(v.entries, k) \subseteq MembersOf(v)
      BY DEF MembersOf, ToSet, Found
    <2>3. v.kind = "dict" =>
            \A i \in DOMAIN n.fields : \A w \in Found(v.entries, n.fields[i].name) :
              g[n.fields[i].of][w][None] = h[n.fields[i].of][w][None]
      BY <1>3, <2>1, <2>2
    <2> DEFINE FieldHolds(i, below) ==
                 LET hits == Found(v.entries, n.fields[i].name) IN
                 IF hits = {} THEN ~n.fields[i].required ELSE \A w \in hits : below[n.fields[i].of][w][None]
    <2>4. v.kind = "dict" => \A i \in DOMAIN n.fields : FieldHolds(i, g) <=> FieldHolds(i, h)
      BY <2>3
    <2>5. ~ConformsToLeaf(n, v, strict)
      BY <1>8 DEF ConformsToLeaf
    <2>6. ASSUME NEW below
          PROVE  ConformsToNode(n, v, strict, extra, below)
                   = /\ v.kind = "dict"
                     /\ \A i \in DOMAIN n.fields : FieldHolds(i, below)
                     /\ extra = Some("forbid") \/ (extra = None /\ n.extra = "forbid")
                          => Keys(v.entries) \subseteq FieldNames(n)
      <3> HIDE DEF n
      <3> QED BY <1>8, <2>5 DEF ConformsToNode
    <2> HIDE DEF FieldHolds, n
    <2>7. QED
      BY <2>4, <2>6 DEF n
  <1>9. QED
    BY <1>1, <1>4, <1>5, <1>6, <1>7, <1>8 DEF IsNode, Leaves, Collections

\* Only what is below a node matters.
LEMMA StrictLooksBelow ==
  ASSUME NEW s, IsSchema(s), NEW id \in DOMAIN s.nodes, NEW V, NEW g, NEW h,
         \A k \in 1..(id - 1) : g[k] = h[k]
  PROVE  StrictLevel(s, V, id, g) = StrictLevel(s, V, id, h)
  <1>1. ASSUME NEW v, NEW extra, NEW strict
        PROVE  ConformsToNode(s.nodes[id], v, strict, extra, g) = ConformsToNode(s.nodes[id], v, strict, extra, h)
    <2>1. SameBelow(g, h, id, v, extra)
      BY DEF SameBelow
    <2>2. QED
      BY <2>1, NodeLooksBelow
  <1>2. \A v, extra : ConformsToNode(s.nodes[id], v, TRUE, extra, g) = ConformsToNode(s.nodes[id], v, TRUE, extra, h)
    BY <1>1
  <1>3. QED
    BY <1>2 DEF StrictLevel

\* What an output conforms to exists, node by node.
LEMMA StrictExists ==
  ASSUME NEW s, IsSchema(s), NEW parts
  PROVE  \E g : g = [id \in 1..Len(s.nodes) |-> StrictLevel(s, parts[Len(s.nodes) - id], id, g)]
  <1> DEFINE L(g, id) == StrictLevel(s, parts[Len(s.nodes) - id], id, g)
             S == {n \in Nat : n <= Len(s.nodes) => \E g : g = [id \in 1..n |-> L(g, id)]}
  <1>1. Len(s.nodes) \in Nat /\ DOMAIN s.nodes = 1..Len(s.nodes)
    BY DEF IsSchema
  <1>2. ASSUME NEW g, NEW h, NEW id \in DOMAIN s.nodes, \A k \in 1..(id - 1) : g[k] = h[k]
        PROVE  L(g, id) = L(h, id)
    BY <1>2, StrictLooksBelow
  <1> HIDE DEF L
  <1>3. 0 \in S
    <2> DEFINE e == [id \in 1..0 |-> None]
    <2>1. e = [id \in 1..0 |-> L(e, id)]
      OBVIOUS
    <2>2. QED
      BY <2>1
  <1>4. ASSUME NEW n \in Nat, n \in S PROVE n + 1 \in S
    <2> SUFFICES ASSUME n + 1 <= Len(s.nodes) PROVE \E g : g = [id \in 1..(n + 1) |-> L(g, id)]
      OBVIOUS
    <2>1. PICK g : g = [id \in 1..n |-> L(g, id)]
      BY <1>1, <1>4
    <2> DEFINE h == [id \in 1..(n + 1) |-> IF id <= n THEN g[id] ELSE L(g, id)]
    <2>2. ASSUME NEW id \in 1..(n + 1) PROVE h[id] = L(h, id)
      <3>1. \A k \in 1..(id - 1) : g[k] = h[k]
        OBVIOUS
      <3>2. id \in DOMAIN s.nodes
        BY <1>1
      <3> HIDE DEF h
      <3>3. L(g, id) = L(h, id)
        BY <3>1, <3>2, <1>2
      <3>4. QED
        BY <2>1, <3>3 DEF h
    <2>3. h = [id \in 1..(n + 1) |-> h[id]]
      OBVIOUS
    <2> HIDE DEF h
    <2>4. h = [id \in 1..(n + 1) |-> L(h, id)]
      BY <2>2, <2>3
    <2>5. QED
      BY <2>4
  <1>5. Len(s.nodes) \in S
    <2> HIDE DEF S
    <2> QED BY <1>1, <1>3, <1>4, SetInduction
  <1>6. QED
    BY <1>1, <1>5 DEF L

LEMMA StrictFunction ==
  ASSUME NEW s, IsSchema(s), NEW o
  PROVE  ConformsStrictly(s, o) =
           [id \in 1..Len(s.nodes) |->
              StrictLevel(s, PartsWithin(o, Len(s.nodes))[Len(s.nodes) - id], id, ConformsStrictly(s, o))]
  <1> DEFINE parts == PartsWithin(o, Len(s.nodes))
             c == CHOOSE g : g = [id \in 1..Len(s.nodes) |-> StrictLevel(s, parts[Len(s.nodes) - id], id, g)]
  <1>1. ConformsStrictly(s, o) = c
    BY DEF ConformsStrictly
  <1> HIDE DEF parts
  <1>2. c = [id \in 1..Len(s.nodes) |-> StrictLevel(s, parts[Len(s.nodes) - id], id, c)]
    <2>1. \E g : g = [id \in 1..Len(s.nodes) |-> StrictLevel(s, parts[Len(s.nodes) - id], id, g)]
      BY StrictExists
    <2>2. QED
      BY <2>1
  <1> HIDE DEF c
  <1>3. QED
    BY <1>1, <1>2 DEF parts

LEMMA AgreesAbove ==
  ASSUME NEW s, IsSchema(s), NEW id \in DOMAIN s.nodes, NEW f, NEW g, NEW V, NEW W,
         f[id] = StrictLevel(s, V, id, f), g[id] = StrictLevel(s, W, id, g),
         NEW v \in V \cap W, NEW e \in Imposed,
         \A k \in 1..(id - 1) : \A u \in PartsFor(v) : \A x \in Imposed : f[k][u][x] = g[k][u][x]
  PROVE  f[id][v][e] = g[id][v][e]
  <1> DEFINE w == AsPayload(v)
  <1>1. /\ f[id][v][e] = ConformsToNode(s.nodes[id], w, TRUE, e, f)
        /\ g[id][v][e] = ConformsToNode(s.nodes[id], w, TRUE, e, g)
    BY DEF StrictLevel
  <1>2. {w} \cup MembersOf(w) \subseteq PartsFor(v) /\ {e, None} \subseteq Imposed
    BY ImposedFacts DEF PartsFor
  <1> HIDE DEF w
  <1>3. SameBelow(f, g, id, w, e)
    BY <1>2 DEF SameBelow
  <1>4. ConformsToNode(s.nodes[id], w, TRUE, e, f) = ConformsToNode(s.nodes[id], w, TRUE, e, g)
    <2>1. \A strict : ConformsToNode(s.nodes[id], w, strict, e, f) = ConformsToNode(s.nodes[id], w, strict, e, g)
      BY <1>3, NodeLooksBelow
    <2>2. QED
      BY <2>1
  <1>5. QED
    BY <1>1, <1>4

\* The parts of an output that a node is asked about.
PartsAsked(s, o, id) == PartsWithin(o, Len(s.nodes))[Len(s.nodes) - id]

\* A part of two outputs conforms as well in the one as in the other.
LEMMA StrictAgrees ==
  ASSUME NEW s, IsSchema(s), NEW o, NEW p, NEW m \in 1..Len(s.nodes), NEW x \in Imposed,
         NEW w \in PartsAsked(s, o, m), w \in PartsAsked(s, p, m)
  PROVE  ConformsStrictly(s, o)[m][w][x] = ConformsStrictly(s, p)[m][w][x]
  <1> DEFINE N == Len(s.nodes)
             A(id) == PartsWithin(o, N)[N - id]
             B(id) == PartsWithin(p, N)[N - id]
             f == ConformsStrictly(s, o)
             g == ConformsStrictly(s, p)
             Agree(id) == \A v \in A(id) \cap B(id) : \A e \in Imposed : f[id][v][e] = g[id][v][e]
             S == {n \in Nat : \A id \in 1..N : id <= n => Agree(id)}
  <1>1. N \in Nat /\ DOMAIN s.nodes = 1..N
    BY DEF IsSchema
  <1>2. /\ \A id \in 1..N : f[id] = StrictLevel(s, A(id), id, f)
        /\ \A id \in 1..N : g[id] = StrictLevel(s, B(id), id, g)
    <2>1. /\ f = [id \in 1..N |-> StrictLevel(s, A(id), id, f)]
          /\ g = [id \in 1..N |-> StrictLevel(s, B(id), id, g)]
      BY StrictFunction
    <2> HIDE DEF f, g, A, B, N
    <2>2. QED
      BY <2>1
  <1>3. \A id \in 1..N : \A k \in 1..(id - 1) :
          /\ \A v \in A(id) : PartsFor(v) \subseteq A(k)
          /\ \A v \in B(id) : PartsFor(v) \subseteq B(k)
    <2> TAKE id \in 1..N
    <2> TAKE k \in 1..(id - 1)
    <2>1. N - id \in 0..N /\ N - k \in 0..N /\ N - id < N - k
      BY <1>1
    <2>2. QED
      BY <1>1, <2>1, PartsFacts
  <1> HIDE DEF f, g, A, B, N
  <1>4. 0 \in S
    BY <1>1
  <1>5. ASSUME NEW n \in Nat, n \in S PROVE n + 1 \in S
    <2> SUFFICES ASSUME n + 1 \in 1..N PROVE Agree(n + 1)
      <3>1. \A id \in 1..N : id <= n + 1 => id <= n \/ id = n + 1
        BY <1>1
      <3>2. QED
        BY <1>5, <3>1
    <2> DEFINE id == n + 1
    <2>1. id \in 1..N /\ id \in DOMAIN s.nodes
      BY <1>1
    <2>2. \A k \in 1..(id - 1) : Agree(k)
      <3>1. \A k \in 1..(id - 1) : k \in 1..N /\ k <= n
        BY <1>1
      <3>2. QED
        BY <1>5, <3>1
    <2> HIDE DEF id
    <2>3. ASSUME NEW v \in A(id) \cap B(id), NEW e \in Imposed
          PROVE  f[id][v][e] = g[id][v][e]
      <3>1. f[id] = StrictLevel(s, A(id), id, f) /\ g[id] = StrictLevel(s, B(id), id, g)
        BY <1>2, <2>1
      <3>2. \A k \in 1..(id - 1) : PartsFor(v) \subseteq A(k) \cap B(k)
        BY <1>3, <2>1, <2>3
      <3>3. \A k \in 1..(id - 1) : \A u \in PartsFor(v) : \A i \in Imposed : f[k][u][i] = g[k][u][i]
        BY <2>2, <3>2
      <3>4. QED
        BY <2>1, <2>3, <3>1, <3>3, AgreesAbove
    <2>4. QED
      BY <2>3 DEF id
  <1>6. Nat \subseteq S
    <2> HIDE DEF S
    <2> QED BY <1>4, <1>5, SetInduction
  <1>7. m \in 1..N
    BY DEF N
  <1>8. Agree(m)
    BY <1>1, <1>6, <1>7
  <1>9. QED
    BY <1>8 DEF N, A, B, f, g, PartsAsked

\* An output conforms to a node of the schema, taken for a payload.
Strictly(id, o, x) == ConformsStrictly(call.schema, o)[id][o][x]

\* It is judged as a payload is,
JudgedIn(o) == ConformsStrictly(call.schema, o)

LEMMA JudgedInFacts ==
  ASSUME call \in Calls, NEW o
  PROVE  LET s == call.schema  N == Len(s.nodes) IN
         /\ IsSchema(s) /\ N \in Nat /\ DOMAIN s.nodes = 1..N
         /\ \A k \in 1..N :
              /\ JudgedIn(o)[k] = StrictLevel(s, PartsAsked(s, o, k), k, JudgedIn(o))
              /\ o \in PartsAsked(s, o, k) /\ AsPayload(o) \in PartsAsked(s, o, k)
              /\ k # N => MembersOf(AsPayload(o)) \subseteq PartsAsked(s, o, k)
  <1> DEFINE s == call.schema
             N == Len(s.nodes)
             A(k) == PartsWithin(o, N)[N - k]
             f == ConformsStrictly(s, o)
  <1>1. IsSchema(s) /\ N \in Nat /\ DOMAIN s.nodes = 1..N
    BY CallsAssumption DEF IsSchema
  <1>2. \A k \in 1..N : f[k] = StrictLevel(s, A(k), k, f)
    <2>1. f = [k \in 1..N |-> StrictLevel(s, A(k), k, f)]
      BY <1>1, StrictFunction
    <2> HIDE DEF f, A, N
    <2>2. QED
      BY <2>1
  <1>3. ASSUME NEW k \in 1..N
        PROVE  /\ o \in A(k) /\ AsPayload(o) \in A(k)
               /\ k # N => MembersOf(AsPayload(o)) \subseteq A(k)
    <2>1. N - k \in 0..N /\ 0 \in 0..N /\ (N - k = 0 \/ 0 < N - k) /\ (k # N => 0 < N - k)
      BY <1>1
    <2>2. /\ o \in PartsWithin(o, N)[0]
          /\ \A i \in 0..N : \A v \in PartsWithin(o, N)[i] : AsPayload(v) \in PartsWithin(o, N)[i]
          /\ \A i \in 0..N : 0 < i => PartsFor(o) \subseteq PartsWithin(o, N)[i]
      BY <1>1, <2>1, PartsFacts
    <2>3. o \in A(k)
      BY <2>1, <2>2 DEF PartsFor
    <2>4. QED
      BY <2>1, <2>2, <2>3 DEF PartsFor
  <1>4. QED
    BY <1>1, <1>2, <1>3 DEF JudgedIn, PartsAsked

LEMMA StrictUnfolds ==
  ASSUME call \in Calls, NEW id \in DOMAIN call.schema.nodes, NEW o, NEW x \in Imposed
  PROVE  Strictly(id, o, x) = ConformsToNode(Node(id), AsPayload(o), TRUE, x, JudgedIn(o))
  <1> DEFINE s == call.schema
             f == JudgedIn(o)
  <1>1. f[id] = StrictLevel(s, PartsAsked(s, o, id), id, f) /\ o \in PartsAsked(s, o, id)
    BY JudgedInFacts
  <1> HIDE DEF f
  <1>2. f[id][o][x] = ConformsToNode(s.nodes[id], AsPayload(o), TRUE, x, f)
    BY <1>1 DEF StrictLevel
  <1>3. QED
    BY <1>2 DEF Strictly, Node, JudgedIn, f

\* by the nodes below too,
LEMMA StrictBelow ==
  ASSUME call \in Calls, NEW k \in DOMAIN call.schema.nodes, NEW o, NEW e \in Imposed
  PROVE  JudgedIn(o)[k][AsPayload(o)][e] = Strictly(k, o, e)
  <1> DEFINE s == call.schema
             f == JudgedIn(o)
  <1>1. /\ f[k] = StrictLevel(s, PartsAsked(s, o, k), k, f)
        /\ o \in PartsAsked(s, o, k) /\ AsPayload(o) \in PartsAsked(s, o, k)
    BY JudgedInFacts
  <1> HIDE DEF f
  <1>2. /\ f[k][AsPayload(o)][e] = ConformsToNode(s.nodes[k], AsPayload(AsPayload(o)), TRUE, e, f)
        /\ f[k][o][e] = ConformsToNode(s.nodes[k], AsPayload(o), TRUE, e, f)
    BY <1>1 DEF StrictLevel
  <1>3. f[k][AsPayload(o)][e] = f[k][o][e]
    BY <1>2, PayloadOfPayload
  <1>4. QED
    BY <1>3 DEF Strictly, JudgedIn, f

\* and so are its members.
LEMMA StrictMember ==
  ASSUME call \in Calls, NEW k \in DOMAIN call.schema.nodes, k # Len(call.schema.nodes),
         NEW o, NEW e \in Imposed, NEW w \in MembersOf(AsPayload(o))
  PROVE  JudgedIn(o)[k][w][e] = Strictly(k, w, e)
  <1> DEFINE s == call.schema
  <1>1. IsSchema(s) /\ k \in 1..Len(s.nodes)
    BY JudgedInFacts
  <1>2. w \in PartsAsked(s, o, k) /\ w \in PartsAsked(s, w, k)
    BY JudgedInFacts
  <1>3. ConformsStrictly(s, o)[k][w][e] = ConformsStrictly(s, w)[k][w][e]
    BY <1>1, <1>2, StrictAgrees
  <1>4. QED
    BY <1>3 DEF Strictly, JudgedIn

(***************************************************************************)
(* Node by node: what the validator returns, taken for a payload, conforms *)
(* strictly if what it is made of does.                                    *)
(***************************************************************************)
\* What a leaf was read as reads as itself.
LEMMA LeafReadsAsItself ==
  ASSUME NEW n, NEW bound, IsNode(n, bound), n.kind \in Leaves \ {"enum"}, NEW v \in Values,
         NEW c \in Coerced(n, v), ConstraintCodes(n, c) = <<>>
  PROVE  c.kind # "struct" /\ ConformsToLeaf(n, c, TRUE)
  <1>1. /\ \A d \in Coerced(n, v) : d = c
        /\ n.kind = "int" => \A i : i \in IntsOf(v, Strict) <=> \E d \in Coerced(n, v) : d.num = i
        /\ n.kind = "float" => \A f : f \in FloatsOf(v, Strict) <=> \E d \in Coerced(n, v) : d.real = f
        /\ n.kind = "str" => Coerced(n, v) = IF v.kind = "str" THEN {v} ELSE {}
        /\ n.kind = "any" => Coerced(n, v) = {v}
    BY CoercedFacts
  <1>2. ConformsToLeaf(n, v, Strict)
    BY <1>1, LeafJudged DEF None
  <1>3. CASE n.kind = "any"
    <2>1. c = v /\ v.kind \in InputKinds
      BY <1>1, <1>3, ValuesAssumption DEF IsInputValue
    <2>2. QED
      BY <1>3, <2>1 DEF ConformsToLeaf, InputKinds
  <1>4. CASE n.kind = "bool"
    <2>1. c.kind = "bool"
      BY <1>4 DEF Coerced, CoercedBool, BoolValue, Some
    <2>2. BoolsOf(c, TRUE) = {c.flag}
      BY <2>1 DEF BoolsOf
    <2>3. QED
      BY <1>4, <2>1, <2>2 DEF ConformsToLeaf
  <1>5. CASE n.kind = "int"
    <2>1. c.kind = "int"
      BY <1>5 DEF Coerced, CoercedInt, IntValue, Some
    <2>2. IntsOf(c, TRUE) = {c.num}
      BY <2>1 DEF IntsOf
    <2>3. \E i \in IntsOf(v, Strict) : Within(i, n.bounds)
      BY <1>2, <1>5 DEF ConformsToLeaf
    <2>4. Within(c.num, n.bounds)
      BY <1>1, <1>5, <2>3
    <2>5. QED
      BY <1>5, <2>1, <2>2, <2>4 DEF ConformsToLeaf
  <1>6. CASE n.kind = "float"
    <2>1. c.kind = "float"
      BY <1>6 DEF Coerced, CoercedFloat, FloatValue, Some
    <2>2. FloatsOf(c, TRUE) = {c.real}
      BY <2>1 DEF FloatsOf
    <2>3. \E f \in FloatsOf(v, Strict) : \A x \in f : Within(x, n.bounds)
      BY <1>2, <1>6 DEF ConformsToLeaf
    <2>4. \A x \in c.real : Within(x, n.bounds)
      BY <1>1, <1>6, <2>3
    <2>5. QED
      BY <1>6, <2>1, <2>2, <2>4 DEF ConformsToLeaf
  <1>7. CASE n.kind = "str"
    <2>1. c = v /\ c.kind = "str"
      BY <1>1, <1>7
    <2>2. QED
      BY <1>2, <1>7, <2>1 DEF ConformsToLeaf
  <1>8. CASE n.kind = "sym"
    <2>1. c.kind = "sym"
      BY <1>8 DEF Coerced, CoercedSymbol, SymbolValue, Some, None, Lenient
    <2>2. NamesOf(c, TRUE) = {c.text}
      BY <2>1 DEF NamesOf
    <2>3. QED
      BY <1>8, <2>1, <2>2 DEF ConformsToLeaf
  <1>9. QED
    BY <1>3, <1>4, <1>5, <1>6, <1>7, <1>8 DEF Leaves

LEMMA StrictLeaf ==
  ASSUME call \in Calls, NEW id \in DOMAIN call.schema.nodes, NEW x \in Imposed, NEW o,
         o.kind # "struct", ConformsToLeaf(Node(id), o, TRUE)
  PROVE  Strictly(id, o, x)
  <1>1. Strictly(id, o, x) = ConformsToNode(Node(id), AsPayload(o), TRUE, x, JudgedIn(o))
    BY StrictUnfolds
  <1>2. AsPayload(o) = o
    BY PayloadOfPayload
  <1>3. QED
    BY <1>1, <1>2 DEF ConformsToNode

\* The nodes inside a node are below the last.
LEMMA InnerNodes ==
  ASSUME call \in Calls, NEW id \in DOMAIN call.schema.nodes
  PROVE  /\ Node(id).kind \in Collections \cup {"optional"} =>
              Node(id).of \in DOMAIN call.schema.nodes /\ Node(id).of # Len(call.schema.nodes)
         /\ Node(id).kind = "struct" =>
              \A i \in 1..Len(Node(id).fields) :
                /\ Node(id).fields[i].of \in DOMAIN call.schema.nodes
                /\ Node(id).fields[i].of # Len(call.schema.nodes)
  <1>1. DOMAIN call.schema.nodes = 1..Len(call.schema.nodes) /\ Len(call.schema.nodes) \in Nat
    BY NodeFacts
  <1>2. \A k \in DOMAIN call.schema.nodes : k < id => k # Len(call.schema.nodes)
    BY <1>1
  <1>3. QED
    BY <1>2, ChildFacts

LEMMA StrictOptional ==
  ASSUME call \in Calls, NEW id \in DOMAIN call.schema.nodes, NEW x \in Imposed, NEW o,
         Node(id).kind = "optional", o = Null \/ Strictly(Node(id).of, o, x)
  PROVE  Strictly(id, o, x)
  <1>1. Node(id).of \in DOMAIN call.schema.nodes /\ Node(id).of # Len(call.schema.nodes)
    BY InnerNodes
  <1>2. Strictly(id, o, x) = ConformsToNode(Node(id), AsPayload(o), TRUE, x, JudgedIn(o))
    BY StrictUnfolds
  <1>3. JudgedIn(o)[Node(id).of][AsPayload(o)][x] = Strictly(Node(id).of, o, x)
    BY <1>1, StrictBelow
  <1>4. o = Null => AsPayload(o) = Null
    BY PayloadOfPayload DEF Null
  <1>5. QED
    BY <1>2, <1>3, <1>4 DEF ConformsToNode

LEMMA StrictCollection ==
  ASSUME call \in Calls, NEW id \in DOMAIN call.schema.nodes, NEW x \in Imposed, NEW out,
         IsSequence(out), Within(Len(out), Node(id).bounds)
  PROVE  /\ Node(id).kind = "list" /\ (\A i \in 1..Len(out) : Strictly(Node(id).of, out[i], None))
              => Strictly(id, ListValue(out), x)
         /\ Node(id).kind = "dict" /\ (\A i \in 1..Len(out) : Strictly(Node(id).of, out[i].value, None))
              => Strictly(id, DictValue(out), x)
  <1>1. DOMAIN out = 1..Len(out) /\ None \in Imposed
    BY ImposedFacts DEF IsSequence
  <1>2. ASSUME Node(id).kind = "list", \A i \in 1..Len(out) : Strictly(Node(id).of, out[i], None)
        PROVE  Strictly(id, ListValue(out), x)
    <2> DEFINE o == ListValue(out)
    <2>1. o.kind = "list" /\ o.items = out /\ AsPayload(o) = o
      BY PayloadOfPayload DEF ListValue
    <2>2. \A i \in DOMAIN out : out[i] \in MembersOf(AsPayload(o))
      BY <2>1 DEF MembersOf, ToSet
    <2> HIDE DEF o
    <2>3. Strictly(id, o, x) = ConformsToNode(Node(id), AsPayload(o), TRUE, x, JudgedIn(o))
      BY StrictUnfolds
    <2>4. ASSUME NEW w \in MembersOf(AsPayload(o))
          PROVE  JudgedIn(o)[Node(id).of][w][None] = Strictly(Node(id).of, w, None)
      <3>1. Node(id).of \in DOMAIN call.schema.nodes /\ Node(id).of # Len(call.schema.nodes)
        BY <1>2, InnerNodes DEF Collections
      <3>2. QED
        BY <1>1, <2>4, <3>1, StrictMember
    <2>5. \A i \in DOMAIN out : JudgedIn(o)[Node(id).of][out[i]][None]
      BY <1>1, <1>2, <2>2, <2>4
    <2>6. QED
      BY <1>2, <2>1, <2>3, <2>5 DEF ConformsToNode, o
  <1>3. ASSUME Node(id).kind = "dict", \A i \in 1..Len(out) : Strictly(Node(id).of, out[i].value, None)
        PROVE  Strictly(id, DictValue(out), x)
    <2> DEFINE o == DictValue(out)
    <2>1. o.kind = "dict" /\ o.entries = out /\ AsPayload(o) = o
      BY PayloadOfPayload DEF DictValue
    <2>2. \A i \in DOMAIN out : out[i].value \in MembersOf(AsPayload(o))
      BY <2>1 DEF MembersOf, ToSet
    <2> HIDE DEF o
    <2>3. Strictly(id, o, x) = ConformsToNode(Node(id), AsPayload(o), TRUE, x, JudgedIn(o))
      BY StrictUnfolds
    <2>4. ASSUME NEW w \in MembersOf(AsPayload(o))
          PROVE  JudgedIn(o)[Node(id).of][w][None] = Strictly(Node(id).of, w, None)
      <3>1. Node(id).of \in DOMAIN call.schema.nodes /\ Node(id).of # Len(call.schema.nodes)
        BY <1>3, InnerNodes DEF Collections
      <3>2. QED
        BY <1>1, <2>4, <3>1, StrictMember
    <2>5. \A i \in DOMAIN out : JudgedIn(o)[Node(id).of][out[i].value][None]
      BY <1>1, <1>3, <2>2, <2>4
    <2>6. QED
      BY <1>3, <2>1, <2>3, <2>5 DEF ConformsToNode, o
  <1>4. QED
    BY <1>2, <1>3

\* What a struct is built of.
FieldsServe(n, fields, done) ==
  /\ \A i \in 1..Len(n.fields) : \A w \in fields[i] : Strictly(n.fields[i].of, w, None)
  /\ \A i \in 1..done : fields[i] = None => ~n.fields[i].required
ExtrasServe(n, x, extras) ==
  /\ \A d \in extras : IsSequence(d) /\ \A a \in 1..Len(d) : d[a].key \notin FieldNames(n)
  /\ x = Some("forbid") \/ (x = None /\ n.extra = "forbid") => extras = None
Distinct(n) == \A i, j \in 1..Len(n.fields) : n.fields[i].name = n.fields[j].name => i = j

LEMMA StrictStruct ==
  ASSUME call \in Calls, NEW id \in DOMAIN call.schema.nodes, NEW x \in Imposed, NEW n, n = Node(id),
         n.kind = "struct", Distinct(n), NEW fields, NEW extras,
         FieldsServe(n, fields, Len(n.fields)), ExtrasServe(n, x, extras)
  PROVE  Strictly(id, StructValue([i \in DOMAIN n.fields |-> n.fields[i].name], fields, extras), x)
  <1> DEFINE names == [i \in DOMAIN n.fields |-> n.fields[i].name]
             o == StructValue(names, fields, extras)
             p == AsPayload(o)
  <1>1. Len(n.fields) \in Nat /\ DOMAIN n.fields = 1..Len(n.fields)
    BY NodeFacts, LenProperties DEF IsNode, Collections
  <1>2. Len(names) = Len(n.fields) /\ \A i \in 1..Len(n.fields) : names[i] = n.fields[i].name
    BY <1>1
  <1> HIDE DEF names
  <1>3. o.kind = "struct" /\ o.names = names /\ o.fields = fields /\ o.extras = extras
    BY DEF StructValue
  <1> HIDE DEF o
  <1>4. /\ p.kind = "dict" /\ IsSequence(p.entries)
        /\ \A a \in 1..Len(p.entries) : EntryOf(o, p.entries[a])
        /\ \A i \in 1..Len(n.fields) : fields[i] # None =>
             \E a \in 1..Len(p.entries) : p.entries[a].key = n.fields[i].name
    <2>1. Len(o.names) \in Nat /\ \A d \in o.extras : IsSequence(d)
      BY <1>1, <1>2, <1>3 DEF ExtrasServe
    <2>2. /\ p.kind = "dict" /\ IsSequence(p.entries)
          /\ \A a \in 1..Len(p.entries) : EntryOf(o, p.entries[a])
          /\ \A i \in 1..Len(o.names) : o.fields[i] # None =>
               \E a \in 1..Len(p.entries) : p.entries[a].key = o.names[i]
      BY <1>3, <2>1, PayloadOfStruct
    <2> HIDE DEF p
    <2>3. QED
      BY <1>2, <1>3, <2>2
  <1>5. DOMAIN p.entries = 1..Len(p.entries) /\ Len(p.entries) \in Nat
    BY <1>4 DEF IsSequence
  <1>6. p = AsPayload(o)
    OBVIOUS
  <1> HIDE DEF p
  <1>7. ASSUME NEW e, EntryOf(o, e)
        PROVE  \/ \E i \in 1..Len(n.fields) : e.value \in fields[i] /\ e.key = n.fields[i].name
               \/ extras # None /\ e.key \notin FieldNames(n)
    <2>1. ASSUME NEW i \in 1..Len(n.fields), NEW w \in fields[i], e = Entry(n.fields[i].name, w)
          PROVE  e.value \in fields[i] /\ e.key = n.fields[i].name
      BY <2>1 DEF Entry
    <2>2. ASSUME NEW d \in extras, NEW a \in 1..Len(d), e = d[a]
          PROVE  extras # None /\ e.key \notin FieldNames(n)
      BY <2>2 DEF ExtrasServe, None
    <2>3. QED
      BY <1>2, <1>3, <1>7, <2>1, <2>2 DEF EntryOf
  <1>8. \A i \in 1..Len(n.fields) : n.fields[i].name \in FieldNames(n)
    BY <1>1 DEF FieldNames
  <1>9. ASSUME NEW i \in DOMAIN n.fields
        PROVE  LET hits == Found(p.entries, n.fields[i].name) IN
               /\ hits = {} => ~n.fields[i].required
               /\ \A w \in hits : JudgedIn(o)[n.fields[i].of][w][None]
    <2> DEFINE hits == Found(p.entries, n.fields[i].name)
    <2>1. i \in 1..Len(n.fields)
      BY <1>1, <1>9
    <2>2. ASSUME hits = {} PROVE ~n.fields[i].required
      <3>1. n.fields[i].name \notin Keys(p.entries)
        BY <1>5, <2>2, NotFound
      <3>2. fields[i] = None
        BY <1>4, <1>5, <2>1, <3>1 DEF Keys
      <3>3. QED
        BY <2>1, <3>2 DEF FieldsServe
    <2>3. ASSUME NEW w \in hits PROVE JudgedIn(o)[n.fields[i].of][w][None]
      <3>1. PICK a \in 1..Len(p.entries) : w = p.entries[a].value /\ p.entries[a].key = n.fields[i].name
        BY <1>5, <2>3 DEF Found
      <3>2. w \in fields[i]
        <4>1. p.entries[a].key \in FieldNames(n)
          BY <1>8, <2>1, <3>1
        <4>2. PICK j \in 1..Len(n.fields) : w \in fields[j] /\ n.fields[i].name = n.fields[j].name
          BY <1>4, <1>7, <3>1, <4>1
        <4>3. QED
          BY <2>1, <4>2 DEF Distinct
      <3>3. Strictly(n.fields[i].of, w, None)
        BY <2>1, <3>2 DEF FieldsServe
      <3>4. w \in MembersOf(AsPayload(o))
        BY <1>4, <1>5, <1>6, <3>1 DEF MembersOf, ToSet
      <3>5. n.fields[i].of \in DOMAIN call.schema.nodes /\ n.fields[i].of # Len(call.schema.nodes)
        BY <2>1, InnerNodes
      <3>6. None \in Imposed
        BY ImposedFacts
      <3>7. JudgedIn(o)[n.fields[i].of][w][None] = Strictly(n.fields[i].of, w, None)
        BY <3>4, <3>5, <3>6, StrictMember
      <3>8. QED
        BY <3>3, <3>7
    <2>4. QED
      BY <2>2, <2>3
  <1>10. x = Some("forbid") \/ (x = None /\ n.extra = "forbid") => Keys(p.entries) \subseteq FieldNames(n)
    <2> SUFFICES ASSUME extras = None, NEW a \in 1..Len(p.entries)
                 PROVE  p.entries[a].key \in FieldNames(n)
      BY <1>5 DEF Keys, ExtrasServe
    <2>1. QED
      BY <1>4, <1>7, <1>8
  <1>11. Strictly(id, o, x) = ConformsToNode(n, p, TRUE, x, JudgedIn(o))
    BY <1>6, StrictUnfolds
  <1>12. Strictly(id, o, x)
    BY <1>4, <1>9, <1>10, <1>11 DEF ConformsToNode
  <1>13. QED
    BY <1>12 DEF o, names

(***************************************************************************)
(* The inductive invariant: while there is no issue, what was built so far *)
(* conforms strictly.                                                      *)
(***************************************************************************)
\* The node that the k-th of the frames s is at, and what may be returned to it.
WantedNode(s, k) ==
  IF k = 0 THEN call.schema.root
  ELSE IF s[k].loop = "fields" THEN Node(s[k].node).fields[s[k].next].of
  ELSE Node(s[k].node).of
Serves(s, k, o) == Strictly(WantedNode(s, k), o, ImposedAt(k + 1))

\* A node is that node, or inside it with nothing but optional nodes between.
StandsFor(s, k, id) == \A o : Strictly(id, o, ImposedAt(k + 1)) => Serves(s, k, o)
Standing(s) == \A k \in 1..Len(s) : StandsFor(s, k - 1, s[k].node)

\* What a frame has built so far.
IsStructPart(n, p) ==
  /\ p = [fields |-> p.fields, extras |-> p.extras]
  /\ p.fields = [i \in 1..Len(n.fields) |-> p.fields[i]]
BuiltStrictly(f, x, p) ==
  CASE f.loop = "list" -> \A i \in 1..Len(p) : Strictly(Node(f.node).of, p[i], None)
    [] f.loop = "dict" -> \A i \in 1..Len(p) : Strictly(Node(f.node).of, p[i].value, None)
    [] OTHER ->
         /\ IsStructPart(Node(f.node), p)
         /\ FieldsServe(Node(f.node), p.fields, IF f.loop = "fields" THEN f.next - 1 ELSE Len(Node(f.node).fields))
         /\ ExtrasServe(Node(f.node), x, p.extras)
AllBuiltStrictly(s, p) == \A k \in 1..Len(s) : BuiltStrictly(s[k], ImposedAt(k), p[k])

Building ==
  /\ Standing(stack)
  /\ pc = "visit" => StandsFor(stack, Len(stack), focus.node)
  /\ issues = <<>> =>
       /\ AllBuiltStrictly(stack, partial)
       /\ pc = "return" => \A o \in ret : Serves(stack, Len(stack), o)

StrictInv == AcceptedOutputIsStrict /\ (DistinctFields(call.schema) => Building)

\* The operators depend on the call only.
LEMMA SameCallBuilds ==
  ASSUME call' = call
  PROVE  /\ Standing(stack)' <=> Standing(stack')
         /\ StandsFor(stack, Len(stack), focus.node)' <=> StandsFor(stack', Len(stack'), focus'.node)
         /\ AllBuiltStrictly(stack, partial)' <=> AllBuiltStrictly(stack', partial')
         /\ (\A o \in ret : Serves(stack, Len(stack), o))' <=> \A o \in ret' : Serves(stack', Len(stack'), o)
  <1>1. \A k : ImposedAt(k)' = ImposedAt(k)
    BY SameCall
  <1>2. \A id, o, x : Strictly(id, o, x)' <=> Strictly(id, o, x)
    BY DEF Strictly
  <1>3. QED
    BY <1>1, <1>2 DEF Standing, StandsFor, Serves, WantedNode, Node, AllBuiltStrictly, BuiltStrictly, IsStructPart,
                      FieldsServe, ExtrasServe, FieldNames, Strictly, ImposedAt

LEMMA FramesAgree ==
  ASSUME NEW s, NEW t, NEW n \in Nat, \A k \in 1..n : t[k] = s[k]
  PROVE  /\ \A k \in 0..n : \A o : Serves(t, k, o) <=> Serves(s, k, o)
         /\ \A k \in 0..n : \A id : StandsFor(t, k, id) <=> StandsFor(s, k, id)
  <1>1. \A k \in 0..n : k = 0 \/ k \in 1..n
    OBVIOUS
  <1>2. \A k \in 0..n : WantedNode(t, k) = WantedNode(s, k)
    BY <1>1 DEF WantedNode
  <1>3. QED
    BY <1>2 DEF StandsFor, Serves

LEMMA BuildingNext ==
  ASSUME call' = call, Standing(stack'), pc' = "visit" => StandsFor(stack', Len(stack'), focus'.node),
         issues' = <<>> => /\ AllBuiltStrictly(stack', partial')
                           /\ pc' = "return" => \A o \in ret' : Serves(stack', Len(stack'), o)
  PROVE  Building'
  BY SameCallBuilds DEF Building

\* A node settles: what it returns is all right when there is no issue.
LEMMA SettlesStrictly ==
  ASSUME TypeInv, Building, pc = "visit", pc' = "return", UNCHANGED <<call, stack, partial>>,
         issues' = <<>> => /\ issues = <<>>
                           /\ \A o \in ret' : Strictly(focus.node, o, ImposedAt(Len(stack) + 1))
  PROVE  Building'
  <1>1. Standing(stack) /\ StandsFor(stack, Len(stack), focus.node)
    BY DEF Building
  <1>2. issues' = <<>> => AllBuiltStrictly(stack, partial)
    BY DEF Building
  <1>3. issues' = <<>> => \A o \in ret' : Serves(stack, Len(stack), o)
    BY <1>1 DEF StandsFor
  <1>4. QED
    BY <1>1, <1>2, <1>3, BuildingNext

LEMMA PrimitiveBuilds ==
  ASSUME TypeInv, Building, ValidatePrimitive
  PROVE  Building'
  <1> DEFINE n == Node(focus.node)  v == focus.value  x == ImposedAt(Len(stack) + 1)
  <1>1. /\ call \in Calls /\ focus.node \in DOMAIN call.schema.nodes /\ v \in Values
        /\ IsNode(n, focus.node - 1) /\ path \in Seq(Segments) /\ issues \in Seq(IssueSet)
        /\ x \in Imposed
    BY VisitFacts DEF ValidatePrimitive
  <1>2. /\ pc = "visit" /\ pc' = "return" /\ n.kind \in Leaves \ {"enum"}
        /\ UNCHANGED <<call, stack, partial>> /\ ret' = Coerced(n, v)
        /\ \/ Coerced(n, v) = None /\ Record(path, <<CoercionCode(n, v)>>)
           \/ \E c \in Coerced(n, v) : Record(path, ConstraintCodes(n, c))
    BY DEF ValidatePrimitive, Return
  <1> HIDE DEF n, v, x
  <1>3. ASSUME issues' = <<>>
        PROVE  issues = <<>> /\ \A o \in ret' : Strictly(focus.node, o, x)
    <2>1. CASE Coerced(n, v) = None /\ Record(path, <<CoercionCode(n, v)>>)
      <3>1. CoercionCode(n, v) \in Codes
        BY SomeCodes DEF CoercionCode
      <3>2. QED
        BY <1>1, <1>3, <2>1, <3>1, OneCode
    <2>2. ASSUME NEW c \in Coerced(n, v), Record(path, ConstraintCodes(n, c))
          PROVE  issues = <<>> /\ \A o \in ret' : Strictly(focus.node, o, x)
      <3>1. \A d \in Coerced(n, v) : d = c
        BY <1>1, <1>2, <2>2, CoercedFacts
      <3>2. issues = <<>> /\ ConstraintCodes(n, c) = <<>>
        BY <1>1, <1>3, <2>2, RecordedEmpty, ConstraintCodesAreCodes
      <3>3. c.kind # "struct" /\ ConformsToLeaf(n, c, TRUE)
        BY <1>1, <1>2, <2>2, <3>2, LeafReadsAsItself
      <3>4. Strictly(focus.node, c, x)
        BY <1>1, <3>3, StrictLeaf DEF n
      <3>5. QED
        BY <1>2, <3>1, <3>2, <3>4
    <2>3. QED
      BY <1>2, <2>1, <2>2
  <1>4. QED
    BY <1>2, <1>3, SettlesStrictly DEF x

LEMMA EnumBuilds ==
  ASSUME TypeInv, Building, ValidateEnum
  PROVE  Building'
  <1> DEFINE n == Node(focus.node)  v == focus.value  x == ImposedAt(Len(stack) + 1)
  <1>1. /\ call \in Calls /\ focus.node \in DOMAIN call.schema.nodes
        /\ path \in Seq(Segments) /\ issues \in Seq(IssueSet) /\ x \in Imposed
    BY VisitFacts DEF ValidateEnum
  <1>2. /\ pc = "visit" /\ pc' = "return" /\ n.kind = "enum"
        /\ UNCHANGED <<call, stack, partial>>
        /\ \/ /\ \E i \in DOMAIN n.variants : n.variants[i] = v.text
              /\ ret' = {SymbolValue(v.text)} /\ UNCHANGED issues
           \/ \E c \in Codes : Record(path, <<c>>)
    BY SomeCodes DEF ValidateEnum, Return, Some
  <1> HIDE DEF n, v, x
  <1>3. ASSUME issues' = <<>>
        PROVE  issues = <<>> /\ \A o \in ret' : Strictly(focus.node, o, x)
    <2>1. CASE /\ \E i \in DOMAIN n.variants : n.variants[i] = v.text
               /\ ret' = {SymbolValue(v.text)} /\ UNCHANGED issues
      <3> DEFINE o == SymbolValue(v.text)
      <3>1. o.kind = "sym" /\ o.text = v.text
        BY DEF SymbolValue
      <3>2. ConformsToLeaf(n, o, TRUE)
        <4>1. NamesOf(o, TRUE) = {v.text} /\ v.text \in ToSet(n.variants)
          BY <2>1, <3>1 DEF NamesOf, ToSet
        <4> HIDE DEF o
        <4>2. QED
          BY <1>2, <4>1 DEF ConformsToLeaf
      <3>3. Strictly(focus.node, o, x)
        BY <1>1, <3>1, <3>2, StrictLeaf DEF n
      <3>4. QED
        BY <1>3, <2>1, <3>3
    <2>2. CASE \E c \in Codes : Record(path, <<c>>)
      BY <1>1, <1>3, <2>2, OneCode
    <2>3. QED
      BY <1>2, <2>1, <2>2
  <1>4. QED
    BY <1>2, <1>3, SettlesStrictly DEF x

LEMMA RejectShapeBuilds ==
  ASSUME TypeInv, Building, RejectShape
  PROVE  Building'
  <1>1. /\ pc = "visit" /\ pc' = "return" /\ UNCHANGED <<call, stack, partial>>
        /\ Record(path, <<"type_mismatch">>)
    BY DEF RejectShape, Return
  <1>2. path \in Seq(Segments) /\ issues \in Seq(IssueSet)
    BY <1>1, VisitFacts
  <1>3. issues' # <<>>
    BY <1>1, <1>2, OneCode, SomeCodes
  <1>4. QED
    BY <1>1, <1>3, SettlesStrictly

\* An optional node stands for the node inside it.
LEMMA OptionalBuilds ==
  ASSUME TypeInv, Building, ValidateOptional
  PROVE  Building'
  <1> DEFINE N == Len(stack)  x == ImposedAt(N + 1)
  <1>1. /\ call \in Calls /\ focus.node \in DOMAIN call.schema.nodes /\ x \in Imposed
    BY VisitFacts DEF ValidateOptional
  <1>2. /\ pc = "visit" /\ Node(focus.node).kind = "optional"
        /\ UNCHANGED <<call, stack, partial, issues>>
    BY DEF ValidateOptional
  <1>3. \A o : o = Null \/ Strictly(Node(focus.node).of, o, x) => Strictly(focus.node, o, x)
    BY <1>1, <1>2, StrictOptional
  <1>4. CASE focus.value = Null
    <2>1. pc' = "return" /\ ret' = {Null}
      BY <1>4 DEF ValidateOptional, Return, Some
    <2>2. QED
      BY <1>2, <1>3, <2>1, SettlesStrictly
  <1>5. CASE focus.value # Null
    <2>1. pc' = "visit" /\ focus'.node = Node(focus.node).of
      BY <1>5 DEF ValidateOptional, Visit
    <2>2. /\ Standing(stack) /\ StandsFor(stack, N, focus.node)
          /\ issues = <<>> => AllBuiltStrictly(stack, partial)
      BY <1>2 DEF Building
    <2>3. StandsFor(stack, N, focus'.node)
      BY <1>3, <2>1, <2>2 DEF StandsFor
    <2>4. QED
      BY <1>2, <2>1, <2>2, <2>3, BuildingNext
  <1>6. QED
    BY <1>4, <1>5

\* A frame is opened.
LEMMA EntersStrictly ==
  ASSUME TypeInv, JudgeInv, Building, pc = "visit", pc' = "loop", UNCHANGED <<call, issues>>,
         NEW loop, NEW out, Frame(loop, out), loop \in Loops,
         BuiltStrictly([loop |-> loop, node |-> focus.node, value |-> focus.value, next |-> 1],
                       ImposedAt(Len(stack) + 1), out)
  PROVE  Building'
  <1> DEFINE N == Len(stack)  s == stack'  p == partial'  x == ImposedAt(N + 1)
             f == [loop |-> loop, node |-> focus.node, value |-> focus.value, next |-> 1]
  <1>1. f \in Frames /\ f.node = focus.node
    BY DEF Frames, TypeInv, TypeOK
  <1>2. s = Append(stack, f) /\ p = Append(partial, out) /\ BuiltStrictly(f, x, out)
    BY DEF Frame
  <1>3. stack \in Seq(Frames) /\ IsSequence(partial) /\ Len(partial) = N
    BY DEF TypeInv, StackOK, JudgeInv, Counted
  <1> HIDE DEF f
  <1>4. Len(s) = N + 1 /\ N \in Nat /\ s[N + 1] = f /\ \A k \in 1..N : s[k] = stack[k]
    BY <1>1, <1>2, <1>3, AppendThenFront, LenProperties
  <1>5. p[N + 1] = out /\ \A k \in 1..N : p[k] = partial[k]
    <2>1. partial \in Seq(ToSet(partial))
      BY <1>3, SequenceOverItself
    <2>2. QED
      BY <1>2, <1>3, <2>1, Pushed
  <1>6. Standing(stack) /\ StandsFor(stack, N, focus.node)
    BY DEF Building
  <1>7. issues = <<>> => AllBuiltStrictly(stack, partial)
    BY DEF Building
  <1>8. s = stack' /\ p = partial'
    OBVIOUS
  <1> HIDE DEF s, p, x
  <1>9. \A k \in 1..(N + 1) : k \in 1..N \/ k = N + 1
    BY <1>4
  <1>10. \A k \in 0..N : \A id : StandsFor(s, k, id) <=> StandsFor(stack, k, id)
    BY <1>4, FramesAgree
  <1>11. Standing(s)
    <2>1. ASSUME NEW k \in 1..(N + 1) PROVE StandsFor(s, k - 1, s[k].node)
      <3>1. k - 1 \in 0..N /\ N + 1 - 1 = N
        BY <1>4
      <3>2. CASE k \in 1..N
        BY <1>4, <1>6, <1>10, <3>1, <3>2 DEF Standing
      <3>3. CASE k = N + 1
        BY <1>1, <1>4, <1>6, <1>10, <3>1, <3>3
      <3>4. QED
        BY <1>9, <3>2, <3>3
    <2>2. QED
      BY <1>4, <2>1 DEF Standing
  <1>12. ASSUME issues' = <<>> PROVE AllBuiltStrictly(s, p)
    <2>1. ASSUME NEW k \in 1..(N + 1) PROVE BuiltStrictly(s[k], ImposedAt(k), p[k])
      <3>1. CASE k \in 1..N
        BY <1>4, <1>5, <1>7, <1>12, <3>1 DEF AllBuiltStrictly
      <3>2. CASE k = N + 1
        BY <1>2, <1>4, <1>5, <3>2 DEF x
      <3>3. QED
        BY <1>9, <3>1, <3>2
    <2>2. QED
      BY <1>4, <2>1 DEF AllBuiltStrictly
  <1>13. QED
    BY <1>8, <1>11, <1>12, BuildingNext

LEMMA EnterBuilds ==
  ASSUME TypeInv, JudgeInv, Building, EnterCollection \/ EnterStruct
  PROVE  Building'
  <1> DEFINE n == Node(focus.node)  x == ImposedAt(Len(stack) + 1)
             F(loop) == [loop |-> loop, node |-> focus.node, value |-> focus.value, next |-> 1]
  <1>1. pc = "visit" /\ pc' = "loop" /\ UNCHANGED <<call, issues>>
    BY DEF EnterCollection, EnterStruct
  <1>2. CASE EnterCollection
    <2>1. n.kind \in Collections /\ Frame(n.kind, <<>>)
      BY <1>2 DEF EnterCollection
    <2>2. n.kind \in Loops
      BY <2>1 DEF Loops
    <2>3. BuiltStrictly(F(n.kind), x, <<>>)
      BY <2>1 DEF BuiltStrictly, Collections
    <2> HIDE DEF n
    <2>4. QED
      BY <1>1, <2>1, <2>2, <2>3, EntersStrictly
  <1>3. CASE EnterStruct
    <2> DEFINE nones == [i \in DOMAIN n.fields |-> None]
               out == [fields |-> nones, extras |-> None]
    <2>1. n.kind = "struct" /\ Frame("fields", out)
      BY <1>3 DEF EnterStruct
    <2>2. DOMAIN n.fields = 1..Len(n.fields)
      BY <1>1, <2>1, VisitFacts, LenProperties DEF IsNode, Collections
    <2>3. /\ F("fields").loop = "fields" /\ F("fields").node = focus.node /\ F("fields").next - 1 = 0
          /\ "fields" \in Loops
      BY DEF Loops
    <2>4. /\ IsStructPart(n, out) /\ FieldsServe(n, out.fields, 0) /\ ExtrasServe(n, x, out.extras)
      BY <2>2 DEF IsStructPart, FieldsServe, ExtrasServe, None
    <2> HIDE DEF out
    <2>5. BuiltStrictly(F("fields"), x, out)
      BY <2>3, <2>4 DEF BuiltStrictly
    <2>6. QED
      BY <1>1, <2>1, <2>3, <2>5, EntersStrictly
  <1>4. QED
    BY <1>2, <1>3

\* The innermost frame asks for a member.
LEMMA VisitBuilds ==
  ASSUME TypeInv, Building, VisitMember \/ VisitField
  PROVE  Building'
  <1> DEFINE N == Len(stack)  f == Last(stack)
  <1>1. /\ pc' = "visit" /\ stack # <<>> /\ UNCHANGED <<call, stack, partial, issues>>
        /\ focus'.node = IF f.loop = "fields" THEN Node(f.node).fields[f.next].of ELSE Node(f.node).of
    BY DEF VisitMember, VisitField, InLoop, Visit
  <1>2. f = stack[N] /\ N \in Nat \ {0}
    BY <1>1, InnermostFacts
  <1>3. focus'.node = WantedNode(stack, N)
    BY <1>1, <1>2 DEF WantedNode
  <1>4. StandsFor(stack, N, focus'.node)
    BY <1>3 DEF StandsFor, Serves
  <1>5. Standing(stack) /\ (issues = <<>> => AllBuiltStrictly(stack, partial))
    BY DEF Building
  <1>6. QED
    BY <1>1, <1>4, <1>5, BuildingNext

\* The innermost frame moves on.
LEMMA MovesStrictly ==
  ASSUME TypeInv, Building, pc' = "loop", stack # <<>>, call' = call,
         NEW g \in Frames, g.node = Last(stack).node, stack' = [stack EXCEPT ![Len(stack)] = g],
         issues' = <<>> => issues = <<>>, \A k \in 1..(Len(stack) - 1) : partial'[k] = partial[k],
         issues' = <<>> /\ BuiltStrictly(Last(stack), ImposedAt(Len(stack)), partial[Len(stack)])
           => BuiltStrictly(g, ImposedAt(Len(stack)), partial'[Len(stack)])
  PROVE  Building'
  <1> DEFINE N == Len(stack)  s == stack'  p == partial'  x == ImposedAt(N)
  <1>1. Last(stack) = stack[N] /\ N \in Nat \ {0} /\ stack \in Seq(Frames)
    BY InnermostFacts
  <1>2. Len(s) = N /\ s[N] = g /\ \A k \in 1..(N - 1) : s[k] = stack[k]
    BY <1>1, ReplaceLast
  <1>3. Standing(stack) /\ (issues = <<>> => AllBuiltStrictly(stack, partial))
    BY DEF Building
  <1>4. s = stack' /\ p = partial'
    OBVIOUS
  <1> HIDE DEF s, p, x
  <1>5. \A k \in 1..N : k \in 1..(N - 1) \/ k = N
    BY <1>1
  <1>6. \A k \in 0..(N - 1) : \A id : StandsFor(s, k, id) <=> StandsFor(stack, k, id)
    <2>1. N - 1 \in Nat
      BY <1>1
    <2>2. QED
      BY <1>2, <2>1, FramesAgree
  <1>7. Standing(s)
    <2>1. \A k \in 1..N : s[k].node = stack[k].node /\ k - 1 \in 0..(N - 1)
      BY <1>1, <1>2, <1>5
    <2>2. QED
      BY <1>2, <1>3, <1>6, <2>1 DEF Standing
  <1>8. ASSUME issues' = <<>> PROVE AllBuiltStrictly(s, p)
    <2>1. AllBuiltStrictly(stack, partial)
      BY <1>3, <1>8
    <2>2. ASSUME NEW k \in 1..N PROVE BuiltStrictly(s[k], ImposedAt(k), p[k])
      <3>1. CASE k \in 1..(N - 1)
        BY <1>2, <1>4, <2>1, <3>1 DEF AllBuiltStrictly
      <3>2. CASE k = N
        <4>1. BuiltStrictly(stack[N], x, partial[N])
          BY <2>1, <2>2, <3>2 DEF AllBuiltStrictly, x
        <4>2. QED
          BY <1>1, <1>2, <1>4, <1>8, <3>2, <4>1 DEF x
      <3>3. QED
        BY <1>5, <3>1, <3>2
    <2>3. QED
      BY <1>2, <2>2 DEF AllBuiltStrictly
  <1>9. QED
    BY <1>4, <1>7, <1>8, BuildingNext

LEMMA AdvancesStrictly ==
  ASSUME TypeInv, Building, pc' = "loop", stack # <<>>, call' = call, Advance,
         issues' = <<>> => issues = <<>>, \A k \in 1..(Len(stack) - 1) : partial'[k] = partial[k],
         issues' = <<>> /\ BuiltStrictly(Last(stack), ImposedAt(Len(stack)), partial[Len(stack)])
           => BuiltStrictly([Last(stack) EXCEPT !.next = @ + 1], ImposedAt(Len(stack)), partial'[Len(stack)])
  PROVE  Building'
  <1> DEFINE f == Last(stack)  g == [f EXCEPT !.next = @ + 1]
  <1>1. f \in Frames /\ f = stack[Len(stack)] /\ stack \in Seq(Frames) /\ Len(stack) \in Nat \ {0}
    BY InnermostFacts
  <1>2. g \in Frames /\ g.node = f.node
    <2>1. f \in Frames
      BY <1>1
    <2> HIDE DEF f
    <2>2. f.next + 1 \in Nat \ {0}
      BY <2>1 DEF Frames
    <2>3. QED
      BY <2>1, <2>2 DEF Frames
  <1>3. stack' = [stack EXCEPT ![Len(stack)] = g]
    BY <1>1 DEF Advance
  <1> HIDE DEF g
  <1>4. issues' = <<>> /\ BuiltStrictly(Last(stack), ImposedAt(Len(stack)), partial[Len(stack)])
           => BuiltStrictly(g, ImposedAt(Len(stack)), partial'[Len(stack)])
    BY DEF g
  <1> HIDE DEF f
  <1>5. QED
    BY <1>2, <1>3, <1>4, MovesStrictly DEF f

\* What a frame has built does not depend on its position, but for a struct's
\* loop over its fields.
LEMMA BuiltAdvances ==
  ASSUME NEW f \in Frames, NEW x, NEW p, NEW g, g = [f EXCEPT !.next = @ + 1]
  PROVE  /\ f.loop = "list" => (BuiltStrictly(g, x, p) <=> \A i \in 1..Len(p) : Strictly(Node(f.node).of, p[i], None))
         /\ f.loop = "dict" => (BuiltStrictly(g, x, p) <=> \A i \in 1..Len(p) : Strictly(Node(f.node).of, p[i].value, None))
         /\ f.loop \notin Collections =>
              (BuiltStrictly(g, x, p) <=>
                 /\ IsStructPart(Node(f.node), p)
                 /\ FieldsServe(Node(f.node), p.fields, IF f.loop = "fields" THEN f.next ELSE Len(Node(f.node).fields))
                 /\ ExtrasServe(Node(f.node), x, p.extras))
  <1>1. g.loop = f.loop /\ g.node = f.node /\ g.next = f.next + 1 /\ f.next \in Nat /\ f.loop \in Loops
    BY DEF Frames
  <1>2. g.next - 1 = f.next
    BY <1>1
  <1>3. QED
    BY <1>1, <1>2 DEF BuiltStrictly, Collections, Loops

LEMMA TakeMemberBuilds ==
  ASSUME TypeInv, JudgeInv, ExpectNeverPanics, Building, TakeMember
  PROVE  Building'
  <1> DEFINE N == Len(stack)  f == Last(stack)  x == ImposedAt(N)  g == [f EXCEPT !.next = @ + 1]
             kept(v) == IF f.loop = "list" THEN v ELSE Entry(Members(f)[f.next].key, v)
  <1>1. /\ pc = "return" /\ pc' = "loop" /\ stack # <<>> /\ UNCHANGED <<call, issues>>
        /\ Advance /\ f.loop \in Collections
        /\ \/ ret = None /\ UNCHANGED partial
           \/ \E v \in ret : Collect(Append(Last(partial), kept(v)))
    BY DEF TakeMember
  <1>2. f = stack[N] /\ N \in Nat \ {0} /\ f \in Frames /\ ImposedAt(N + 1) = None
    BY <1>1, InnermostFacts
  <1>3. /\ IsSequence(partial) /\ Len(partial) = N /\ Last(partial) = partial[N]
        /\ IsSequence(partial[N])
    BY <1>1, <1>2, PartialKept DEF JudgeInv, Counted
  <1>4. issues = <<>> => \A v \in ret : Strictly(Node(f.node).of, v, None)
    BY <1>1, <1>2 DEF Building, Serves, WantedNode, Collections
  <1>5. issues = <<>> => ret # None
    BY <1>1 DEF ExpectNeverPanics
  <1> HIDE DEF f, x, g
  <1>6. CASE ret = None /\ UNCHANGED partial
    BY <1>1, <1>5, <1>6, AdvancesStrictly
  <1>7. ASSUME NEW v \in ret, Collect(Append(Last(partial), kept(v)))
        PROVE  Building'
    <2> DEFINE t == Append(partial[N], kept(v))
    <2>1. /\ Len(partial[N]) \in Nat /\ Len(t) = Len(partial[N]) + 1
          /\ \A i \in 1..Len(partial[N]) : t[i] = partial[N][i]
          /\ t[Len(partial[N]) + 1] = kept(v)
      BY <1>3, SequenceOverItself, Pushed
    <2>2. Collect(t)
      BY <1>3, <1>7
    <2> HIDE DEF t
    <2>3. partial'[N] = t /\ \A k \in 1..(N - 1) : partial'[k] = partial[k]
      BY <1>1, <2>2, PartialKept
    <2>4. \A i \in 1..Len(t) : i \in 1..Len(partial[N]) \/ i = Len(partial[N]) + 1
      BY <2>1
    <2>5. ASSUME issues = <<>>, BuiltStrictly(f, x, partial[N]) PROVE BuiltStrictly(g, x, t)
      <3>1. Strictly(Node(f.node).of, v, None)
        BY <1>4, <1>7, <2>5
      <3>2. CASE f.loop = "list"
        <4>1. \A i \in 1..Len(partial[N]) : Strictly(Node(f.node).of, partial[N][i], None)
          BY <2>5, <3>2 DEF BuiltStrictly
        <4>2. \A i \in 1..Len(t) : Strictly(Node(f.node).of, t[i], None)
          BY <2>1, <2>4, <3>1, <3>2, <4>1
        <4>3. QED
          BY <1>2, <3>2, <4>2, BuiltAdvances DEF g
      <3>3. CASE f.loop = "dict"
        <4>1. \A i \in 1..Len(partial[N]) : Strictly(Node(f.node).of, partial[N][i].value, None)
          BY <2>5, <3>3 DEF BuiltStrictly
        <4>2. kept(v).value = v
          BY <3>3 DEF Entry
        <4>3. \A i \in 1..Len(t) : Strictly(Node(f.node).of, t[i].value, None)
          BY <2>1, <2>4, <3>1, <4>1, <4>2
        <4>4. QED
          BY <1>2, <3>3, <4>3, BuiltAdvances DEF g
      <3>4. QED
        BY <1>1, <3>2, <3>3 DEF Collections
    <2>6. QED
      BY <1>1, <2>3, <2>5, AdvancesStrictly DEF f, g, x
  <1>8. QED
    BY <1>1, <1>6, <1>7

\* One more field is held, or it is not required.
LEMMA OneMoreField ==
  ASSUME NEW n, NEW fields, NEW next \in 1..Len(n.fields), Len(n.fields) \in Nat,
         fields = [i \in 1..Len(n.fields) |-> fields[i]], FieldsServe(n, fields, next - 1)
  PROVE  /\ ~n.fields[next].required => FieldsServe(n, fields, next)
         /\ \A r : r # None /\ (\A w \in r : Strictly(n.fields[next].of, w, None)) =>
              LET u == [fields EXCEPT ![next] = r] IN
              /\ u = [i \in 1..Len(n.fields) |-> u[i]]
              /\ FieldsServe(n, u, next)
  <1>1. \A i \in 1..next : i \in 1..(next - 1) \/ i = next
    OBVIOUS
  <1>2. ~n.fields[next].required => FieldsServe(n, fields, next)
    BY <1>1 DEF FieldsServe
  <1>3. ASSUME NEW r, r # None, \A w \in r : Strictly(n.fields[next].of, w, None)
        PROVE  LET u == [fields EXCEPT ![next] = r] IN
               /\ u = [i \in 1..Len(n.fields) |-> u[i]]
               /\ FieldsServe(n, u, next)
    <2> DEFINE u == [fields EXCEPT ![next] = r]
    <2>1. /\ u = [i \in 1..Len(n.fields) |-> u[i]] /\ u[next] = r
          /\ \A i \in 1..Len(n.fields) : i # next => u[i] = fields[i]
      OBVIOUS
    <2> HIDE DEF u
    <2>2. \A i \in 1..next : i \in 1..Len(n.fields) /\ (i # next => i \in 1..(next - 1))
      OBVIOUS
    <2>3. \A i \in 1..Len(n.fields) : \A w \in u[i] : Strictly(n.fields[i].of, w, None)
      BY <1>3, <2>1 DEF FieldsServe
    <2>4. \A i \in 1..next : u[i] = None => ~n.fields[i].required
      BY <1>3, <2>1, <2>2 DEF FieldsServe
    <2>5. QED
      BY <2>1, <2>3, <2>4 DEF FieldsServe, u
  <1>4. QED
    BY <1>2, <1>3

\* What is at hand at a field.
LEMMA AtField ==
  ASSUME TypeInv, stack # <<>>, Last(stack).loop = "fields",
         Last(stack).next <= Len(Node(Last(stack).node).fields), NEW x, NEW p,
         BuiltStrictly(Last(stack), x, p)
  PROVE  LET f == Last(stack)  n == Node(f.node) IN
         /\ f.next \in 1..Len(n.fields) /\ Len(n.fields) \in Nat
         /\ IsStructPart(n, p) /\ FieldsServe(n, p.fields, f.next - 1) /\ ExtrasServe(n, x, p.extras)
  <1> DEFINE f == Last(stack)  n == Node(f.node)
  <1>1. f \in Frames /\ FrameFits(f) /\ call \in Calls
    BY InnermostFacts
  <1>2. f.next \in Nat \ {0} /\ f.node \in DOMAIN call.schema.nodes /\ n.kind = "struct"
    BY <1>1 DEF Frames, FrameFits
  <1>3. Len(n.fields) \in Nat
    BY <1>1, <1>2, NodeFacts, LenProperties DEF IsNode, Collections
  <1>4. IsStructPart(n, p) /\ FieldsServe(n, p.fields, f.next - 1) /\ ExtrasServe(n, x, p.extras)
    BY DEF BuiltStrictly
  <1> HIDE DEF f, n
  <1>5. f.next \in 1..Len(n.fields)
    BY <1>2, <1>3 DEF f, n
  <1>6. QED
    BY <1>3, <1>4, <1>5 DEF f, n

LEMMA TakeFieldBuilds ==
  ASSUME TypeInv, JudgeInv, ExpectNeverPanics, Building, TakeField
  PROVE  Building'
  <1> DEFINE N == Len(stack)  f == Last(stack)  x == ImposedAt(N)  g == [f EXCEPT !.next = @ + 1]
             n == Node(f.node)  p == partial[N]
  <1>1. /\ pc = "return" /\ pc' = "loop" /\ stack # <<>> /\ UNCHANGED <<call, issues>>
        /\ Advance /\ f.loop = "fields" /\ Collect([Last(partial) EXCEPT !.fields[f.next] = ret])
    BY DEF TakeField
  <1>2. f = stack[N] /\ N \in Nat \ {0} /\ f \in Frames /\ ImposedAt(N + 1) = None
    BY <1>1, InnermostFacts
  <1>3. f.next <= Len(n.fields)
    BY <1>1, <1>2 DEF JudgeInv, Positioned, LoopLength
  <1>4. issues = <<>> => ret # None /\ \A w \in ret : Strictly(n.fields[f.next].of, w, None)
    BY <1>1, <1>2 DEF ExpectNeverPanics, Building, Serves, WantedNode
  <1>5. Last(partial) = p
    BY <1>1, PartialKept
  <1>6. /\ \A k \in 1..(N - 1) : partial'[k] = partial[k]
        /\ partial'[N] = [p EXCEPT !.fields[f.next] = ret]
    BY <1>1, <1>5, PartialKept
  <1>7. ASSUME issues = <<>>, BuiltStrictly(f, x, p) PROVE BuiltStrictly(g, x, partial'[N])
    <2> DEFINE u == [p.fields EXCEPT ![f.next] = ret]
               q == [p EXCEPT !.fields[f.next] = ret]
    <2>1. /\ f.next \in 1..Len(n.fields) /\ Len(n.fields) \in Nat
          /\ IsStructPart(n, p) /\ FieldsServe(n, p.fields, f.next - 1) /\ ExtrasServe(n, x, p.extras)
      BY <1>1, <1>3, <1>7, AtField
    <2>2. q = [fields |-> u, extras |-> p.extras]
      <3>1. p = [fields |-> p.fields, extras |-> p.extras]
        BY <2>1 DEF IsStructPart
      <3> HIDE DEF p
      <3>2. QED
        BY <3>1
    <2> HIDE DEF f, n, p
    <2>3. u = [i \in 1..Len(n.fields) |-> u[i]] /\ FieldsServe(n, u, f.next)
      <3>1. p.fields = [i \in 1..Len(n.fields) |-> p.fields[i]]
        BY <2>1 DEF IsStructPart
      <3>2. QED
        BY <1>4, <1>7, <2>1, <3>1, OneMoreField
    <2> HIDE DEF u, q
    <2>4. q.fields = u /\ q.extras = p.extras
      BY <2>2
    <2>5. IsStructPart(n, q) /\ FieldsServe(n, q.fields, f.next) /\ ExtrasServe(n, x, q.extras)
      BY <2>1, <2>2, <2>3, <2>4 DEF IsStructPart
    <2>6. f.loop = "fields" /\ f \in Frames /\ f.loop \notin Collections
      BY <1>1, <1>2 DEF f, Collections
    <2> HIDE DEF x, g
    <2>7. BuiltStrictly(g, x, q)
      BY <2>5, <2>6, BuiltAdvances DEF g, n
    <2>8. QED
      BY <1>6, <2>7 DEF q, f, p
  <1> HIDE DEF f, g, x, p
  <1>8. QED
    BY <1>1, <1>6, <1>7, AdvancesStrictly DEF f, g, x, p

LEMMA MissFieldBuilds ==
  ASSUME TypeInv, JudgeInv, Building, MissField
  PROVE  Building'
  <1> DEFINE N == Len(stack)  f == Last(stack)  x == ImposedAt(N)  g == [f EXCEPT !.next = @ + 1]
             n == Node(f.node)  p == partial[N]  field == n.fields[f.next]
             codes == IF field.required THEN <<"required_missing">> ELSE <<>>
  <1>1. /\ pc = "loop" /\ pc' = "loop" /\ stack # <<>> /\ UNCHANGED <<call, partial>>
        /\ Advance /\ f.loop = "fields" /\ f.next <= Len(n.fields)
        /\ Record(Append(path, KeySegment(field.name)), codes)
    BY DEF MissField, InLoop
  <1>2. /\ call \in Calls /\ f \in Frames /\ FrameFits(f)
        /\ path \in Seq(Segments) /\ issues \in Seq(IssueSet)
    BY <1>1, InnermostFacts
  <1>3. field.name \in Text
    BY <1>1, <1>2, FieldFacts
  <1>4. codes \in Seq(Codes) /\ (codes = <<>> <=> ~field.required)
    <2>1. "required_missing" \in Codes
      BY DEF Codes
    <2>2. QED
      BY <2>1
  <1> HIDE DEF field, codes
  <1>5. issues' = <<>> => issues = <<>> /\ ~field.required
    <2>1. Append(path, KeySegment(field.name)) \in Seq(Segments)
      BY <1>2, <1>3, SegmentFacts, AppendProperties
    <2>2. QED
      BY <1>1, <1>2, <1>4, <2>1, RecordedEmpty
  <1>6. ASSUME issues' = <<>>, BuiltStrictly(f, x, p) PROVE BuiltStrictly(g, x, p)
    <2>1. /\ f.next \in 1..Len(n.fields) /\ Len(n.fields) \in Nat
          /\ IsStructPart(n, p) /\ FieldsServe(n, p.fields, f.next - 1) /\ ExtrasServe(n, x, p.extras)
      BY <1>1, <1>6, AtField
    <2>2. ~n.fields[f.next].required
      BY <1>5, <1>6 DEF field
    <2> HIDE DEF f, n, p, x, g
    <2>3. FieldsServe(n, p.fields, f.next)
      <3>1. p.fields = [i \in 1..Len(n.fields) |-> p.fields[i]]
        BY <2>1 DEF IsStructPart
      <3>2. QED
        BY <2>1, <2>2, <3>1, OneMoreField
    <2>4. f.loop = "fields" /\ f \in Frames /\ f.loop \notin Collections
      BY <1>1, <1>2 DEF f, Collections
    <2>5. QED
      BY <2>1, <2>3, <2>4, BuiltAdvances DEF g, n
  <1> HIDE DEF f, g, x, p
  <1>7. QED
    BY <1>1, <1>5, <1>6, AdvancesStrictly DEF f, g, x, p

LEMMA ScanExtrasBuilds ==
  ASSUME TypeInv, JudgeInv, Building, ScanExtras
  PROVE  Building'
  <1> DEFINE N == Len(stack)  f == Last(stack)  x == ImposedAt(N)  p == partial[N]
             g == [f EXCEPT !.loop = "extras", !.next = 1]
  <1>1. /\ pc = "loop" /\ pc' = "loop" /\ stack # <<>> /\ UNCHANGED <<call, partial, issues>>
        /\ f.loop = "fields" /\ f.next > Len(Node(f.node).fields)
        /\ stack' = [stack EXCEPT ![N] = g]
    BY DEF ScanExtras, InLoop
  <1>2. /\ call \in Calls /\ f = stack[N] /\ N \in Nat \ {0} /\ f \in Frames /\ FrameFits(f)
    BY <1>1, InnermostFacts
  <1>3. g \in Frames /\ g.node = f.node /\ g.loop = "extras"
    <2> DEFINE h == [f EXCEPT !.loop = "extras"]
    <2>1. "extras" \in Loops /\ 1 \in Nat \ {0}
      BY DEF Loops
    <2>2. h \in Frames /\ h.node = f.node /\ h.loop = "extras"
      BY <1>2, <2>1 DEF Frames
    <2>3. g = [h EXCEPT !.next = 1]
      OBVIOUS
    <2> HIDE DEF g, h
    <2>4. QED
      BY <2>1, <2>2, <2>3 DEF Frames
  <1>4. /\ f.next \in Nat /\ LoopLength(f) \in Nat /\ LoopLength(f) = Len(Node(f.node).fields)
    <2>1. f.next \in Nat
      BY <1>2 DEF Frames
    <2>2. QED
      BY <1>1, <1>2, <2>1, LengthIsNat DEF LoopLength
  <1>5. f.next - 1 = Len(Node(f.node).fields)
    <2>1. f.next <= LoopLength(f) + 1
      BY <1>2 DEF JudgeInv, Positioned
    <2>2. QED
      BY <1>1, <1>4, <2>1
  <1> HIDE DEF f, g, x, p
  <1>6. BuiltStrictly(f, x, p) => BuiltStrictly(g, x, p)
    BY <1>1, <1>3, <1>5 DEF BuiltStrictly
  <1>7. QED
    BY <1>1, <1>3, <1>6, MovesStrictly DEF f, x, p

LEMMA OneMoreExtra ==
  ASSUME NEW n, NEW x, NEW extras, NEW e, ExtrasServe(n, x, extras), e.key \notin FieldNames(n),
         ~(x = Some("forbid") \/ (x = None /\ n.extra = "forbid"))
  PROVE  ExtrasServe(n, x, WithExtra(extras, e))
  <1> DEFINE before == IF extras = None THEN <<>> ELSE CHOOSE d \in extras : TRUE
             after == Append(before, e)
             Apart(d) == IsSequence(d) /\ \A a \in 1..Len(d) : d[a].key \notin FieldNames(n)
  <1>1. Apart(before)
    <2>1. CASE extras = None
      <3>1. before = <<>> /\ Len(<<>>) = 0 /\ IsSequence(<<>>)
        BY <2>1 DEF IsSequence
      <3> HIDE DEF before
      <3>2. QED
        BY <3>1
    <2>2. CASE extras # None
      <3>1. before \in extras
        BY <2>2 DEF None
      <3> HIDE DEF before
      <3>2. QED
        BY <3>1 DEF ExtrasServe
    <2>3. QED
      BY <2>1, <2>2
  <1>2. WithExtra(extras, e) = {after}
    BY DEF WithExtra, Some
  <1> HIDE DEF before
  <1>3. Apart(after)
    <2>1. /\ after \in Seq(ToSet(after)) /\ Len(after) = Len(before) + 1 /\ Len(before) \in Nat
          /\ \A a \in 1..Len(before) : after[a] = before[a]
          /\ after[Len(before) + 1] = e
      BY <1>1, SequenceOverItself, Pushed
    <2> HIDE DEF after
    <2>2. IsSequence(after)
      BY <2>1, SequenceOverItself
    <2>3. \A a \in 1..Len(after) : a \in 1..Len(before) \/ a = Len(before) + 1
      BY <2>1
    <2>4. QED
      BY <1>1, <2>1, <2>2, <2>3
  <1> HIDE DEF after
  <1>4. QED
    BY <1>2, <1>3 DEF ExtrasServe

\* The behaviour a struct takes for its extra keys is the one imposed on it, or
\* its own.
LEMMA EffectiveForbids ==
  ASSUME TypeInv, PathMirrorsStack, pc = "loop", stack # <<>>, NEW n
  PROVE  EffectiveExtra(n) = "forbid" <=>
           LET x == ImposedAt(Len(stack)) IN x = Some("forbid") \/ (x = None /\ n.extra = "forbid")
  <1> DEFINE N == Len(stack)
  <1>1. path = <<>> <=> N = 1
    <2>1. stack \in Seq(Frames) /\ N \in Nat \ {0} /\ path \in Seq(Segments)
      BY InnermostFacts
    <2>2. path = Spine(Front(stack))
      BY DEF PathMirrorsStack
    <2>3. Front(stack) \in Seq(Frames) /\ Len(Front(stack)) = N - 1
      BY <2>1, FrontLastProperties
    <2>4. Len(path) = N - 1
      BY <2>2, <2>3, SpineTyped
    <2>5. path # <<>> => Len(path) \in Nat \ {0}
      BY <2>1, EmptySeq
    <2>6. path = <<>> => Len(path) = 0
      BY EmptySeq
    <2>7. QED
      BY <2>1, <2>4, <2>5, <2>6
  <1>2. QED
    BY <1>1, ImposedFacts DEF EffectiveExtra, ImposedAt

LEMMA ScanKeyBuilds ==
  ASSUME TypeInv, JudgeInv, PathMirrorsStack, Building, ScanKey
  PROVE  Building'
  <1> DEFINE N == Len(stack)  f == Last(stack)  x == ImposedAt(N)  g == [f EXCEPT !.next = @ + 1]
             n == Node(f.node)  p == partial[N]  e == f.value.entries[f.next]
             refused == e.key \notin FieldNames(n) /\ EffectiveExtra(n) = "forbid"
             stored == e.key \notin FieldNames(n) /\ EffectiveExtra(n) = "allow"
             codes == IF refused THEN <<"extra_key">> ELSE <<>>
  <1>1. /\ pc = "loop" /\ pc' = "loop" /\ stack # <<>> /\ call' = call
        /\ Advance /\ f.loop = "extras" /\ f.next <= Len(f.value.entries)
        /\ Record(Append(path, KeySegment(e.key)), codes)
        /\ IF stored THEN Collect([Last(partial) EXCEPT !.extras = WithExtra(@, e)])
           ELSE UNCHANGED partial
    BY DEF ScanKey, InLoop
  <1>2. /\ f = stack[N] /\ f \in Frames /\ FrameFits(f)
        /\ path \in Seq(Segments) /\ issues \in Seq(IssueSet)
    BY <1>1, InnermostFacts
  <1>3. e.key \in Text
    BY <1>1, <1>2, KeyFacts
  <1>4. codes \in Seq(Codes)
    <2>1. "extra_key" \in Codes
      BY DEF Codes
    <2> HIDE DEF refused
    <2>2. QED
      BY <2>1
  <1>5. Last(partial) = p
    BY <1>1, PartialKept
  <1>6. stored => ~(x = Some("forbid") \/ (x = None /\ n.extra = "forbid"))
    BY <1>1, EffectiveForbids
  <1>7. f.loop = "extras" /\ f.loop \notin Collections
    BY <1>1 DEF Collections
  <1> HIDE DEF f, g, x, n, p, e, codes
  <1>8. issues' = <<>> => issues = <<>>
    <2>1. Append(path, KeySegment(e.key)) \in Seq(Segments)
      BY <1>2, <1>3, SegmentFacts, AppendProperties
    <2>2. QED
      BY <1>1, <1>2, <1>4, <2>1, RecordedEmpty
  <1>9. ASSUME BuiltStrictly(f, x, p)
        PROVE  IsStructPart(n, p) /\ FieldsServe(n, p.fields, Len(n.fields)) /\ ExtrasServe(n, x, p.extras)
    BY <1>7, <1>9 DEF BuiltStrictly, n
  <1>10. CASE stored
    <2> DEFINE q == [p EXCEPT !.extras = WithExtra(p.extras, e)]
    <2>1. Collect(q)
      BY <1>1, <1>5, <1>10
    <2>2. partial'[N] = q /\ \A k \in 1..(N - 1) : partial'[k] = partial[k]
      <3> HIDE DEF q
      <3> QED BY <1>1, <2>1, PartialKept
    <2>3. ASSUME BuiltStrictly(f, x, p) PROVE BuiltStrictly(g, x, q)
      <3>1. q = [fields |-> p.fields, extras |-> WithExtra(p.extras, e)]
        BY <1>9, <2>3 DEF IsStructPart
      <3>2. q.fields = p.fields /\ q.extras = WithExtra(p.extras, e)
        BY <3>1
      <3>3. ExtrasServe(n, x, q.extras)
        BY <1>6, <1>9, <1>10, <2>3, <3>2, OneMoreExtra
      <3> HIDE DEF q
      <3>4. IsStructPart(n, q) /\ FieldsServe(n, q.fields, Len(n.fields))
        BY <1>9, <2>3, <3>1, <3>2 DEF IsStructPart
      <3>5. QED
        BY <1>2, <1>7, <3>3, <3>4, BuiltAdvances DEF g, n
    <2> HIDE DEF q
    <2>4. QED
      BY <1>1, <1>8, <2>2, <2>3, AdvancesStrictly DEF f, g, x, p
  <1>11. CASE ~stored
    <2>1. BuiltStrictly(f, x, p) => BuiltStrictly(g, x, p)
      BY <1>2, <1>7, <1>9, BuiltAdvances DEF g, n
    <2>2. UNCHANGED partial
      BY <1>1, <1>11
    <2>3. QED
      BY <1>1, <1>8, <2>1, <2>2, AdvancesStrictly DEF f, g, x, p
  <1>12. QED
    BY <1>10, <1>11

\* The innermost frame is closed.
LEMMA ReturnsStrictly ==
  ASSUME TypeInv, JudgeInv, Building, pc' = "return", stack # <<>>, call' = call, Unframe,
         issues' = <<>> => /\ issues = <<>>
                           /\ \A o \in ret' : Strictly(Last(stack).node, o, ImposedAt(Len(stack)))
  PROVE  Building'
  <1> DEFINE N == Len(stack)  s == stack'  p == partial'
  <1>1. Last(stack) = stack[N] /\ N \in Nat \ {0} /\ stack \in Seq(Frames)
    BY InnermostFacts
  <1>2. Len(s) = N - 1 /\ \A k \in 1..(N - 1) : s[k] = stack[k]
    BY <1>1, FrontLastProperties DEF Unframe
  <1>3. \A k \in 1..(N - 1) : p[k] = partial[k]
    <2>1. partial \in Seq(ToSet(partial)) /\ Len(partial) = N /\ partial # <<>>
      BY <1>1, SequenceOverItself DEF JudgeInv, Counted
    <2>2. QED
      BY <2>1, Popped DEF Unframe
  <1>4. Standing(stack) /\ (issues = <<>> => AllBuiltStrictly(stack, partial))
    BY DEF Building
  <1>5. s = stack' /\ p = partial'
    OBVIOUS
  <1> HIDE DEF s, p
  <1>6. /\ \A k \in 0..(N - 1) : \A id : StandsFor(s, k, id) <=> StandsFor(stack, k, id)
        /\ \A k \in 0..(N - 1) : \A o : Serves(s, k, o) <=> Serves(stack, k, o)
    <2>1. N - 1 \in Nat
      BY <1>1
    <2>2. QED
      BY <1>2, <2>1, FramesAgree
  <1>7. \A k \in 1..(N - 1) : k \in 1..N /\ k - 1 \in 0..(N - 1)
    BY <1>1
  <1>8. Standing(s)
    BY <1>2, <1>4, <1>6, <1>7 DEF Standing
  <1>9. issues' = <<>> => AllBuiltStrictly(s, p)
    BY <1>2, <1>3, <1>4, <1>7 DEF AllBuiltStrictly
  <1>10. ASSUME issues' = <<>>, NEW o \in ret' PROVE Serves(s, N - 1, o)
    <2>1. N \in 1..N /\ N - 1 \in 0..(N - 1) /\ N - 1 + 1 = N
      BY <1>1
    <2>2. StandsFor(stack, N - 1, Last(stack).node)
      BY <1>1, <1>4, <2>1 DEF Standing
    <2>3. Strictly(Last(stack).node, o, ImposedAt(N - 1 + 1))
      BY <1>10, <2>1
    <2>4. QED
      BY <1>6, <2>1, <2>2, <2>3 DEF StandsFor
  <1>11. QED
    BY <1>2, <1>5, <1>8, <1>9, <1>10, BuildingNext

LEMMA LeaveCollectionBuilds ==
  ASSUME TypeInv, JudgeInv, Building, LeaveCollection
  PROVE  Building'
  <1> DEFINE N == Len(stack)  f == Last(stack)  x == ImposedAt(N)  n == Node(f.node)  out == partial[N]
             codes == SizeCodes(Len(out), n.bounds)
  <1>1. /\ pc = "loop" /\ pc' = "return" /\ stack # <<>> /\ call' = call /\ Unframe
        /\ f.loop \in Collections
    BY DEF LeaveCollection, InLoop, Return
  <1>2. /\ call \in Calls /\ f = stack[N] /\ N \in Nat \ {0} /\ f \in Frames /\ FrameFits(f)
        /\ path \in Seq(Segments) /\ issues \in Seq(IssueSet) /\ x \in Imposed
    BY <1>1, InnermostFacts
  <1>3. Last(partial) = out
    BY <1>1, PartialKept
  <1>4. Record(path, codes) /\ ret' = {IF f.loop = "list" THEN ListValue(out) ELSE DictValue(out)}
    BY <1>3 DEF LeaveCollection, Return, Some
  <1>5. AreBounds(n.bounds)
    <2> HIDE DEF f, x
    <2> QED BY <1>1, <1>2, CollectionFits DEF n
  <1>6. IsSequence(out) /\ (issues = <<>> => BuiltStrictly(f, x, out))
    BY <1>1, <1>2 DEF JudgeInv, Counted, Building, AllBuiltStrictly
  <1>7. f.node \in DOMAIN call.schema.nodes /\ n.kind = f.loop
    BY <1>1, <1>2 DEF Frames, FrameFits
  <1> HIDE DEF f, x, n, out
  <1>8. codes = <<>> <=> Within(Len(out), n.bounds)
    <2>1. Len(out) \in Int
      BY <1>6 DEF IsSequence
    <2>2. QED
      BY <1>5, <2>1, NoSizeCodesWithin
  <1>9. codes \in Seq(Codes)
    <2>1. {"too_short", "too_long"} \subseteq Codes
      BY DEF Codes
    <2>2. QED
      BY <2>1, BoundCodesAreCodes DEF SizeCodes
  <1> HIDE DEF codes
  <1>10. ASSUME issues' = <<>>
         PROVE  issues = <<>> /\ \A o \in ret' : Strictly(f.node, o, x)
    <2>1. issues = <<>> /\ Within(Len(out), n.bounds)
      BY <1>2, <1>4, <1>8, <1>9, <1>10, RecordedEmpty
    <2>2. BuiltStrictly(f, x, out)
      BY <1>6, <2>1
    <2>3. CASE f.loop = "list"
      <3>1. \A i \in 1..Len(out) : Strictly(n.of, out[i], None)
        BY <2>2, <2>3 DEF BuiltStrictly, n
      <3>2. Strictly(f.node, ListValue(out), x)
        BY <1>2, <1>6, <1>7, <2>1, <2>3, <3>1, StrictCollection DEF n
      <3>3. QED
        BY <1>4, <2>1, <2>3, <3>2
    <2>4. CASE f.loop = "dict"
      <3>1. \A i \in 1..Len(out) : Strictly(n.of, out[i].value, None)
        BY <2>2, <2>4 DEF BuiltStrictly, n
      <3>2. Strictly(f.node, DictValue(out), x)
        BY <1>2, <1>6, <1>7, <2>1, <2>4, <3>1, StrictCollection DEF n
      <3>3. QED
        BY <1>4, <2>1, <2>4, <3>2
    <2>5. QED
      BY <1>1, <2>3, <2>4 DEF Collections
  <1>11. QED
    BY <1>1, <1>10, ReturnsStrictly DEF f, x

LEMMA LeaveStructBuilds ==
  ASSUME TypeInv, JudgeInv, DistinctFields(call.schema), Building, LeaveStruct
  PROVE  Building'
  <1> DEFINE N == Len(stack)  f == Last(stack)  x == ImposedAt(N)  n == Node(f.node)  p == partial[N]
             o == StructValue([i \in DOMAIN n.fields |-> n.fields[i].name], p.fields, p.extras)
  <1>1. /\ pc = "loop" /\ pc' = "return" /\ stack # <<>> /\ UNCHANGED <<call, issues>> /\ Unframe
        /\ f.loop = "extras"
    BY DEF LeaveStruct, InLoop, Return
  <1>2. /\ call \in Calls /\ f = stack[N] /\ N \in Nat \ {0} /\ f \in Frames /\ FrameFits(f)
        /\ x \in Imposed
    BY <1>1, InnermostFacts
  <1>3. Last(partial) = p
    BY <1>1, PartialKept
  <1>4. ret' = {o}
    BY <1>3 DEF LeaveStruct, Return, Some
  <1>5. f.node \in DOMAIN call.schema.nodes /\ n.kind = "struct"
    BY <1>1, <1>2 DEF Frames, FrameFits
  <1>6. Distinct(n)
    <2>1. n \in ToSet(call.schema.nodes)
      BY <1>5 DEF Node, ToSet
    <2>2. DOMAIN n.fields = 1..Len(n.fields)
      BY <1>2, <1>5, NodeFacts, LenProperties DEF IsNode, Collections
    <2> HIDE DEF n
    <2>3. QED
      BY <1>5, <2>1, <2>2 DEF DistinctFields, Distinct
  <1>7. issues = <<>> => BuiltStrictly(f, x, p)
    BY <1>1, <1>2 DEF Building, AllBuiltStrictly
  <1>8. n = Node(f.node)
    OBVIOUS
  <1> HIDE DEF f, x, p, n
  <1>9. ASSUME issues = <<>> PROVE Strictly(f.node, o, x)
    <2>1. FieldsServe(n, p.fields, Len(n.fields)) /\ ExtrasServe(n, x, p.extras)
      BY <1>1, <1>7, <1>8, <1>9 DEF BuiltStrictly
    <2>2. QED
      BY <1>2, <1>5, <1>6, <1>8, <2>1, StrictStruct
  <1> HIDE DEF o
  <1>10. QED
    BY <1>1, <1>4, <1>9, ReturnsStrictly DEF f, x

\* The call begins and ends.
LEMMA RootBuilds ==
  ASSUME TypeInv, JudgeInv, ValidateRoot
  PROVE  Building'
  <1>1. /\ pc' = "visit" /\ UNCHANGED <<call, stack, partial, issues>>
        /\ stack = <<>> /\ Len(stack) = 0 /\ focus'.node = call.schema.root
    BY DEF ValidateRoot, Visit, JudgeInv, Started
  <1>2. Standing(stack) /\ AllBuiltStrictly(stack, partial)
    BY <1>1 DEF Standing, AllBuiltStrictly
  <1>3. StandsFor(stack, 0, focus'.node)
    BY <1>1 DEF StandsFor, Serves, WantedNode
  <1>4. QED
    BY <1>1, <1>2, <1>3, BuildingNext

LEMMA DoneBuilds ==
  ASSUME Building, pc' = "done", UNCHANGED <<call, stack, partial>>, issues' = <<>> => issues = <<>>
  PROVE  Building'
  <1>1. Standing(stack) /\ (issues' = <<>> => AllBuiltStrictly(stack, partial))
    BY DEF Building
  <1>2. QED
    BY <1>1, BuildingNext

LEMMA BuildStep ==
  ASSUME TypeInv, ExpectNeverPanics, PathMirrorsStack, JudgeInv, DistinctFields(call.schema), Building,
         [Next]_vars
  PROVE  Building'
  <1>1. CASE UNCHANGED vars
    <2>1. UNCHANGED <<call, pc, focus, ret, stack, partial, issues>>
      BY <1>1 DEF vars
    <2>2. QED
      BY <2>1, BuildingNext DEF Building
  <1>2. CASE RejectMalformedJson \/ Finish
    <2>1. pc' = "done" /\ UNCHANGED <<call, stack, partial>>
      BY <1>2 DEF RejectMalformedJson, Finish
    <2>2. issues' = <<>> => issues = <<>>
      BY IssuesStay DEF Clean
    <2>3. QED
      BY <2>1, <2>2, DoneBuilds
  <1>3. QED
    BY <1>1, <1>2, RootBuilds, PrimitiveBuilds, EnumBuilds, OptionalBuilds, RejectShapeBuilds, EnterBuilds,
       VisitBuilds, TakeMemberBuilds, LeaveCollectionBuilds, MissFieldBuilds, TakeFieldBuilds,
       ScanExtrasBuilds, ScanKeyBuilds, LeaveStructBuilds DEF Next

LEMMA StrictStep ==
  TypeInv /\ ExpectNeverPanics /\ PathMirrorsStack /\ JudgeInv /\ StrictInv /\ [Next]_vars => StrictInv'
  <1> SUFFICES ASSUME TypeInv, ExpectNeverPanics, PathMirrorsStack, JudgeInv, StrictInv, [Next]_vars
               PROVE  StrictInv'
    OBVIOUS
  <1>1. call' = call
    BY CallStays
  <1>2. DistinctFields(call.schema)' <=> DistinctFields(call.schema)
    BY <1>1
  <1>3. DistinctFields(call.schema) => Building'
    BY BuildStep DEF StrictInv
  <1>4. ASSUME DistinctFields(call.schema), NEW o \in output'
        PROVE  Strictly(call.schema.root, o, Some(call.extra))
    <2>1. CASE output' = output
      BY <1>4, <2>1 DEF StrictInv, AcceptedOutputIsStrict, Strictly
    <2>2. CASE Finish
      <3>1. pc = "return" /\ stack = <<>> /\ output' = IF issues = <<>> THEN ret ELSE {}
        BY <2>2 DEF Finish, None
      <3>2. issues = <<>> /\ o \in ret
        BY <1>4, <3>1
      <3>3. Serves(stack, 0, o)
        BY <1>4, <3>1, <3>2 DEF StrictInv, Building
      <3>4. QED
        BY <3>3 DEF Serves, WantedNode, ImposedAt
    <2>3. output' = output \/ Finish
      BY DEF Next, vars, RejectMalformedJson, ValidateRoot, ValidatePrimitive, ValidateEnum, ValidateOptional,
             RejectShape, EnterCollection, VisitMember, TakeMember, LeaveCollection, EnterStruct,
             VisitField, MissField, TakeField, ScanExtras, ScanKey, LeaveStruct
    <2>4. QED
      BY <2>1, <2>2, <2>3
  <1>5. AcceptedOutputIsStrict'
    BY <1>1, <1>4 DEF AcceptedOutputIsStrict, Strictly
  <1>6. QED
    BY <1>2, <1>3, <1>5 DEF StrictInv

LEMMA StrictInit == Init => StrictInv
  <1> SUFFICES ASSUME Init PROVE StrictInv
    OBVIOUS
  <1>1. pc = "start" /\ stack = <<>> /\ Len(stack) = 0 /\ output = {}
    BY DEF Init, None
  <1>2. QED
    BY <1>1 DEF StrictInv, AcceptedOutputIsStrict, Building, Standing, AllBuiltStrictly

\* For every schema whose structs name each field once, and for every payload
\* and options: the output of an accepted payload, each struct in it taken for
\* the dict it stands for, conforms to the same schema without any coercion.
THEOREM OutputIsStrict == Spec => []AcceptedOutputIsStrict
  <1>1. Init => ExpectNeverPanics
    BY DEF Init, ExpectNeverPanics
  <1>2. Init => PathMirrorsStack
    BY EmptySeq DEF Init, PathMirrorsStack, Spine
  <1>3. StrictInv => AcceptedOutputIsStrict
    BY DEF StrictInv
  <1>4. QED
    BY <1>1, <1>2, <1>3, TypeInit, TypeStep, ExplainedStep, PathStep, JudgeInit, JudgeStep,
       StrictInit, StrictStep, PTL DEF Spec
=============================================================================
