-------------------------- MODULE SchemaParseProofs --------------------------
(***************************************************************************)
(* For every document: what the parser builds is a type expression as      *)
(* build_ir takes it, made of expressions it has built before; and it is   *)
(* what the grammar says the document means, or the path is that of the    *)
(* first fault.  For every object: the schema its compilation ends with is *)
(* what its document means, and every other end has its reason.            *)
(***************************************************************************)
EXTENDS Compile, SequenceLemmas

AllTags == Primitives \cup Wrappers \cup Loops

LEMMA NoOptionsAreOptions == IsOptions(NoOptions) /\ NoOptions = <<>>
BY DEF IsOptions, NoOptions

LEMMA JsonFacts ==
  ASSUME NEW v \in Json
  PROVE  /\ v.kind = "array" => v.items \in Seq(Json)
         /\ v.kind = "object" => IsOptions(v.members)
         /\ v.kind = "string" => v.text \in Text
         /\ v.kind = "number" => /\ IsOption(v.i64, Int) /\ IsOption(v.u64, Int)
                                 /\ v.f64 \in Int
BY JsonAssumption DEF IsJson

LEMMA MergeIsOptions ==
  ASSUME NEW inline, NEW outer, IsOptions(inline), IsOptions(outer)
  PROVE  IsOptions(Merge(inline, outer))
BY DEF IsOptions, Merge

LEMMA WithoutIsOptions ==
  ASSUME NEW members, NEW key, IsOptions(members)
  PROVE  IsOptions(Without(members, key))
BY DEF IsOptions, Without

LEMMA OptionsAtIsOptions ==
  ASSUME NEW items \in Seq(Json), NEW i \in Nat \ {0}
  PROVE  IsOptions(OptionsAt(items, i))
<1>1. i <= Len(items) => items[i] \in Json
  BY LenProperties, ElementOfSeq
<1> QED  BY <1>1, JsonFacts, NoOptionsAreOptions DEF OptionsAt

LEMMA ItemAtIsPart ==
  ASSUME NEW items \in Seq(Json), NEW i \in Nat \ {0}
  PROVE  ItemAt(items, i) \subseteq Json
<1>1. i <= Len(items) => items[i] \in Json
  BY LenProperties, ElementOfSeq
<1> QED  BY <1>1 DEF ItemAt, Some, None

IsHead(h) == h.tag \in AllTags /\ IsOptions(h.options) /\ h.part \subseteq Json

LEMMA NamedIsHead ==
  ASSUME NEW name, NEW options, IsOptions(options), NEW h \in Named(name, options)
  PROVE  IsHead(h)
<1> DEFINE canonical == Lower[name]
           tag == IF canonical \in DOMAIN Aliases THEN Aliases[canonical] ELSE canonical
<1>1. tag \in AllTags /\ h = HeadAs(tag, None, options)
  BY DEF Named, AllTags, Some, None
<1> HIDE DEF tag
<1> QED  BY <1>1 DEF HeadAs, IsHead, None

LEMMA TaggedIsHead ==
  ASSUME NEW tag, NEW items \in Seq(Json), NEW outer, IsOptions(outer),
         NEW h \in Tagged(tag, items, outer)
  PROVE  IsHead(h)
<1>1. ItemAt(items, 2) \subseteq Json
  BY ItemAtIsPart
<1>2. IsOptions(Merge(OptionsAt(items, 2), outer)) /\ IsOptions(Merge(OptionsAt(items, 3), outer))
  BY OptionsAtIsOptions, MergeIsOptions
<1>3. CASE tag = "optional" /\ Len(items) > 1
  BY <1>1, <1>3 DEF Tagged, HeadAs, IsHead, Some, AllTags, Wrappers
<1>4. CASE tag \in {"list", "dict"} /\ Len(items) > 1
  <2>1. h = HeadAs(tag, ItemAt(items, 2), Merge(OptionsAt(items, 3), outer))
    <3>1. tag = "list" \/ tag = "dict"
      BY <1>4
    <3> DEFINE n == Len(items)
    <3>2. n \in Nat /\ n > 1
      BY <1>4
    <3> HIDE DEF n
    <3>3. n # 1
      BY <3>2
    <3> QED  BY <3>1, <3>2, <3>3 DEF Tagged, Some, n
  <2>2. tag \in AllTags
    BY <1>4 DEF AllTags, Wrappers
  <2> QED  BY <1>1, <1>2, <2>1, <2>2 DEF HeadAs, IsHead
<1>5. CASE tag \in Wrappers /\ Len(items) = 1
  BY <1>5 DEF Tagged, Wrappers, None
<1>6. CASE tag = "enum"
  BY <1>1, <1>6 DEF Tagged, HeadAs, IsHead, Some, AllTags, Wrappers, Loops
<1>7. CASE tag = "struct"
  BY <1>2, <1>7 DEF Tagged, HeadAs, IsHead, Some, None, AllTags, Wrappers, Loops
<1>8. CASE /\ ~(tag = "optional" /\ Len(items) > 1)
           /\ ~(tag \in {"list", "dict"} /\ Len(items) > 1)
           /\ ~(tag \in Wrappers /\ Len(items) = 1)
           /\ tag # "enum" /\ tag # "struct"
  <2>1. h \in Named(tag, outer)
    BY <1>8 DEF Tagged
  <2> QED  BY <2>1, NamedIsHead
<1> QED  BY <1>3, <1>4, <1>5, <1>6, <1>7, <1>8

\* Whatever the notation: a known tag, with options and a part of the document.
LEMMA HeadIsHead ==
  ASSUME NEW v \in Json, NEW outer, IsOptions(outer), NEW h \in HeadOf(v, outer)
  PROVE  IsHead(h)
<1>1. CASE v.kind = "string"
  BY <1>1, NamedIsHead DEF HeadOf
<1>2. CASE v.kind = "object"
  <2>1. IsOptions(Merge(Without(v.members, "type"), outer))
    BY <1>2, JsonFacts, MergeIsOptions, WithoutIsOptions
  <2>2. h \in Named(v.members["type"].text, Merge(Without(v.members, "type"), outer))
    BY <1>2 DEF HeadOf, None
  <2> QED  BY <2>1, <2>2, NamedIsHead
<1>3. CASE v.kind = "array"
  <2>1. v.items \in Seq(Json) /\ h \in Tagged(v.items[1].text, v.items, outer)
    BY <1>3, JsonFacts DEF HeadOf, None
  <2> QED  BY <2>1, TaggedIsHead
<1> QED  BY <1>1, <1>2, <1>3 DEF HeadOf, None

LEMMA PartIsJson ==
  ASSUME NEW h, IsHead(h), NEW v \in PartOf(h)
  PROVE  v \in Json
<1> DEFINE keys == PartKeys(h.tag)
<1> HIDE DEF keys
<1>1. \A k \in DOMAIN h.options : h.options[k] \in Json
  BY DEF IsHead, IsOptions
<1>2. \/ v \in h.part
      \/ \E k \in DOMAIN h.options : v = h.options[k]
  BY DEF PartOf, keys, Some, None
<1> QED  BY <1>1, <1>2 DEF IsHead

-----------------------------------------------------------------------------
(* Expressions.                                                            *)

LEMMA OptionValueIsNumber ==
  ASSUME NEW tag, NEW options, NEW key, IsOptions(options), key # "format"
  PROVE  IsOption(OptionValue(tag, options, key), Int)
<1>1. CASE key \notin DOMAIN options
  BY <1>1 DEF OptionValue, IsOption, None
<1>2. CASE key \in DOMAIN options
  <2> DEFINE v == options[key]
  <2>1. v \in Json
    BY <1>2 DEF IsOptions
  <2> HIDE DEF v
  <2>2. CASE v.kind # "number"
    BY <1>2, <2>2 DEF OptionValue, IsOption, None, v
  <2>3. CASE v.kind = "number"
    <3>1. IsOption(v.i64, Int) /\ IsOption(v.u64, Int) /\ IsOption(Some(v.f64), Int)
      BY <2>1, <2>3, JsonFacts DEF IsOption, Some
    <3>2. \/ OptionValue(tag, options, key) = v.i64
          \/ OptionValue(tag, options, key) = v.u64
          \/ OptionValue(tag, options, key) = Some(v.f64)
      BY <1>2, <2>3 DEF OptionValue, v
    <3> QED  BY <3>1, <3>2
  <2> QED  BY <2>2, <2>3
<1> QED  BY <1>1, <1>2

LEMMA OptionValueIsFormat ==
  ASSUME NEW tag, NEW options
  PROVE  IsOption(OptionValue(tag, options, "format"), Formats)
BY DEF OptionValue, IsOption, None

LEMMA BoundsAreBounds ==
  ASSUME NEW tag, NEW options, NEW min, NEW max, IsOptions(options),
         min # "format", max # "format"
  PROVE  AreBounds(BoundsOf(tag, options, min, max))
BY OptionValueIsNumber DEF AreBounds, BoundsOf

LEMMA ExprOverMore ==
  ASSUME NEW e, NEW S, NEW T, IsExprOver(e, S), S \subseteq T
  PROVE  IsExprOver(e, T)
<1>1. CASE e.kind = "struct"
  <2> DEFINE F == [name : Text, required : BOOLEAN, of : S]
             G == [name : Text, required : BOOLEAN, of : T]
  <2>1. e.fields \in Seq(F) /\ e.extra \in ExtraBehaviors
    BY <1>1 DEF IsExprOver, Leaves, Collections
  <2>2. F \subseteq G
    OBVIOUS
  <2>3. e.fields \in Seq(G)
    <3> HIDE DEF F, G
    <3>1. /\ Len(e.fields) \in Nat /\ e.fields = [i \in 1..Len(e.fields) |-> e.fields[i]]
          /\ \A i \in 1..Len(e.fields) : e.fields[i] \in G
      BY <2>1, <2>2, LenProperties, ElementOfSeq
    <3> QED  BY <3>1
  <2> QED  BY <1>1, <2>1, <2>3 DEF IsExprOver
<1>2. CASE e.kind # "struct"
  BY <1>2 DEF IsExprOver
<1> QED  BY <1>1, <1>2

LEMMA PrimitiveIsExpr ==
  ASSUME NEW f, NEW S, f.tag \in Primitives, IsOptions(f.options)
  PROVE  IsExprOver(ExprOf(f), S)
<1> DEFINE sizes == BoundsOf("str", f.options, "min_size", "max_size")
           format == OptionValue("str", f.options, "format")
<1>1. AreBounds(sizes) /\ IsOption(format, Formats)
  BY BoundsAreBounds, OptionValueIsFormat
<1>2. \A tag : AreBounds(BoundsOf(tag, f.options, "min", "max"))
  BY BoundsAreBounds
<1>3. CASE f.tag \in {"any", "bool", "sym"}
  BY <1>3 DEF ExprOf, IsExprOver, IsNode, Leaves, AnyNode, BoolNode, SymbolNode
<1>4. CASE f.tag = "int"
  <2>1. ExprOf(f) = IntNode(BoundsOf("int", f.options, "min", "max"))
    BY <1>4 DEF ExprOf
  <2> QED  BY <1>2, <2>1 DEF IsExprOver, IsNode, Leaves, IntNode
<1>5. CASE f.tag = "float"
  <2>1. ExprOf(f) = FloatNode(BoundsOf("float", f.options, "min", "max"))
    BY <1>5 DEF ExprOf
  <2> QED  BY <1>2, <2>1 DEF IsExprOver, IsNode, Leaves, FloatNode
<1>6. CASE f.tag = "str"
  <2>1. ExprOf(f) = StringNode(sizes, format)
    BY <1>6 DEF ExprOf
  <2> HIDE DEF sizes, format
  <2> QED  BY <1>1, <2>1 DEF IsExprOver, IsNode, Leaves, StringNode
<1> QED  BY <1>3, <1>4, <1>5, <1>6 DEF Primitives

\* What a frame holds when it may go on: every entry it has taken is one, and
\* it awaits a part or has them all.
EntriesTaken(f) ==
  f.tag = "struct" =>
    /\ ExtraOf(f.options) # None
    /\ \A j \in 1..f.taken : IsEntry(f.items[j])
Awaits(f) ==
  /\ f.tag # "enum"
  /\ IF f.tag = "struct" THEN f.taken > 0 /\ Len(f.parts) = f.taken - 1 ELSE f.parts = <<>>
HasParts(f) ==
  /\ f.tag = "struct" => Len(f.parts) = f.taken
  /\ f.tag \in Wrappers => Len(f.parts) = 1

LEMMA StructIsExpr ==
  ASSUME NEW f, NEW S, IsFrame(f, S), EntriesTaken(f), HasParts(f), f.taken = Len(f.items),
         f.tag = "struct"
  PROVE  IsExprOver(ExprOf(f), S)
<1> DEFINE n == Len(f.items)
           F == [name : Text, required : BOOLEAN, of : S]
           fields == [i \in 1..n |-> FieldOf(f.items[i], f.parts[i])]
           extra == CHOOSE e \in ExtraOf(f.options) : TRUE
<1>1. /\ f.items \in Seq(Json) /\ f.parts \in Seq(S)
      /\ n \in Nat /\ Len(f.parts) = n
  BY DEF IsFrame, HasParts, PartsOf
<1>2. extra \in ExtraBehaviors
  BY DEF EntriesTaken, ExtraOf, None, Some, ExtraBehaviors
<1>3. \A i \in 1..n : FieldOf(f.items[i], f.parts[i]) \in F
  <2> SUFFICES ASSUME NEW i \in 1..n PROVE FieldOf(f.items[i], f.parts[i]) \in F
    OBVIOUS
  <2> DEFINE v == f.items[i]
  <2>1. v \in Json /\ f.parts[i] \in S /\ IsEntry(v)
    BY <1>1, ElementOfSeq DEF EntriesTaken
  <2> HIDE DEF v, n
  <2>2. v.items \in Seq(Json) /\ Len(v.items) > 2
    BY <2>1, JsonFacts DEF IsEntry
  <2>3. v.items[2] \in Json
    BY <2>2, ElementOfSeq, LenProperties
  <2>4. v.items[2].text \in Text
    BY <2>1, <2>3, JsonFacts DEF IsEntry
  <2> QED  BY <2>1, <2>4 DEF FieldOf, Field, v
<1>4. fields \in Seq(F)
  <2> HIDE DEF F
  <2> QED  BY <1>1, <1>3
<1>5. ExprOf(f) = StructNode(fields, extra)
  BY DEF ExprOf
<1> HIDE DEF fields, extra
<1> QED  BY <1>2, <1>4, <1>5 DEF IsExprOver, StructNode

\* The expression of a frame that has all its parts is made of what was built.
LEMMA FrameIsExpr ==
  ASSUME NEW f, NEW S, IsFrame(f, S), EntriesTaken(f), HasParts(f), f.taken = Len(f.items)
  PROVE  IsExprOver(ExprOf(f), S)
<1>0. AreBounds(BoundsOf(f.tag, f.options, "min_size", "max_size"))
  BY BoundsAreBounds DEF IsFrame
<1>1. CASE f.tag = "struct"
  BY <1>1, StructIsExpr
<1>2. CASE f.tag = "enum"
  <2>1. ExprOf(f) = EnumNode(f.parts) /\ f.parts \in Seq(Text)
    BY <1>2 DEF ExprOf, IsFrame, PartsOf
  <2> QED  BY <2>1 DEF IsExprOver, IsNode, Leaves, EnumNode
<1>3. CASE f.tag \in Wrappers
  <2>1. f.parts[1] \in S
    <3>1. f.parts \in Seq(S) /\ Len(f.parts) = 1
      BY <1>3 DEF IsFrame, PartsOf, HasParts, Wrappers
    <3> QED  BY <3>1, ElementOfSeq
  <2>2. CASE f.tag = "optional"
    <3>1. ExprOf(f) = OptionalNode(f.parts[1])
      BY <2>2 DEF ExprOf
    <3> QED  BY <2>1, <3>1 DEF IsExprOver, OptionalNode
  <2>3. CASE f.tag = "list"
    <3>1. ExprOf(f) = ListNode(f.parts[1], BoundsOf("list", f.options, "min_size", "max_size"))
      BY <2>3 DEF ExprOf
    <3> QED  BY <1>0, <2>1, <2>3, <3>1 DEF IsExprOver, ListNode, Collections
  <2>4. CASE f.tag = "dict"
    <3>1. ExprOf(f) = DictNode(f.parts[1], BoundsOf("dict", f.options, "min_size", "max_size"))
      BY <2>4 DEF ExprOf
    <3> QED  BY <1>0, <2>1, <2>4, <3>1 DEF IsExprOver, DictNode, Collections
  <2> QED  BY <1>3, <2>2, <2>3, <2>4 DEF Wrappers
<1> QED  BY <1>1, <1>2, <1>3 DEF IsFrame, Loops

-----------------------------------------------------------------------------
(* The steps.                                                              *)

LEMMA FrameOverMore ==
  ASSUME NEW f, NEW S, NEW T, IsFrame(f, S), S \subseteq T
  PROVE  IsFrame(f, T)
<1>1. f.parts \in Seq(PartsOf(f.tag, S)) /\ PartsOf(f.tag, S) \subseteq PartsOf(f.tag, T)
  BY DEF IsFrame, PartsOf
<1> DEFINE P == PartsOf(f.tag, S)  Q == PartsOf(f.tag, T)
<1>2. f.parts \in Seq(Q)
  <2> HIDE DEF P, Q
  <2>1. f.parts \in Seq(P) /\ P \subseteq Q
    BY <1>1 DEF P, Q
  <2>2. /\ Len(f.parts) \in Nat /\ f.parts = [i \in 1..Len(f.parts) |-> f.parts[i]]
        /\ \A i \in 1..Len(f.parts) : f.parts[i] \in Q
    BY <2>1, LenProperties, ElementOfSeq
  <2> QED  BY <2>2
<1> QED  BY <1>2 DEF IsFrame

\* The frames below the innermost await what it returns.
FramesProgress ==
  /\ frames \in Seq(ToSet(frames))
  /\ \A i \in 1..Len(frames) : EntriesTaken(frames[i])
  /\ \A i \in 1..(Len(frames) - 1) : Awaits(frames[i])
  /\ frames # <<>> => IF focus # None THEN Awaits(Top) ELSE HasParts(Top)

IInv == TypeOK /\ BuiltIsClosed /\ FramesProgress

LEMMA NoFrames ==
  ASSUME NEW s, s = <<>>
  PROVE  s \in Seq(ToSet(s)) /\ Len(s) = 0
BY DEF ToSet

LEMMA InitIInv == Init => IInv
<1> SUFFICES ASSUME Init PROVE IInv  OBVIOUS
<1>1. focus = {Task(document, NoOptions, <<>>)} /\ document \in Documents /\ document \in Json
  BY JsonAssumption DEF Init, Some
<1>2. \A t \in focus : IsTask(t)
  BY <1>1, NoOptionsAreOptions DEF IsTask, Task
<1>3. frames = <<>> /\ built = {} /\ parsed = {}
  BY DEF Init, None
<1> QED  BY <1>1, <1>2, <1>3, NoFrames DEF IInv, TypeOK, BuiltIsClosed, FramesProgress

LEMMA RefuseKeeps == ASSUME IInv, NEW path, Refuse(path) PROVE IInv'
<1>1. frames' = <<>> /\ focus' = {} /\ UNCHANGED <<document, built, parsed>>
  BY DEF Refuse, None
<1> QED  BY <1>1, NoFrames DEF IInv, TypeOK, BuiltIsClosed, FramesProgress

\* A function that awaits a part gets one.
LEMMA PartArrives ==
  ASSUME NEW f, NEW S, IsFrame(f, S), EntriesTaken(f), Awaits(f), NEW e \in S
  PROVE  LET g == [f EXCEPT !.parts = Append(@, e)] IN
         IsFrame(g, S) /\ EntriesTaken(g) /\ HasParts(g)
<1> DEFINE g == [f EXCEPT !.parts = Append(@, e)]
<1>1. f.parts \in Seq(S) /\ f.taken \in Nat /\ Len(f.parts) \in Nat
  BY LenProperties DEF IsFrame, Awaits, PartsOf
<1>2. Append(f.parts, e) \in Seq(S) /\ Len(Append(f.parts, e)) = Len(f.parts) + 1
  BY <1>1, AppendProperties
<1>3. /\ g.tag = f.tag /\ g.options = f.options /\ g.items = f.items
      /\ g.taken = f.taken /\ g.parts = Append(f.parts, e) /\ DOMAIN g = DOMAIN f
  BY DEF g, IsFrame
<1> HIDE DEF g
<1>4. HasParts(g)
  BY <1>1, <1>2, <1>3 DEF HasParts, Awaits, Wrappers
<1> QED  BY <1>2, <1>3, <1>4 DEF IsFrame, EntriesTaken, PartsOf, Awaits, g

LEMMA ReturnKeeps ==
  ASSUME IInv, NEW expr, IsExprOver(expr, built),
         NEW below, below \in Seq(ToSet(below)),
         \A i \in 1..Len(below) : /\ IsFrame(below[i], built) /\ EntriesTaken(below[i])
                                  /\ Awaits(below[i]),
         Return(expr, below)
  PROVE  IInv'
<1>1. /\ focus' = {} /\ built' = built \cup {expr} /\ document' = document
  BY DEF Return, None
<1>2. \A e \in built' : IsExprOver(e, built')
  BY <1>1, ExprOverMore DEF IInv, BuiltIsClosed
<1>3. \A i \in 1..Len(below) : IsFrame(below[i], built')
  BY <1>1, FrameOverMore
<1>4. document' \in Documents /\ \A t \in focus' : IsTask(t)
  BY <1>1 DEF IInv, TypeOK
<1>5. CASE below = <<>>
  <2>1. frames' = <<>> /\ parsed' = {expr}
    BY <1>5 DEF Return, Some
  <2>2. frames' \in Seq(ToSet(frames')) /\ Len(frames') = 0
    BY <2>1, NoFrames
  <2>3. TypeOK'
    BY <1>1, <1>4, <2>1, <2>2 DEF TypeOK
  <2>4. FramesProgress'
    BY <2>1, <2>2 DEF FramesProgress
  <2> QED  BY <1>2, <2>3, <2>4 DEF IInv, BuiltIsClosed
<1>6. CASE below # <<>>
  <2> DEFINE n == Len(below)
             g == [below[n] EXCEPT !.parts = Append(@, expr)]
             t == [below EXCEPT ![n] = g]
  <2>1. frames' = t /\ parsed' = parsed
    BY <1>6 DEF Return
  <2>2. n \in Nat \ {0}
    BY <1>6, Popped
  <2>3. IsFrame(g, built') /\ EntriesTaken(g) /\ HasParts(g)
    <3>0. n \in 1..Len(below) /\ expr \in built'
      BY <1>1, <2>2
    <3> HIDE DEF n
    <3>1. IsFrame(below[n], built') /\ EntriesTaken(below[n]) /\ Awaits(below[n])
      BY <1>3, <3>0
    <3> QED  BY <3>0, <3>1, PartArrives
  <2> HIDE DEF g
  <2>4. /\ t \in Seq(ToSet(t)) /\ t # <<>> /\ Len(t) = n
        /\ t[n] = g /\ Last(t) = g
        /\ \A i \in 1..(n - 1) : t[i] = below[i]
    BY <1>6, Replaced
  <2> HIDE DEF t, n
  <2>5. \A i \in 1..n : IsFrame(t[i], built') /\ EntriesTaken(t[i])
    <3> SUFFICES ASSUME NEW i \in 1..n PROVE IsFrame(t[i], built') /\ EntriesTaken(t[i])
      OBVIOUS
    <3>1. CASE i = n
      BY <2>3, <2>4, <3>1
    <3>2. CASE i # n
      <4>1. i \in 1..(n - 1) /\ i \in 1..Len(below)
        BY <2>2, <3>2 DEF n
      <4>2. t[i] = below[i]
        BY <2>4, <4>1
      <4> QED  BY <1>3, <4>1, <4>2
    <3> QED  BY <3>1, <3>2
  <2>6. \A i \in 1..(n - 1) : Awaits(t[i])
    <3> SUFFICES ASSUME NEW i \in 1..(n - 1) PROVE Awaits(t[i])
      OBVIOUS
    <3>1. i \in 1..Len(below) /\ t[i] = below[i]
      BY <2>2, <2>4 DEF n
    <3> QED  BY <3>1
  <2>7. TypeOK'
    <3>1. \A i \in 1..Len(frames') : IsFrame(frames'[i], built')
      BY <2>1, <2>4, <2>5
    <3>2. parsed' \subseteq built'
      BY <1>1, <2>1 DEF IInv, TypeOK
    <3> QED  BY <1>4, <3>1, <3>2 DEF TypeOK
  <2>8. FramesProgress'
    BY <1>1, <2>1, <2>3, <2>4, <2>5, <2>6 DEF FramesProgress, Top, None
  <2> QED  BY <1>2, <2>7, <2>8 DEF IInv, BuiltIsClosed
<1> QED  BY <1>5, <1>6

\* While a type is parsed, every frame awaits a part.
LEMMA AllAwait ==
  ASSUME IInv, focus # None
  PROVE  \A i \in 1..Len(frames) : /\ IsFrame(frames[i], built) /\ EntriesTaken(frames[i])
                                   /\ Awaits(frames[i])
<1>1. CASE frames = <<>>
  BY <1>1
<1>2. CASE frames # <<>>
  <2>1. Len(frames) \in Nat \ {0} /\ Top = frames[Len(frames)]
    BY <1>2, Popped DEF IInv, FramesProgress, Top
  <2>2. Awaits(frames[Len(frames)])
    BY <1>2, <2>1 DEF IInv, FramesProgress
  <2>3. \A i \in 1..(Len(frames) - 1) : Awaits(frames[i])
    BY DEF IInv, FramesProgress
  <2>4. \A i \in 1..Len(frames) : Awaits(frames[i])
    <3> TAKE i \in 1..Len(frames)
    <3>1. i = Len(frames) \/ i \in 1..(Len(frames) - 1)
      BY <2>1
    <3> QED  BY <2>2, <2>3, <3>1
  <2> QED  BY <2>4 DEF IInv, TypeOK, FramesProgress
<1> QED  BY <1>1, <1>2

LEMMA ParsePrimitiveKeeps == ASSUME IInv, ParsePrimitive PROVE IInv'
<1>1. PICK t \in focus : \E h \in HeadOf(t.value, t.options) :
        /\ h.tag \in Primitives /\ Return(ExprOf(Frame(h, <<>>, t)), frames)
  BY DEF ParsePrimitive
<1>2. PICK h \in HeadOf(t.value, t.options) :
        /\ h.tag \in Primitives /\ Return(ExprOf(Frame(h, <<>>, t)), frames)
  BY <1>1
<1>3. IsHead(h)
  BY HeadIsHead DEF IInv, TypeOK, IsTask
<1> DEFINE f == Frame(h, <<>>, t)
<1>4. f.tag \in Primitives /\ IsOptions(f.options)
  BY <1>2, <1>3 DEF Frame, IsHead
<1> HIDE DEF f
<1>5. IsExprOver(ExprOf(f), built)
  BY <1>4, PrimitiveIsExpr
<1>6. focus # None /\ frames \in Seq(ToSet(frames)) /\ Return(ExprOf(f), frames)
  BY <1>2 DEF None, IInv, FramesProgress, f
<1> QED  BY <1>5, <1>6, AllAwait, ReturnKeeps

\* A new frame is put on top of frames that await a part.
LEMMA EnterKeeps ==
  ASSUME IInv, focus # None, NEW f, NEW next, Enter(f, next),
         IsFrame(f, built), EntriesTaken(f),
         IF next # None THEN Awaits(f) ELSE HasParts(f),
         \A t \in next : IsTask(t)
  PROVE  IInv'
<1>1. /\ frames' = Append(frames, f) /\ focus' = next
      /\ UNCHANGED <<document, built, parsed>>
  BY DEF Enter
<1> DEFINE n == Len(frames)
<1>2. /\ frames' \in Seq(ToSet(frames')) /\ frames' # <<>> /\ n \in Nat /\ Len(frames') = n + 1
      /\ frames'[n + 1] = f /\ Last(frames') = f
      /\ \A i \in 1..n : frames'[i] = frames[i]
  BY <1>1, Pushed DEF IInv, FramesProgress
<1>3. \A i \in 1..n : IsFrame(frames[i], built) /\ EntriesTaken(frames[i]) /\ Awaits(frames[i])
  BY AllAwait
<1> HIDE DEF n
<1>4. \A i \in 1..(n + 1) : IsFrame(frames'[i], built) /\ EntriesTaken(frames'[i])
  <2> TAKE i \in 1..(n + 1)
  <2>1. CASE i = n + 1
    BY <1>2, <2>1
  <2>2. CASE i # n + 1
    <3>1. i \in 1..n
      BY <1>2, <2>2
    <3> QED  BY <1>2, <1>3, <3>1
  <2> QED  BY <2>1, <2>2
<1>5. \A i \in 1..n : Awaits(frames'[i])
  BY <1>2, <1>3
<1>6. TypeOK'
  BY <1>1, <1>2, <1>4 DEF IInv, TypeOK
<1>7. FramesProgress'
  <2>1. Len(frames') - 1 = n
    BY <1>2
  <2> QED  BY <1>1, <1>2, <1>4, <1>5, <2>1 DEF FramesProgress, Top
<1> QED  BY <1>1, <1>6, <1>7 DEF IInv, BuiltIsClosed

LEMMA NewFrame ==
  ASSUME NEW h, IsHead(h), h.tag \in Wrappers \cup Loops, NEW items \in Seq(Json), NEW call, NEW S,
         NEW f, f = Frame(h, items, call)
  PROVE  /\ IsFrame(f, S) /\ f.tag = h.tag /\ f.taken = 0 /\ f.parts = <<>>
         /\ f.options = h.options /\ f.items = items
<1>1. /\ f.tag = h.tag /\ f.taken = 0 /\ f.parts = <<>> /\ f.options = h.options
      /\ f.items = items /\ DOMAIN f = {"tag", "options", "items", "taken", "parts", "call"}
  BY DEF Frame
<1>2. Len(items) \in Nat /\ f.parts \in Seq(PartsOf(f.tag, S))
  BY <1>1, LenProperties
<1>3. IsFrame(f, S)
  BY <1>1, <1>2 DEF IsFrame, IsHead
<1> QED  BY <1>1, <1>3

LEMMA ParsePartKeeps == ASSUME IInv, ParsePart PROVE IInv'
<1>0. PICK t \in focus : \E h \in HeadOf(t.value, t.options) : \E v \in PartOf(h) :
        /\ h.tag \in Wrappers
        /\ Enter(Frame(h, <<>>, t),
                 Some(Task(v, IF HandsDown(h) THEN h.options ELSE NoOptions,
                           Append(t.path, PartPath(h)))))
  BY DEF ParsePart
<1>01. PICK h \in HeadOf(t.value, t.options) : \E v \in PartOf(h) :
        /\ h.tag \in Wrappers
        /\ Enter(Frame(h, <<>>, t),
                 Some(Task(v, IF HandsDown(h) THEN h.options ELSE NoOptions,
                           Append(t.path, PartPath(h)))))
  BY <1>0
<1>1. PICK v \in PartOf(h) :
        /\ h.tag \in Wrappers
        /\ Enter(Frame(h, <<>>, t),
                 Some(Task(v, IF HandsDown(h) THEN h.options ELSE NoOptions,
                           Append(t.path, PartPath(h)))))
  BY <1>01
<1> DEFINE task == Task(v, IF HandsDown(h) THEN h.options ELSE NoOptions, Append(t.path, PartPath(h)))
           f == Frame(h, <<>>, t)
<1>2. IsHead(h)
  BY HeadIsHead DEF IInv, TypeOK, IsTask
<1>3. IsTask(task)
  <2>1. v \in Json
    BY <1>2, PartIsJson
  <2> QED  BY <1>2, <2>1, NoOptionsAreOptions DEF IsTask, Task, IsHead
<1>4. /\ IsFrame(f, built) /\ f.tag = h.tag /\ f.taken = 0 /\ f.parts = <<>>
  <2> DEFINE items == <<>>
  <2>1. items \in Seq(Json)
    OBVIOUS
  <2>2. h.tag \in Wrappers \cup Loops /\ f = Frame(h, items, t)
    BY <1>1
  <2> HIDE DEF f, items
  <2> QED  BY <1>2, <2>1, <2>2, NewFrame
<1> HIDE DEF f, task
<1>5. EntriesTaken(f) /\ Awaits(f)
  BY <1>1, <1>4 DEF EntriesTaken, Awaits, Wrappers
<1>6. focus # None /\ Some(task) # None /\ (\A x \in Some(task) : IsTask(x)) /\ Enter(f, Some(task))
  BY <1>1, <1>3 DEF None, Some, f, task
<1> QED  BY <1>4, <1>5, <1>6, EnterKeeps

LEMMA EnterLoopKeeps == ASSUME IInv, EnterLoop PROVE IInv'
<1>0. PICK t \in focus : \E h \in HeadOf(t.value, t.options) : \E v \in PartOf(h) :
        /\ h.tag \in Loops /\ Usable(h, v) /\ Enter(Frame(h, v.items, t), None)
  BY DEF EnterLoop
<1>01. PICK h \in HeadOf(t.value, t.options) : \E v \in PartOf(h) :
        /\ h.tag \in Loops /\ Usable(h, v) /\ Enter(Frame(h, v.items, t), None)
  BY <1>0
<1>1. PICK v \in PartOf(h) :
        /\ h.tag \in Loops /\ Usable(h, v) /\ Enter(Frame(h, v.items, t), None)
  BY <1>01
<1> DEFINE f == Frame(h, v.items, t)
<1>2. IsHead(h)
  BY HeadIsHead DEF IInv, TypeOK, IsTask
<1>3. v.items \in Seq(Json)
  BY <1>1, <1>2, PartIsJson, JsonFacts DEF Usable
<1>4. /\ IsFrame(f, built) /\ f.tag = h.tag /\ f.taken = 0 /\ f.parts = <<>>
      /\ f.options = h.options
  <2> DEFINE items == v.items
  <2>1. h.tag \in Wrappers \cup Loops /\ f = Frame(h, items, t) /\ items \in Seq(Json)
    BY <1>1, <1>3
  <2> HIDE DEF f, items
  <2> QED  BY <1>2, <2>1, NewFrame
<1> HIDE DEF f
<1>5. EntriesTaken(f)
  BY <1>1, <1>4 DEF EntriesTaken, Usable
<1>6. HasParts(f)
  BY <1>1, <1>4 DEF HasParts, Loops, Wrappers
<1>7. focus # None /\ (\A x \in None : IsTask(x)) /\ Enter(f, None)
  BY <1>1 DEF None, f
<1> QED  BY <1>4, <1>5, <1>6, <1>7, EnterKeeps

-----------------------------------------------------------------------------
(* The loops.                                                              *)

\* The innermost frame takes the next thing it goes through.
LEMMA TakeKeeps ==
  ASSUME IInv, frames # <<>>, focus = None, NEW f, NEW next,
         frames' = [frames EXCEPT ![Len(frames)] = f], focus' = next,
         UNCHANGED <<document, built, parsed>>,
         IsFrame(f, built), EntriesTaken(f),
         IF next # None THEN Awaits(f) ELSE HasParts(f),
         \A t \in next : IsTask(t)
  PROVE  IInv'
<1> DEFINE n == Len(frames)
           s == [frames EXCEPT ![Len(frames)] = f]
<1>1. /\ s \in Seq(ToSet(s)) /\ s # <<>>
      /\ n \in Nat \ {0} /\ Len(s) = n
      /\ s[n] = f /\ Last(s) = f
      /\ \A i \in 1..(n - 1) : s[i] = frames[i]
  <2>1. frames \in Seq(ToSet(frames))
    BY DEF IInv, FramesProgress
  <2>2. ReplacesLast(s, frames, f)
    BY <2>1, ReplacedLast
  <2> HIDE DEF s
  <2> QED  BY <2>2 DEF ReplacesLast
<1>2. frames' = s /\ UNCHANGED built
  OBVIOUS
<1> HIDE DEF s, n
<1>3. \A i \in 1..n : IsFrame(s[i], built) /\ EntriesTaken(s[i])
  <2> TAKE i \in 1..n
  <2>1. CASE i = n
    BY <1>1, <2>1
  <2>2. CASE i # n
    <3>1. i \in 1..(n - 1) /\ i \in 1..Len(frames)
      BY <1>1, <2>2 DEF n
    <3> QED  BY <1>1, <3>1 DEF IInv, TypeOK, FramesProgress
  <2> QED  BY <2>1, <2>2
<1>4. \A i \in 1..(n - 1) : Awaits(s[i])
  BY <1>1 DEF IInv, FramesProgress, n
<1>5. TypeOK'
  BY <1>1, <1>2, <1>3 DEF IInv, TypeOK
<1>6. FramesProgress'
  BY <1>1, <1>2, <1>3, <1>4 DEF FramesProgress, Top
<1> QED  BY <1>5, <1>6 DEF IInv, BuiltIsClosed

\* What is known of a frame in its loop.
LEMMA LoopingFrame ==
  ASSUME IInv, NEW tag, Looping(tag)
  PROVE  /\ IsFrame(Top, built) /\ EntriesTaken(Top) /\ HasParts(Top) /\ Top.tag = tag
         /\ Top = frames[Len(frames)]
         /\ Top.taken + 1 \in 1..Len(Top.items) /\ Top.taken \in Nat
         /\ Upcoming \in Json
<1>1. focus = None /\ frames # <<>> /\ Top.tag = tag /\ Top.taken < Len(Top.items)
  BY DEF Looping
<1>2. Len(frames) \in Nat \ {0} /\ Top = frames[Len(frames)]
  BY <1>1, Popped DEF IInv, FramesProgress, Top
<1>3. IsFrame(Top, built) /\ EntriesTaken(Top) /\ HasParts(Top)
  BY <1>1, <1>2 DEF IInv, TypeOK, FramesProgress
<1>4. Top.items \in Seq(Json) /\ Top.taken \in Nat /\ Top.taken + 1 \in 1..Len(Top.items)
  BY <1>1, <1>3, LenProperties DEF IsFrame
<1>5. Upcoming \in Json
  BY <1>4, ElementOfSeq DEF Upcoming
<1> QED  BY <1>1, <1>2, <1>3, <1>4, <1>5

LEMMA TakeVariantKeeps == ASSUME IInv, TakeVariant PROVE IInv'
<1>1. /\ Looping("enum") /\ Upcoming.kind = "string"
      /\ UNCHANGED <<document, focus, built, parsed>> /\ focus = None /\ frames # <<>>
  BY DEF TakeVariant, Looping
<1>2. /\ IsFrame(Top, built) /\ Top.tag = "enum" /\ Top = frames[Len(frames)]
      /\ Top.taken + 1 \in 0..Len(Top.items) /\ Upcoming.text \in Text
  BY <1>1, LoopingFrame, JsonFacts
<1> DEFINE f == [Top EXCEPT !.taken = @ + 1]
           g == [Top EXCEPT !.taken = @ + 1, !.parts = Append(@, Upcoming.text)]
<1>3. Len(frames) \in Nat \ {0} /\ Len(frames) \in DOMAIN frames
  BY <1>1, Popped, LenProperties DEF IInv, FramesProgress
<1>4. \/ frames' = [frames EXCEPT ![Len(frames)] = f]
      \/ frames' = [frames EXCEPT ![Len(frames)] = g]
  BY <1>2, <1>3 DEF TakeVariant, Take
<1>5. IsFrame(f, built) /\ IsFrame(g, built) /\ f.tag = "enum" /\ g.tag = "enum"
  <2>1. Top.parts \in Seq(Text) /\ Append(Top.parts, Upcoming.text) \in Seq(Text)
    BY <1>2, AppendProperties DEF IsFrame, PartsOf
  <2> QED  BY <1>2, <2>1 DEF IsFrame, PartsOf
<1> HIDE DEF f, g
<1>6. /\ EntriesTaken(f) /\ HasParts(f) /\ EntriesTaken(g) /\ HasParts(g)
  BY <1>5 DEF EntriesTaken, HasParts, Wrappers
<1>7. \A t \in None : IsTask(t)
  BY DEF None
<1> QED  BY <1>1, <1>4, <1>5, <1>6, <1>7, TakeKeeps

LEMMA TakeFieldKeeps == ASSUME IInv, TakeField PROVE IInv'
<1> DEFINE at == Append(Top.call.path, Item("fields", Top.taken + 1))
           task == Task(Upcoming.items[3], OptionsAt(Upcoming.items, 4), Append(at, Key("type")))
           f == [Top EXCEPT !.taken = @ + 1]
<1>1. /\ Looping("struct") /\ IsEntry(Upcoming) /\ frames' = Take /\ focus' = Some(task)
      /\ UNCHANGED <<document, built, parsed>> /\ focus = None /\ frames # <<>>
  BY DEF TakeField, Looping
<1>2. /\ IsFrame(Top, built) /\ EntriesTaken(Top) /\ HasParts(Top) /\ Top.tag = "struct"
      /\ Top = frames[Len(frames)] /\ Top.taken \in Nat
      /\ Top.taken + 1 \in 1..Len(Top.items) /\ Upcoming \in Json
  BY <1>1, LoopingFrame
<1>3. Len(frames) \in Nat \ {0} /\ Len(frames) \in DOMAIN frames
  BY <1>1, Popped, LenProperties DEF IInv, FramesProgress
<1>4. frames' = [frames EXCEPT ![Len(frames)] = f]
  BY <1>1, <1>2, <1>3 DEF Take
<1>5. /\ f.tag = "struct" /\ f.taken = Top.taken + 1 /\ f.items = Top.items
      /\ f.parts = Top.parts /\ f.options = Top.options /\ DOMAIN f = DOMAIN Top
  BY <1>2 DEF IsFrame
<1> HIDE DEF f
<1>6. IsFrame(f, built)
  BY <1>2, <1>5 DEF IsFrame
<1>7. EntriesTaken(f)
  <2>1. IsEntry(f.items[f.taken])
    BY <1>1, <1>5 DEF Upcoming
  <2>2. \A j \in 1..f.taken : j = f.taken \/ j \in 1..Top.taken
    BY <1>2, <1>5
  <2> QED  BY <1>2, <1>5, <2>1, <2>2 DEF EntriesTaken
<1>8. Awaits(f)
  BY <1>2, <1>5 DEF Awaits, HasParts
<1>9. IsTask(task)
  <2>1. Upcoming.items \in Seq(Json) /\ Len(Upcoming.items) > 2
    BY <1>1, <1>2, JsonFacts DEF IsEntry
  <2>2. Upcoming.items[3] \in Json
    BY <2>1, LenProperties, ElementOfSeq
  <2>3. IsOptions(OptionsAt(Upcoming.items, 4))
    BY <2>1, OptionsAtIsOptions
  <2> QED  BY <2>2, <2>3 DEF IsTask, Task
<1> HIDE DEF task
<1>10. Some(task) # None /\ \A t \in Some(task) : IsTask(t)
  BY <1>9 DEF Some, None
<1> QED  BY <1>1, <1>4, <1>6, <1>7, <1>8, <1>10, TakeKeeps

LEMMA FinishTypeKeeps == ASSUME IInv, FinishType PROVE IInv'
<1> DEFINE below == Front(frames)
<1>1. /\ focus = None /\ frames # <<>> /\ Top.taken = Len(Top.items)
      /\ Return(ExprOf(Top), below)
  BY DEF FinishType, Complete
<1>2. /\ below \in Seq(ToSet(below)) /\ Len(frames) \in Nat \ {0}
      /\ Len(below) = Len(frames) - 1 /\ Top = frames[Len(frames)]
      /\ \A i \in 1..(Len(frames) - 1) : below[i] = frames[i]
  BY <1>1, Popped DEF IInv, FramesProgress, Top
<1>3. IsFrame(Top, built) /\ EntriesTaken(Top) /\ HasParts(Top)
  BY <1>1, <1>2 DEF IInv, TypeOK, FramesProgress
<1>4. IsExprOver(ExprOf(Top), built)
  BY <1>1, <1>3, FrameIsExpr
<1> HIDE DEF below
<1>5. \A i \in 1..Len(below) : /\ IsFrame(below[i], built) /\ EntriesTaken(below[i])
                              /\ Awaits(below[i])
  <2> TAKE i \in 1..Len(below)
  <2>1. i \in 1..(Len(frames) - 1) /\ i \in 1..Len(frames) /\ below[i] = frames[i]
    BY <1>2
  <2> QED  BY <2>1 DEF IInv, TypeOK, FramesProgress
<1> QED  BY <1>1, <1>2, <1>4, <1>5, ReturnKeeps

-----------------------------------------------------------------------------
LEMMA StepIInv == IInv /\ [Next]_vars => IInv'
<1> SUFFICES ASSUME IInv, [Next]_vars PROVE IInv'  OBVIOUS
<1>1. CASE RefuseType \/ RefusePrimitive \/ RefuseVariant \/ RefuseField \/ RefuseWhole
  <2>1. PICK path : Refuse(path)
    BY <1>1 DEF RefuseType, RefusePrimitive, RefuseVariant, RefuseField, RefuseWhole
  <2> QED  BY <2>1, RefuseKeeps
<1>2. CASE UNCHANGED vars
  <2>1. UNCHANGED <<document, focus, frames, built, parsed>>
    BY <1>2 DEF vars
  <2> QED  BY <2>1 DEF IInv, TypeOK, BuiltIsClosed, FramesProgress, Top
<1> QED  BY <1>1, <1>2, ParsePrimitiveKeeps, ParsePartKeeps, EnterLoopKeeps, TakeVariantKeeps,
            TakeFieldKeeps, FinishTypeKeeps DEF Next

LEMMA Inductive == Spec => []IInv
BY InitIInv, StepIInv, PTL DEF Spec

\* The frames of the parser are those of a call tree of the parse_ functions,
\* and what it returns is an expression it has built.
THEOREM TypeCorrect == Spec => []TypeOK
BY Inductive, PTL DEF IInv

\* Every expression from_value hands to build_ir is one build_type_expr can
\* take: each node of a known kind, over expressions that are such as well.
\* This is the assumption BuildIr makes of its Exprs.
THEOREM OnlyExpressionsAreBuilt == Spec => []BuiltIsClosed
BY Inductive, PTL DEF IInv

-----------------------------------------------------------------------------
(* The meaning of a task, one level of types after the other.              *)

AllMeanings(room, meanings) ==
  [t \in Tasks |-> IF room = 0 THEN Unknown ELSE MeaningFrom(t, meanings[room - 1])]

LEMMA MeaningsExist == \E g : g = [room \in 0..Nesting |-> AllMeanings(room, g)]
<1> DEFINE L(g, room) == AllMeanings(room, g)
           S == {n \in Nat : \E g : g = [room \in 0..n |-> L(g, room)]}
<1>1. ASSUME NEW g, NEW h, NEW n \in Nat, n = 0 \/ g[n - 1] = h[n - 1]
      PROVE  L(g, n) = L(h, n)
  BY <1>1 DEF AllMeanings
<1> HIDE DEF L
<1>2. 0 \in S
  <2> DEFINE g == [room \in 0..0 |-> L(<<>>, 0)]
  <2>1. \A room \in 0..0 : L(g, room) = L(<<>>, 0)
    <3> HIDE DEF g
    <3>1. L(g, 0) = L(<<>>, 0)
      BY <1>1
    <3> QED  BY <3>1
  <2>2. g = [room \in 0..0 |-> L(g, room)]
    BY <2>1
  <2> HIDE DEF g
  <2> QED  BY <2>2
<1>3. ASSUME NEW n \in Nat, n \in S PROVE n + 1 \in S
  <2>1. PICK g : g = [room \in 0..n |-> L(g, room)]
    BY <1>3
  <2> DEFINE h == [room \in 0..(n + 1) |-> IF room <= n THEN g[room] ELSE L(g, room)]
  <2>2. ASSUME NEW room \in 0..(n + 1) PROVE h[room] = L(h, room)
    <3>1. room = 0 \/ g[room - 1] = h[room - 1]
      OBVIOUS
    <3> HIDE DEF h
    <3>2. L(g, room) = L(h, room)
      BY <3>1, <1>1
    <3> QED  BY <2>1, <3>2 DEF h
  <2>3. h = [room \in 0..(n + 1) |-> h[room]]
    OBVIOUS
  <2> HIDE DEF h
  <2>4. h = [room \in 0..(n + 1) |-> L(h, room)]
    BY <2>2, <2>3
  <2> QED  BY <2>4
<1>4. Nesting \in S
  <2> HIDE DEF S
  <2> QED  BY <1>2, <1>3, SetInduction, NestingAssumption
<1> QED  BY <1>4 DEF L

\* The equation of the recursive function.
LEMMA MeaningsUnfold ==
  ASSUME NEW room \in 0..Nesting, NEW t \in Tasks
  PROVE  Meanings[room][t] = IF room = 0 THEN Unknown ELSE MeaningFrom(t, Meanings[room - 1])
<1>1. Meanings = [k \in 0..Nesting |-> AllMeanings(k, Meanings)]
  BY MeaningsExist DEF Meanings, AllMeanings
<1>2. Meanings[room] = AllMeanings(room, Meanings)
  BY <1>1
<1> QED  BY <1>2 DEF AllMeanings

-----------------------------------------------------------------------------
(* The head the parser reads off a value and the long form the value has.  *)

LEMMA NamedMeans ==
  ASSUME NEW name, NEW options, NEW near
  PROVE  \/ Named(name, options) = None /\ FormsNamed(name, near) = {}
         \/ \E tag \in AllTags :
              /\ Named(name, options) = Some(HeadAs(tag, None, options))
              /\ FormsNamed(name, near) = {[type |-> tag, near |-> near, part |-> None]}
<1> DEFINE c == Lower[name]
           types == {t \in DOMAIN Tags : c \in Tags[t]}
           tag == IF c \in DOMAIN Aliases THEN Aliases[c] ELSE c
<1>1. FormsNamed(name, near) = {[type |-> t, near |-> near, part |-> None] : t \in types}
  BY DEF FormsNamed
<1>2. Named(name, options) = IF tag \in AllTags THEN Some(HeadAs(tag, None, options)) ELSE None
  BY DEF Named, AllTags
<1>3. DOMAIN Aliases = {"boolean", "integer", "double", "string", "symbol"}
  BY DEF Aliases
<1>4. DOMAIN Tags = AllTags
  BY DEF Tags, AllTags, Primitives, Wrappers, Loops
<1>5. \A t \in AllTags : c \in Tags[t] <=> tag = t
  <2>1. CASE c \in DOMAIN Aliases
    BY <1>3, <2>1 DEF Aliases, Tags, AllTags, Primitives, Wrappers, Loops
  <2>2. CASE c \notin DOMAIN Aliases
    BY <1>3, <2>2 DEF Tags, AllTags, Primitives, Wrappers, Loops
  <2> QED  BY <2>1, <2>2
<1>6. types = IF tag \in AllTags THEN {tag} ELSE {}
  BY <1>4, <1>5
<1> HIDE DEF types, tag
<1> QED  BY <1>1, <1>2, <1>6

Given(options, key) == IF key \in DOMAIN options THEN Some(options[key]) ELSE None

\* No option is called "type".
Agrees(h, form, far) ==
  /\ h.tag = form.type /\ h.tag \in AllTags /\ h.part = form.part
  /\ \A key : key # "type" => Given(h.options, key) = Ask(form.near, far, key)
  /\ HandsDown(h) => h.options = far
  /\ h.part # None => h.tag # "struct" /\ \E v : h.part = Some(v)

HeadMeans(heads, forms, far) ==
  \/ heads = None /\ forms = {}
  \/ \E h, form : heads = Some(h) /\ forms = {form} /\ Agrees(h, form, far)

LEMMA NamedHeadMeans ==
  ASSUME NEW name, NEW options, NEW near, NEW far,
         \A key : key # "type" => Given(options, key) = Ask(near, far, key)
  PROVE  HeadMeans(Named(name, options), FormsNamed(name, near), far)
<1>1. CASE Named(name, options) = None /\ FormsNamed(name, near) = {}
  BY <1>1 DEF HeadMeans
<1>2. CASE \E tag \in AllTags :
             /\ Named(name, options) = Some(HeadAs(tag, None, options))
             /\ FormsNamed(name, near) = {[type |-> tag, near |-> near, part |-> None]}
  <2>1. PICK tag \in AllTags :
             /\ Named(name, options) = Some(HeadAs(tag, None, options))
             /\ FormsNamed(name, near) = {[type |-> tag, near |-> near, part |-> None]}
    BY <1>2
  <2> DEFINE h == HeadAs(tag, None, options)
             form == [type |-> tag, near |-> near, part |-> None]
  <2>2. Agrees(h, form, far)
    BY DEF Agrees, HeadAs, HandsDown
  <2> HIDE DEF h, form
  <2> QED  BY <2>1, <2>2 DEF HeadMeans, h, form
<1> QED  BY <1>1, <1>2, NamedMeans

LEMMA NothingNear ==
  ASSUME NEW far, NEW key
  PROVE  Given(far, key) = Ask(NoOptions, far, key)
BY DEF Given, Ask, NoOptions

LEMMA MergedNear ==
  ASSUME NEW near, NEW far, NEW key
  PROVE  Given(Merge(near, far), key) = Ask(near, far, key)
BY DEF Given, Ask, Merge

LEMMA HeadAgrees ==
  ASSUME NEW v \in Json, NEW far
  PROVE  HeadMeans(HeadOf(v, far), LongForms(v), far)
<1>1. CASE v.kind = "string"
  <2>1. HeadOf(v, far) = Named(v.text, far) /\ LongForms(v) = FormsNamed(v.text, NoOptions)
    BY <1>1 DEF HeadOf, LongForms
  <2> QED  BY <2>1, NothingNear, NamedHeadMeans
<1>2. CASE v.kind = "object"
  <2>1. CASE "type" \in DOMAIN v.members /\ v.members["type"].kind = "string"
    <3> DEFINE name == v.members["type"].text
               options == Merge(Without(v.members, "type"), far)
    <3>1. HeadOf(v, far) = Named(name, options) /\ LongForms(v) = FormsNamed(name, v.members)
      BY <1>2, <2>1 DEF HeadOf, LongForms, IsTextual
    <3>2. ASSUME NEW key, key # "type" PROVE Given(options, key) = Ask(v.members, far, key)
      BY <3>2 DEF Given, Ask, Merge, Without
    <3> HIDE DEF name, options
    <3> QED  BY <3>1, <3>2, NamedHeadMeans
  <2>2. CASE ~("type" \in DOMAIN v.members /\ v.members["type"].kind = "string")
    BY <1>2, <2>2 DEF HeadOf, LongForms, IsTextual, HeadMeans
  <2> QED  BY <2>1, <2>2
<1>3. CASE v.kind = "array"
  <2> DEFINE tagged == v.items # <<>> /\ v.items[1].kind = "string"
             tag == v.items[1].text
             n == Len(v.items)
  <2>0. v.items \in Seq(Json) /\ n \in Nat /\ DOMAIN v.items = 1..n
    BY <1>3, JsonFacts, LenProperties
  <2>1. CASE ~tagged
    BY <1>3, <2>1 DEF HeadOf, LongForms, IsTextual, HeadMeans
  <2>2. CASE tagged
    <3>1. HeadOf(v, far) = Tagged(tag, v.items, far)
      BY <1>3, <2>2 DEF HeadOf
    <3> DEFINE object(i) == IF i \in DOMAIN v.items /\ v.items[i].kind = "object"
                            THEN v.items[i].members ELSE NoOptions
    <3>2. LongForms(v) =
            IF tag \in Positional /\ n > 1
            THEN {[type |-> tag, part |-> Some(v.items[2]),
                   near |-> IF tag \in {"list", "dict"} THEN object(3) ELSE NoOptions]}
            ELSE IF tag \in Positional
            THEN {[type |-> t, near |-> NoOptions, part |-> None] : t \in {tag} \cap {"enum"}}
            ELSE IF tag = "struct" THEN {[type |-> tag, near |-> object(2), part |-> None]}
            ELSE FormsNamed(tag, NoOptions)
      BY <1>3, <2>2 DEF LongForms, IsTextual
    <3>3. object(2) = OptionsAt(v.items, 2) /\ object(3) = OptionsAt(v.items, 3)
      BY <2>0 DEF OptionsAt
    <3>4. n > 1 => ItemAt(v.items, 2) = Some(v.items[2])
      BY <2>0 DEF ItemAt
    <3>5. n > 1 \/ n = 1
      <4>1. n # 0
        BY <2>0, <2>2, EmptySeq DEF tagged
      <4>2. n \in Nat
        BY <2>0
      <4> HIDE DEF n
      <4> QED  BY <4>1, <4>2
    <3> HIDE DEF tag, object, n
    <3>6. CASE tag = "optional" /\ n > 1
      <4> DEFINE h == HeadAs(tag, ItemAt(v.items, 2), far)
                 form == [type |-> tag, part |-> Some(v.items[2]), near |-> NoOptions]
      <4>1. HeadOf(v, far) = Some(h)
        <5>1. n # 1
          BY <2>0, <3>6
        <5> QED  BY <3>1, <3>6, <5>1 DEF Tagged, n
      <4>2. LongForms(v) = {form}
        BY <3>2, <3>6 DEF Positional
      <4>3. Agrees(h, form, far)
        BY <3>4, <3>6, NothingNear DEF Agrees, HeadAs, AllTags, Wrappers
      <4> HIDE DEF h, form
      <4> QED  BY <4>1, <4>2, <4>3 DEF HeadMeans
    <3>7. CASE tag \in {"list", "dict"} /\ n > 1
      <4> DEFINE h == HeadAs(tag, ItemAt(v.items, 2), Merge(OptionsAt(v.items, 3), far))
                 form == [type |-> tag, part |-> Some(v.items[2]), near |-> object(3)]
      <4>1. HeadOf(v, far) = Some(h)
        <5>1. (tag = "list" \/ tag = "dict") /\ n # 1
          BY <2>0, <3>7
        <5> QED  BY <3>1, <3>7, <5>1 DEF Tagged, n
      <4>2. LongForms(v) = {form}
        BY <3>2, <3>7 DEF Positional
      <4>3. Agrees(h, form, far)
        BY <3>3, <3>4, <3>7, MergedNear DEF Agrees, HeadAs, AllTags, Wrappers, HandsDown
      <4> HIDE DEF h, form
      <4> QED  BY <4>1, <4>2, <4>3 DEF HeadMeans
    <3>8. CASE tag \in Wrappers /\ n = 1
      <4>1. HeadOf(v, far) = None
        BY <3>1, <3>8 DEF Tagged, Wrappers, n
      <4>2. LongForms(v) = {}
        BY <3>2, <3>8 DEF Positional, Wrappers
      <4> QED  BY <4>1, <4>2 DEF HeadMeans
    <3>9. CASE tag = "enum"
      <4> DEFINE h == HeadAs(tag, ItemAt(v.items, 2), far)
                 form == [type |-> tag, part |-> ItemAt(v.items, 2), near |-> NoOptions]
      <4>1. HeadOf(v, far) = Some(h)
        BY <3>1, <3>9 DEF Tagged, n, Wrappers
      <4>2. LongForms(v) = {form}
        <5>1. CASE n > 1
          BY <3>2, <3>4, <3>9, <5>1 DEF Positional
        <5>2. CASE n = 1
          <6>1. LongForms(v) = {[type |-> t, near |-> NoOptions, part |-> None] : t \in {"enum"}}
            BY <3>2, <3>9, <5>2 DEF Positional
          <6>2. ItemAt(v.items, 2) = None
            BY <5>2 DEF ItemAt, n
          <6> QED  BY <3>9, <6>1, <6>2
        <5> QED  BY <3>5, <5>1, <5>2
      <4>3. Agrees(h, form, far)
        <5>1. ItemAt(v.items, 2) = None \/ ItemAt(v.items, 2) = Some(v.items[2])
          BY DEF ItemAt
        <5> HIDE DEF h, form
        <5>2. /\ h.tag = "enum" /\ h.part = ItemAt(v.items, 2) /\ h.options = far
              /\ form.type = "enum" /\ form.part = ItemAt(v.items, 2) /\ form.near = NoOptions
          BY <3>9 DEF h, form, HeadAs
        <5> QED  BY <5>1, <5>2, NothingNear DEF Agrees, AllTags, Loops, HandsDown
      <4> HIDE DEF h, form
      <4> QED  BY <4>1, <4>2, <4>3 DEF HeadMeans
    <3>10. CASE tag = "struct"
      <4> DEFINE h == HeadAs(tag, None, Merge(OptionsAt(v.items, 2), far))
                 form == [type |-> tag, near |-> object(2), part |-> None]
      <4>1. HeadOf(v, far) = Some(h)
        BY <3>1, <3>10 DEF Tagged, n, Wrappers
      <4>2. LongForms(v) = {form}
        BY <3>2, <3>10 DEF Positional
      <4>3. Agrees(h, form, far)
        BY <3>3, <3>10, MergedNear DEF Agrees, HeadAs, AllTags, Loops, HandsDown
      <4> HIDE DEF h, form
      <4> QED  BY <4>1, <4>2, <4>3 DEF HeadMeans
    <3>11. CASE tag \notin Wrappers \cup Loops
      <4>1. HeadOf(v, far) = Named(tag, far)
        BY <3>1, <3>11 DEF Tagged, n, Wrappers, Loops
      <4>2. LongForms(v) = FormsNamed(tag, NoOptions)
        BY <3>2, <3>11 DEF Positional, Wrappers, Loops
      <4> QED  BY <4>1, <4>2, NothingNear, NamedHeadMeans
    <3> QED  BY <3>5, <3>6, <3>7, <3>8, <3>9, <3>10, <3>11 DEF Wrappers, Loops
  <2> QED  BY <2>1, <2>2
<1>4. CASE v.kind \notin {"string", "object", "array"}
  BY <1>4 DEF HeadOf, LongForms, HeadMeans
<1> QED  BY <1>1, <1>2, <1>3, <1>4

\* An option as the parser reads it is the option as it is given.
LEMMA OptionMeans ==
  ASSUME NEW h, NEW form, NEW far, Agrees(h, form, far), NEW key, key # "type"
  PROVE  /\ OptionValue(h.tag, h.options, key) = Read(form, far, key)
         /\ (key \in DOMAIN h.options /\ OptionValue(h.tag, h.options, key) = None)
              <=> \E v \in Ask(form.near, far, key) : Readable(form.type, key, v) = None
<1>1. h.tag = form.type /\ Given(h.options, key) = Ask(form.near, far, key)
  BY DEF Agrees
<1>2. CASE key \notin DOMAIN h.options
  <2>1. Ask(form.near, far, key) = {}
    BY <1>1, <1>2 DEF Given, None
  <2>2. OptionValue(h.tag, h.options, key) = {}
    BY <1>2 DEF OptionValue, None
  <2> QED  BY <1>2, <2>1, <2>2 DEF Read
<1>3. CASE key \in DOMAIN h.options
  <2> DEFINE v == h.options[key]
  <2>1. Ask(form.near, far, key) = {v}
    BY <1>1, <1>3 DEF Given, Some
  <2>2. OptionValue(h.tag, h.options, key) =
          IF key = "format" THEN (IF v.kind = "string" THEN {v.text} \cap Formats ELSE None)
          ELSE IF v.kind # "number" THEN None
          ELSE IF h.tag = "int" THEN v.i64 ELSE IF h.tag = "float" THEN Some(v.f64) ELSE v.u64
    BY <1>3 DEF OptionValue
  <2> HIDE DEF v
  <2>3. Read(form, far, key) = Readable(form.type, key, v)
    BY <2>1 DEF Read
  <2>4. OptionValue(h.tag, h.options, key) = Readable(form.type, key, v)
    <3>1. CASE key = "format"
      <4>1. v.text \in Formats => {v.text} \cap Formats = {v.text}
        OBVIOUS
      <4>2. v.text \notin Formats => {v.text} \cap Formats = {}
        OBVIOUS
      <4> QED  BY <2>2, <3>1, <4>1, <4>2 DEF Readable, IsTextual, Some, None
    <3>2. CASE key # "format"
      BY <1>1, <2>2, <3>2 DEF Readable, Some, None
    <3> QED  BY <3>1, <3>2
  <2> QED  BY <1>3, <2>1, <2>3, <2>4
<1> QED  BY <1>2, <1>3

LEMMA OptionKeysAreOptions ==
  ASSUME NEW tag, NEW i \in DOMAIN OptionKeys(tag)
  PROVE  OptionKeys(tag)[i] # "type"
<1>1. CASE tag \in {"int", "float"}
  BY <1>1 DEF OptionKeys
<1>2. CASE tag = "str"
  BY <1>2 DEF OptionKeys
<1>3. CASE tag \in {"list", "dict"}
  <2>1. OptionKeys(tag) = <<"min_size", "max_size">>
    BY <1>3 DEF OptionKeys
  <2> QED  BY <2>1
<1>4. CASE tag \notin {"int", "float", "str", "list", "dict"}
  BY <1>4 DEF OptionKeys
<1> QED  BY <1>1, <1>2, <1>3, <1>4

LEMMA WrongMeans ==
  ASSUME NEW h, NEW form, NEW far, Agrees(h, form, far)
  PROVE  WrongOptions(h.tag, h.options) = Wrong(form.type, form.near, far, OptionKeys(h.tag))
<1> DEFINE keys == OptionKeys(h.tag)
<1>1. \A i \in DOMAIN keys : keys[i] # "type"
  BY OptionKeysAreOptions
<1> HIDE DEF keys
<1>2. ASSUME NEW i \in DOMAIN keys
      PROVE  (keys[i] \in DOMAIN h.options /\ OptionValue(h.tag, h.options, keys[i]) = None)
               <=> \E v \in Ask(form.near, far, keys[i]) : Readable(form.type, keys[i], v) = None
  BY <1>1, OptionMeans
<1> QED  BY <1>2 DEF WrongOptions, Wrong, keys

\* How a function whose parts are known ends.
EndOf(f) == IF FlawOf(f) = None THEN Means(ExprOf(f)) ELSE Faulty(CHOOSE p \in FlawOf(f) : TRUE)

LEMMA FlawMeans ==
  ASSUME NEW f, NEW h, NEW form, NEW far, Agrees(h, form, far), f.tag = h.tag, f.options = h.options,
         f.tag # "enum"
  PROVE  EndOf(f) = Reading(form.type, form.near, far, OptionKeys(f.tag), ExprOf(f), f.call.path)
<1> DEFINE wrong == WrongOptions(f.tag, f.options)
           path == Append(f.call.path, Key(OptionKeys(f.tag)[Min(wrong)]))
<1>1. wrong = Wrong(form.type, form.near, far, OptionKeys(f.tag))
  BY WrongMeans
<1>2. FlawOf(f) = IF wrong # {} THEN Some(path) ELSE None
  BY DEF FlawOf
<1>3. Reading(form.type, form.near, far, OptionKeys(f.tag), ExprOf(f), f.call.path)
        = IF wrong = {} THEN Means(ExprOf(f)) ELSE Faulty(path)
  BY <1>1 DEF Reading
<1> HIDE DEF wrong, path
<1>4. Some(path) # None /\ (CHOOSE p \in Some(path) : TRUE) = path
  BY DEF Some, None
<1> QED  BY <1>2, <1>3, <1>4 DEF EndOf

LEMMA BoundsMean ==
  ASSUME NEW h, NEW form, NEW far, Agrees(h, form, far), NEW min, NEW max, min # "type", max # "type"
  PROVE  BoundsOf(h.tag, h.options, min, max) = BoundsGiven(form, far, min, max)
BY OptionMeans DEF BoundsOf, BoundsGiven

\* A type without parts means what the parser ends with.
LEMMA PrimitiveMeans ==
  ASSUME NEW h, NEW form, NEW far, Agrees(h, form, far), NEW f, f.tag = h.tag, f.options = h.options,
         h.tag \in Primitives, NEW inner
  PROVE  FormMeaning(form, far, f.call.path, inner) = EndOf(f)
<1>1. EndOf(f) = Reading(form.type, form.near, far, OptionKeys(f.tag), ExprOf(f), f.call.path)
  BY FlawMeans DEF Primitives
<1>2. h.tag = form.type
  BY DEF Agrees
<1>3. CASE h.tag \in {"any", "bool", "sym"}
  <2>1. OptionKeys(f.tag) = <<>>
    BY <1>3 DEF OptionKeys
  <2>2. EndOf(f) = Means(ExprOf(f))
    BY <1>1, <2>1 DEF Reading, Wrong
  <2>3. ExprOf(f) = IF h.tag = "any" THEN AnyNode ELSE IF h.tag = "bool" THEN BoolNode ELSE SymbolNode
    BY <1>3 DEF ExprOf
  <2> QED  BY <1>2, <1>3, <2>2, <2>3 DEF FormMeaning
<1>4. CASE h.tag = "int"
  <2>1. /\ OptionKeys(f.tag) = <<"min", "max">>
        /\ ExprOf(f) = IntNode(BoundsGiven(form, far, "min", "max"))
    BY <1>4, BoundsMean DEF OptionKeys, ExprOf
  <2> QED  BY <1>1, <1>2, <1>4, <2>1 DEF FormMeaning
<1>5. CASE h.tag = "float"
  <2>1. /\ OptionKeys(f.tag) = <<"min", "max">>
        /\ ExprOf(f) = FloatNode(BoundsGiven(form, far, "min", "max"))
    BY <1>5, BoundsMean DEF OptionKeys, ExprOf
  <2> QED  BY <1>1, <1>2, <1>5, <2>1 DEF FormMeaning
<1>6. CASE h.tag = "str"
  <2>1. /\ OptionKeys(f.tag) = <<"min_size", "max_size", "format">>
        /\ ExprOf(f) = StringNode(BoundsGiven(form, far, "min_size", "max_size"), Read(form, far, "format"))
    BY <1>6, BoundsMean, OptionMeans DEF OptionKeys, ExprOf
  <2> QED  BY <1>1, <1>2, <1>6, <2>1 DEF FormMeaning
<1> QED  BY <1>3, <1>4, <1>5, <1>6 DEF Primitives

-----------------------------------------------------------------------------
(* Parts.                                                                  *)

LEMMA MinOfSome ==
  ASSUME NEW S, S \subseteq Nat, S # {}
  PROVE  Min(S) \in S /\ \A k \in S : Min(S) <= k
<1> DEFINE below == {n \in Nat : \A k \in S : n <= k}
<1>1. \E x \in S : \A y \in S : x <= y
  <2> SUFFICES ASSUME \A x \in S : \E y \in S : ~(x <= y) PROVE FALSE
    OBVIOUS
  <2>1. 0 \in below
    OBVIOUS
  <2>2. ASSUME NEW n \in Nat, n \in below PROVE n + 1 \in below
    <3>1. n \notin S
      BY <2>2
    <3>2. \A k \in S : k \in Nat /\ n <= k /\ n # k
      BY <2>2, <3>1
    <3> QED  BY <3>2
  <2>3. Nat \subseteq below
    <3> HIDE DEF below
    <3> QED  BY <2>1, <2>2, SetInduction
  <2>4. PICK k \in S : k \in Nat
    OBVIOUS
  <2>5. k + 1 \in below
    BY <2>3, <2>4
  <2> QED  BY <2>4, <2>5
<1> QED  BY <1>1 DEF Min

LEMMA MinOfOne ==
  ASSUME NEW S, NEW k \in Int, k \in S, \A i \in S : i \in Int /\ k <= i
  PROVE  Min(S) = k
<1>1. \E x \in S : \A y \in S : x <= y
  OBVIOUS
<1> DEFINE m == Min(S)
<1>2. m \in S /\ \A y \in S : m <= y
  BY <1>1 DEF Min
<1> HIDE DEF m
<1>3. m \in Int /\ m <= k /\ k <= m
  BY <1>2
<1>4. m = k
  BY <1>3
<1> QED  BY <1>4 DEF m

LEMMA OneAsked ==
  ASSUME NEW near, NEW far, NEW a
  PROVE  AskFirst(near, far, <<a>>) = Ask(near, far, a)
<1> DEFINE known == {i \in DOMAIN <<a>> : Ask(near, far, <<a>>[i]) # None}
<1>1. known = IF Ask(near, far, a) # None THEN {1} ELSE {}
  OBVIOUS
<1>2. AskFirst(near, far, <<a>>) = IF known = {} THEN None ELSE Ask(near, far, <<a>>[Min(known)])
  BY DEF AskFirst
<1> HIDE DEF known
<1>3. Ask(near, far, a) # None => Min(known) = 1
  BY <1>1, MinOfOne
<1> QED  BY <1>1, <1>2, <1>3

EitherAsked(near, far, a, b) == IF Ask(near, far, a) # None THEN Ask(near, far, a) ELSE Ask(near, far, b)

LEMMA TwoAsked ==
  ASSUME NEW near, NEW far, NEW a, NEW b
  PROVE  AskFirst(near, far, <<a, b>>) = EitherAsked(near, far, a, b)
<1> DEFINE keys == <<a, b>>
           known == {i \in DOMAIN keys : Ask(near, far, keys[i]) # None}
<1>1. /\ 1 \in known <=> Ask(near, far, a) # None
      /\ 2 \in known <=> Ask(near, far, b) # None
      /\ known \subseteq 1..2
  OBVIOUS
<1>2. AskFirst(near, far, keys) = IF known = {} THEN None ELSE Ask(near, far, keys[Min(known)])
  BY DEF AskFirst
<1> HIDE DEF known
<1>3. 1 \in known => Min(known) = 1
  <2>1. \A i \in known : i \in Int /\ 1 <= i
    BY <1>1
  <2> QED  BY <2>1, MinOfOne
<1>4. 1 \notin known /\ 2 \in known => Min(known) = 2
  <2>1. 1 \notin known => \A i \in known : i \in Int /\ 2 <= i
    BY <1>1
  <2> QED  BY <2>1, MinOfOne
<1>5. 1 \notin known /\ 2 \notin known => known = {}
  BY <1>1
<1> QED  BY <1>1, <1>2, <1>3, <1>4, <1>5 DEF EitherAsked

\* The part of a head is the one its form gives by position or by a key.
LEMMA PartMeans ==
  ASSUME NEW h, NEW form, NEW far, Agrees(h, form, far), h.tag \in Wrappers \cup Loops
  PROVE  PartOf(h) = IF form.part # None THEN form.part ELSE AskFirst(form.near, far, PartKeys(h.tag))
<1> DEFINE keys == PartKeys(h.tag)
<1>1. h.part = form.part /\ \A key : key # "type" => Given(h.options, key) = Ask(form.near, far, key)
  BY DEF Agrees
<1>2. CASE h.tag \in {"list", "dict", "enum"}
  <2>1. PICK a, b : keys = <<a, b>> /\ a # "type" /\ b # "type"
    BY <1>2 DEF PartKeys
  <2>2. PartOf(h) = IF h.part # None THEN h.part
                    ELSE IF Given(h.options, a) # None THEN Given(h.options, a) ELSE Given(h.options, b)
    <3>1. keys[1] = a /\ keys[Len(keys)] = b
      BY <2>1
    <3> HIDE DEF keys
    <3> QED  BY <3>1 DEF PartOf, Given, Some, None, keys
  <2>3. /\ Given(h.options, a) = Ask(form.near, far, a)
        /\ Given(h.options, b) = Ask(form.near, far, b)
    BY <1>1, <2>1
  <2>4. AskFirst(form.near, far, keys) = EitherAsked(form.near, far, a, b)
    BY <2>1, TwoAsked
  <2> QED  BY <1>1, <2>2, <2>3, <2>4 DEF EitherAsked
<1>3. CASE h.tag \in {"struct", "optional"}
  <2>1. PICK a : keys = <<a>> /\ a # "type"
    BY <1>3 DEF PartKeys
  <2>2. PartOf(h) = IF h.part # None THEN h.part ELSE Given(h.options, a)
    <3>1. keys[1] = a /\ keys[Len(keys)] = a
      BY <2>1
    <3> HIDE DEF keys
    <3> QED  BY <3>1 DEF PartOf, Given, Some, None, keys
  <2>3. Given(h.options, a) = Ask(form.near, far, a)
    BY <1>1, <2>1
  <2>4. AskFirst(form.near, far, keys) = Ask(form.near, far, a)
    BY <2>1, OneAsked
  <2> QED  BY <1>1, <2>2, <2>3, <2>4
<1> QED  BY <1>2, <1>3 DEF Wrappers, Loops

LEMMA PartIsOne ==
  ASSUME NEW h, NEW form, NEW far, Agrees(h, form, far), h.tag \in Wrappers \cup Loops
  PROVE  PartOf(h) = None \/ \E v : PartOf(h) = Some(v)
BY DEF PartOf, Agrees, Some, None

LEMMA ChosenIsIt ==
  ASSUME NEW x
  PROVE  Some(x) # None /\ (CHOOSE v \in Some(x) : TRUE) = x
BY DEF Some, None

\* The part of a wrapper is what its meaning depends on first.
LEMMA WrapperMeans ==
  ASSUME NEW h, NEW form, NEW far, Agrees(h, form, far), h.tag \in Wrappers, NEW path, NEW inner
  PROVE  /\ PartOf(h) = None => FormMeaning(form, far, path, inner) = Faulty(path)
         /\ \A v \in PartOf(h) :
              LET m == inner[Task(v, IF HandsDown(h) THEN h.options ELSE NoOptions, Append(path, PartPath(h)))] IN
              /\ m.expr = None => FormMeaning(form, far, path, inner) = m
              /\ \A e : m.expr = Some(e) => FormMeaning(form, far, path, inner) = WholeOf(form, far, path, e)
<1> DEFINE relayed == form.type = "optional" /\ form.part # None
           under == Key(IF relayed THEN "optional" ELSE IF form.type = "dict" THEN "values" ELSE "of")
           m(v) == inner[Task(v, IF relayed THEN far ELSE NoOptions, Append(path, under))]
<1>1. h.tag = form.type /\ h.part = form.part /\ form.type \in {"optional", "list", "dict"}
  BY DEF Agrees, Wrappers
<1>2. PartOf(h) = IF form.part # None THEN form.part ELSE AskFirst(form.near, far, PartKeys(h.tag))
  BY PartMeans
<1>3. PartKeys(h.tag) =
        CASE form.type = "list" -> <<"of", "item">> [] form.type = "dict" -> <<"values", "value">> [] OTHER -> <<"of">>
  BY <1>1 DEF PartKeys
<1>4. FormMeaning(form, far, path, inner) = Wrapping(form, far, path, inner)
  BY <1>1 DEF FormMeaning
<1>5. Wrapping(form, far, path, inner) =
        IF PartOf(h) = None THEN Faulty(path)
        ELSE IF m(CHOOSE v \in PartOf(h) : TRUE).expr = None THEN m(CHOOSE v \in PartOf(h) : TRUE)
        ELSE WholeOf(form, far, path, CHOOSE e \in m(CHOOSE v \in PartOf(h) : TRUE).expr : TRUE)
  BY <1>2, <1>3 DEF Wrapping
<1>6. HandsDown(h) <=> relayed
  BY <1>1 DEF HandsDown
<1>7. under = PartPath(h)
  BY <1>1, <1>6 DEF PartPath
<1>8. \A v : m(v) = inner[Task(v, IF HandsDown(h) THEN h.options ELSE NoOptions, Append(path, PartPath(h)))]
  BY <1>6, <1>7 DEF Agrees
<1> HIDE DEF relayed, under, m
<1>9. ASSUME NEW v \in PartOf(h) PROVE PartOf(h) # None /\ (CHOOSE x \in PartOf(h) : TRUE) = v
  BY PartIsOne DEF Some, None
<1>10. ASSUME NEW v \in PartOf(h)
       PROVE  /\ m(v).expr = None => Wrapping(form, far, path, inner) = m(v)
              /\ \A e : m(v).expr = Some(e) => Wrapping(form, far, path, inner) = WholeOf(form, far, path, e)
  <2> DEFINE x == CHOOSE x \in PartOf(h) : TRUE
             w == m(x)
             chosen == CHOOSE e \in w.expr : TRUE
  <2>1. x = v /\ PartOf(h) # None
    BY <1>9
  <2>2. Wrapping(form, far, path, inner) = IF w.expr = None THEN w ELSE WholeOf(form, far, path, chosen)
    BY <1>5, <2>1
  <2>3. \A e : w.expr = Some(e) => w.expr # None /\ chosen = e
    BY ChosenIsIt
  <2>4. w = m(v)
    BY <2>1
  <2> HIDE DEF x, w, chosen
  <2>5. /\ w.expr = None => Wrapping(form, far, path, inner) = w
        /\ \A e : w.expr = Some(e) => Wrapping(form, far, path, inner) = WholeOf(form, far, path, e)
    BY <2>2, <2>3
  <2> QED  BY <2>4, <2>5
<1> QED  BY <1>4, <1>5, <1>8, <1>10

\* When it has a meaning, the sizes are left.
LEMMA WholeMeans ==
  ASSUME NEW h, NEW form, NEW far, Agrees(h, form, far), NEW f, f.tag = h.tag, f.options = h.options,
         h.tag \in Wrappers, NEW e, f.parts[1] = e
  PROVE  WholeOf(form, far, f.call.path, e) = EndOf(f)
<1>1. EndOf(f) = Reading(form.type, form.near, far, OptionKeys(f.tag), ExprOf(f), f.call.path)
  BY FlawMeans DEF Wrappers
<1>2. h.tag = form.type
  BY DEF Agrees
<1>3. CASE h.tag = "optional"
  <2>1. OptionKeys(f.tag) = <<>> /\ ExprOf(f) = OptionalNode(e)
    BY <1>3 DEF OptionKeys, ExprOf
  <2> QED  BY <1>1, <1>2, <1>3, <2>1 DEF Reading, Wrong, WholeOf
<1>4. CASE h.tag = "list"
  <2>1. /\ OptionKeys(f.tag) = <<"min_size", "max_size">>
        /\ ExprOf(f) = ListNode(e, BoundsGiven(form, far, "min_size", "max_size"))
    BY <1>4, BoundsMean DEF OptionKeys, ExprOf
  <2> QED  BY <1>1, <1>2, <1>4, <2>1 DEF WholeOf
<1>5. CASE h.tag = "dict"
  <2>1. /\ OptionKeys(f.tag) = <<"min_size", "max_size">>
        /\ ExprOf(f) = DictNode(e, BoundsGiven(form, far, "min_size", "max_size"))
    BY <1>5, BoundsMean DEF OptionKeys, ExprOf
  <2> QED  BY <1>1, <1>2, <1>5, <2>1 DEF WholeOf
<1> QED  BY <1>3, <1>4, <1>5 DEF Wrappers

-----------------------------------------------------------------------------
(* Enums.                                                                  *)

LEMMA EnumMeans ==
  ASSUME NEW h, NEW form, NEW far, Agrees(h, form, far), h.tag = "enum", NEW path, NEW inner
  PROVE  /\ (\A v \in PartOf(h) : v.kind # "array") => FormMeaning(form, far, path, inner) = Faulty(path)
         /\ \A v \in PartOf(h) : v.kind = "array" /\ v.items \in Seq(Json) =>
              /\ v.items = <<>> => FormMeaning(form, far, path, inner) = Faulty(path)
              /\ \A k \in 1..Len(v.items) :
                   v.items[k].kind # "string" /\ (\A j \in 1..(k - 1) : v.items[j].kind = "string")
                     => FormMeaning(form, far, path, inner) = Faulty(Append(path, Item("values", k)))
              /\ v.items # <<>> /\ (\A j \in 1..Len(v.items) : v.items[j].kind = "string")
                   => FormMeaning(form, far, path, inner) = Means(EnumNode(Variants(v.items)))
<1>1. h.tag = form.type /\ h.part = form.part
  BY DEF Agrees
<1>2. PartOf(h) = IF form.part # None THEN form.part ELSE AskFirst(form.near, far, <<"values", "in">>)
  BY PartMeans DEF PartKeys, Loops
<1>3. FormMeaning(form, far, path, inner) = Enumerating(form, far, path)
  BY <1>1 DEF FormMeaning
<1> DEFINE items == (CHOOSE v \in PartOf(h) : TRUE).items
           bad == {i \in DOMAIN items : ~IsTextual(items[i])}
<1>4. Enumerating(form, far, path) =
        IF \A v \in PartOf(h) : v.kind # "array" \/ v.items = <<>> THEN Faulty(path)
        ELSE IF bad # {} THEN Faulty(Append(path, Item("values", Min(bad))))
        ELSE Means(EnumNode(Variants(items)))
  BY <1>2 DEF Enumerating
<1> HIDE DEF items, bad
<1>5. ASSUME NEW v \in PartOf(h), v.kind = "array", v.items \in Seq(Json)
      PROVE  /\ v.items = <<>> => Enumerating(form, far, path) = Faulty(path)
             /\ \A k \in 1..Len(v.items) :
                  v.items[k].kind # "string" /\ (\A j \in 1..(k - 1) : v.items[j].kind = "string")
                    => Enumerating(form, far, path) = Faulty(Append(path, Item("values", k)))
             /\ v.items # <<>> /\ (\A j \in 1..Len(v.items) : v.items[j].kind = "string")
                  => Enumerating(form, far, path) = Means(EnumNode(Variants(v.items)))
  <2>1. PartOf(h) = {v}
    BY <1>5, PartIsOne DEF Some, None, Loops
  <2>2. items = v.items
    BY <2>1 DEF items
  <2>3. bad = {i \in 1..Len(items) : items[i].kind # "string"} /\ Len(items) \in Nat
    BY <1>5, <2>2, LenProperties DEF bad, IsTextual
  <2>4. (\A x \in PartOf(h) : x.kind # "array" \/ x.items = <<>>) <=> items = <<>>
    BY <1>5, <2>1, <2>2
  <2>5. ASSUME NEW k \in 1..Len(items), items[k].kind # "string", \A j \in 1..(k - 1) : items[j].kind = "string"
        PROVE  Enumerating(form, far, path) = Faulty(Append(path, Item("values", k)))
    <3>1. k \in bad /\ \A i \in bad : i \in Int /\ k <= i
      BY <2>3, <2>5
    <3>2. Min(bad) = k
      BY <3>1, MinOfOne
    <3>3. items # <<>>
      BY <2>5
    <3> QED  BY <1>4, <2>4, <3>1, <3>2, <3>3
  <2>6. ASSUME items # <<>>, \A j \in 1..Len(items) : items[j].kind = "string"
        PROVE  Enumerating(form, far, path) = Means(EnumNode(Variants(items)))
    <3>1. bad = {}
      BY <2>3, <2>6
    <3> QED  BY <1>4, <2>4, <2>6, <3>1
  <2> QED  BY <1>4, <2>2, <2>4, <2>5, <2>6
<1>6. ASSUME \A v \in PartOf(h) : v.kind # "array" PROVE Enumerating(form, far, path) = Faulty(path)
  BY <1>4, <1>6
<1> QED  BY <1>3, <1>5, <1>6

\* The variants among the first so many items, by the places of those that are
\* new there.
NewAmong(items, n) == {i \in 1..n : \A j \in 1..(i - 1) : items[j].text # items[i].text}
Nth(new, m) == CHOOSE i \in {i \in new : Cardinality({j \in new : j <= i}) = m} : TRUE
VariantsAt(items, new) == [m \in 1..Cardinality(new) |-> items[Nth(new, m)].text]
VariantsAmong(items, n) == VariantsAt(items, NewAmong(items, n))

LEMMA AllVariants ==
  ASSUME NEW items \in Seq(Json)
  PROVE  Variants(items) = VariantsAmong(items, Len(items))
<1>1. FirstOccurrences(items) = NewAmong(items, Len(items))
  BY LenProperties DEF FirstOccurrences, NewAmong
<1> QED  BY <1>1 DEF Variants, VariantsAmong, VariantsAt, Nth

LEMMA NoVariants ==
  ASSUME NEW items
  PROVE  VariantsAmong(items, 0) = <<>>
<1>1. NewAmong(items, 0) = {}
  BY DEF NewAmong
<1>2. Cardinality({}) = 0
  BY FS_EmptySet
<1>3. \A new : Cardinality(new) = 0 => VariantsAt(items, new) = <<>>
  BY DEF VariantsAt
<1> QED  BY <1>1, <1>2, <1>3 DEF VariantsAmong

Texts(items, n) == {items[j].text : j \in 1..n}

\* The next item adds its text at the end if it is new.
LEMMA NextVariant ==
  ASSUME NEW items, NEW n \in Nat, NEW parts, parts = VariantsAmong(items, n), ToSet(parts) = Texts(items, n)
  PROVE  LET text == items[n + 1].text
             more == IF text \in ToSet(parts) THEN parts ELSE Append(parts, text)
         IN  more = VariantsAmong(items, n + 1) /\ ToSet(more) = Texts(items, n + 1)
<1> DEFINE text == items[n + 1].text
           old == NewAmong(items, n)
           new == NewAmong(items, n + 1)
           c == Cardinality(old)
<1>1. old \subseteq 1..n /\ IsFiniteSet(old) /\ c \in Nat
  <2>1. old \subseteq 1..n
    BY DEF NewAmong
  <2>2. IsFiniteSet(1..n)
    BY FS_Interval
  <2> HIDE DEF old
  <2> QED  BY <2>1, <2>2, FS_Subset, FS_CardinalityType
<1>2. Texts(items, n + 1) = Texts(items, n) \cup {text}
  BY DEF Texts
<1>3. parts = [m \in 1..c |-> items[Nth(old, m)].text] /\ parts \in Seq(ToSet(parts)) /\ Len(parts) = c
  <2>1. parts = [m \in 1..c |-> items[Nth(old, m)].text]
    BY DEF VariantsAmong, VariantsAt
  <2> HIDE DEF c
  <2>2. parts \in Seq({items[Nth(old, m)].text : m \in 1..c}) /\ Len(parts) = c
    BY <1>1, <2>1
  <2> QED  BY <2>1, <2>2, OverItself
<1>4. CASE text \in ToSet(parts)
  <2>1. \E j \in 1..n : items[j].text = text
    BY <1>4 DEF Texts
  <2>2. new = old
    BY <2>1 DEF NewAmong
  <2>3. parts = VariantsAmong(items, n + 1)
    BY <2>2 DEF VariantsAmong
  <2> QED  BY <1>2, <1>4, <2>3
<1>5. CASE text \notin ToSet(parts)
  <2>1. \A j \in 1..n : items[j].text # text
    BY <1>5 DEF Texts
  <2>2. new = old \cup {n + 1}
    BY <2>1 DEF NewAmong
  <2>3. n + 1 \notin old
    BY <1>1
  <2> DEFINE upto(i) == {j \in old : j <= i}
             places(m) == {i \in old : Cardinality(upto(i)) = m}
             more == Append(parts, text)
  <2> HIDE DEF new, old
  <2>4. Cardinality(new) = c + 1
    BY <1>1, <2>2, <2>3, FS_AddElement
  <2>5. ASSUME NEW i \in old PROVE {j \in new : j <= i} = upto(i) /\ Cardinality(upto(i)) \in Nat /\ Cardinality(upto(i)) <= c
    <3>1. {j \in new : j <= i} = upto(i)
      <4>1. i \in 1..n
        BY <1>1 DEF old
      <4>2. ~(n + 1 <= i)
        BY <4>1
      <4> QED  BY <2>2, <4>2
    <3>2. upto(i) \subseteq old
      OBVIOUS
    <3> HIDE DEF upto
    <3> QED  BY <1>1, <3>1, <3>2, FS_Subset, FS_CardinalityType
  <2>6. {j \in new : j <= n + 1} = new
    <3>1. \A j \in old : j <= n + 1
      BY <1>1 DEF old
    <3> QED  BY <2>2, <3>1
  <2> HIDE DEF upto
  <2>7. ASSUME NEW m \in 1..c PROVE Nth(new, m) = Nth(old, m)
    <3>1. {i \in new : Cardinality({j \in new : j <= i}) = m} = {i \in old : Cardinality({j \in old : j <= i}) = m}
      <4>1. Cardinality({j \in new : j <= n + 1}) # m
        BY <1>1, <2>4, <2>6
      <4>2. \A i \in old : Cardinality({j \in new : j <= i}) = Cardinality({j \in old : j <= i})
        BY <2>5 DEF upto
      <4> QED  BY <2>2, <4>1, <4>2
    <3> QED  BY <3>1 DEF Nth
  <2>8. Nth(new, c + 1) = n + 1
    <3>1. {i \in new : Cardinality({j \in new : j <= i}) = c + 1} = {n + 1}
      <4>1. Cardinality({j \in new : j <= n + 1}) = c + 1
        BY <2>4, <2>6
      <4>2. \A i \in old : Cardinality({j \in new : j <= i}) # c + 1
        BY <1>1, <2>5
      <4> QED  BY <2>2, <4>1, <4>2
    <3> QED  BY <3>1 DEF Nth
  <2> HIDE DEF c
  <2>9. /\ more \in Seq(ToSet(more)) /\ Len(more) = c + 1 /\ more[c + 1] = text
        /\ \A m \in 1..c : more[m] = parts[m]
    <3>1. parts \in Seq(ToSet(parts)) /\ Len(parts) = c
      BY <1>3
    <3> HIDE DEF text
    <3>2. /\ more \in Seq(ToSet(more)) /\ Len(more) = Len(parts) + 1 /\ more[Len(parts) + 1] = text
          /\ \A m \in 1..Len(parts) : more[m] = parts[m]
      BY <3>1, Pushed
    <3> HIDE DEF more
    <3> QED  BY <3>1, <3>2
  <2>10. more = [m \in 1..(c + 1) |-> items[Nth(new, m)].text]
    <3>1. more = [m \in 1..(c + 1) |-> more[m]]
      BY <2>9, LenProperties
    <3>2. ASSUME NEW m \in 1..(c + 1) PROVE more[m] = items[Nth(new, m)].text
      <4>1. CASE m = c + 1
        BY <2>8, <2>9, <4>1
      <4>2. CASE m # c + 1
        <5>1. m \in 1..c
          BY <1>1, <4>2 DEF c
        <5> QED  BY <1>3, <2>7, <2>9, <5>1 DEF c
      <4> QED  BY <4>1, <4>2
    <3> QED  BY <3>1, <3>2
  <2>11. more = VariantsAmong(items, n + 1)
    BY <2>4, <2>10 DEF VariantsAmong, VariantsAt, new
  <2>12. ToSet(more) = ToSet(parts) \cup {text}
    <3>1. DOMAIN more = 1..(c + 1) /\ DOMAIN parts = 1..c
      BY <1>3, <2>9, LenProperties DEF c
    <3>2. \A m \in 1..(c + 1) : m = c + 1 \/ m \in 1..c
      BY <1>1 DEF c
    <3>3. 1..c \subseteq 1..(c + 1) /\ c + 1 \in 1..(c + 1)
      BY <1>1 DEF c
    <3> HIDE DEF more
    <3>4. ToSet(more) = {more[m] : m \in 1..(c + 1)} /\ ToSet(parts) = {parts[m] : m \in 1..c}
      BY <3>1 DEF ToSet
    <3> QED  BY <2>9, <3>2, <3>3, <3>4
  <2> QED  BY <1>2, <1>5, <2>11, <2>12
<1> QED  BY <1>4, <1>5

-----------------------------------------------------------------------------
(* Structs.                                                                *)

LEMMA EntryMeans ==
  ASSUME NEW v
  PROVE  /\ v.kind = "array" /\ v.items \in Seq(Json) => (WellFormed(v) <=> IsEntry(v))
         /\ v.kind # "array" => ~WellFormed(v) /\ ~IsEntry(v)
         /\ v.kind = "array" /\ v.items \in Seq(Json) => Surrounding(v) = OptionsAt(v.items, 4)
<1>1. ASSUME v.kind = "array", v.items \in Seq(Json)
      PROVE  /\ WellFormed(v) <=> IsEntry(v)
             /\ Surrounding(v) = OptionsAt(v.items, 4)
  <2> DEFINE n == Len(v.items)
  <2>1. n \in Nat
    BY <1>1, LenProperties
  <2> HIDE DEF n
  <2>2. (n > 2 <=> n >= 3) /\ (n > 3 <=> 4 <= n)
    BY <2>1
  <2> QED  BY <2>2 DEF n, WellFormed, IsEntry, IsTextual, Surrounding, OptionsAt
<1> QED  BY <1>1 DEF WellFormed, IsEntry

LEMMA ExtraMeans ==
  ASSUME NEW h, NEW form, NEW far, Agrees(h, form, far)
  PROVE  LET extra == Ask(form.near, far, "extra") IN
         /\ ExtraOf(h.options) = None <=> \E v \in extra : ~IsTextual(v) \/ v.text \notin ExtraBehaviors
         /\ ExtraOf(h.options) # None =>
              (CHOOSE e \in ExtraOf(h.options) : TRUE)
                = IF extra = None THEN "forbid" ELSE (CHOOSE v \in extra : TRUE).text
<1> DEFINE extra == Ask(form.near, far, "extra")
           v == h.options["extra"]
<1>1. extra = Given(h.options, "extra")
  BY DEF Agrees
<1> HIDE DEF extra
<1>2. CASE "extra" \notin DOMAIN h.options
  <2>1. extra = {} /\ ExtraOf(h.options) = Some("forbid")
    BY <1>1, <1>2 DEF Given, None, ExtraOf
  <2> QED  BY <2>1, ChosenIsIt DEF None, extra
<1>3. CASE "extra" \in DOMAIN h.options
  <2>1. /\ extra = Some(v)
        /\ ExtraOf(h.options) = IF v.kind = "string" THEN {v.text} \cap ExtraBehaviors ELSE None
    BY <1>1, <1>3 DEF Given, ExtraOf
  <2> HIDE DEF v
  <2>2. /\ v.text \in ExtraBehaviors => {v.text} \cap ExtraBehaviors = Some(v.text)
        /\ v.text \notin ExtraBehaviors => {v.text} \cap ExtraBehaviors = None
    BY DEF Some, None
  <2>3. ExtraOf(h.options) = IF IsTextual(v) /\ v.text \in ExtraBehaviors THEN Some(v.text) ELSE None
    BY <2>1, <2>2 DEF IsTextual
  <2>4. /\ (\E x \in extra : ~IsTextual(x) \/ x.text \notin ExtraBehaviors)
             <=> (~IsTextual(v) \/ v.text \notin ExtraBehaviors)
        /\ extra # None /\ (CHOOSE x \in extra : TRUE) = v
    <3>1. extra # None /\ (CHOOSE x \in extra : TRUE) = v
      BY <2>1, ChosenIsIt
    <3>2. extra = {v}
      BY <2>1 DEF Some
    <3> QED  BY <3>1, <3>2
  <2>5. Some(v.text) # None /\ (CHOOSE e \in Some(v.text) : TRUE) = v.text
    BY ChosenIsIt
  <2> DEFINE right == IsTextual(v) /\ v.text \in ExtraBehaviors
  <2>6. ExtraOf(h.options) # None <=> right
    BY <2>3, <2>5
  <2>7. right => (CHOOSE e \in ExtraOf(h.options) : TRUE) = v.text
    BY <2>3, <2>5
  <2>8. right => v.text = IF extra = None THEN "forbid" ELSE (CHOOSE x \in extra : TRUE).text
    <3> DEFINE chosen == CHOOSE x \in extra : TRUE
    <3>1. chosen = v /\ extra # None
      BY <2>4
    <3> HIDE DEF chosen
    <3>2. v.text = IF extra = None THEN "forbid" ELSE chosen.text
      BY <3>1
    <3> QED  BY <3>2 DEF chosen
  <2>9. (\E x \in extra : ~IsTextual(x) \/ x.text \notin ExtraBehaviors) <=> ~right
    BY <2>4
  <2> HIDE DEF right
  <2> QED  BY <2>6, <2>7, <2>8, <2>9 DEF extra
<1> QED  BY <1>2, <1>3

\* What the field at a place of the array means.
MeaningAt(items, i, path, inner) == FieldMeaning(items[i], Append(path, Item("fields", i)), inner)

\* A struct whose fields all have a meaning.
StructOf(items, path, inner, options) ==
  Means(StructNode([i \in 1..Len(items) |->
                      FieldOf(items[i], CHOOSE e \in MeaningAt(items, i, path, inner).expr : TRUE)],
                   CHOOSE e \in ExtraOf(options) : TRUE))

LEMMA StructMeans ==
  ASSUME NEW h, NEW form, NEW far, Agrees(h, form, far), h.tag = "struct", NEW path, NEW inner
  PROVE  /\ (\A v \in PartOf(h) : ~Usable(h, v)) => FormMeaning(form, far, path, inner) = Faulty(path)
         /\ \A v \in PartOf(h) : Usable(h, v) /\ v.items \in Seq(Json) =>
              /\ \A k \in 1..Len(v.items) :
                   /\ MeaningAt(v.items, k, path, inner).expr = None
                   /\ \A j \in 1..(k - 1) : MeaningAt(v.items, j, path, inner).expr # None
                   => FormMeaning(form, far, path, inner) = MeaningAt(v.items, k, path, inner)
              /\ (\A j \in 1..Len(v.items) : MeaningAt(v.items, j, path, inner).expr # None)
                   => FormMeaning(form, far, path, inner) = StructOf(v.items, path, inner, h.options)
<1>1. h.tag = form.type /\ h.part = form.part /\ form.part = None
  BY DEF Agrees
<1> DEFINE given == Ask(form.near, far, "fields")
           extra == Ask(form.near, far, "extra")
           whole == FormMeaning(form, far, path, inner)
<1>2. PartOf(h) = given
  <2>1. PartKeys(h.tag) = <<"fields">>
    BY DEF PartKeys
  <2> QED  BY <1>1, <2>1, PartMeans, OneAsked DEF Loops
<1>3. whole = Structuring(form, far, path, inner)
  BY <1>1 DEF FormMeaning
<1> DEFINE entries == (CHOOSE v \in given : TRUE).items
           field(i) == MeaningAt(entries, i, path, inner)
           faulty == {i \in DOMAIN entries : field(i).expr = None}
           made(i) == FieldOf(entries[i], CHOOSE e \in field(i).expr : TRUE)
           policy == IF extra = None THEN "forbid" ELSE (CHOOSE v \in extra : TRUE).text
           refused == \/ \A v \in given : v.kind # "array"
                      \/ \E v \in extra : ~IsTextual(v) \/ v.text \notin ExtraBehaviors
<1>4. whole = IF refused THEN Faulty(path)
              ELSE IF faulty # {} THEN field(Min(faulty))
              ELSE Means(StructNode([i \in DOMAIN entries |-> made(i)], policy))
  BY <1>3 DEF Structuring, MeaningAt, FieldOf
<1>5. refused <=> \A v \in given : ~Usable(h, v)
  <2>1. (\E v \in extra : ~IsTextual(v) \/ v.text \notin ExtraBehaviors) <=> ExtraOf(h.options) = None
    BY ExtraMeans
  <2>2. \A v : Usable(h, v) <=> v.kind = "array" /\ ExtraOf(h.options) # None
    BY DEF Usable, Loops
  <2> HIDE DEF given, extra
  <2> QED  BY <2>1, <2>2
<1>6. ~refused => policy = CHOOSE e \in ExtraOf(h.options) : TRUE
  <2>1. ~refused => ExtraOf(h.options) # None
    BY ExtraMeans
  <2> QED  BY <2>1, ExtraMeans
<1> HIDE DEF given, extra, entries, refused, policy, whole
<1>7. ASSUME NEW v \in PartOf(h), Usable(h, v), v.items \in Seq(Json)
      PROVE  entries = v.items /\ ~refused /\ DOMAIN entries = 1..Len(entries) /\ Len(entries) \in Nat
  <2>1. PartOf(h) = Some(v)
    BY <1>7, PartIsOne DEF Some, None, Loops
  <2>2. entries = v.items
    <3>1. given = Some(v)
      BY <1>2, <2>1
    <3>2. (CHOOSE x \in Some(v) : TRUE) = v
      BY ChosenIsIt
    <3> QED  BY <3>1, <3>2 DEF entries
  <2> QED  BY <1>2, <1>5, <1>7, <2>2, LenProperties
<1>8. ASSUME NEW v \in PartOf(h), Usable(h, v), v.items \in Seq(Json)
      PROVE  /\ \A k \in 1..Len(entries) :
                  field(k).expr = None /\ (\A j \in 1..(k - 1) : field(j).expr # None) => whole = field(k)
             /\ (\A j \in 1..Len(entries) : field(j).expr # None)
                  => whole = StructOf(entries, path, inner, h.options)
  <2>1. ~refused /\ DOMAIN entries = 1..Len(entries) /\ Len(entries) \in Nat
    BY <1>7, <1>8
  <2> HIDE DEF made
  <2>2. ASSUME NEW k \in 1..Len(entries), field(k).expr = None, \A j \in 1..(k - 1) : field(j).expr # None
        PROVE  whole = field(k)
    <3>0. faulty = {i \in 1..Len(entries) : field(i).expr = None}
      BY <2>1
    <3> HIDE DEF field, faulty
    <3>1. k \in faulty /\ \A i \in faulty : i \in Int /\ k <= i
      BY <2>1, <2>2, <3>0
    <3>2. Min(faulty) = k
      BY <3>1, MinOfOne
    <3> QED  BY <1>4, <2>1, <3>1, <3>2
  <2>3. ASSUME \A j \in 1..Len(entries) : field(j).expr # None
        PROVE  whole = Means(StructNode([i \in 1..Len(entries) |-> made(i)],
                                        CHOOSE e \in ExtraOf(h.options) : TRUE))
    <3>1. faulty = {}
      BY <2>1, <2>3
    <3> HIDE DEF faulty
    <3> QED  BY <1>4, <1>6, <2>1, <3>1
  <2>4. Means(StructNode([i \in 1..Len(entries) |-> made(i)], CHOOSE e \in ExtraOf(h.options) : TRUE))
          = StructOf(entries, path, inner, h.options)
    BY DEF StructOf, made
  <2> HIDE DEF field
  <2> QED  BY <2>2, <2>3, <2>4
<1>9. ASSUME NEW v \in PartOf(h), Usable(h, v), v.items \in Seq(Json)
      PROVE  /\ \A k \in 1..Len(v.items) :
                  /\ MeaningAt(v.items, k, path, inner).expr = None
                  /\ \A j \in 1..(k - 1) : MeaningAt(v.items, j, path, inner).expr # None
                  => FormMeaning(form, far, path, inner) = MeaningAt(v.items, k, path, inner)
             /\ (\A j \in 1..Len(v.items) : MeaningAt(v.items, j, path, inner).expr # None)
                  => FormMeaning(form, far, path, inner) = StructOf(v.items, path, inner, h.options)
  <2>1. entries = v.items
    BY <1>7, <1>9
  <2>2. whole = FormMeaning(form, far, path, inner)
    BY DEF whole
  <2> QED  BY <1>8, <1>9, <2>1, <2>2
<1>10. (\A v \in PartOf(h) : ~Usable(h, v)) => FormMeaning(form, far, path, inner) = Faulty(path)
  BY <1>2, <1>4, <1>5 DEF whole
<1> QED  BY <1>9, <1>10

-----------------------------------------------------------------------------
(* Calls and frames.                                                       *)

LEMMA TaskMeans ==
  ASSUME NEW t \in Tasks, NEW room \in 1..Nesting
  PROVE  LET heads == HeadOf(t.value, t.options)
             whole == Meanings[room][t]
         IN  /\ heads = None => whole = Faulty(t.path)
             /\ \A h \in heads :
                  /\ heads = Some(h)
                  /\ \E form : /\ Agrees(h, form, t.options)
                               /\ whole = FormMeaning(form, t.options, t.path, Meanings[room - 1])
<1> DEFINE heads == HeadOf(t.value, t.options)
           forms == LongForms(t.value)
           whole == Meanings[room][t]
<1>1. whole = IF forms = {} THEN Faulty(t.path)
              ELSE FormMeaning(CHOOSE form \in forms : TRUE, t.options, t.path, Meanings[room - 1])
  <2>1. room \in 0..Nesting /\ room # 0
    BY NestingAssumption
  <2> QED  BY <2>1, MeaningsUnfold DEF MeaningFrom
<1>2. HeadMeans(heads, forms, t.options)
  <2>1. t.value \in Json
    BY DEF Tasks
  <2> QED  BY <2>1, HeadAgrees
<1> HIDE DEF heads, forms, whole
<1>3. CASE heads = None /\ forms = {}
  BY <1>1, <1>3 DEF heads, forms, whole, None
<1>4. CASE \E h, form : heads = Some(h) /\ forms = {form} /\ Agrees(h, form, t.options)
  <2>1. PICK h, form : heads = Some(h) /\ forms = {form} /\ Agrees(h, form, t.options)
    BY <1>4
  <2>2. forms # {} /\ (CHOOSE x \in forms : TRUE) = form
    BY <2>1
  <2>3. heads = {h} /\ heads # None
    BY <2>1 DEF Some, None
  <2>4. whole = FormMeaning(form, t.options, t.path, Meanings[room - 1])
    BY <1>1, <2>2
  <2> QED  BY <2>1, <2>3, <2>4 DEF heads, whole
<1> QED  BY <1>2, <1>3, <1>4 DEF HeadMeans

\* The head and the part a frame was entered with.
HeadIn(f) == CHOOSE h \in HeadOf(f.call.value, f.call.options) : TRUE
PartIn(f) == CHOOSE v \in PartOf(HeadIn(f)) : TRUE
Originates(f) ==
  /\ f.call \in Tasks
  /\ HeadIn(f) \in HeadOf(f.call.value, f.call.options)
  /\ f.tag = HeadIn(f).tag /\ f.options = HeadIn(f).options
  /\ PartIn(f) \in PartOf(HeadIn(f))
  /\ f.tag \in Wrappers => f.items = <<>>
  /\ f.tag \in Loops => Usable(HeadIn(f), PartIn(f)) /\ f.items = PartIn(f).items

\* The call a frame is waiting for, and what is known of its parts.
InProgress(f) ==
  IF f.tag = "struct"
  THEN Task(f.items[f.taken].items[3], OptionsAt(f.items[f.taken].items, 4),
            Append(Append(f.call.path, Item("fields", f.taken)), Key("type")))
  ELSE Task(PartIn(f), IF HandsDown(HeadIn(f)) THEN f.options ELSE NoOptions,
            Append(f.call.path, PartPath(HeadIn(f))))
PartsMean(f, inner) ==
  /\ f.tag = "enum" => /\ \A j \in 1..f.taken : f.items[j].kind = "string"
                       /\ f.parts = VariantsAmong(f.items, f.taken)
                       /\ ToSet(f.parts) = Texts(f.items, f.taken)
  /\ f.tag = "struct" =>
       \A j \in 1..Len(f.parts) : MeaningAt(f.items, j, f.call.path, inner) = Means(f.parts[j])
  /\ f.tag \in Wrappers /\ f.parts # <<>> => inner[InProgress(f)] = Means(f.parts[1])

LEMMA MeansOf ==
  ASSUME NEW e
  PROVE  Means(e).expr # None /\ (CHOOSE x \in Means(e).expr : TRUE) = e
<1>1. Means(e).expr = Some(e)
  BY DEF Means
<1> QED  BY <1>1, ChosenIsIt

\* Until its parts have a meaning, a frame has that of the first without one.
LEMMA PartDecides ==
  ASSUME NEW f, NEW S, IsFrame(f, S), EntriesTaken(f), Awaits(f), Originates(f),
         NEW room \in 1..Nesting, PartsMean(f, Meanings[room - 1]),
         Meanings[room - 1][InProgress(f)].expr = None
  PROVE  Meanings[room][f.call] = Meanings[room - 1][InProgress(f)]
<1> DEFINE inner == Meanings[room - 1]
           h == HeadIn(f)
           t == f.call
<1>1. t \in Tasks /\ h \in HeadOf(t.value, t.options) /\ f.tag = h.tag /\ f.options = h.options
  BY DEF Originates
<1>2. PICK form : /\ Agrees(h, form, t.options)
                  /\ Meanings[room][t] = FormMeaning(form, t.options, t.path, inner)
  BY <1>1, TaskMeans
<1>3. PartIn(f) \in PartOf(h)
  BY DEF Originates
<1> HIDE DEF inner, h, t
<1>4. CASE f.tag \in Wrappers
  <2>1. InProgress(f) = Task(PartIn(f), IF HandsDown(h) THEN h.options ELSE NoOptions, Append(t.path, PartPath(h)))
    BY <1>1, <1>4 DEF InProgress, Wrappers, h, t
  <2> DEFINE m == inner[InProgress(f)]
  <2>2. Agrees(h, form, t.options) /\ h.tag \in Wrappers
    BY <1>1, <1>2, <1>4
  <2>3. FormMeaning(form, t.options, t.path, inner) = m
    BY <1>3, <2>1, <2>2, WrapperMeans DEF inner
  <2> QED  BY <1>2, <2>3 DEF inner, t
<1>5. CASE f.tag = "struct"
  <2> DEFINE n == f.taken
             v == f.items[n]
  <2>1. /\ f.items \in Seq(Json) /\ n \in 0..Len(f.items) /\ n > 0 /\ Len(f.parts) = n - 1
        /\ n \in 1..Len(f.items) /\ v \in Json
    <3>1. f.items \in Seq(Json) /\ n \in 0..Len(f.items) /\ n > 0 /\ Len(f.parts) = n - 1
      BY <1>5 DEF IsFrame, Awaits
    <3>2. n \in 1..Len(f.items)
      BY <3>1, LenProperties
    <3> QED  BY <3>1, <3>2, ElementOfSeq
  <2>2. IsEntry(v)
    <3>1. n \in 1..f.taken
      BY <2>1
    <3> QED  BY <1>5, <3>1 DEF EntriesTaken
  <2>3. WellFormed(v) /\ Surrounding(v) = OptionsAt(v.items, 4)
    BY <2>1, <2>2, JsonFacts, EntryMeans DEF IsEntry
  <2>4. MeaningAt(f.items, n, t.path, inner) = inner[InProgress(f)]
    BY <1>5, <2>3 DEF MeaningAt, FieldMeaning, InProgress, t
  <2>5. \A j \in 1..(n - 1) : MeaningAt(f.items, j, t.path, inner).expr # None
    <3> TAKE j \in 1..(n - 1)
    <3>1. MeaningAt(f.items, j, t.path, inner) = Means(f.parts[j])
      BY <1>5, <2>1 DEF PartsMean, inner, t
    <3> QED  BY <3>1, MeansOf
  <2>6. Usable(h, PartIn(f)) /\ f.items = PartIn(f).items
    BY <1>5 DEF Originates, Loops, h
  <2> HIDE DEF n, v
  <2>7. FormMeaning(form, t.options, t.path, inner) = MeaningAt(f.items, n, t.path, inner)
    <3>1. Agrees(h, form, t.options) /\ h.tag = "struct"
      BY <1>1, <1>2, <1>5
    <3> DEFINE items == PartIn(f).items
    <3>2. items = f.items
      BY <2>6
    <3>3. \A k \in 1..Len(items) :
            /\ MeaningAt(items, k, t.path, inner).expr = None
            /\ \A j \in 1..(k - 1) : MeaningAt(items, j, t.path, inner).expr # None
            => FormMeaning(form, t.options, t.path, inner) = MeaningAt(items, k, t.path, inner)
      BY <1>3, <2>1, <2>6, <3>1, <3>2, StructMeans
    <3>4. MeaningAt(f.items, n, t.path, inner).expr = None
      BY <2>4 DEF inner
    <3> HIDE DEF items
    <3> QED  BY <2>1, <2>5, <3>2, <3>3, <3>4
  <2> QED  BY <1>2, <2>4, <2>7 DEF inner, t
<1> QED  BY <1>4, <1>5 DEF IsFrame, Awaits, Loops

\* A part that arrives is what its call means.
LEMMA PartCounts ==
  ASSUME NEW f, NEW S, IsFrame(f, S), EntriesTaken(f), Awaits(f), Originates(f),
         NEW inner, PartsMean(f, inner), NEW e, inner[InProgress(f)] = Means(e)
  PROVE  LET g == [f EXCEPT !.parts = Append(@, e)] IN
         Originates(g) /\ PartsMean(g, inner) /\ InProgress(g) = InProgress(f) /\ g.call = f.call
<1> DEFINE g == [f EXCEPT !.parts = Append(@, e)]
<1>1. /\ g.tag = f.tag /\ g.options = f.options /\ g.items = f.items
      /\ g.taken = f.taken /\ g.parts = Append(f.parts, e) /\ g.call = f.call
  BY DEF IsFrame
<1> HIDE DEF g
<1>2. HeadIn(g) = HeadIn(f)
  BY <1>1 DEF HeadIn
<1>3. PartIn(g) = PartIn(f)
  BY <1>2 DEF PartIn
<1>4. Originates(g) /\ InProgress(g) = InProgress(f)
  BY <1>1, <1>2, <1>3 DEF Originates, InProgress
<1>5. PartsMean(g, inner)
  <2>1. CASE f.tag \in Wrappers
    <3>1. f.parts = <<>>
      BY <2>1 DEF Awaits, Wrappers
    <3>2. g.parts[1] = e
      BY <1>1, <3>1
    <3> QED  BY <1>1, <1>4, <2>1, <3>2 DEF PartsMean, Wrappers
  <2>2. CASE f.tag = "struct"
    <3> DEFINE n == f.taken
    <3>1. /\ f.parts \in Seq(S) /\ f.items \in Seq(Json) /\ n \in Nat /\ n > 0 /\ Len(f.parts) = n - 1
          /\ n \in 1..Len(f.items) /\ f.items[n] \in Json
      <4>1. f.parts \in Seq(S) /\ f.items \in Seq(Json) /\ n \in 0..Len(f.items) /\ n > 0 /\ Len(f.parts) = n - 1
        BY <2>2 DEF IsFrame, Awaits, PartsOf
      <4>2. n \in 1..Len(f.items) /\ n \in Nat
        BY <4>1, LenProperties
      <4> QED  BY <4>1, <4>2, ElementOfSeq
    <3>2. IsEntry(f.items[n])
      <4>1. n \in 1..f.taken
        BY <3>1
      <4> QED  BY <2>2, <4>1 DEF EntriesTaken
    <3>3. WellFormed(f.items[n]) /\ Surrounding(f.items[n]) = OptionsAt(f.items[n].items, 4)
      BY <3>1, <3>2, JsonFacts, EntryMeans DEF IsEntry
    <3>4. MeaningAt(f.items, n, f.call.path, inner) = Means(e)
      BY <2>2, <3>3 DEF MeaningAt, FieldMeaning, InProgress
    <3>5. Len(g.parts) = n /\ \A j \in 1..n : g.parts[j] = IF j = n THEN e ELSE f.parts[j]
      <4> DEFINE s == f.parts
      <4>1. s \in Seq(S) /\ Len(s) = n - 1 /\ n \in Nat
        BY <3>1
      <4> HIDE DEF s, n
      <4>2. Len(Append(s, e)) = n /\ \A j \in 1..n : Append(s, e)[j] = IF j = n THEN e ELSE s[j]
        BY <4>1
      <4> QED  BY <1>1, <4>2 DEF s
    <3>6. \A j \in 1..(n - 1) : MeaningAt(f.items, j, f.call.path, inner) = Means(f.parts[j])
      BY <2>2, <3>1 DEF PartsMean
    <3> HIDE DEF n
    <3>7. \A j \in 1..n : MeaningAt(g.items, j, g.call.path, inner) = Means(g.parts[j])
      <4> TAKE j \in 1..n
      <4>1. j = n \/ j \in 1..(n - 1)
        BY <3>1
      <4>2. j \in 1..(n - 1) => j # n
        BY <3>1
      <4> QED  BY <1>1, <3>4, <3>5, <3>6, <4>1, <4>2
    <3> QED  BY <1>1, <2>2, <3>5, <3>7 DEF PartsMean, Wrappers
  <2> QED  BY <2>1, <2>2 DEF IsFrame, Awaits, Loops
<1> QED  BY <1>1, <1>4, <1>5 DEF g

LEMMA NoKeysNoFlaw ==
  ASSUME NEW f, OptionKeys(f.tag) = <<>>, f.tag = "enum" => f.parts # <<>>
  PROVE  EndOf(f) = Means(ExprOf(f))
<1>1. WrongOptions(f.tag, f.options) = {}
  BY DEF WrongOptions
<1> QED  BY <1>1 DEF EndOf, FlawOf

\* The form a frame has been entered for.
LEMMA FrameForm ==
  ASSUME NEW f, Originates(f), NEW room \in 1..Nesting
  PROVE  /\ HeadIn(f).tag = f.tag /\ HeadIn(f).options = f.options /\ PartIn(f) \in PartOf(HeadIn(f))
         /\ \E form : /\ Agrees(HeadIn(f), form, f.call.options)
                      /\ Meanings[room][f.call]
                           = FormMeaning(form, f.call.options, f.call.path, Meanings[room - 1])
<1>1. f.call \in Tasks /\ HeadIn(f) \in HeadOf(f.call.value, f.call.options)
  BY DEF Originates
<1> QED  BY <1>1, TaskMeans DEF Originates

LEMMA WrapperIsKnown ==
  ASSUME NEW f, Originates(f), f.tag \in Wrappers, f.parts # <<>>, NEW room \in 1..Nesting,
         PartsMean(f, Meanings[room - 1])
  PROVE  Meanings[room][f.call] = EndOf(f)
<1> DEFINE inner == Meanings[room - 1]
           h == HeadIn(f)
           t == f.call
<1>1. /\ h.tag = f.tag /\ h.options = f.options /\ PartIn(f) \in PartOf(h)
      /\ inner[InProgress(f)] = Means(f.parts[1])
  BY FrameForm DEF PartsMean
<1>2. PICK form : /\ Agrees(h, form, t.options)
                  /\ Meanings[room][t] = FormMeaning(form, t.options, t.path, inner)
  BY FrameForm
<1>3. InProgress(f) = Task(PartIn(f), IF HandsDown(h) THEN h.options ELSE NoOptions, Append(t.path, PartPath(h)))
  BY <1>1 DEF InProgress, Wrappers
<1> HIDE DEF inner, h, t
<1>4. FormMeaning(form, t.options, t.path, inner) = WholeOf(form, t.options, t.path, f.parts[1])
  <2>1. Agrees(h, form, t.options) /\ h.tag \in Wrappers /\ PartIn(f) \in PartOf(h)
    BY <1>1, <1>2
  <2>2. inner[InProgress(f)].expr = Some(f.parts[1])
    BY <1>1 DEF Means
  <2> QED  BY <1>3, <2>1, <2>2, WrapperMeans
<1>6. WholeOf(form, t.options, t.path, f.parts[1]) = EndOf(f)
  BY <1>1, <1>2, WholeMeans DEF t
<1> QED  BY <1>2, <1>4, <1>6 DEF t

LEMMA EnumIsKnown ==
  ASSUME NEW f, Originates(f), f.tag = "enum", f.items \in Seq(Json), f.taken = Len(f.items),
         NEW room \in 1..Nesting, PartsMean(f, Meanings[room - 1])
  PROVE  Meanings[room][f.call] = EndOf(f)
<1> DEFINE inner == Meanings[room - 1]
           h == HeadIn(f)
           t == f.call
           v == PartIn(f)
<1>1. h.tag = "enum" /\ v \in PartOf(h) /\ v.kind = "array" /\ v.items = f.items
  BY FrameForm DEF Originates, Usable, Loops
<1>2. PICK form : /\ Agrees(h, form, t.options)
                  /\ Meanings[room][t] = FormMeaning(form, t.options, t.path, inner)
  BY FrameForm
<1>3. /\ \A j \in 1..Len(f.items) : f.items[j].kind = "string"
      /\ f.parts = Variants(f.items) /\ ToSet(f.parts) = Texts(f.items, Len(f.items))
  BY AllVariants DEF PartsMean
<1> HIDE DEF inner, h, t, v
<1>4. /\ v.items = <<>> => Meanings[room][t] = Faulty(t.path)
      /\ v.items # <<>> => Meanings[room][t] = Means(EnumNode(Variants(v.items)))
  BY <1>1, <1>2, <1>3, EnumMeans
<1>5. OptionKeys(f.tag) = <<>> /\ ExprOf(f) = EnumNode(f.parts)
  BY DEF OptionKeys, ExprOf
<1>6. CASE f.items = <<>>
  <2>1. f.parts = <<>>
    BY <1>3, <1>6, AllVariants, NoVariants
  <2>2. FlawOf(f) = Some(t.path)
    BY <2>1 DEF FlawOf, t
  <2>3. Some(t.path) # None /\ (CHOOSE p \in Some(t.path) : TRUE) = t.path
    BY ChosenIsIt
  <2>4. EndOf(f) = Faulty(t.path)
    BY <2>2, <2>3 DEF EndOf
  <2> QED  BY <1>1, <1>4, <1>6, <2>4 DEF t
<1>7. CASE f.items # <<>>
  <2>1. 1 \in 1..Len(f.items)
    <3>1. Len(f.items) \in Nat /\ Len(f.items) # 0
      BY <1>7, LenProperties, EmptySeq
    <3> QED  BY <3>1
  <2>2. f.items[1].text \in ToSet(f.parts)
    BY <1>3, <2>1 DEF Texts
  <2>3. f.parts # <<>>
    BY <2>2, NoFrames DEF ToSet
  <2> QED  BY <1>1, <1>3, <1>4, <1>5, <1>7, <2>3, NoKeysNoFlaw DEF t
<1> QED  BY <1>6, <1>7

LEMMA StructIsKnown ==
  ASSUME NEW f, Originates(f), f.tag = "struct", f.items \in Seq(Json), Len(f.parts) = Len(f.items),
         NEW room \in 1..Nesting, PartsMean(f, Meanings[room - 1])
  PROVE  Meanings[room][f.call] = EndOf(f)
<1> DEFINE inner == Meanings[room - 1]
           h == HeadIn(f)
           t == f.call
           v == PartIn(f)
<1>1. h.tag = "struct" /\ h.options = f.options /\ v \in PartOf(h) /\ Usable(h, v) /\ v.items = f.items
  BY FrameForm DEF Originates, Loops
<1>2. PICK form : /\ Agrees(h, form, t.options)
                  /\ Meanings[room][t] = FormMeaning(form, t.options, t.path, inner)
  BY FrameForm
<1>3. \A j \in 1..Len(f.items) : MeaningAt(f.items, j, t.path, inner) = Means(f.parts[j])
  BY DEF PartsMean
<1> HIDE DEF inner, h, t, v
<1>4. ASSUME NEW j \in 1..Len(f.items)
      PROVE  /\ MeaningAt(f.items, j, t.path, inner).expr # None
             /\ (CHOOSE e \in MeaningAt(f.items, j, t.path, inner).expr : TRUE) = f.parts[j]
  BY <1>3, MeansOf
<1>5. Meanings[room][t] = StructOf(f.items, t.path, inner, f.options)
  <2>1. \A j \in 1..Len(v.items) : MeaningAt(v.items, j, t.path, inner).expr # None
    BY <1>1, <1>4
  <2>2. v.items \in Seq(Json)
    BY <1>1
  <2>3. FormMeaning(form, t.options, t.path, inner) = StructOf(v.items, t.path, inner, h.options)
    BY <1>1, <1>2, <2>1, <2>2, StructMeans
  <2> QED  BY <1>1, <1>2, <2>3
<1>6. OptionKeys(f.tag) = <<>>
  BY DEF OptionKeys
<1>7. StructOf(f.items, t.path, inner, f.options) = Means(ExprOf(f))
  <2>1. [i \in 1..Len(f.items) |-> FieldOf(f.items[i], CHOOSE e \in MeaningAt(f.items, i, t.path, inner).expr : TRUE)]
          = [i \in 1..Len(f.items) |-> FieldOf(f.items[i], f.parts[i])]
    <3> DEFINE chosen(i) == CHOOSE e \in MeaningAt(f.items, i, t.path, inner).expr : TRUE
    <3>1. \A i \in 1..Len(f.items) : chosen(i) = f.parts[i]
      BY <1>4
    <3> HIDE DEF chosen
    <3>2. [i \in 1..Len(f.items) |-> FieldOf(f.items[i], chosen(i))]
            = [i \in 1..Len(f.items) |-> FieldOf(f.items[i], f.parts[i])]
      BY <3>1
    <3> QED  BY <3>2 DEF chosen
  <2>2. ExprOf(f) = StructNode([i \in 1..Len(f.items) |-> FieldOf(f.items[i], f.parts[i])],
                               CHOOSE e \in ExtraOf(f.options) : TRUE)
    BY DEF ExprOf
  <2> QED  BY <2>1, <2>2 DEF StructOf
<1> QED  BY <1>5, <1>6, <1>7, NoKeysNoFlaw DEF t

\* A frame with all its parts means what it ends with.
LEMMA WholeIsKnown ==
  ASSUME NEW f, NEW S, IsFrame(f, S), HasParts(f), f.taken = Len(f.items), Originates(f),
         NEW room \in 1..Nesting, PartsMean(f, Meanings[room - 1])
  PROVE  Meanings[room][f.call] = EndOf(f)
<1>1. f.items \in Seq(Json)
  BY DEF IsFrame
<1>2. CASE f.tag \in Wrappers
  <2>1. Len(f.parts) = 1
    BY <1>2 DEF HasParts
  <2>2. f.parts # <<>>
    <3>1. f.parts = <<>> => Len(f.parts) = 0
      BY NoFrames
    <3> QED  BY <2>1, <3>1
  <2> QED  BY <1>2, <2>2, WrapperIsKnown
<1>3. CASE f.tag = "enum"
  BY <1>1, <1>3, EnumIsKnown
<1>4. CASE f.tag = "struct"
  <2>1. Len(f.parts) = Len(f.items)
    BY <1>4 DEF HasParts
  <2> QED  BY <1>1, <1>4, <2>1, StructIsKnown
<1> QED  BY <1>2, <1>3, <1>4 DEF IsFrame, Loops

-----------------------------------------------------------------------------
(* Refusals.                                                               *)

LEMMA BadVariant ==
  ASSUME NEW f, Originates(f), f.tag = "enum", f.items \in Seq(Json), f.taken \in Nat,
         f.taken + 1 \in 1..Len(f.items), f.items[f.taken + 1].kind # "string",
         NEW room \in 1..Nesting, PartsMean(f, Meanings[room - 1])
  PROVE  Meanings[room][f.call] = Faulty(Append(f.call.path, Item("values", f.taken + 1)))
<1> DEFINE inner == Meanings[room - 1]
           h == HeadIn(f)
           t == f.call
           v == PartIn(f)
           k == f.taken + 1
<1>1. h.tag = "enum" /\ v \in PartOf(h) /\ v.kind = "array" /\ v.items = f.items
  BY FrameForm DEF Originates, Usable, Loops
<1>2. PICK form : /\ Agrees(h, form, t.options)
                  /\ Meanings[room][t] = FormMeaning(form, t.options, t.path, inner)
  BY FrameForm
<1>3. k - 1 = f.taken
  OBVIOUS
<1>4. \A j \in 1..(k - 1) : v.items[j].kind = "string"
  BY <1>1, <1>3 DEF PartsMean
<1>5. k \in 1..Len(v.items) /\ v.items[k].kind # "string"
  BY <1>1
<1> HIDE DEF inner, h, t, v, k
<1>6. FormMeaning(form, t.options, t.path, inner) = Faulty(Append(t.path, Item("values", k)))
  <2>1. Agrees(h, form, t.options) /\ h.tag = "enum" /\ v \in PartOf(h)
    BY <1>1, <1>2
  <2>2. v.kind = "array" /\ v.items \in Seq(Json)
    BY <1>1
  <2> QED  BY <1>4, <1>5, <2>1, <2>2, EnumMeans
<1> QED  BY <1>2, <1>6 DEF t, k

LEMMA BadEntry ==
  ASSUME NEW f, Originates(f), f.tag = "struct", f.items \in Seq(Json), f.taken \in Nat,
         f.taken + 1 \in 1..Len(f.items), ~IsEntry(f.items[f.taken + 1]), Len(f.parts) = f.taken,
         NEW room \in 1..Nesting, PartsMean(f, Meanings[room - 1])
  PROVE  Meanings[room][f.call] = Faulty(Append(f.call.path, Item("fields", f.taken + 1)))
<1> DEFINE inner == Meanings[room - 1]
           h == HeadIn(f)
           t == f.call
           v == PartIn(f)
           k == f.taken + 1
           at == Append(t.path, Item("fields", k))
<1>1. h.tag = "struct" /\ h.options = f.options /\ v \in PartOf(h) /\ Usable(h, v) /\ v.items = f.items
  BY FrameForm DEF Originates, Loops
<1>2. PICK form : /\ Agrees(h, form, t.options)
                  /\ Meanings[room][t] = FormMeaning(form, t.options, t.path, inner)
  BY FrameForm
<1>3. k - 1 = f.taken /\ f.items[k] \in Json
  BY ElementOfSeq
<1>4. \A j \in 1..(k - 1) : MeaningAt(v.items, j, t.path, inner).expr # None
  <2> TAKE j \in 1..(k - 1)
  <2>1. MeaningAt(f.items, j, t.path, inner) = Means(f.parts[j])
    BY <1>3 DEF PartsMean
  <2> QED  BY <1>1, <2>1, MeansOf
<1>5. MeaningAt(v.items, k, t.path, inner) = Faulty(at)
  <2>1. ~WellFormed(f.items[k])
    BY <1>3, JsonFacts, EntryMeans
  <2> QED  BY <1>1, <2>1 DEF MeaningAt, FieldMeaning
<1>6. k \in 1..Len(v.items)
  BY <1>1
<1> HIDE DEF inner, h, t, v, k, at
<1>7. FormMeaning(form, t.options, t.path, inner) = Faulty(at)
  <2> DEFINE items == v.items
  <2>1. items \in Seq(Json)
    BY <1>1
  <2>2. MeaningAt(items, k, t.path, inner).expr = None
    BY <1>5 DEF Faulty
  <2>3. \A i \in 1..Len(items) :
          /\ MeaningAt(items, i, t.path, inner).expr = None
          /\ \A j \in 1..(i - 1) : MeaningAt(items, j, t.path, inner).expr # None
          => FormMeaning(form, t.options, t.path, inner) = MeaningAt(items, i, t.path, inner)
    BY <1>1, <1>2, <2>1, StructMeans
  <2> QED  BY <1>4, <1>5, <1>6, <2>2, <2>3
<1> QED  BY <1>2, <1>7 DEF t, k, at

\* A call that no function takes is faulty at its own path.
LEMMA BadType ==
  ASSUME NEW t \in Tasks, NEW room \in 1..Nesting,
         \A h \in HeadOf(t.value, t.options) : h.tag \notin Primitives /\ ~\E v \in PartOf(h) : Usable(h, v)
  PROVE  Meanings[room][t] = Faulty(t.path)
<1> DEFINE heads == HeadOf(t.value, t.options)
           inner == Meanings[room - 1]
<1>1. CASE heads = None
  BY <1>1, TaskMeans
<1>2. CASE heads # None
  <2>1. PICK h : h \in heads
    BY <1>2 DEF None
  <2>2. PICK form : /\ Agrees(h, form, t.options)
                    /\ Meanings[room][t] = FormMeaning(form, t.options, t.path, inner)
    BY <2>1, TaskMeans
  <2>3. h.tag \notin Primitives /\ \A v \in PartOf(h) : ~Usable(h, v)
    BY <2>1
  <2> HIDE DEF heads, inner
  <2>4. h.tag \in AllTags
    BY <2>2 DEF Agrees
  <2>5. CASE h.tag \in Wrappers
    <3>1. \A v \in PartOf(h) : Usable(h, v)
      BY <2>5 DEF Usable, Wrappers, Loops
    <3>2. PartOf(h) = None
      BY <2>3, <3>1 DEF None
    <3> QED  BY <2>2, <2>5, <3>2, WrapperMeans
  <2>6. CASE h.tag = "enum"
    <3>1. \A v \in PartOf(h) : v.kind # "array"
      BY <2>3, <2>6 DEF Usable, Loops
    <3> QED  BY <2>2, <2>6, <3>1, EnumMeans
  <2>7. CASE h.tag = "struct"
    BY <2>2, <2>3, <2>7, StructMeans
  <2> QED  BY <2>3, <2>4, <2>5, <2>6, <2>7 DEF AllTags, Loops
<1> QED  BY <1>1, <1>2

LEMMA PrimitiveIsKnown ==
  ASSUME NEW t \in Tasks, NEW room \in 1..Nesting, NEW h \in HeadOf(t.value, t.options),
         h.tag \in Primitives
  PROVE  Meanings[room][t] = EndOf(Frame(h, <<>>, t))
<1>1. PICK form : /\ Agrees(h, form, t.options)
                  /\ Meanings[room][t] = FormMeaning(form, t.options, t.path, Meanings[room - 1])
  BY TaskMeans
<1> DEFINE f == Frame(h, <<>>, t)
<1>2. f.tag = h.tag /\ f.options = h.options /\ f.call = t
  BY DEF Frame
<1> HIDE DEF f
<1> QED  BY <1>1, <1>2, PrimitiveMeans DEF f

-----------------------------------------------------------------------------
(* The meaning of the document is that of every call in progress, until    *)
(* its parts are known.                                                    *)

\* A call decides the document: it has a meaning, and if that is a fault, it
\* is the document's.
Decided(m, d) == m # Unknown /\ (m.expr = None => m = Meaning(d))

\* The call that comes after so many frames.
CallAfter(s, i, d) == IF i = 0 THEN Task(d, NoOptions, <<>>) ELSE InProgress(s[i])

FrameMeans(s, i, d) ==
  /\ i <= Nesting
  /\ s[i].call = CallAfter(s, i - 1, d)
  /\ Originates(s[i]) /\ PartsMean(s[i], Meanings[Nesting - i])
  /\ Decided(Meanings[Nesting - (i - 1)][s[i].call], d)
Framed(s, d) == \A i \in 1..Len(s) : FrameMeans(s, i, d)
CallMeans(t, s, d) ==
  /\ t \in Tasks /\ Len(s) < Nesting
  /\ t = CallAfter(s, Len(s), d)
  /\ Decided(Meanings[Nesting - Len(s)][t], d)

MeaningInv ==
  /\ Framed(frames, document)
  /\ \A t \in focus : CallMeans(t, frames, document)
  /\ \A e \in parsed : Meaning(document) = Means(e)
  /\ \A path \in failure : Meaning(document) = Faulty(path)

LEMMA KnownRoom ==
  ASSUME NEW t \in Tasks, NEW room \in 0..Nesting, Meanings[room][t] # Unknown
  PROVE  room > 0
BY MeaningsUnfold

LEMMA FaultyIsKnown ==
  ASSUME NEW path
  PROVE  Faulty(path) # Unknown /\ Faulty(path).expr = None
BY DEF Faulty, Unknown, Some, None

LEMMA KeysAreSegments ==
  ASSUME NEW path \in Seq(Segments), NEW i \in Nat,
         NEW key \in {"of", "values", "optional", "fields", "type"}
  PROVE  Append(path, Key(key)) \in Seq(Segments) /\ Append(path, Item(key, i)) \in Seq(Segments)
<1>1. Key(key) \in Segments /\ Item(key, i) \in Segments
  BY DEF Key, Item, Segments
<1> QED  BY <1>1, AppendProperties

LEMMA LevelOptions ==
  /\ NoOptions \in OptionMaps
  /\ \A v \in Json : v.kind = "object" => v.members \in OptionMaps
BY OptionMapsAssumption

LEMMA TaskIsTask ==
  ASSUME NEW value \in Json, NEW options \in OptionMaps, NEW path \in Seq(Segments)
  PROVE  Task(value, options, path) \in Tasks
BY DEF Task, Tasks

LEMMA InitMeaning == Init => MeaningInv
<1> SUFFICES ASSUME Init PROVE MeaningInv  OBVIOUS
<1> DEFINE t == Task(document, NoOptions, <<>>)
<1>1. document \in Documents /\ document \in Json /\ frames = <<>> /\ focus = {t} /\ parsed = {} /\ failure = {}
  BY JsonAssumption DEF Init, Some, None
<1>2. t \in Tasks
  <2> DEFINE path == <<>>
  <2>1. path \in Seq(Segments)
    OBVIOUS
  <2> HIDE DEF path
  <2>2. Task(document, NoOptions, path) \in Tasks
    BY <1>1, <2>1, LevelOptions, TaskIsTask
  <2> QED  BY <2>2 DEF path
<1>3. Meanings[Nesting][t] = Meaning(document) /\ Meaning(document) # Unknown /\ Nesting \in Nat
  BY <1>1, NestingAssumption DEF Meaning
<1> DEFINE n == Len(frames)
<1>4. n = 0
  BY <1>1, NoFrames
<1> HIDE DEF t, n
<1>5. Nesting > 0 /\ Nesting - n = Nesting
  BY <1>2, <1>3, <1>4, KnownRoom
<1>6. CallMeans(t, frames, document)
  BY <1>2, <1>3, <1>4, <1>5 DEF CallMeans, CallAfter, Decided, t, n
<1>7. Framed(frames, document)
  BY <1>4 DEF Framed, n
<1> QED  BY <1>1, <1>6, <1>7 DEF MeaningInv

LEMMA RefuseMeans ==
  ASSUME MeaningInv, NEW path, Refuse(path), Decided(Faulty(path), document)
  PROVE  MeaningInv'
<1>1. frames' = <<>> /\ focus' = {} /\ failure' = {path} /\ UNCHANGED <<document, parsed>>
  BY DEF Refuse, Some, None
<1>2. Meaning(document) = Faulty(path)
  BY FaultyIsKnown DEF Decided
<1>3. Framed(<<>>, document')
  BY NoFrames DEF Framed
<1> QED  BY <1>1, <1>2, <1>3 DEF MeaningInv

\* The innermost frame is replaced by one for the same call.
LEMMA FramedReplace ==
  ASSUME NEW s, s \in Seq(ToSet(s)), s # <<>>, NEW d, Framed(s, d), NEW g,
         g.call = s[Len(s)].call, Originates(g), PartsMean(g, Meanings[Nesting - Len(s)])
  PROVE  Framed([s EXCEPT ![Len(s)] = g], d)
<1> DEFINE n == Len(s)
           t == [s EXCEPT ![n] = g]
<1>1. /\ n \in Nat \ {0} /\ Len(t) = n /\ t[n] = g
      /\ \A i \in 1..(n - 1) : t[i] = s[i]
  BY Replaced
<1> HIDE DEF n, t
<1>2. ASSUME NEW i \in 1..n PROVE FrameMeans(t, i, d)
  <2>1. FrameMeans(s, i, d)
    BY <1>2 DEF Framed, n
  <2>2. CallAfter(t, i - 1, d) = CallAfter(s, i - 1, d)
    <3>1. i - 1 = 0 \/ i - 1 \in 1..(n - 1)
      BY <1>1
    <3> QED  BY <1>1, <3>1 DEF CallAfter
  <2>3. t[i].call = s[i].call
    <3>1. i = n \/ i \in 1..(n - 1)
      BY <1>1
    <3> QED  BY <1>1, <3>1 DEF n
  <2>4. Originates(t[i]) /\ PartsMean(t[i], Meanings[Nesting - i])
    <3>1. i = n \/ i \in 1..(n - 1)
      BY <1>1
    <3> QED  BY <1>1, <2>1, <3>1 DEF FrameMeans, n
  <2> QED  BY <2>1, <2>2, <2>3, <2>4 DEF FrameMeans
<1> QED  BY <1>1, <1>2 DEF Framed, t, n

LEMMA FramedPush ==
  ASSUME NEW s, s \in Seq(ToSet(s)), NEW d, Framed(s, d), NEW f, CallMeans(f.call, s, d),
         Originates(f), PartsMean(f, Meanings[Nesting - (Len(s) + 1)])
  PROVE  Framed(Append(s, f), d)
<1> DEFINE n == Len(s)
           t == Append(s, f)
<1>1. /\ n \in Nat /\ Len(t) = n + 1 /\ t[n + 1] = f
      /\ \A i \in 1..n : t[i] = s[i]
  BY Pushed
<1> HIDE DEF n, t
<1>2. ASSUME NEW i \in 1..(n + 1) PROVE FrameMeans(t, i, d)
  <2>1. CallAfter(t, i - 1, d) = CallAfter(s, i - 1, d)
    <3>1. i - 1 = 0 \/ i - 1 \in 1..n
      BY <1>1
    <3> QED  BY <1>1, <3>1 DEF CallAfter
  <2>2. CASE i = n + 1
    <3>1. i - 1 = n /\ n < Nesting /\ f.call = CallAfter(s, n, d) /\ Decided(Meanings[Nesting - n][f.call], d)
      BY <1>1, <2>2 DEF CallMeans, n
    <3>2. i <= Nesting
      BY <1>1, <2>2, <3>1, NestingAssumption
    <3> QED  BY <1>1, <2>1, <2>2, <3>1, <3>2 DEF FrameMeans, n
  <2>3. CASE i # n + 1
    <3>1. i \in 1..n
      BY <1>1, <2>3
    <3>2. FrameMeans(s, i, d)
      BY <3>1 DEF Framed, n
    <3> QED  BY <1>1, <2>1, <3>1, <3>2 DEF FrameMeans
  <2> QED  BY <2>2, <2>3
<1> QED  BY <1>1, <1>2 DEF Framed, t, n

\* The frames below the innermost.
LEMMA FramedPop ==
  ASSUME NEW s, s \in Seq(ToSet(s)), s # <<>>, NEW d, Framed(s, d)
  PROVE  /\ Framed(Front(s), d)
         /\ s[Len(s)].call = CallAfter(Front(s), Len(Front(s)), d)
<1> DEFINE n == Len(s)
           t == Front(s)
<1>1. n \in Nat \ {0} /\ Len(t) = n - 1 /\ \A i \in 1..(n - 1) : t[i] = s[i]
  BY Popped
<1> HIDE DEF n, t
<1>2. \A i \in 1..n : CallAfter(t, i - 1, d) = CallAfter(s, i - 1, d)
  <2> TAKE i \in 1..n
  <2>1. i - 1 = 0 \/ i - 1 \in 1..(n - 1)
    BY <1>1
  <2> QED  BY <1>1, <2>1 DEF CallAfter
<1>3. \A i \in 1..(n - 1) : i \in 1..n /\ t[i] = s[i]
  BY <1>1
<1>4. \A i \in 1..n : FrameMeans(s, i, d)
  BY DEF Framed, n
<1>5. \A i \in 1..(n - 1) : FrameMeans(t, i, d)
  BY <1>2, <1>3, <1>4 DEF FrameMeans
<1>6. n \in 1..n
  BY <1>1
<1>7. s[n].call = CallAfter(t, n - 1, d)
  BY <1>2, <1>4, <1>6 DEF FrameMeans
<1> QED  BY <1>1, <1>5, <1>7 DEF Framed, t, n

\* What is known of the innermost frame and of its call.
LEMMA TopMeans ==
  ASSUME IInv, MeaningInv, frames # <<>>
  PROVE  LET n == Len(frames) IN
         /\ n \in Nat \ {0} /\ Top = frames[n]
         /\ Nesting - (n - 1) \in 1..Nesting /\ (Nesting - (n - 1)) - 1 = Nesting - n
         /\ IsFrame(Top, built) /\ EntriesTaken(Top) /\ Originates(Top)
         /\ Top.items \in Seq(Json)
         /\ PartsMean(Top, Meanings[Nesting - n])
         /\ Decided(Meanings[Nesting - (n - 1)][Top.call], document)
<1> DEFINE n == Len(frames)
<1>1. n \in Nat \ {0} /\ Top = frames[n]
  BY Popped DEF IInv, FramesProgress, Top
<1>2. n \in 1..Len(frames)
  BY <1>1
<1> HIDE DEF n
<1>3. IsFrame(frames[n], built) /\ EntriesTaken(frames[n]) /\ FrameMeans(frames, n, document)
  BY <1>2 DEF IInv, TypeOK, FramesProgress, MeaningInv, Framed
<1>4. Nesting - (n - 1) \in 1..Nesting /\ (Nesting - (n - 1)) - 1 = Nesting - n
  BY <1>1, <1>3, NestingAssumption DEF FrameMeans
<1> QED  BY <1>1, <1>3, <1>4 DEF FrameMeans, IsFrame, n

\* What is known of the next call.
LEMMA FocusMeans ==
  ASSUME IInv, MeaningInv, NEW t \in focus
  PROVE  LET n == Len(frames) IN
         /\ n \in Nat /\ t \in Tasks /\ IsTask(t) /\ t = CallAfter(frames, n, document)
         /\ Nesting - n \in 1..Nesting /\ (Nesting - n) - 1 = Nesting - (n + 1)
         /\ CallMeans(t, frames, document)
         /\ Decided(Meanings[Nesting - n][t], document)
<1> DEFINE n == Len(frames)
<1>1. n \in Nat
  BY LenProperties DEF IInv, FramesProgress
<1>2. CallMeans(t, frames, document) /\ IsTask(t)
  BY DEF MeaningInv, IInv, TypeOK
<1> HIDE DEF n
<1>3. n < Nesting
  BY <1>2 DEF CallMeans, n
<1>4. Nesting - n \in 1..Nesting /\ (Nesting - n) - 1 = Nesting - (n + 1)
  BY <1>1, <1>3, NestingAssumption
<1> QED  BY <1>1, <1>2, <1>4 DEF CallMeans, n

LEMMA FlawIsFault ==
  ASSUME NEW f, NEW path \in FlawOf(f)
  PROVE  EndOf(f) = Faulty(path)
<1>1. FlawOf(f) # None /\ (CHOOSE p \in FlawOf(f) : TRUE) = path
  BY DEF FlawOf, Some, None
<1> QED  BY <1>1 DEF EndOf

LEMMA RefusalsMean ==
  ASSUME IInv, MeaningInv,
         RefuseType \/ RefusePrimitive \/ RefuseVariant \/ RefuseField \/ RefuseWhole
  PROVE  MeaningInv'
<1>1. CASE RefuseType
  <2>1. PICK t \in focus :
          /\ \A h \in HeadOf(t.value, t.options) : h.tag \notin Primitives /\ ~\E v \in PartOf(h) : Usable(h, v)
          /\ Refuse(t.path)
    BY <1>1 DEF RefuseType
  <2> DEFINE room == Nesting - Len(frames)
  <2>2. t \in Tasks /\ room \in 1..Nesting /\ Decided(Meanings[room][t], document)
    BY FocusMeans
  <2> HIDE DEF room
  <2>3. Meanings[room][t] = Faulty(t.path)
    BY <2>1, <2>2, BadType
  <2> QED  BY <2>1, <2>2, <2>3, RefuseMeans
<1>2. CASE RefusePrimitive
  <2>1. PICK t \in focus : \E h \in HeadOf(t.value, t.options) :
          /\ h.tag \in Primitives
          /\ \E path \in FlawOf(Frame(h, <<>>, t)) : Refuse(path)
    BY <1>2 DEF RefusePrimitive
  <2>2. PICK h \in HeadOf(t.value, t.options) :
          /\ h.tag \in Primitives
          /\ \E path \in FlawOf(Frame(h, <<>>, t)) : Refuse(path)
    BY <2>1
  <2> DEFINE f == Frame(h, <<>>, t)
             room == Nesting - Len(frames)
  <2>3. PICK path \in FlawOf(f) : Refuse(path)
    BY <2>2
  <2>4. t \in Tasks /\ room \in 1..Nesting /\ Decided(Meanings[room][t], document)
    BY FocusMeans
  <2> HIDE DEF room
  <2>5. Meanings[room][t] = EndOf(f)
    BY <2>2, <2>4, PrimitiveIsKnown
  <2> HIDE DEF f
  <2>6. EndOf(f) = Faulty(path)
    BY FlawIsFault
  <2> QED  BY <2>3, <2>4, <2>5, <2>6, RefuseMeans
<1>3. CASE RefuseVariant
  <2> DEFINE path == Append(Top.call.path, Item("values", Top.taken + 1))
             room == Nesting - (Len(frames) - 1)
  <2>1. /\ Looping("enum") /\ Upcoming.kind # "string" /\ Refuse(path) /\ frames # <<>>
    BY <1>3 DEF RefuseVariant, Looping
  <2>2. Top.tag = "enum" /\ Top.taken \in Nat /\ Top.taken + 1 \in 1..Len(Top.items)
    BY <2>1, LoopingFrame
  <2>3. /\ room \in 1..Nesting /\ Originates(Top) /\ Top.items \in Seq(Json)
        /\ PartsMean(Top, Meanings[room - 1]) /\ Decided(Meanings[room][Top.call], document)
    BY <2>1, TopMeans
  <2>4. Top.items[Top.taken + 1].kind # "string"
    BY <2>1 DEF Upcoming
  <2> HIDE DEF room
  <2>5. Meanings[room][Top.call] = Faulty(path)
    BY <2>2, <2>3, <2>4, BadVariant
  <2> QED  BY <2>1, <2>3, <2>5, RefuseMeans
<1>4. CASE RefuseField
  <2> DEFINE path == Append(Top.call.path, Item("fields", Top.taken + 1))
             room == Nesting - (Len(frames) - 1)
  <2>1. /\ Looping("struct") /\ ~IsEntry(Upcoming) /\ Refuse(path) /\ frames # <<>>
    BY <1>4 DEF RefuseField, Looping
  <2>2. /\ Top.tag = "struct" /\ Top.taken \in Nat /\ Top.taken + 1 \in 1..Len(Top.items)
        /\ Len(Top.parts) = Top.taken
    BY <2>1, LoopingFrame DEF HasParts
  <2>3. /\ room \in 1..Nesting /\ Originates(Top) /\ Top.items \in Seq(Json)
        /\ PartsMean(Top, Meanings[room - 1]) /\ Decided(Meanings[room][Top.call], document)
    BY <2>1, TopMeans
  <2>4. ~IsEntry(Top.items[Top.taken + 1])
    BY <2>1 DEF Upcoming
  <2> HIDE DEF room
  <2>5. Meanings[room][Top.call] = Faulty(path)
    BY <2>2, <2>3, <2>4, BadEntry
  <2> QED  BY <2>1, <2>3, <2>5, RefuseMeans
<1>5. CASE RefuseWhole
  <2> DEFINE room == Nesting - (Len(frames) - 1)
  <2>1. PICK path \in FlawOf(Top) : Complete /\ Refuse(path)
    BY <1>5 DEF RefuseWhole
  <2>2. focus = None /\ frames # <<>> /\ Top.taken = Len(Top.items)
    BY <2>1 DEF Complete
  <2>3. /\ room \in 1..Nesting /\ Originates(Top) /\ IsFrame(Top, built)
        /\ PartsMean(Top, Meanings[room - 1]) /\ Decided(Meanings[room][Top.call], document)
    BY <2>2, TopMeans
  <2>4. HasParts(Top)
    BY <2>2 DEF IInv, FramesProgress
  <2> HIDE DEF room
  <2>5. Meanings[room][Top.call] = EndOf(Top)
    BY <2>2, <2>3, <2>4, WholeIsKnown
  <2>6. EndOf(Top) = Faulty(path)
    BY FlawIsFault
  <2> QED  BY <2>1, <2>3, <2>5, <2>6, RefuseMeans
<1> QED  BY <1>1, <1>2, <1>3, <1>4, <1>5

\* The call after the frames below has a meaning that goes to the last of them.
LEMMA ReturnMeans ==
  ASSUME MeaningInv, NEW e, NEW below, below \in Seq(ToSet(below)), Framed(below, document),
         NEW S, \A i \in 1..Len(below) : IsFrame(below[i], S) /\ EntriesTaken(below[i]) /\ Awaits(below[i]),
         Meanings[Nesting - Len(below)][CallAfter(below, Len(below), document)] = Means(e),
         Return(e, below)
  PROVE  MeaningInv'
<1>1. focus' = {} /\ document' = document /\ failure' = failure
  BY DEF Return, None
<1>2. CASE below = <<>>
  <2>1. frames' = <<>> /\ parsed' = {e}
    BY <1>2 DEF Return, Some
  <2> DEFINE n == Len(below)
  <2>2. n = 0 /\ Nesting - n = Nesting
    BY <1>2, NoFrames, NestingAssumption
  <2> HIDE DEF n
  <2>3. Meanings[Nesting][Task(document, NoOptions, <<>>)] = Means(e)
    BY <2>2 DEF CallAfter, n
  <2>4. Meaning(document) = Means(e)
    BY <2>3 DEF Meaning
  <2>5. Framed(<<>>, document)
    BY NoFrames DEF Framed
  <2> QED  BY <1>1, <2>1, <2>4, <2>5 DEF MeaningInv
<1>3. CASE below # <<>>
  <2> DEFINE n == Len(below)
             f == below[n]
             g == [f EXCEPT !.parts = Append(@, e)]
             t == [below EXCEPT ![n] = g]
  <2>1. frames' = t /\ parsed' = parsed
    BY <1>3 DEF Return
  <2>2. n \in Nat \ {0} /\ n \in 1..Len(below)
    BY <1>3, Popped
  <2>3. IsFrame(f, S) /\ EntriesTaken(f) /\ Awaits(f) /\ FrameMeans(below, n, document)
    BY <2>2 DEF Framed
  <2>4. Meanings[Nesting - n][InProgress(f)] = Means(e)
    BY <2>2 DEF CallAfter
  <2> HIDE DEF n
  <2>5. Originates(f) /\ PartsMean(f, Meanings[Nesting - n])
    BY <2>3 DEF FrameMeans
  <2> HIDE DEF f
  <2>6. Originates(g) /\ PartsMean(g, Meanings[Nesting - n]) /\ g.call = f.call
    BY <2>3, <2>4, <2>5, PartCounts
  <2> HIDE DEF g
  <2>7. Framed(t, document)
    BY <1>3, <2>6, FramedReplace DEF n, f
  <2> HIDE DEF t
  <2> QED  BY <1>1, <2>1, <2>7 DEF MeaningInv
<1> QED  BY <1>2, <1>3

LEMMA ParsePrimitiveMeans == ASSUME IInv, MeaningInv, ParsePrimitive PROVE MeaningInv'
<1>1. PICK t \in focus : \E h \in HeadOf(t.value, t.options) :
        /\ h.tag \in Primitives /\ FlawOf(Frame(h, <<>>, t)) = None
        /\ Return(ExprOf(Frame(h, <<>>, t)), frames)
  BY DEF ParsePrimitive
<1>2. PICK h \in HeadOf(t.value, t.options) :
        /\ h.tag \in Primitives /\ FlawOf(Frame(h, <<>>, t)) = None
        /\ Return(ExprOf(Frame(h, <<>>, t)), frames)
  BY <1>1
<1> DEFINE f == Frame(h, <<>>, t)
           room == Nesting - Len(frames)
<1>3. t \in Tasks /\ room \in 1..Nesting /\ t = CallAfter(frames, Len(frames), document)
  BY FocusMeans
<1> HIDE DEF room
<1>4. Meanings[room][t] = EndOf(f)
  BY <1>2, <1>3, PrimitiveIsKnown
<1>5. EndOf(f) = Means(ExprOf(f))
  BY <1>2 DEF EndOf
<1> HIDE DEF f
<1>6. focus # None /\ frames \in Seq(ToSet(frames)) /\ Framed(frames, document)
  BY DEF None, IInv, FramesProgress, MeaningInv
<1>7. \A i \in 1..Len(frames) : IsFrame(frames[i], built) /\ EntriesTaken(frames[i]) /\ Awaits(frames[i])
  BY <1>6, AllAwait
<1>8. Return(ExprOf(f), frames)
  BY <1>2 DEF f
<1> QED  BY <1>3, <1>4, <1>5, <1>6, <1>7, <1>8, ReturnMeans DEF room

LEMMA FinishTypeMeans == ASSUME IInv, MeaningInv, FinishType PROVE MeaningInv'
<1> DEFINE below == Front(frames)
           room == Nesting - (Len(frames) - 1)
<1>1. /\ focus = None /\ frames # <<>> /\ Top.taken = Len(Top.items) /\ FlawOf(Top) = None
      /\ Return(ExprOf(Top), below)
  BY DEF FinishType, Complete
<1>2. /\ below \in Seq(ToSet(below)) /\ Len(frames) \in Nat \ {0}
      /\ Len(below) = Len(frames) - 1 /\ Top = frames[Len(frames)]
      /\ \A i \in 1..(Len(frames) - 1) : below[i] = frames[i]
  BY <1>1, Popped DEF IInv, FramesProgress, Top
<1>3. /\ room \in 1..Nesting /\ Originates(Top) /\ IsFrame(Top, built)
      /\ PartsMean(Top, Meanings[room - 1])
  BY <1>1, TopMeans
<1>4. HasParts(Top)
  BY <1>1 DEF IInv, FramesProgress
<1>5. Framed(below, document) /\ Top.call = CallAfter(below, Len(below), document)
  <2>1. frames \in Seq(ToSet(frames)) /\ Framed(frames, document)
    BY DEF IInv, FramesProgress, MeaningInv
  <2> QED  BY <1>1, <1>2, <2>1, FramedPop
<1>6. \A i \in 1..Len(below) : IsFrame(below[i], built) /\ EntriesTaken(below[i]) /\ Awaits(below[i])
  <2> TAKE i \in 1..Len(below)
  <2>1. i \in 1..(Len(frames) - 1) /\ i \in 1..Len(frames) /\ below[i] = frames[i]
    BY <1>2
  <2> QED  BY <2>1 DEF IInv, TypeOK, FramesProgress
<1>7. Nesting - Len(below) = room
  BY <1>2
<1> HIDE DEF room, below
<1>8. Meanings[room][Top.call] = EndOf(Top)
  BY <1>1, <1>3, <1>4, WholeIsKnown
<1>9. EndOf(Top) = Means(ExprOf(Top))
  BY <1>1 DEF EndOf
<1> QED  BY <1>1, <1>2, <1>5, <1>6, <1>7, <1>8, <1>9, ReturnMeans

\* The call a frame waits for decides the document if that of the frame does.
LEMMA NextDecides ==
  ASSUME NEW f, NEW S, IsFrame(f, S), EntriesTaken(f), Awaits(f), Originates(f),
         NEW room \in 1..Nesting, PartsMean(f, Meanings[room - 1]), NEW d,
         Decided(Meanings[room][f.call], d), InProgress(f) \in Tasks
  PROVE  room - 1 > 0 /\ Decided(Meanings[room - 1][InProgress(f)], d)
<1> DEFINE m == Meanings[room - 1][InProgress(f)]
<1>1. m.expr = None => Meanings[room][f.call] = m
  BY PartDecides
<1>2. room - 1 \in 0..Nesting
  BY NestingAssumption
<1>3. m # Unknown
  <2>1. Unknown.expr = None
    BY DEF Unknown
  <2> HIDE DEF m
  <2> QED  BY <1>1, <2>1 DEF Decided
<1>4. room - 1 > 0
  BY <1>2, <1>3, KnownRoom
<1> HIDE DEF m
<1>5. Decided(m, d)
  BY <1>1, <1>3 DEF Decided
<1> QED  BY <1>4, <1>5 DEF m

LEMMA EnteredFrame ==
  ASSUME NEW t \in Tasks, NEW h \in HeadOf(t.value, t.options), NEW v \in PartOf(h), NEW items,
         NEW room \in 1..Nesting, h.tag \in Wrappers \cup Loops,
         h.tag \in Wrappers => items = <<>>,
         h.tag \in Loops => Usable(h, v) /\ items = v.items,
         NEW f, f = Frame(h, items, t)
  PROVE  /\ Originates(f) /\ HeadIn(f) = h /\ PartIn(f) = v /\ f.call = t
         /\ f.tag = h.tag /\ f.options = h.options /\ f.items = items /\ f.taken = 0 /\ f.parts = <<>>
         /\ HandsDown(h) => h.options = t.options
<1>1. /\ f.call = t /\ f.tag = h.tag /\ f.options = h.options /\ f.items = items /\ f.taken = 0
      /\ f.parts = <<>>
  BY DEF Frame
<1>2. HeadOf(t.value, t.options) = Some(h)
  BY TaskMeans
<1>3. PICK form : Agrees(h, form, t.options)
  BY TaskMeans
<1>4. HeadIn(f) = h
  BY <1>1, <1>2, ChosenIsIt DEF HeadIn
<1>5. PartOf(h) = Some(v)
  BY <1>3, PartIsOne DEF Some, None
<1>6. PartIn(f) = v
  BY <1>4, <1>5, ChosenIsIt DEF PartIn
<1>7. HandsDown(h) => h.options = t.options
  BY <1>3 DEF Agrees
<1> QED  BY <1>1, <1>4, <1>6, <1>7 DEF Originates

LEMMA ParsePartMeans == ASSUME IInv, MeaningInv, ParsePart PROVE MeaningInv'
<1>0. PICK t \in focus : \E h \in HeadOf(t.value, t.options) : \E v \in PartOf(h) :
        /\ h.tag \in Wrappers
        /\ Enter(Frame(h, <<>>, t),
                 Some(Task(v, IF HandsDown(h) THEN h.options ELSE NoOptions,
                           Append(t.path, PartPath(h)))))
  BY DEF ParsePart
<1>01. PICK h \in HeadOf(t.value, t.options) : \E v \in PartOf(h) :
        /\ h.tag \in Wrappers
        /\ Enter(Frame(h, <<>>, t),
                 Some(Task(v, IF HandsDown(h) THEN h.options ELSE NoOptions,
                           Append(t.path, PartPath(h)))))
  BY <1>0
<1>1. PICK v \in PartOf(h) :
        /\ h.tag \in Wrappers
        /\ Enter(Frame(h, <<>>, t),
                 Some(Task(v, IF HandsDown(h) THEN h.options ELSE NoOptions,
                           Append(t.path, PartPath(h)))))
  BY <1>01
<1> DEFINE task == Task(v, IF HandsDown(h) THEN h.options ELSE NoOptions, Append(t.path, PartPath(h)))
           items == <<>>
           f == Frame(h, items, t)
           n == Len(frames)
           room == Nesting - n
<1>2. /\ n \in Nat /\ t \in Tasks /\ IsTask(t) /\ room \in 1..Nesting /\ room - 1 = Nesting - (n + 1)
      /\ CallMeans(t, frames, document) /\ Decided(Meanings[room][t], document)
  BY FocusMeans
<1>3. IsHead(h)
  BY <1>2, HeadIsHead DEF IsTask
<1>4. frames' = Append(frames, f) /\ focus' = {task} /\ UNCHANGED <<document, parsed, failure>>
  BY <1>1 DEF Enter, Some
<1>5. h.tag \in Wrappers \cup Loops /\ h.tag \notin Loops /\ items \in Seq(Json)
  BY <1>1 DEF Wrappers, Loops
<1>6. frames \in Seq(ToSet(frames)) /\ Framed(frames, document)
  BY DEF IInv, FramesProgress, MeaningInv
<1> HIDE DEF n, room
<1> DEFINE none == items
<1>7. /\ Originates(f) /\ HeadIn(f) = h /\ PartIn(f) = v /\ f.call = t
      /\ f.tag = h.tag /\ f.options = h.options /\ f.taken = 0 /\ f.parts = <<>>
      /\ HandsDown(h) => h.options = t.options
  <2>1. items = <<>>
    OBVIOUS
  <2> HIDE DEF items, none
  <2> QED  BY <1>2, <1>5, <2>1, EnteredFrame
<1>8. IsFrame(f, built)
  <2> HIDE DEF items, none
  <2> QED  BY <1>3, <1>5, NewFrame
<1> HIDE DEF f, task, none, items
<1>9. EntriesTaken(f) /\ Awaits(f) /\ f.tag \in Wrappers /\ f.tag # "struct" /\ f.tag # "enum"
  BY <1>1, <1>7 DEF EntriesTaken, Awaits, Wrappers
<1>10. PartsMean(f, Meanings[room - 1])
  BY <1>7, <1>9 DEF PartsMean
<1>11. InProgress(f) = task
  BY <1>7, <1>9 DEF InProgress, task
<1>12. task \in Tasks
  <2> DEFINE options == IF HandsDown(h) THEN h.options ELSE NoOptions
             path == Append(t.path, PartPath(h))
  <2>1. v \in Json
    BY <1>3, PartIsJson
  <2>2. t.path \in Seq(Segments) /\ t.options \in OptionMaps
    BY <1>2 DEF Tasks
  <2>3. options \in OptionMaps
    BY <1>7, <2>2, LevelOptions
  <2>4. path \in Seq(Segments)
    <3> DEFINE key == IF HandsDown(h) THEN "optional" ELSE IF h.tag = "dict" THEN "values" ELSE "of"
    <3>1. key \in {"of", "values", "optional", "fields", "type"}
      OBVIOUS
    <3>2. PartPath(h) = Key(key)
      BY DEF PartPath
    <3> HIDE DEF key
    <3> QED  BY <2>2, <3>1, <3>2, KeysAreSegments
  <2> HIDE DEF options, path
  <2>5. Task(v, options, path) \in Tasks
    BY <2>1, <2>3, <2>4, TaskIsTask
  <2> QED  BY <2>5 DEF task, options, path
<1>13. Framed(frames', document)
  BY <1>2, <1>4, <1>6, <1>7, <1>10, FramedPush DEF n
<1>14. /\ Len(frames') = n + 1 /\ n + 1 # 0
       /\ frames'[n + 1] = f
  BY <1>2, <1>4, <1>6, Pushed DEF n
<1>15. CallMeans(task, frames', document)
  <2>1. room - 1 > 0 /\ Decided(Meanings[room - 1][task], document)
    BY <1>2, <1>7, <1>8, <1>9, <1>10, <1>11, <1>12, NextDecides
  <2>2. n + 1 < Nesting
    BY <1>2, <2>1, NestingAssumption
  <2>3. task = CallAfter(frames', n + 1, document)
    BY <1>11, <1>14 DEF CallAfter
  <2> QED  BY <1>2, <1>12, <1>14, <2>1, <2>2, <2>3 DEF CallMeans
<1> QED  BY <1>4, <1>13, <1>15 DEF MeaningInv

LEMMA EnterLoopMeans == ASSUME IInv, MeaningInv, EnterLoop PROVE MeaningInv'
<1>0. PICK t \in focus : \E h \in HeadOf(t.value, t.options) : \E v \in PartOf(h) :
        /\ h.tag \in Loops /\ Usable(h, v) /\ Enter(Frame(h, v.items, t), None)
  BY DEF EnterLoop
<1>01. PICK h \in HeadOf(t.value, t.options) : \E v \in PartOf(h) :
        /\ h.tag \in Loops /\ Usable(h, v) /\ Enter(Frame(h, v.items, t), None)
  BY <1>0
<1>1. PICK v \in PartOf(h) :
        /\ h.tag \in Loops /\ Usable(h, v) /\ Enter(Frame(h, v.items, t), None)
  BY <1>01
<1> DEFINE items == v.items
           f == Frame(h, items, t)
           n == Len(frames)
           room == Nesting - n
<1>2. /\ n \in Nat /\ t \in Tasks /\ room \in 1..Nesting /\ room - 1 = Nesting - (n + 1)
      /\ CallMeans(t, frames, document)
  BY FocusMeans
<1>3. frames' = Append(frames, f) /\ focus' = {} /\ UNCHANGED <<document, parsed, failure>>
  BY <1>1 DEF Enter, None
<1>4. h.tag \in Wrappers \cup Loops /\ h.tag \notin Wrappers
  BY <1>1 DEF Wrappers, Loops
<1>5. frames \in Seq(ToSet(frames)) /\ Framed(frames, document)
  BY DEF IInv, FramesProgress, MeaningInv
<1> HIDE DEF n, room, items
<1>6. Originates(f) /\ f.call = t /\ f.tag = h.tag /\ f.items = items /\ f.taken = 0 /\ f.parts = <<>>
  <2>1. Usable(h, v) /\ items = v.items
    BY <1>1 DEF items
  <2> QED  BY <1>2, <1>4, <2>1, EnteredFrame
<1> HIDE DEF f
<1>7. PartsMean(f, Meanings[room - 1])
  <2>1. VariantsAmong(items, 0) = <<>> /\ Texts(items, 0) = {}
    BY NoVariants DEF Texts
  <2>2. Len(f.parts) = 0 /\ ToSet(f.parts) = {} /\ f.tag \notin Wrappers
    BY <1>4, <1>6, NoFrames DEF ToSet
  <2> DEFINE parts == f.parts
  <2>3. 1..Len(parts) = {} /\ 1..0 = {}
    BY <2>2
  <2> QED  BY <1>6, <2>1, <2>2, <2>3 DEF PartsMean
<1>8. Framed(frames', document)
  BY <1>2, <1>3, <1>5, <1>6, <1>7, FramedPush DEF n
<1> QED  BY <1>3, <1>8 DEF MeaningInv

LEMMA SameOrigin ==
  ASSUME NEW f, NEW g, g.call = f.call, g.tag = f.tag, g.options = f.options, g.items = f.items,
         Originates(f)
  PROVE  Originates(g) /\ HeadIn(g) = HeadIn(f) /\ PartIn(g) = PartIn(f)
<1>1. HeadIn(g) = HeadIn(f)
  BY DEF HeadIn
<1>2. PartIn(g) = PartIn(f)
  BY <1>1 DEF PartIn
<1> QED  BY <1>1, <1>2 DEF Originates

\* The innermost frame goes on to one of the same call.
LEMMA TakeMeans ==
  ASSUME IInv, MeaningInv, frames # <<>>, NEW f, f.call = Top.call, Originates(f),
         PartsMean(f, Meanings[Nesting - Len(frames)]),
         frames' = [frames EXCEPT ![Len(frames)] = f],
         UNCHANGED <<document, parsed, failure>>,
         \A t \in focus' : CallMeans(t, frames', document)
  PROVE  MeaningInv'
<1>1. frames \in Seq(ToSet(frames)) /\ Framed(frames, document) /\ Top = frames[Len(frames)]
  BY TopMeans DEF IInv, FramesProgress, MeaningInv
<1>2. Framed([frames EXCEPT ![Len(frames)] = f], document)
  BY <1>1, FramedReplace
<1> QED  BY <1>2 DEF MeaningInv

LEMMA TakeVariantMeans == ASSUME IInv, MeaningInv, TakeVariant PROVE MeaningInv'
<1> DEFINE n == Len(frames)
           k == Top.taken
           text == Upcoming.text
           f == [Top EXCEPT !.taken = @ + 1]
           g == [Top EXCEPT !.taken = @ + 1, !.parts = Append(@, Upcoming.text)]
           seen == text \in ToSet(Top.parts)
           more == IF seen THEN Top.parts ELSE Append(Top.parts, text)
           next == IF seen THEN f ELSE g
<1>1. /\ Looping("enum") /\ Upcoming.kind = "string" /\ focus = None /\ frames # <<>>
      /\ UNCHANGED <<document, focus, parsed, failure>>
  BY DEF TakeVariant, Looping
<1>2. /\ IsFrame(Top, built) /\ Top.tag = "enum" /\ Top = frames[n] /\ k \in Nat
      /\ n \in Nat \ {0} /\ n \in DOMAIN frames
  BY <1>1, LoopingFrame, Popped, LenProperties DEF IInv, FramesProgress
<1>3. frames' = [frames EXCEPT ![n] = next]
  BY <1>2 DEF TakeVariant, Take
<1>4. /\ next.tag = "enum" /\ next.options = Top.options /\ next.items = Top.items
      /\ next.call = Top.call /\ next.taken = k + 1 /\ next.parts = more
  BY <1>2 DEF IsFrame
<1>5. Originates(Top) /\ PartsMean(Top, Meanings[Nesting - n])
  BY <1>1, TopMeans
<1> HIDE DEF f, g, next, n, k
<1>6. /\ \A j \in 1..k : Top.items[j].kind = "string"
      /\ Top.parts = VariantsAmong(Top.items, k) /\ ToSet(Top.parts) = Texts(Top.items, k)
  BY <1>2, <1>5 DEF PartsMean, k
<1>7. Upcoming = Top.items[k + 1]
  BY DEF Upcoming, k
<1>8. more = VariantsAmong(Top.items, k + 1) /\ ToSet(more) = Texts(Top.items, k + 1)
  <2> DEFINE items == Top.items
             parts == Top.parts
  <2>1. parts = VariantsAmong(items, k) /\ ToSet(parts) = Texts(items, k) /\ text = items[k + 1].text
    BY <1>6, <1>7
  <2> HIDE DEF items, parts, text
  <2> QED  BY <1>2, <2>1, NextVariant DEF items, parts
<1>9. \A j \in 1..(k + 1) : Top.items[j].kind = "string"
  <2> TAKE j \in 1..(k + 1)
  <2>1. j = k + 1 \/ j \in 1..k
    BY <1>2
  <2> QED  BY <1>1, <1>6, <1>7, <2>1
<1> HIDE DEF more
<1>10. Originates(next) /\ PartsMean(next, Meanings[Nesting - n])
  <2>1. Originates(next)
    BY <1>2, <1>4, <1>5, SameOrigin
  <2>2. PartsMean(next, Meanings[Nesting - n])
    BY <1>4, <1>8, <1>9 DEF PartsMean, Wrappers
  <2> QED  BY <2>1, <2>2
<1>11. \A t \in focus' : CallMeans(t, frames', document)
  BY <1>1 DEF None
<1> QED  BY <1>1, <1>3, <1>4, <1>10, <1>11, TakeMeans DEF n

LEMMA TakeFieldMeans == ASSUME IInv, MeaningInv, TakeField PROVE MeaningInv'
<1> DEFINE n == Len(frames)
           k == Top.taken
           room == Nesting - (n - 1)
           at == Append(Top.call.path, Item("fields", Top.taken + 1))
           task == Task(Upcoming.items[3], OptionsAt(Upcoming.items, 4), Append(at, Key("type")))
           f == [Top EXCEPT !.taken = @ + 1]
<1>1. /\ Looping("struct") /\ IsEntry(Upcoming) /\ frames' = Take /\ focus' = {task}
      /\ UNCHANGED <<document, parsed, failure>> /\ focus = None /\ frames # <<>>
  BY DEF TakeField, Looping, Some
<1>2. /\ IsFrame(Top, built) /\ EntriesTaken(Top) /\ HasParts(Top) /\ Top.tag = "struct"
      /\ Top = frames[n] /\ k \in Nat /\ k + 1 \in 1..Len(Top.items) /\ Upcoming \in Json
      /\ n \in Nat \ {0} /\ n \in DOMAIN frames
  BY <1>1, LoopingFrame, Popped, LenProperties DEF IInv, FramesProgress
<1>3. frames' = [frames EXCEPT ![n] = f]
  BY <1>1, <1>2 DEF Take
<1>4. /\ f.tag = "struct" /\ f.options = Top.options /\ f.items = Top.items /\ f.parts = Top.parts
      /\ f.call = Top.call /\ f.taken = k + 1 /\ DOMAIN f = DOMAIN Top
  BY <1>2 DEF IsFrame
<1>5. /\ Originates(Top) /\ PartsMean(Top, Meanings[Nesting - n])
      /\ room \in 1..Nesting /\ room - 1 = Nesting - n
      /\ Decided(Meanings[room][Top.call], document)
  BY <1>1, TopMeans
<1>6. frames \in Seq(ToSet(frames))
  BY DEF IInv, FramesProgress
<1> HIDE DEF f, n, room
<1>7. IsFrame(f, built)
  BY <1>2, <1>4 DEF IsFrame
<1>8. EntriesTaken(f)
  <2>1. IsEntry(f.items[f.taken])
    BY <1>1, <1>4 DEF Upcoming
  <2>2. \A j \in 1..f.taken : j = f.taken \/ j \in 1..Top.taken
    BY <1>2, <1>4
  <2> QED  BY <1>2, <1>4, <2>1, <2>2 DEF EntriesTaken
<1>9. Awaits(f)
  BY <1>2, <1>4 DEF Awaits, HasParts
<1>10. Originates(f) /\ PartsMean(f, Meanings[Nesting - n])
  <2>1. Originates(f)
    BY <1>2, <1>4, <1>5, SameOrigin
  <2>2. PartsMean(f, Meanings[Nesting - n])
    BY <1>2, <1>4, <1>5 DEF PartsMean, Wrappers
  <2> QED  BY <2>1, <2>2
<1>11. InProgress(f) = task
  BY <1>4 DEF InProgress, Upcoming
<1>12. task \in Tasks
  <2>1. Upcoming.items \in Seq(Json) /\ Len(Upcoming.items) > 2
    BY <1>1, <1>2, JsonFacts DEF IsEntry
  <2>2. Upcoming.items[3] \in Json
    BY <2>1, LenProperties, ElementOfSeq
  <2>3. OptionsAt(Upcoming.items, 4) \in OptionMaps
    <3> DEFINE items == Upcoming.items
    <3>1. items \in Seq(Json)
      BY <2>1
    <3> HIDE DEF items
    <3>2. 4 <= Len(items) => items[4] \in Json
      BY <3>1, LenProperties, ElementOfSeq
    <3>3. OptionsAt(items, 4) \in OptionMaps
      BY <3>2, LevelOptions DEF OptionsAt
    <3> QED  BY <3>3 DEF items
  <2>4. Top.call.path \in Seq(Segments)
    BY <1>5 DEF Originates, Tasks
  <2>5. at \in Seq(Segments)
    BY <1>2, <2>4, KeysAreSegments
  <2> HIDE DEF at
  <2>6. Append(at, Key("type")) \in Seq(Segments)
    BY <2>5, KeysAreSegments
  <2> QED  BY <2>2, <2>3, <2>6, TaskIsTask
<1> HIDE DEF task, at
<1>13. /\ Len(frames') = n /\ n # 0 /\ frames'[n] = f
  BY <1>1, <1>2, <1>3, <1>6, Replaced DEF n
<1>14. CallMeans(task, frames', document)
  <2>1. room - 1 > 0 /\ Decided(Meanings[room - 1][task], document)
    BY <1>4, <1>5, <1>7, <1>8, <1>9, <1>10, <1>11, <1>12, NextDecides
  <2>2. n < Nesting
    BY <1>2, <1>5, <2>1, NestingAssumption
  <2>3. task = CallAfter(frames', n, document)
    BY <1>11, <1>13 DEF CallAfter
  <2> QED  BY <1>5, <1>12, <1>13, <2>1, <2>2, <2>3 DEF CallMeans
<1> QED  BY <1>1, <1>3, <1>4, <1>10, <1>14, TakeMeans DEF n

LEMMA StepMeaning == IInv /\ MeaningInv /\ [Next]_vars => MeaningInv'
<1> SUFFICES ASSUME IInv, MeaningInv, [Next]_vars PROVE MeaningInv'  OBVIOUS
<1>1. CASE UNCHANGED vars
  BY <1>1 DEF vars, MeaningInv
<1> QED  BY <1>1, RefusalsMean, ParsePrimitiveMeans, ParsePartMeans, EnterLoopMeans, TakeVariantMeans,
            TakeFieldMeans, FinishTypeMeans DEF Next

LEMMA InductiveMeaning == Spec => []MeaningInv
BY InitMeaning, StepMeaning, Inductive, PTL DEF Spec

\* When from_value returns CompileError::InvalidSchema, its path is that of the
\* first fault of the document, where the parts of a type come before its sizes:
\* no fault is met out of order, and no document that means something is refused.
THEOREM FailureIsFirst == Spec => []FailureIsFirstFault
<1>1. MeaningInv => FailureIsFirstFault
  BY DEF MeaningInv, FailureIsFirstFault, Faulty
<1> QED  BY <1>1, InductiveMeaning, PTL

-----------------------------------------------------------------------------
(* The whole compilation.  What is proved of build_ir is taken as it is:   *)
(* "Proved" is BuildIr as Compile takes it, with its theorems.             *)

Proved == INSTANCE BuildIrProofs WITH document <- Expr, Roots <- Exprs

LEMMA BuilderAssumptions == Proved!ExprsAssumption /\ Proved!TextAssumption
<1>1. \A e, S : IsExprOver(e, S) => Proved!IsExprOver(e, S)
  BY DEF IsExprOver, Proved!IsExprOver, IsNode, Proved!IsNode, Leaves, Proved!Leaves, Collections,
         Proved!Collections, AreBounds, Proved!AreBounds, IsOption, Proved!IsOption, None,
         Proved!None, Some, Proved!Some, Formats, Proved!Formats, ExtraBehaviors,
         Proved!ExtraBehaviors, OptionalNode, Proved!OptionalNode, ListNode, Proved!ListNode,
         DictNode, Proved!DictNode, StructNode, Proved!StructNode
<1>2. Proved!ExprsAssumption
  BY <1>1, MeaningsAssumption DEF Proved!ExprsAssumption, Proved!IsExpr
<1>3. Proved!TextAssumption
  BY TextAssumption
     DEF TextAssumption, Proved!TextAssumption, IsReading, Proved!IsReading, IsOption,
     Proved!IsOption, None, Proved!None, Some, Proved!Some, Formats, Proved!Formats
<1> QED  BY <1>2, <1>3

LEMMA BuilderSteps == Builder!Next => Proved!Next
<1>1. \A e : Builder!Frame(e) = Proved!Frame(e)
  BY DEF Builder!Frame, Proved!Frame
<1>2. \A e, ids : Builder!NodeOf(e, ids) = Proved!NodeOf(e, ids)
  BY DEF Builder!NodeOf, Proved!NodeOf, Builder!Leaves, Proved!Leaves, Builder!Field, Proved!Field,
         Builder!OptionalNode, Proved!OptionalNode, Builder!ListNode, Proved!ListNode,
         Builder!DictNode, Proved!DictNode, Builder!StructNode, Proved!StructNode
<1>3. \A e : Builder!Components(e) = Proved!Components(e)
  BY DEF Builder!Components, Proved!Components, Builder!Leaves, Proved!Leaves
<1>4. Builder!Top = Proved!Top
  BY DEF Builder!Top, Proved!Top, Builder!Last, Proved!Last
<1>5. \A id : Builder!Deliver(id) <=> Proved!Deliver(id)
  BY DEF Builder!Deliver, Proved!Deliver, Builder!Front, Proved!Front, Builder!Some, Proved!Some
<1> QED  BY <1>1, <1>2, <1>3, <1>4, <1>5
         DEF Builder!Next, Proved!Next, Builder!BuildComponent, Proved!BuildComponent,
             Builder!InternNew, Proved!InternNew, Builder!InternKnown, Proved!InternKnown,
             Builder!Pending, Proved!Pending, Builder!TopNode, Proved!TopNode

LEMMA BuilderUnfolds == \A id : Unfold(id) = Proved!Unfolding(nodes)[id]
BY DEF Unfold, Builder!Unfolding, Proved!Unfolding, Builder!Unfolded, Proved!Unfolded, Builder!Leaves,
       Proved!Leaves, Builder!Field, Proved!Field, Builder!StructNode, Proved!StructNode

Building == Proved!IInv /\ Proved!UnfoldInv

LEMMA BuildKeeps ==
  ASSUME Building, Builder!Next \/ (UNCHANGED <<vars, building>>)
  PROVE  Building'
<1>1. [Proved!Next]_(Proved!vars)
  BY BuilderSteps DEF Proved!vars, vars, building, Expr
<1>2. Proved!IInv'
  BY <1>1, BuilderAssumptions, Proved!StepIInv DEF Building
<1>3. Proved!UnfoldInv'
  BY <1>1, BuilderAssumptions, Proved!StepUnfolds DEF Building
<1> QED  BY <1>2, <1>3 DEF Building

LEMMA BuildStarts == Proved!Init => Building
BY BuilderAssumptions, Proved!InitIInv, Proved!InitUnfolds DEF Building

\* The names in the plan are those of the document's fields.
LEMMA RootIsDocument ==
  ASSUME Building, NEW id \in root
  PROVE  /\ Unfold(id) = Expr /\ RootNames(Expr) = ToSet(FieldNames(id))
         /\ DOMAIN FieldNames(id) \subseteq Nat
<1>1. /\ Expr \in Exprs /\ Unfold(id) = Expr
      /\ \E ids : nodes[id] = Proved!NodeOf(Expr, ids)
  BY BuilderAssumptions, BuilderUnfolds, Proved!RootIsMade DEF Building
<1>2. PICK ids : nodes[id] = Proved!NodeOf(Expr, ids)
  BY <1>1
<1>4. PICK e : e = Expr
  OBVIOUS
<1>5. IsExprOver(e, Exprs)
  BY <1>1, <1>4, MeaningsAssumption
<1>6. nodes[id] = Proved!NodeOf(e, ids)
  BY <1>2, <1>4
<1>7. RootNames(e) = ToSet(FieldNames(id)) /\ DOMAIN FieldNames(id) \subseteq Nat
  <2>1. CASE e.kind = "struct"
    <3> DEFINE F == [name : Text, required : BOOLEAN, of : Exprs]
    <3>1. e.fields \in Seq(F)
      BY <1>5, <2>1 DEF IsExprOver, Leaves
    <3> HIDE DEF F
    <3>2. Len(e.fields) \in Nat /\ DOMAIN e.fields = 1..Len(e.fields)
      BY <3>1, LenProperties
    <3>3. /\ nodes[id].kind = "struct"
          /\ nodes[id].fields = [i \in 1..Len(e.fields) |-> Proved!Field(e.fields[i].name, e.fields[i].required, ids[i])]
      BY <1>6, <2>1 DEF Proved!NodeOf, Proved!StructNode, Proved!Leaves
    <3>4. FieldNames(id) = [i \in 1..Len(e.fields) |-> e.fields[i].name]
      BY <3>3 DEF FieldNames, Proved!Field
    <3> QED  BY <2>1, <3>2, <3>4 DEF RootNames, ToSet
  <2>2. CASE e.kind # "struct"
    <3>1. nodes[id].kind # "struct"
      BY <1>5, <1>6, <2>2
         DEF Proved!NodeOf, Proved!Leaves, Proved!OptionalNode, Proved!ListNode, Proved!DictNode,
         IsExprOver, Leaves
    <3>2. FieldNames(id) = <<>> /\ RootNames(e) = {}
      BY <2>2, <3>1 DEF FieldNames, RootNames
    <3> QED  BY <3>2 DEF ToSet
  <2> QED  BY <2>1, <2>2
<1> QED  BY <1>1, <1>4, <1>7

LEMMA OffsetsExist ==
  ASSUME NEW widths \in Seq(1..4)
  PROVE  \E g : g = [n \in 0..Len(widths) |-> IF n = 0 THEN 0 ELSE g[n - 1] + widths[n]]
<1> DEFINE L(g, n) == IF n = 0 THEN 0 ELSE g[n - 1] + widths[n]
           S == {m \in Nat : m <= Len(widths) => \E g : g = [n \in 0..m |-> L(g, n)]}
<1>1. ASSUME NEW g, NEW h, NEW n \in Nat, n = 0 \/ g[n - 1] = h[n - 1]
      PROVE  L(g, n) = L(h, n)
  BY <1>1
<1> HIDE DEF L
<1>2. 0 \in S
  <2> DEFINE g == [n \in 0..0 |-> L(<<>>, 0)]
  <2>1. \A n \in 0..0 : L(g, n) = L(<<>>, 0)
    <3> HIDE DEF g
    <3>1. L(g, 0) = L(<<>>, 0)
      BY <1>1
    <3> QED  BY <3>1
  <2>2. g = [n \in 0..0 |-> L(g, n)]
    BY <2>1
  <2> HIDE DEF g
  <2> QED  BY <2>2
<1>3. ASSUME NEW m \in Nat, m \in S PROVE m + 1 \in S
  <2> SUFFICES ASSUME m + 1 <= Len(widths) PROVE \E g : g = [n \in 0..(m + 1) |-> L(g, n)]
    OBVIOUS
  <2>1. PICK g : g = [n \in 0..m |-> L(g, n)]
    BY <1>3, LenProperties
  <2> DEFINE h == [n \in 0..(m + 1) |-> IF n <= m THEN g[n] ELSE L(g, n)]
  <2>2. ASSUME NEW n \in 0..(m + 1) PROVE h[n] = L(h, n)
    <3>1. n = 0 \/ g[n - 1] = h[n - 1]
      OBVIOUS
    <3> HIDE DEF h
    <3>2. L(h, n) = L(g, n)
      BY <3>1, <1>1
    <3> QED  BY <2>1, <3>2 DEF h
  <2>3. h = [n \in 0..(m + 1) |-> h[n]]
    OBVIOUS
  <2> HIDE DEF h
  <2>4. h = [n \in 0..(m + 1) |-> L(h, n)]
    BY <2>2, <2>3
  <2> QED  BY <2>4
<1>4. Len(widths) \in S
  <2> HIDE DEF S
  <2> QED  BY <1>2, <1>3, SetInduction, LenProperties
<1> QED  BY <1>4, LenProperties DEF L

\* The bytes up to a character, and where a text longer than the limit passes it.
LEMMA OffsetsAre ==
  ASSUME NEW widths \in Seq(1..4)
  PROVE  /\ Offsets(widths)[0] = 0
         /\ \A n \in 0..Len(widths) : Offsets(widths)[n] \in Nat
<1> DEFINE u == Offsets(widths)
<1>1. u = [n \in 0..Len(widths) |-> IF n = 0 THEN 0 ELSE u[n - 1] + widths[n]]
  BY OffsetsExist DEF Offsets
<1>2. Len(widths) \in Nat /\ \A n \in 1..Len(widths) : widths[n] \in 1..4
  BY ElementOfSeq, LenProperties
<1> HIDE DEF u
<1>3. u[0] = 0
  BY <1>1, <1>2
<1> DEFINE S == {n \in Nat : n <= Len(widths) => u[n] \in Nat}
<1>4. ASSUME NEW n \in Nat, n \in S PROVE n + 1 \in S
  <2> SUFFICES ASSUME n + 1 <= Len(widths) PROVE u[n + 1] \in Nat
    OBVIOUS
  <2>1. u[n] \in Nat /\ widths[n + 1] \in 1..4
    BY <1>2, <1>4
  <2>2. u[n + 1] = u[n] + widths[n + 1]
    BY <1>1, <1>2
  <2> QED  BY <2>1, <2>2
<1>5. Nat \subseteq S
  <2>1. 0 \in S
    BY <1>3
  <2> HIDE DEF S
  <2> QED  BY <1>4, <2>1, SetInduction
<1> QED  BY <1>2, <1>3, <1>5 DEF u

LEMMA LimitIsPassed ==
  ASSUME source \in Sources, CutsCharacter
  PROVE  \E n \in DOMAIN source.widths : Bytes(n - 1) < Limit /\ Bytes(n) > Limit
<1> DEFINE beyond == {n \in 0..Len(source.widths) : Bytes(n) > Limit}
           n == Min(beyond)
<1>1. /\ source.widths \in Seq(1..4) /\ Limit \in Nat
  BY SourcesAssumption DEF IsSource
<1>2. Len(source.widths) \in Nat /\ DOMAIN source.widths = 1..Len(source.widths)
  BY <1>1, LenProperties
<1>3. Bytes(0) = 0 /\ \A k \in 0..Len(source.widths) : Bytes(k) \in Nat
  BY <1>1, OffsetsAre DEF Bytes
<1>4. Len(source.widths) \in beyond /\ \A k \in 0..Len(source.widths) : Bytes(k) # Limit
  BY <1>2 DEF CutsCharacter, Length
<1>5. n \in beyond /\ \A k \in beyond : n <= k
  <2>1. beyond \subseteq Nat /\ beyond # {}
    BY <1>2, <1>4
  <2> HIDE DEF beyond
  <2> QED  BY <2>1, MinOfSome
<1> HIDE DEF n
<1>6. n # 0 /\ n \in 1..Len(source.widths) /\ n - 1 \in 0..Len(source.widths)
  BY <1>1, <1>2, <1>3, <1>5
<1>7. n - 1 \notin beyond
  <2> HIDE DEF beyond
  <2> QED  BY <1>5, <1>6
<1> QED  BY <1>1, <1>2, <1>3, <1>4, <1>5, <1>6, <1>7

\* A text is parsed, and its document known; nothing is built yet, or build_ir
\* has been called for what the document means.
Parsing ==
  /\ HasText /\ ~source.nul /\ source.json = {document}
  /\ IInv /\ MeaningInv
Untouched ==
  /\ nodes = <<>> /\ interned = <<>> /\ root = None

CInv ==
  /\ source \in Sources
  /\ stage \in {"coerce", "parse", "build"} \cup Ends
  /\ stage = "coerce" =>
       /\ frames = <<>> /\ built = {} /\ parsed = None /\ failure = None
       /\ Untouched
  /\ stage = "parse" => Parsing /\ Untouched
  /\ stage = "build" => Parsing /\ parsed # None /\ Building
  /\ CompiledMeansDocument
  /\ EndHasReason

LEMMA InitCInv == CInit => CInv
BY DEF CInit, CInv, Untouched, CompiledMeansDocument, EndHasReason, Ends

LEMMA ParsedMeans ==
  ASSUME Parsing, parsed # None
  PROVE  parsed = {Expr} /\ MeaningOf(document) = Some(Expr)
<1>1. \A e \in parsed : Meaning(document) = Means(e)
  BY DEF Parsing, MeaningInv
<1>2. \A e, f \in parsed : e = f
  BY <1>1 DEF Means, Some
<1>3. Expr \in parsed
  BY DEF Expr, None
<1> HIDE DEF Expr
<1> QED  BY <1>1, <1>2, <1>3 DEF MeaningOf, Means

LEMMA ParsingStays == ASSUME Parsing, UNCHANGED <<source, vars>> PROVE Parsing'
<1>1. [Next]_vars /\ document' = document
  BY DEF vars
<1> QED  BY <1>1, StepIInv, StepMeaning DEF Parsing, HasText

LEMMA EndKeeps ==
  ASSUME CInv, NEW how \in Ends, End(how), how # "compiled", EndHasReason'
  PROVE  CInv'
BY DEF CInv, End, CompiledMeansDocument, Ends

LEMMA CoerceKeeps ==
  ASSUME CInv, CoerceRaises \/ RefuseText
  PROVE  CInv'
<1>1. source' = source /\ stage = "coerce" /\ source \in Sources /\ IsSource(source)
  BY SourcesAssumption DEF CoerceRaises, RefuseText, End, CInv
<1>2. CASE CoerceRaises
  <2>1. EndHasReason'
    BY <1>1, <1>2 DEF CoerceRaises, End, EndHasReason, HasText, IsSource
  <2> QED  BY <1>2, <2>1, EndKeeps DEF CoerceRaises, Ends
<1>3. CASE RefuseText
  <2>1. EndHasReason'
    BY <1>1, <1>3 DEF RefuseText, End, EndHasReason, HasText, IsSource, None
  <2> QED  BY <1>3, <2>1, EndKeeps DEF RefuseText, Ends
<1> QED  BY <1>2, <1>3

LEMMA StartParseKeeps == ASSUME CInv, StartParse PROVE CInv'
<1>1. PICK d \in source.json : document' = d /\ focus' = Some(Task(d, NoOptions, <<>>))
  BY DEF StartParse
<1>2. /\ source \in Sources /\ HasText /\ ~source.nul /\ source' = source /\ stage' = "parse"
      /\ IsOption(source.json, Documents)
      /\ frames' = <<>> /\ built' = {} /\ parsed' = None /\ failure' = None
      /\ Untouched /\ Untouched'
  BY SourcesAssumption DEF StartParse, CInv, IsSource, building, Untouched
<1>3. d \in Documents /\ source.json = {d}
  BY <1>1, <1>2 DEF IsOption, Some, None
<1>4. Init'
  BY <1>1, <1>2, <1>3 DEF Init
<1>5. IInv'
  BY <1>4, InitIInv, PTL
<1>6. MeaningInv'
  BY <1>4, InitMeaning, PTL
<1> QED  BY <1>1, <1>2, <1>3, <1>5, <1>6
         DEF CInv, Parsing, HasText, CompiledMeansDocument, EndHasReason, Ends

LEMMA ParseKeeps == ASSUME CInv, Parse PROVE CInv'
<1>1. /\ stage = "parse" /\ Next /\ source' = source /\ stage' = stage
      /\ Parsing /\ Untouched /\ Untouched'
  BY DEF Parse, CInv, Untouched, building
<1>2. document' = document
  BY <1>1 DEF Next, RefuseType, ParsePrimitive, RefusePrimitive, ParsePart, EnterLoop, TakeVariant,
     RefuseVariant, TakeField, RefuseField, FinishType, RefuseWhole, Refuse, Return, Enter
<1>3. IInv' /\ MeaningInv'
  BY <1>1, StepIInv, StepMeaning DEF Parsing
<1> QED  BY <1>1, <1>2, <1>3
         DEF CInv, Parsing, HasText, CompiledMeansDocument, EndHasReason, Ends

LEMMA RefuseDocumentKeeps == ASSUME CInv, RefuseDocument PROVE CInv'
<1>1. /\ stage = "parse" /\ source' = source /\ stage' = "refused" /\ failure # None
      /\ Parsing /\ End("refused")
  BY DEF RefuseDocument, CInv, End
<1>2. MeaningOf(document) = None
  BY <1>1 DEF Parsing, MeaningInv, MeaningOf, Faulty, None
<1>3. EndHasReason'
  BY <1>1, <1>2 DEF EndHasReason, Parsing, HasText
<1> QED  BY <1>1, <1>3, EndKeeps DEF Ends

LEMMA AbortSummaryKeeps == ASSUME CInv, AbortSummary PROVE CInv'
<1>1. /\ stage = "parse" /\ source' = source /\ stage' = "aborted" /\ parsed # None
      /\ Parsing /\ End("aborted") /\ CutsCharacter /\ source \in Sources
  BY DEF AbortSummary, CInv, End
<1>2. MeaningOf(document) # None
  BY <1>1, ParsedMeans DEF Some, None
<1>3. \E n \in DOMAIN source.widths : Bytes(n - 1) < Limit /\ Bytes(n) > Limit
  BY <1>1, LimitIsPassed
<1>4. \A n : Bytes(n)' = Bytes(n)
  BY <1>1 DEF Bytes
<1>5. EndHasReason'
  BY <1>1, <1>2, <1>3, <1>4 DEF EndHasReason, Parsing, HasText
<1> QED  BY <1>1, <1>5, EndKeeps DEF Ends

LEMMA StartBuildKeeps == ASSUME CInv, StartBuild PROVE CInv'
<1>1. /\ stage = "parse" /\ source' = source /\ stage' = "build" /\ parsed # None
      /\ Parsing /\ Untouched /\ UNCHANGED vars
      /\ stack' = <<Builder!Frame(Expr)>> /\ nodes' = nodes /\ interned' = interned /\ root' = root
  BY DEF StartBuild, CInv
<1>2. parsed = {Expr} /\ MeaningOf(document) = Some(Expr) /\ document \in Documents
  BY <1>1, ParsedMeans DEF Parsing, IInv, TypeOK
<1>3. Expr \in Exprs
  BY <1>2, MeaningsAssumption DEF MeaningOf, Some
<1>4. Expr' = Expr
  BY <1>1 DEF Expr, vars
<1>5. Proved!Init'
  BY <1>1, <1>3, <1>4 DEF Proved!Init, Untouched, Builder!Frame, Proved!Frame, None, Proved!None
<1>6. Building'
  BY <1>5, BuildStarts, PTL
<1>7. Parsing'
  BY <1>1, ParsingStays
<1> QED  BY <1>1, <1>6, <1>7 DEF CInv, vars, CompiledMeansDocument, EndHasReason, Ends

LEMMA BuildStageKeeps == ASSUME CInv, Build PROVE CInv'
<1>1. /\ stage = "build" /\ source' = source /\ stage' = "build" /\ parsed # None
      /\ Parsing /\ Building /\ UNCHANGED vars /\ Builder!Next
  BY DEF Build, CInv
<1>2. Building'
  BY <1>1, BuildKeeps
<1>3. Parsing'
  BY <1>1, ParsingStays
<1> QED  BY <1>1, <1>2, <1>3 DEF CInv, vars, CompiledMeansDocument, EndHasReason, Ends

LEMMA PlanKeeps == ASSUME CInv, AbortPlan \/ PlanRaises PROVE CInv'
<1>1. PICK id \in root :
        /\ stage = "build" /\ OddNames(FieldNames(id)) # {}
        /\ \/ FirstOdd(FieldNames(id)) \in Nul /\ End("aborted")
           \/ FirstOdd(FieldNames(id)) \notin Nul /\ End("raised")
  BY DEF AbortPlan, PlanRaises
<1>2. Parsing /\ parsed # None /\ Building /\ source' = source
  BY <1>1 DEF CInv, End
<1>3. MeaningOf(document) = Some(Expr) /\ RootNames(Expr) = ToSet(FieldNames(id))
  BY <1>2, ParsedMeans, RootIsDocument
<1> DEFINE names == FieldNames(id)
<1>4. OddNames(names) \subseteq Nat
  BY <1>2, RootIsDocument DEF OddNames
<1>5. FirstOdd(names) \in RootNames(Expr) /\ FirstOdd(names) \in Nul \cup Beyond
  <2>1. Min(OddNames(names)) \in OddNames(names)
    BY <1>1, <1>4, MinOfSome
  <2> QED  BY <1>3, <2>1 DEF FirstOdd, OddNames, ToSet
<1> HIDE DEF names
<1>6. EndHasReason'
  <2>1. MeaningOf(document) # None /\ source.json = {document}
    BY <1>2, <1>3 DEF Some, None, Parsing
  <2>2. FirstOdd(names) \in Nul => MeansNameIn(document, Nul)
    BY <1>3, <1>5 DEF MeansNameIn, Some
  <2>3. FirstOdd(names) \notin Nul => MeansNameIn(document, Beyond)
    BY <1>3, <1>5 DEF MeansNameIn, Some
  <2> QED  BY <1>1, <1>2, <2>1, <2>2, <2>3 DEF EndHasReason, Parsing, HasText, End, names
<1> QED  BY <1>1, <1>6, EndKeeps DEF Ends

LEMMA FinishKeeps == ASSUME CInv, Finish PROVE CInv'
<1>1. PICK id \in root : stage = "build" /\ stage' = "compiled" /\ plan' = FieldNames(id)
                         /\ UNCHANGED <<source, vars, building>>
  BY DEF Finish
<1>2. Parsing /\ parsed # None /\ Building
  BY <1>1 DEF CInv
<1>3. /\ MeaningOf(document) = Some(Expr) /\ source.json = {document}
      /\ Unfold(id) = Expr /\ RootNames(Expr) = ToSet(FieldNames(id))
  BY <1>2, ParsedMeans, RootIsDocument DEF Parsing
<1>4. source' = source /\ root' = root /\ Unfold(id)' = Unfold(id)
  BY <1>1 DEF building, Unfold
<1>5. CompiledMeansDocument'
  BY <1>1, <1>3, <1>4 DEF CompiledMeansDocument
<1>6. EndHasReason'
  BY <1>1, <1>2, <1>3 DEF EndHasReason, Parsing, HasText, Some, None, Ends
<1> QED  BY <1>1, <1>4, <1>5, <1>6 DEF CInv, Ends

LEMMA StepCInv == CInv /\ [CNext]_cvars => CInv'
<1> SUFFICES ASSUME CInv, [CNext]_cvars PROVE CInv'  OBVIOUS
<1>1. CASE UNCHANGED cvars
  <2>1. Parsing => Parsing'
    BY <1>1, ParsingStays DEF cvars
  <2>2. Building => Building'
    BY <1>1, BuildKeeps DEF cvars
  <2>3. CompiledMeansDocument' /\ EndHasReason'
    BY <1>1 DEF CInv, cvars, building, CompiledMeansDocument, EndHasReason, HasText, Bytes, Unfold
  <2> QED  BY <1>1, <2>1, <2>2, <2>3 DEF CInv, cvars, vars, building, Untouched
<1> QED  BY <1>1, CoerceKeeps, StartParseKeeps, ParseKeeps, RefuseDocumentKeeps, AbortSummaryKeeps,
            StartBuildKeeps, BuildStageKeeps, PlanKeeps, FinishKeeps DEF CNext

LEMMA InductiveCompile == CSpec => []CInv
BY InitCInv, StepCInv, PTL DEF CSpec

\* The schema that SchemaCompiler::compile returns is what the document means:
\* its arena unfolds from its root to the expression of the whole document, and
\* its plan names the fields of the struct at that root and of no other.
THEOREM CompilesToMeaning == CSpec => []CompiledMeansDocument
BY InductiveCompile, PTL DEF CInv

\* compile refuses what means nothing and nothing else; it aborts only for a cut
\* inside a character or a NUL in a name at the root, and Ruby raises only for
\* the text or for a name at the root.
THEOREM EndsHaveReasons == CSpec => []EndHasReason
BY InductiveCompile, PTL DEF CInv
=============================================================================
