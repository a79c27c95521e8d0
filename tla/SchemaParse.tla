----------------------------- MODULE SchemaParse -----------------------------
(***************************************************************************)
(* The first half of Rustly::Core.compile: SchemaDocument::from_value and  *)
(* the parse_ functions of schema/compiler.rs turn a JSON document into    *)
(* the tree of a type expression, or refuse it with the path of the first  *)
(* fault.                                                                  *)
(*                                                                         *)
(* A type is written as a name, as an object with a "type", or as an array *)
(* that starts with a tag; options stand beside the name, in the array, or *)
(* in the entry of the field.  "focus" is the call of parse_type_expr that *)
(* is next, "frames" holds one frame for each parse_ function in progress. *)
(***************************************************************************)
EXTENDS SchemaIr, SequencesExt

CONSTANTS
  Json,       \* the JSON values that occur, closed under members and items
  Documents,  \* those that are compiled
  Lower       \* str::to_lowercase, on Text

\* A number has a value as an i64, as a u64 and as an f64, the last in tenths.
\* The members of an object are a function from its keys.
IsOptions(o) == o = [k \in DOMAIN o |-> o[k]] /\ \A k \in DOMAIN o : o[k] \in Json
IsJson(v) ==
  \/ v.kind \in {"null", "bool"}
  \/ v.kind = "string" /\ v.text \in Text
  \/ v.kind = "number" /\ IsOption(v.i64, Int) /\ IsOption(v.u64, Int) /\ v.f64 \in Int
  \/ v.kind = "array" /\ v.items \in Seq(Json)
  \/ v.kind = "object" /\ IsOptions(v.members)

ASSUME JsonAssumption == (\A v \in Json : IsJson(v)) /\ Documents \subseteq Json

VARIABLES
  document,
  focus,      \* an Option: the value to parse, the options around it, its path
  frames,     \* the functions in progress, the innermost last
  built,      \* history: the expressions they have returned
  parsed,     \* an Option: the document's expression
  failure     \* an Option: the path of the fault

vars == <<document, focus, frames, built, parsed, failure>>

NoOptions == <<>>
Task(value, options, path) == [value |-> value, options |-> options, path |-> path]

\* A segment of a path: a key, or an item (from one) of the array under a key.
Key(key) == [key |-> key, item |-> 0]
Item(key, i) == [key |-> key, item |-> i]

\* Mutant: the options of the field win over those beside the name.
MergeOuterWins(inline, outer) ==
  [k \in DOMAIN inline \cup DOMAIN outer |-> IF k \in DOMAIN outer THEN outer[k] ELSE inline[k]]

\* merge_options and inline_map_without.
Merge(inline, outer) ==
  [k \in DOMAIN inline \cup DOMAIN outer |-> IF k \in DOMAIN inline THEN inline[k] ELSE outer[k]]
Without(members, key) == [k \in DOMAIN members \ {key} |-> members[k]]

-----------------------------------------------------------------------------
(* The head of an expression: its tag, the options that reach it, and the  *)
(* part (element, value, inner type, variants) that an array gives by      *)
(* position.                                                               *)

Primitives == {"any", "bool", "int", "float", "str", "sym"}
Wrappers == {"optional", "list", "dict"}
Loops == {"enum", "struct"}
HeadAs(tag, part, options) == [tag |-> tag, part |-> part, options |-> options]

Aliases == [boolean |-> "bool", integer |-> "int", double |-> "float", string |-> "str",
            symbol |-> "sym"]

\* parse_named_type: names are matched in lower case, unlike the tags of arrays.
Named(name, options) ==
  LET canonical == Lower[name]
      tag == IF canonical \in DOMAIN Aliases THEN Aliases[canonical] ELSE canonical
  IN  IF tag \in Primitives \cup Wrappers \cup Loops THEN Some(HeadAs(tag, None, options)) ELSE None

ItemAt(items, i) == IF i <= Len(items) THEN Some(items[i]) ELSE None
OptionsAt(items, i) ==
  IF i <= Len(items) /\ items[i].kind = "object" THEN items[i].members ELSE NoOptions

\* parse_array_type.
Tagged(tag, items, outer) ==
  CASE tag = "optional" /\ Len(items) > 1 -> Some(HeadAs(tag, ItemAt(items, 2), outer))
    [] tag \in {"list", "dict"} /\ Len(items) > 1 ->
         Some(HeadAs(tag, ItemAt(items, 2), Merge(OptionsAt(items, 3), outer)))
    [] tag \in Wrappers /\ Len(items) = 1 -> None
    [] tag = "enum" -> Some(HeadAs(tag, ItemAt(items, 2), outer))
    [] tag = "struct" -> Some(HeadAs(tag, None, Merge(OptionsAt(items, 2), outer)))
    [] OTHER -> Named(tag, outer)

\* parse_type_expr, up to the function of the type; None: it is refused.
HeadOf(value, outer) ==
  CASE value.kind = "string" -> Named(value.text, outer)
    [] value.kind = "object" ->
         IF "type" \in DOMAIN value.members /\ value.members["type"].kind = "string"
         THEN Named(value.members["type"].text, Merge(Without(value.members, "type"), outer))
         ELSE None
    [] value.kind = "array" ->
         IF value.items # <<>> /\ value.items[1].kind = "string"
         THEN Tagged(value.items[1].text, value.items, outer)
         ELSE None
    [] OTHER -> None

\* The keys a part is looked up under when no position gives it.
PartKeys(tag) ==
  CASE tag = "list" -> <<"of", "item">>
    [] tag = "dict" -> <<"values", "value">>
    [] tag = "enum" -> <<"values", "in">>
    [] tag = "struct" -> <<"fields">>
    [] OTHER -> <<"of">>

PartOf(head) ==
  LET keys == PartKeys(head.tag) IN
  IF head.part # None THEN head.part
  ELSE IF keys[1] \in DOMAIN head.options THEN Some(head.options[keys[1]])
  ELSE IF keys[Len(keys)] \in DOMAIN head.options THEN Some(head.options[keys[Len(keys)]])
  ELSE None

\* The array of an optional is the one form that hands its options down.
HandsDown(head) == head.tag = "optional" /\ head.part # None
PartPath(head) ==
  Key(IF HandsDown(head) THEN "optional" ELSE IF head.tag = "dict" THEN "values" ELSE "of")

\* Mutant: any string is taken for a policy.
ExtraOfAny(options) ==
  IF "extra" \notin DOMAIN options THEN Some("forbid")
  ELSE IF options["extra"].kind = "string" THEN {options["extra"].text} ELSE None

\* parse_extra.
ExtraOf(options) ==
  IF "extra" \notin DOMAIN options THEN Some("forbid")
  ELSE IF options["extra"].kind = "string" THEN {options["extra"].text} \cap ExtraBehaviors ELSE None

\* Whether the part is there and of the shape its function goes through.
Usable(head, part) ==
  /\ head.tag \in Loops => part.kind = "array"
  /\ head.tag = "struct" => ExtraOf(head.options) # None

-----------------------------------------------------------------------------
(* Options and expressions.                                                *)

OptionKeys(tag) ==
  CASE tag \in {"int", "float"} -> <<"min", "max">>
    [] tag = "str" -> <<"min_size", "max_size", "format">>
    [] tag \in {"list", "dict"} -> <<"min_size", "max_size">>
    [] OTHER -> <<>>

\* parse_i64, parse_f64, parse_usize and the reading of a format.
OptionValue(tag, options, key) ==
  LET v == options[key] IN
  IF key \notin DOMAIN options THEN None
  ELSE IF key = "format" THEN (IF v.kind = "string" THEN {v.text} \cap Formats ELSE None)
  ELSE IF v.kind # "number" THEN None
  ELSE IF tag = "int" THEN v.i64 ELSE IF tag = "float" THEN Some(v.f64) ELSE v.u64

\* The options an apply_..._constraints function fails at, by their place in
\* its order.
WrongOptions(tag, options) ==
  {i \in DOMAIN OptionKeys(tag) : /\ OptionKeys(tag)[i] \in DOMAIN options
                                 /\ OptionValue(tag, options, OptionKeys(tag)[i]) = None}

BoundsOf(tag, options, min, max) ==
  [min |-> OptionValue(tag, options, min), max |-> OptionValue(tag, options, max)]

\* Mutant: the loop over the array starts at its second item.
FrameFromOne(head, items, call) ==
  [tag |-> head.tag, options |-> head.options, items |-> items, taken |-> 1,
   parts |-> <<>>, call |-> call]

\* A parse_ function in progress: what it goes through (the entries of a
\* struct, the variants of an enum) and has taken so far, its parts, and the
\* call of parse_type_expr it is in.
Frame(head, items, call) ==
  [tag |-> head.tag, options |-> head.options, items |-> items, taken |-> 0,
   parts |-> <<>>, call |-> call]

\* parse_field_entry: presence, name, type and perhaps options.
IsEntry(v) ==
  /\ v.kind = "array" /\ Len(v.items) > 2
  /\ v.items[1].kind = "string" /\ v.items[1].text \in {"required", "optional"}
  /\ v.items[2].kind = "string"
FieldOf(v, expr) == Field(v.items[2].text, v.items[1].text = "required", expr)

\* The expression of a function whose parts are known.
ExprOf(f) ==
  CASE f.tag = "any" -> AnyNode
    [] f.tag = "bool" -> BoolNode
    [] f.tag = "sym" -> SymbolNode
    [] f.tag = "int" -> IntNode(BoundsOf("int", f.options, "min", "max"))
    [] f.tag = "float" -> FloatNode(BoundsOf("float", f.options, "min", "max"))
    [] f.tag = "str" ->
         StringNode(BoundsOf("str", f.options, "min_size", "max_size"),
                    OptionValue("str", f.options, "format"))
    [] f.tag = "enum" -> EnumNode(f.parts)
    [] f.tag = "optional" -> OptionalNode(f.parts[1])
    [] f.tag = "list" -> ListNode(f.parts[1], BoundsOf("list", f.options, "min_size", "max_size"))
    [] f.tag = "dict" -> DictNode(f.parts[1], BoundsOf("dict", f.options, "min_size", "max_size"))
    [] f.tag = "struct" ->
         StructNode([i \in 1..Len(f.items) |-> FieldOf(f.items[i], f.parts[i])],
                    CHOOSE e \in ExtraOf(f.options) : TRUE)

\* What it may still fail at: the options are read when the parts are known.
FlawOf(f) ==
  LET wrong == WrongOptions(f.tag, f.options) IN
  IF f.tag = "enum" /\ f.parts = <<>> THEN Some(f.call.path)
  ELSE IF wrong # {} THEN Some(Append(f.call.path, Key(OptionKeys(f.tag)[Min(wrong)])))
  ELSE None

-----------------------------------------------------------------------------
Init ==
  /\ document \in Documents
  /\ focus = Some(Task(document, NoOptions, <<>>))
  /\ frames = <<>>
  /\ built = {}
  /\ parsed = None
  /\ failure = None

\* The first error ends every function in progress.
Refuse(path) ==
  /\ failure' = Some(path)
  /\ focus' = None
  /\ frames' = <<>>
  /\ UNCHANGED <<document, built, parsed>>

\* A function returns to the one below it, or to from_value.
Return(expr, below) ==
  /\ focus' = None
  /\ built' = built \cup {expr}
  /\ IF below = <<>>
     THEN frames' = <<>> /\ parsed' = Some(expr)
     ELSE /\ frames' = [below EXCEPT ![Len(below)].parts = Append(@, expr)]
          /\ UNCHANGED parsed
  /\ UNCHANGED <<document, failure>>

Enter(frame, next) ==
  /\ frames' = Append(frames, frame)
  /\ focus' = next
  /\ UNCHANGED <<document, built, parsed, failure>>

RefuseType ==
  \E t \in focus :
    LET heads == HeadOf(t.value, t.options) IN
    /\ \A h \in heads : h.tag \notin Primitives /\ ~\E v \in PartOf(h) : Usable(h, v)
    /\ Refuse(t.path)

ParsePrimitive ==
  \E t \in focus : \E h \in HeadOf(t.value, t.options) :
    LET f == Frame(h, <<>>, t) IN
    /\ h.tag \in Primitives
    /\ FlawOf(f) = None
    /\ Return(ExprOf(f), frames)

RefusePrimitive ==
  \E t \in focus : \E h \in HeadOf(t.value, t.options) :
    /\ h.tag \in Primitives
    /\ \E path \in FlawOf(Frame(h, <<>>, t)) : Refuse(path)

\* Mutant: what surrounds a list or a dict is handed down to its part.
ParsePartLeaky ==
  \E t \in focus : \E h \in HeadOf(t.value, t.options) : \E v \in PartOf(h) :
    /\ h.tag \in Wrappers
    /\ Enter(Frame(h, <<>>, t),
             Some(Task(v, h.options, Append(t.path, PartPath(h)))))

\* parse_list_type, parse_dict_type, parse_optional_type: their part comes
\* first...
ParsePart ==
  \E t \in focus : \E h \in HeadOf(t.value, t.options) : \E v \in PartOf(h) :
    /\ h.tag \in Wrappers
    /\ Enter(Frame(h, <<>>, t),
             Some(Task(v, IF HandsDown(h) THEN h.options ELSE NoOptions,
                       Append(t.path, PartPath(h)))))

\* ...parse_enum_type, parse_struct_type: they loop over an array.
EnterLoop ==
  \E t \in focus : \E h \in HeadOf(t.value, t.options) : \E v \in PartOf(h) :
    /\ h.tag \in Loops /\ Usable(h, v)
    /\ Enter(Frame(h, v.items, t), None)

Top == Last(frames)
Looping(tag) ==
  focus = None /\ frames # <<>> /\ Top.tag = tag /\ Top.taken < Len(Top.items)
Upcoming == Top.items[Top.taken + 1]
Take == [frames EXCEPT ![Len(frames)].taken = @ + 1]

\* Mutant: a repeated variant does not advance the loop.
TakeVariantStuck ==
  /\ Looping("enum") /\ Upcoming.kind = "string"
  /\ frames' = IF Upcoming.text \in ToSet(Top.parts) THEN frames
               ELSE [Take EXCEPT ![Len(frames)].parts = Append(@, Upcoming.text)]
  /\ UNCHANGED <<document, focus, built, parsed, failure>>

\* A variant is kept when it is seen for the first time.
TakeVariant ==
  /\ Looping("enum") /\ Upcoming.kind = "string"
  /\ frames' = IF Upcoming.text \in ToSet(Top.parts) THEN Take
               ELSE [Take EXCEPT ![Len(frames)].parts = Append(@, Upcoming.text)]
  /\ UNCHANGED <<document, focus, built, parsed, failure>>

RefuseVariant ==
  /\ Looping("enum") /\ Upcoming.kind # "string"
  /\ Refuse(Append(Top.call.path, Item("values", Top.taken + 1)))

TakeField ==
  LET at == Append(Top.call.path, Item("fields", Top.taken + 1)) IN
  /\ Looping("struct") /\ IsEntry(Upcoming)
  /\ frames' = Take
  /\ focus' = Some(Task(Upcoming.items[3], OptionsAt(Upcoming.items, 4), Append(at, Key("type"))))
  /\ UNCHANGED <<document, built, parsed, failure>>

RefuseField ==
  /\ Looping("struct") /\ ~IsEntry(Upcoming)
  /\ Refuse(Append(Top.call.path, Item("fields", Top.taken + 1)))

\* Every part of the innermost function is known.
Complete == focus = None /\ frames # <<>> /\ Top.taken = Len(Top.items)

FinishType == Complete /\ FlawOf(Top) = None /\ Return(ExprOf(Top), Front(frames))
RefuseWhole == Complete /\ \E path \in FlawOf(Top) : Refuse(path)

Next ==
  \/ RefuseType \/ ParsePrimitive \/ RefusePrimitive
  \/ ParsePart \/ EnterLoop
  \/ TakeVariant \/ RefuseVariant \/ TakeField \/ RefuseField
  \/ FinishType \/ RefuseWhole

\* One function call: nothing keeps it from its next step.
Spec == Init /\ [][Next]_vars /\ WF_vars(Next)

-----------------------------------------------------------------------------
PartsOf(tag, S) == IF tag = "enum" THEN Text ELSE S

\* Every frame is that of a function, whose parts are variants or expressions
\* of S.
IsFrame(f, S) ==
  /\ DOMAIN f = {"tag", "options", "items", "taken", "parts", "call"}
  /\ f.tag \in Wrappers \cup Loops
  /\ IsOptions(f.options)
  /\ f.items \in Seq(Json) /\ f.taken \in 0..Len(f.items)
  /\ f.parts \in Seq(PartsOf(f.tag, S))
IsTask(t) == t.value \in Json /\ IsOptions(t.options)

TypeOK ==
  /\ document \in Documents
  /\ \A t \in focus : IsTask(t)
  /\ \A i \in 1..Len(frames) : IsFrame(frames[i], built)
  /\ parsed \subseteq built

\* What the parser hands to build_ir: its result and every expression inside
\* are expressions, each of a kind build_type_expr knows, over others that were
\* built as well.
BuiltIsClosed == \A e \in built : IsExprOver(e, built)

=============================================================================
