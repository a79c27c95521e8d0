----------------------------- MODULE SchemaGrammar -----------------------------
(***************************************************************************)
(* What a schema document means, said of the document as a whole and       *)
(* without the parser's control: the type it names, the options that reach *)
(* it, nearest first, and the meaning of its parts.                        *)
(***************************************************************************)
EXTENDS SchemaParse

CONSTANTS
  OptionMaps, \* the options of one level: the members of an object, or none
  Nesting     \* more types inside each other than any document has

ASSUME OptionMapsAssumption ==
  OptionMaps = {NoOptions} \cup {v.members : v \in {w \in Json : w.kind = "object"}}

\* A meaning is an expression, or the path of the first fault; nothing is known
\* of types that are nested deeper than there is room for.
Means(expr) == [expr |-> Some(expr), fault |-> None]
Faulty(path) == [expr |-> None, fault |-> Some(path)]
Unknown == [expr |-> None, fault |-> None]

\* Two maps of options, the nearer one first, are asked for a key, or for the
\* first of several keys any of them has.
Ask(near, far, key) ==
  IF key \in DOMAIN near THEN Some(near[key])
  ELSE IF key \in DOMAIN far THEN Some(far[key]) ELSE None
AskFirst(near, far, keys) ==
  LET known == {i \in DOMAIN keys : Ask(near, far, keys[i]) # None} IN
  IF known = {} THEN None ELSE Ask(near, far, keys[Min(known)])

Tags == [any |-> {"any"}, bool |-> {"bool", "boolean"}, int |-> {"int", "integer"},
         float |-> {"float", "double"}, str |-> {"str", "string"}, sym |-> {"sym", "symbol"},
         enum |-> {"enum"}, list |-> {"list"}, dict |-> {"dict"}, optional |-> {"optional"},
         struct |-> {"struct"}]
FormsNamed(name, near) ==
  {[type |-> t, near |-> near, part |-> None] : t \in {t \in DOMAIN Tags : Lower[name] \in Tags[t]}}

\* The long form of an expression: type, nearer options, part by position.  An
\* array keeps what follows its tag only if the tag is one of five in lower case.
Positional == {"enum", "list", "dict", "optional"}
IsTextual(v) == v.kind = "string"
LongForms(v) ==
  LET tagged == v.kind = "array" /\ v.items # <<>> /\ IsTextual(v.items[1])
      tag == v.items[1].text
      object(i) == IF i \in DOMAIN v.items /\ v.items[i].kind = "object"
                   THEN v.items[i].members ELSE NoOptions
  IN  IF v.kind = "string" THEN FormsNamed(v.text, NoOptions)
      ELSE IF v.kind = "object" /\ "type" \in DOMAIN v.members /\ IsTextual(v.members["type"])
      THEN FormsNamed(v.members["type"].text, v.members)
      ELSE IF ~tagged THEN {}
      ELSE IF tag \in Positional /\ Len(v.items) > 1
      THEN {[type |-> tag, part |-> Some(v.items[2]),
             near |-> IF tag \in {"list", "dict"} THEN object(3) ELSE NoOptions]}
      ELSE IF tag \in Positional THEN {[type |-> t, near |-> NoOptions, part |-> None] : t \in {tag} \cap {"enum"}}
      ELSE IF tag = "struct" THEN {[type |-> tag, near |-> object(2), part |-> None]}
      ELSE FormsNamed(tag, NoOptions)

\* A bound of a type, as an Option of an Option: absent, given, or wrong.
Readable(type, key, v) ==
  IF key = "format" THEN (IF IsTextual(v) /\ v.text \in Formats THEN Some(v.text) ELSE None)
  ELSE IF v.kind # "number" THEN None
  ELSE CASE type = "int" -> v.i64 [] type = "float" -> Some(v.f64) [] OTHER -> v.u64

\* The meaning of a type without parts, or of the size of a collection: the
\* keys are read in order.
Wrong(type, near, far, keys) ==
  {i \in DOMAIN keys : \E v \in Ask(near, far, keys[i]) : Readable(type, keys[i], v) = None}
Reading(type, near, far, keys, expr, path) ==
  LET wrong == Wrong(type, near, far, keys) IN
  IF wrong = {} THEN Means(expr) ELSE Faulty(Append(path, Key(keys[Min(wrong)])))

\* The option of a key, where it is given and right.
Read(form, far, key) == UNION {Readable(form.type, key, v) : v \in Ask(form.near, far, key)}
BoundsGiven(form, far, min, max) == [min |-> Read(form, far, min), max |-> Read(form, far, max)]

\* A list, a dict or an optional of what the part means: inner[task] is the
\* meaning of a type inside.
WholeOf(form, far, path, e) ==
  LET sizes == BoundsGiven(form, far, "min_size", "max_size")
      reading(expr) == Reading(form.type, form.near, far, <<"min_size", "max_size">>, expr, path)
  IN  CASE form.type = "optional" -> Means(OptionalNode(e))
        [] form.type = "list" -> reading(ListNode(e, sizes))
        [] form.type = "dict" -> reading(DictNode(e, sizes))

Wrapping(form, far, path, inner) ==
  LET keys == CASE form.type = "list" -> <<"of", "item">> [] form.type = "dict" -> <<"values", "value">>
                [] OTHER -> <<"of">>
      part == IF form.part # None THEN form.part ELSE AskFirst(form.near, far, keys)
      relayed == form.type = "optional" /\ form.part # None
      under == Key(IF relayed THEN "optional" ELSE IF form.type = "dict" THEN "values" ELSE "of")
      m == inner[Task(CHOOSE v \in part : TRUE, IF relayed THEN far ELSE NoOptions, Append(path, under))]
  IN  IF part = None THEN Faulty(path)
      ELSE IF m.expr = None THEN m
      ELSE WholeOf(form, far, path, CHOOSE e \in m.expr : TRUE)

\* An enum of distinct variants, in the order of their first occurrence.
FirstOccurrences(items) == {i \in DOMAIN items : \A j \in 1..(i - 1) : items[j].text # items[i].text}
Variants(items) ==
  LET new == FirstOccurrences(items)
      nth(n) == CHOOSE i \in {i \in new : Cardinality({j \in new : j <= i}) = n} : TRUE
  IN  [n \in 1..Cardinality(new) |-> items[nth(n)].text]

Enumerating(form, far, path) ==
  LET given == IF form.part # None THEN form.part ELSE AskFirst(form.near, far, <<"values", "in">>)
      items == (CHOOSE v \in given : TRUE).items
      bad == {i \in DOMAIN items : ~IsTextual(items[i])}
  IN  IF \A v \in given : v.kind # "array" \/ v.items = <<>> THEN Faulty(path)
      ELSE IF bad # {} THEN Faulty(Append(path, Item("values", Min(bad))))
      ELSE Means(EnumNode(Variants(items)))

\* A struct of the fields its entries mean, up to the first faulty one.
WellFormed(v) == /\ v.kind = "array" /\ Len(v.items) >= 3
                 /\ IsTextual(v.items[1]) /\ IsTextual(v.items[2])
                 /\ v.items[1].text \in {"required", "optional"}
Surrounding(v) == IF Len(v.items) > 3 /\ v.items[4].kind = "object" THEN v.items[4].members ELSE NoOptions
FieldMeaning(v, at, inner) ==
  IF WellFormed(v) THEN inner[Task(v.items[3], Surrounding(v), Append(at, Key("type")))] ELSE Faulty(at)

Structuring(form, far, path, inner) ==
  LET given == Ask(form.near, far, "fields")
      extra == Ask(form.near, far, "extra")
      entries == (CHOOSE v \in given : TRUE).items
      field(i) == FieldMeaning(entries[i], Append(path, Item("fields", i)), inner)
      faulty == {i \in DOMAIN entries : field(i).expr = None}
      made(i) == Field(entries[i].items[2].text, entries[i].items[1].text = "required",
                       CHOOSE e \in field(i).expr : TRUE)
      policy == IF extra = None THEN "forbid" ELSE (CHOOSE v \in extra : TRUE).text
  IN  IF \/ \A v \in given : v.kind # "array"
         \/ \E v \in extra : ~IsTextual(v) \/ v.text \notin ExtraBehaviors
      THEN Faulty(path)
      ELSE IF faulty # {} THEN field(Min(faulty))
      ELSE Means(StructNode([i \in DOMAIN entries |-> made(i)], policy))

FormMeaning(form, far, path, inner) ==
  LET range(min, max) == BoundsGiven(form, far, min, max)
      reading(keys, expr) == Reading(form.type, form.near, far, keys, expr, path)
  IN  CASE form.type = "any" -> Means(AnyNode)
        [] form.type = "bool" -> Means(BoolNode)
        [] form.type = "sym" -> Means(SymbolNode)
        [] form.type = "int" -> reading(<<"min", "max">>, IntNode(range("min", "max")))
        [] form.type = "float" -> reading(<<"min", "max">>, FloatNode(range("min", "max")))
        [] form.type = "str" -> reading(<<"min_size", "max_size", "format">>,
                                  StringNode(range("min_size", "max_size"), Read(form, far, "format")))
        [] form.type = "enum" -> Enumerating(form, far, path)
        [] form.type = "struct" -> Structuring(form, far, path, inner)
        [] form.type \in {"optional", "list", "dict"} -> Wrapping(form, far, path, inner)

MeaningFrom(t, inner) ==
  IF LongForms(t.value) = {} THEN Faulty(t.path)
  ELSE FormMeaning(CHOOSE form \in LongForms(t.value) : TRUE, t.options, t.path, inner)

\* Meanings[room][task]: what a value means among options, met at a path, with
\* room for so many types inside each other.
Segments == [key : {"of", "values", "optional", "fields", "type"}, item : Nat]
Tasks == [value : Json, options : OptionMaps, path : Seq(Segments)]
Meanings[room \in 0..Nesting] ==
  [t \in Tasks |-> IF room = 0 THEN Unknown ELSE MeaningFrom(t, Meanings[room - 1])]

Meaning(d) == Meanings[Nesting][Task(d, NoOptions, <<>>)]

ASSUME NestingAssumption ==
  /\ Nesting \in Nat
  /\ \A d \in Documents : Meaning(d) # Unknown

-----------------------------------------------------------------------------
\* The path in CompileError::InvalidSchema is that of the first fault, where
\* the parts of a type come before its sizes.
FailureIsFirstFault ==
  \A path \in failure : Meaning(document).fault = Some(path)
=============================================================================
