------------------------------ MODULE MCCompile ------------------------------
(***************************************************************************)
(* Whole compilations: of the parser's documents, and of structs whose     *)
(* fields share components and notations of them, nested and at the root,  *)
(* with odd names on both levels; texts around the limit of a summary,     *)
(* here 3 bytes.                                                           *)
(***************************************************************************)
EXTENDS SchemaDocuments, Compile

\* An int and a list of it, in three notations each, and a faulty type.
Ints == {Str("int"), Typed("Int", [min |-> One]), Arr(<<Str("Int")>>)}
Lists == {Arr(<<Str("list"), i>>) : i \in Ints}
           \cup {Typed("list", [item |-> Str("int"), min_size |-> One])}
Types == Ints \cup Lists \cup {Arr(<<Str("optional"), Str("int")>>), Str("map")}

Required(name, type) == FieldEntry("required", name, type)
Flat == {StructOf(<<Required(n, t), Required("b", u)>>) : n \in {"a", "b", "nul"}, t, u \in Types}
Odd == {StructOf(<<Required(n, Str("any")), Required(o, Str("any"))>>) : n, o \in {"a", "nul", "wide"}}
Nested == {StructOf(<<Required("a", s), Required("b", Str("int"))>>) : s \in Odd \cup Lists}
            \cup {Arr(<<Str("optional"), s>>) : s \in Odd}
TheDocuments == ParserDocuments \cup Types \cup Flat \cup Odd \cup Nested \cup {StructOf(<<>>)}

Inside(v) ==
  CASE v.kind = "array" -> ToSet(v.items)
    [] v.kind = "object" -> {v.members[k] : k \in DOMAIN v.members}
    [] OTHER -> {}
Closure(S) == S \cup UNION {Inside(v) : v \in S}
TheJson == Closure(Closure(Closure(Closure(Closure(Closure(Closure(Closure(TheDocuments))))))))

\* Texts of a document: shorter than the limit, as long, and longer, with and
\* without a character that spans it.
Widths == {<<1, 1>>, <<1, 2>>, <<1, 1, 1, 1>>, <<2, 2>>, <<3, 1>>, <<1, 1, 2>>}
Source(text, nul, json, widths) == [text |-> text, nul |-> nul, json |-> json, widths |-> widths]
TheSources ==
  {Source("generated", FALSE, Some(d), <<1, 1>>) : d \in TheDocuments}
    \cup {Source("string", FALSE, Some(d), w) : d \in Ints \cup Odd, w \in Widths}
    \cup {Source(t, n, None, <<>>) : t \in {"string", "generated"}, n \in BOOLEAN}
    \cup {Source(t, FALSE, None, <<>>) : t \in {"none", "raised"}}

\* What these documents mean, and the components of that.
RECURSIVE PartsOfExpr(_)
PartsOfExpr(e) ==
  {e} \cup CASE e.kind \in Leaves -> {}
             [] e.kind = "struct" -> UNION {PartsOfExpr(e.fields[i].of) : i \in DOMAIN e.fields}
             [] OTHER -> PartsOfExpr(e.of)
TheExprs == UNION {PartsOfExpr(e) : e \in UNION {MeaningOf(d) : d \in TheDocuments}}

MCJson == TheJson
MCOptionMaps == {NoOptions} \cup {v.members : v \in {w \in Json : w.kind = "object"}}
MCDocuments == TheDocuments
MCExprs == TheExprs
MCSources == TheSources

-----------------------------------------------------------------------------
\* core.rbs: compile of any object returns a CompiledSchema, or else raises.
CompileAnswers == stage # "aborted"
=============================================================================
