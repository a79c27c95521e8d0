--------------------------- MODULE SchemaDocuments ---------------------------
(***************************************************************************)
(* Schema documents: every notation of every type with every option right, *)
(* wrong, repeated on two levels and misplaced, alone and as part of each  *)
(* other.  100 stands for a number beyond i64.                             *)
(***************************************************************************)
EXTENDS SchemaGrammar

Names == {"any", "boolean", "int", "float", "str", "sym", "enum", "list", "dict", "optional", "struct"}
Capitals == [Int |-> "int", List |-> "list", Optional |-> "optional", Enum |-> "enum"]
MCText == Names \cup DOMAIN Capitals
            \cup {"map", "a", "b", "email", "required", "forbid", "allow", "type", "nul", "wide"}
MCReads ==
  [t \in MCText |-> [bool |-> None, int |-> None, float |-> None, len |-> 1, formats |-> {}]]
MCLower == [t \in MCText |-> IF t \in DOMAIN Capitals THEN Capitals[t] ELSE t]

JsonNull == [kind |-> "null"]
Str(t) == [kind |-> "string", text |-> t]
Num(i64, u64, f64) == [kind |-> "number", i64 |-> i64, u64 |-> u64, f64 |-> f64]
Arr(items) == [kind |-> "array", items |-> items]
Obj(members) == [kind |-> "object", members |-> members]
One == Num(Some(1), Some(1), 10)
Two == Num(Some(2), Some(2), 20)
Negative == Num(Some(-1), None, -10)
Fraction == Num(None, None, 15)
Huge == Num(None, Some(100), 1000)
Numbers == {One, Negative, Fraction, Huge}

\* Options that stand beside a name and around an expression.
Beside ==
  {NoOptions} \cup {[min |-> n] : n \in Numbers} \cup {[min_size |-> n] : n \in Numbers}
    \cup {[format |-> f] : f \in {Str("email"), Str("a"), JsonNull}}
    \cup {[min |-> One, max |-> Two, max_size |-> Two], [min_size |-> Str("a"), max_size |-> Negative]}
Around == {NoOptions, [min |-> Two], [min_size |-> Two], [max_size |-> Negative],
           [of |-> Str("int"), values |-> Arr(<<Str("a")>>)], [extra |-> Str("allow")]}

Typed(name, options) == Obj(("type" :> Str(name)) @@ options)
Plain == {Str(n) : n \in {"any", "boolean", "Int", "float", "map"}}
Scalars ==
  {JsonNull, Obj(<<>>), Obj([type |-> One])} \cup Plain
    \cup {Typed(n, o) : n \in {"sym", "Int", "float", "str"}, o \in Beside}
    \cup {Arr(<<Str("str"), Obj([min_size |-> One])>>)}
Variants2 == {Arr(<<>>), Arr(<<Str("b"), Str("a"), Str("b")>>), Arr(<<Str("a"), One>>), Str("a")}
Enums ==
  {Arr(<<Str("enum"), v>>) : v \in Variants2} \cup {Arr(<<Str("Enum"), Arr(<<Str("b")>>)>>), Arr(<<Str("enum")>>)}
    \cup {Typed("enum", "in" :> v) : v \in Variants2}
    \cup {Typed("Enum", [values |-> Arr(<<Str("b")>>)] @@ ("in" :> v)) : v \in Variants2}

WrappedIn(v) ==
  {Arr(<<Str(n), v>>) : n \in {"list", "List", "dict", "optional", "Optional"}}
    \cup {Arr(<<Str(n), v, Obj(o)>>) : n \in {"list", "dict", "optional"},
                                       o \in {[min_size |-> One], [max_size |-> Negative], [of |-> Str("any")]}}
    \cup {Typed("list", [of |-> v]), Typed("list", [item |-> v, min_size |-> One]),
          Typed("List", [of |-> v, item |-> Str("int"), max_size |-> Fraction]),
          Typed("dict", [values |-> v, min_size |-> Huge]), Typed("dict", [value |-> v]),
          Typed("optional", [of |-> v, min |-> One]), Typed("optional", [item |-> v])}
Malformed == {Arr(<<>>), Arr(<<One>>), Arr(<<Str("list")>>), Arr(<<Str("optional")>>), Arr(<<Str("struct")>>)}

FieldEntry(p, n, v) == Arr(<<Str(p), Str(n), v>>)
FieldWith(n, v, o) == Arr(<<Str("required"), Str(n), v, Obj(o)>>)
StructOf(fields) == Typed("struct", [fields |-> Arr(fields)])
BadEntries ==
  {Str("a"), Arr(<<Str("required"), Str("a")>>), Arr(<<One, Str("a"), Str("any")>>),
   FieldEntry("map", "a", Str("any")), Arr(<<Str("required"), One, Str("any")>>)}
OneField == Arr(<<FieldEntry("optional", "a", Str("any"))>>)
BadStructs ==
  {StructOf(<<FieldEntry("required", "a", Str("any")), e>>) : e \in BadEntries}
    \cup {Typed("struct", [extra |-> Str("allow")]), Typed("struct", [fields |-> One])}
    \cup {Typed("struct", [fields |-> OneField, extra |-> x]) : x \in {Str("allow"), Str("map"), JsonNull}}
    \cup {Arr(<<Str("struct"), Obj([fields |-> OneField, extra |-> Str("allow")])>>)}

Small == Scalars \cup Enums \cup Malformed
Wrapped == UNION {WrappedIn(v) : v \in {Str(n) : n \in {"any", "Int", "map"}} \cup {Typed("Int", [min |-> One]), Typed("str", [min_size |-> Negative])}
                                          \cup {Arr(<<Str("enum"), Arr(<<Str("a")>>)>>)}}
Fielded(S, Options) == {StructOf(<<FieldWith("a", v, o)>>) : v \in S, o \in Options}
Twice == {StructOf(<<FieldEntry("optional", "a", v), FieldWith("b", w, [max |-> One])>>) :
            v, w \in {Str("Int"), JsonNull, Typed("Int", [max |-> Two]), Arr(<<Str("optional"), Str("float")>>)}}
Deep ==
  UNION {WrappedIn(v) : v \in Fielded({Str("int"), Arr(<<Str("optional"), Str("int")>>)}, Around)
                                \cup {w \in WrappedIn(Str("str")) : w.kind = "array"}
                                \cup {Arr(<<Str("list"), Arr(<<Str("optional"), Typed("int", [min |-> n])>>)>>) : n \in Numbers}}

ParserDocuments ==
  Small \cup Wrapped \cup BadStructs \cup Fielded(Small, Around)
    \cup Fielded(Wrapped, {o \in Around : "min" \notin DOMAIN o /\ "extra" \notin DOMAIN o})
    \cup Twice \cup Deep
=============================================================================
