------------------------------- MODULE Compile -------------------------------
(***************************************************************************)
(* SchemaCompiler::compile of schema/compiler.rs as a whole.  The schema's *)
(* Ruby object becomes a text, the text a document, the document an        *)
(* expression (SchemaParse), the expression an arena (BuildIr), and the    *)
(* struct at its root a plan.  It ends in one of four ways: a compiled     *)
(* schema, a CompileError, an exception that Ruby raises, or a panic,      *)
(* which aborts the process, since it cannot leave an extern "C" function. *)
(***************************************************************************)
EXTENDS SchemaGrammar

CONSTANTS
  Exprs,                      \* of BuildIr: what the documents mean, and its parts
  Sources,                    \* the objects compiled
  Limit,                      \* the byte at which a summary is cut: 200
  Nul,                        \* the texts that hold a NUL
  Beyond                      \* those that are not ASCII

\* What the compiler gets of an object: "text" is how (the object is a String,
\* or JSON.generate returns one, returns something else, or raises), "nul"
\* whether the text holds a NUL, "json" the document serde_json reads out of
\* it, and "widths" how many bytes each character of the document takes.
IsSource(s) ==
  /\ s.text \in {"string", "generated", "none", "raised"}
  /\ s.nul \in BOOLEAN
  /\ IsOption(s.json, Documents)
  /\ s.widths \in Seq(1..4)

ASSUME SourcesAssumption ==
  /\ \A s \in Sources : IsSource(s)
  /\ Limit \in Nat

VARIABLES
  source,
  stage,
  stack, nodes, interned, root, \* of BuildIr
  plan                          \* the names of MaterializePlan

building == <<stack, nodes, interned, root>>
cvars == <<source, stage, vars, building, plan>>

Expr == CHOOSE e \in parsed : TRUE
Builder == INSTANCE BuildIr WITH document <- Expr, Roots <- Exprs

\* Everything a document means is an expression, and so are its components.
ASSUME MeaningsAssumption ==
  /\ \A e \in Exprs : IsExprOver(e, Exprs)
  /\ \A d \in Documents : Meaning(d).expr \subseteq Exprs

Ends == {"compiled", "refused", "raised", "aborted"}

CInit ==
  /\ source \in Sources
  /\ stage = "coerce"
  /\ document = [kind |-> "null"]
  /\ focus = None /\ frames = <<>> /\ built = {} /\ parsed = None /\ failure = None
  /\ stack = <<>> /\ nodes = <<>> /\ interned = <<>> /\ root = None
  /\ plan = <<>>

End(how) ==
  /\ stage' = how
  /\ UNCHANGED <<source, vars, building, plan>>

-----------------------------------------------------------------------------
\* RubyJson::coerce: rb_string_value_cstr raises for a NUL in the text.
HasText == source.text \in {"string", "generated"}
CoerceRaises ==
  /\ stage = "coerce"
  /\ source.text = "raised" \/ (HasText /\ source.nul)
  /\ End("raised")

\* Mutant: an object that has no text is taken for the type any.
RefuseTextAsAny ==
  /\ stage = "coerce"
  /\ ~source.nul /\ (source.text = "none" \/ (HasText /\ source.json = None))
  /\ stage' = "parse"
  /\ focus' = Some(Task([kind |-> "string", text |-> "any"], NoOptions, <<>>))
  /\ UNCHANGED <<source, document, frames, built, parsed, failure, building, plan>>

\* JSON.generate returned no String, or serde_json cannot read the text.
RefuseText ==
  /\ stage = "coerce"
  /\ source.text = "none" \/ (HasText /\ ~source.nul /\ source.json = None)
  /\ End("refused")

StartParse ==
  /\ stage = "coerce" /\ HasText /\ ~source.nul
  /\ \E d \in source.json :
       /\ document' = d
       /\ focus' = Some(Task(d, NoOptions, <<>>))
  /\ stage' = "parse"
  /\ UNCHANGED <<source, frames, built, parsed, failure, building, plan>>

Parse ==
  /\ stage = "parse"
  /\ Next
  /\ UNCHANGED <<source, stage, building, plan>>

RefuseDocument == stage = "parse" /\ failure # None /\ End("refused")

\* summary_from_value: String::truncate panics between the bytes of a character.
Offsets(widths) ==
  LET upTo[n \in 0..Len(widths)] == IF n = 0 THEN 0 ELSE upTo[n - 1] + widths[n] IN upTo
Bytes(n) == Offsets(source.widths)[n]
Length == Bytes(Len(source.widths))

CutsCharacter ==
  /\ document.kind \in {"array", "object"} /\ Length > Limit
  /\ \A n \in 0..Len(source.widths) : Bytes(n) # Limit

AbortSummary == stage = "parse" /\ parsed # None /\ CutsCharacter /\ End("aborted")

StartBuild ==
  /\ stage = "parse" /\ parsed # None /\ ~CutsCharacter
  /\ stage' = "build"
  /\ stack' = <<Builder!Frame(Expr)>>
  /\ UNCHANGED <<source, vars, nodes, interned, root, plan>>

Build ==
  /\ stage = "build"
  /\ UNCHANGED <<source, stage, vars, plan>>
  /\ Builder!Next

\* build_materialize_plan: the names of the fields of a struct at the root.
FieldNames(id) ==
  LET n == nodes[id] IN IF n.kind = "struct" THEN [i \in DOMAIN n.fields |-> n.fields[i].name] ELSE <<>>

\* The first name that is no C string panics; the first that rb_intern2 takes
\* for broken US-ASCII makes Ruby raise.
OddNames(names) == {i \in DOMAIN names : names[i] \in Nul \cup Beyond}
FirstOdd(names) == names[Min(OddNames(names))]

AbortPlan ==
  \E id \in root :
    /\ stage = "build" /\ OddNames(FieldNames(id)) # {}
    /\ FirstOdd(FieldNames(id)) \in Nul
    /\ End("aborted")

PlanRaises ==
  \E id \in root :
    /\ stage = "build" /\ OddNames(FieldNames(id)) # {}
    /\ FirstOdd(FieldNames(id)) \notin Nul
    /\ End("raised")

Finish ==
  \E id \in root :
    /\ stage = "build" /\ OddNames(FieldNames(id)) = {}
    /\ stage' = "compiled"
    /\ plan' = FieldNames(id)
    /\ UNCHANGED <<source, vars, building>>

CNext ==
  \/ CoerceRaises \/ RefuseText \/ StartParse
  \/ Parse \/ RefuseDocument \/ AbortSummary
  \/ StartBuild \/ Build
  \/ AbortPlan \/ PlanRaises \/ Finish

\* One function call: nothing keeps it from its next step.
CSpec == CInit /\ [][CNext]_cvars /\ WF_cvars(CNext)

-----------------------------------------------------------------------------
\* The expression a node stands for.
Unfold(id) == Builder!Unfolding(nodes)[id]

MeaningOf(d) == Meaning(d).expr
RootNames(e) == IF e.kind = "struct" THEN {e.fields[i].name : i \in DOMAIN e.fields} ELSE {}
MeansNameIn(d, S) == \E e \in MeaningOf(d) : RootNames(e) \cap S # {}

\* The whole pipeline: the arena of a compiled schema, unfolded from its root,
\* is what its document means, and the plan names the fields of that struct and
\* of no other.
CompiledMeansDocument ==
  stage = "compiled" =>
    \E d \in source.json, id \in root :
      /\ MeaningOf(d) = Some(Unfold(id))
      /\ ToSet(plan) = RootNames(Unfold(id))

\* An end has its reason.  An error is raised for what has no meaning only, and
\* for all of it.  The process aborts for two reasons only: the text is cut
\* inside a character, or a field at the root of what the document means has a
\* NUL.  Ruby raises for the text alone or for a name at the root: no name below
\* it does either.
EndHasReason ==
  LET noMeaning == \A d \in source.json : MeaningOf(d) = None
      cut == \E n \in DOMAIN source.widths : Bytes(n - 1) < Limit /\ Bytes(n) > Limit
  IN  /\ stage \in Ends =>
           (stage = "refused" <=> \/ source.text = "none"
                                  \/ source.text # "raised" /\ ~source.nul /\ noMeaning)
      /\ stage = "aborted" => ~noMeaning /\ (cut \/ \E d \in source.json : MeansNameIn(d, Nul))
      /\ stage = "raised" => \/ source.text = "raised" \/ source.nul
                             \/ \E d \in source.json : MeansNameIn(d, Beyond)

\* Every compile ends, also when its document is refused half-way.
CompileEnds == <>(stage \in Ends)
=============================================================================
