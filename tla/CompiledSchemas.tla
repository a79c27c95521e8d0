--------------------------- MODULE CompiledSchemas ---------------------------
(***************************************************************************)
(* The compiled schemas of a process and the options their users give:     *)
(* compile of lib/rustly/core.rb, parse_options, compile, build and        *)
(* validate of lib.rs, and the CompiledSchema of schema/compiled.rs.       *)
(*                                                                         *)
(* An option has a default in Ruby (DEFAULT_OPTIONS) and another in Rust   *)
(* (ValidationOptions::default); a hash of options may give it by Symbol,  *)
(* by String, more than once, as nil, or not at all.  compile reads the    *)
(* options before JSON.generate runs Ruby code, which lets another thread  *)
(* in, and takes the schema's id after it.                                 *)
(***************************************************************************)
EXTENDS Integers, Sequences, FiniteSets

CONSTANTS
  Threads,
  Documents,    \* the schemas in Ruby
  Refused,      \* those the compiler refuses
  CompileOpts,  \* the second arguments of compile
  ValidateOpts, \* the third arguments of validate
  MaxId         \* the schemas made

None == {}
Some(x) == {x}
The(option) == CHOOSE x \in option : TRUE

\* An argument is nil, a hash, or any other object; a hash is the sequence of
\* its pairs.  For compile, whose core.rb only asks for what is falsy and for
\* each_with_object, "nil" also stands for false, "hash" for any collection of
\* pairs, and "other" for what has no each_with_object.  A value is nil, a flag,
\* a Symbol, or any other object.
Keys == [name : STRING, kind : {"symbol", "string", "other"}]
IsValue(v) ==
  \/ v.kind \in {"nil", "symbol", "other"}
  \/ v.kind = "flag" /\ v.flag \in BOOLEAN
IsArgument(opts) ==
  \/ opts.kind \in {"nil", "other"}
  \/ /\ opts.kind = "hash"
     /\ Len(opts.pairs) \in Nat /\ DOMAIN opts.pairs = 1..Len(opts.pairs)
     /\ \A i \in DOMAIN opts.pairs : opts.pairs[i].key \in Keys /\ IsValue(opts.pairs[i].value)

ASSUME ArgumentsAssumption ==
  /\ \A opts \in CompileOpts \cup ValidateOpts : IsArgument(opts)
  /\ Refused \subseteq Documents
  /\ MaxId \in Nat

Nil == [kind |-> "nil"]
Flag(b) == [kind |-> "flag", flag |-> b]
Symbol(name) == [kind |-> "symbol", name |-> name]

VARIABLES
  schemas,  \* history: every schema made, by its id, also those that were freed
  nextId,   \* NEXT_SCHEMA_ID
  task,     \* an Option for each thread: the options of the compile in progress
  answer    \* how the latest call ended, unless another began since

vars == <<schemas, nextId, task, answer>>

-----------------------------------------------------------------------------
(* Options.                                                                *)

\* The options, in the order parse_options reads them.
Order == <<"strict", "input_mode", "extra", "freeze", "store_attributes">>
OptionNames == {"strict", "input_mode", "extra", "freeze", "store_attributes"}
Flags == {"strict", "store_attributes"}
Symbols == [input_mode |-> {"auto", "json", "ruby"},
            extra |-> {"forbid", "ignore", "allow"},
            freeze |-> {"deep", "shallow", "none"}]

\* What an option is set to by a value that is not nil; None: it is refused.
Setting(name, v) ==
  IF name \in Flags THEN IF v.kind = "flag" THEN Some(v.flag) ELSE None
  ELSE IF name = "freeze" /\ v.kind = "flag" THEN Some(IF v.flag THEN "deep" ELSE "none")
  ELSE IF v.kind = "symbol" THEN {v.name} \cap Symbols[name] ELSE None

\* ValidationOptions::default.
Defaults ==
  [strict |-> FALSE, input_mode |-> "auto", extra |-> "forbid", freeze |-> "none",
   store_attributes |-> FALSE]

DEFAULT_OPTIONS ==
  [strict |-> Flag(FALSE), extra |-> Symbol("forbid"), input_mode |-> Symbol("auto"),
   freeze |-> Symbol("none"), store_attributes |-> Flag(FALSE)]

\* parse_options, on a hash given as a function from the names of its Symbols.
GivenIn(h, name) == name \in DOMAIN h /\ h[name].kind # "nil"
WrongIn(h) == {n \in OptionNames : GivenIn(h, n) /\ Setting(n, h[n]) = None}
FirstWrong(h) == Order[CHOOSE i \in 1..5 : Order[i] \in WrongIn(h)
                                        /\ \A j \in 1..(i - 1) : Order[j] \notin WrongIn(h)]
ParsedOptions(h) ==
  [n \in OptionNames |-> IF GivenIn(h, n) THEN The(Setting(n, h[n])) ELSE Defaults[n]]

\* The pairs of a hash whose keys name an option by one of these kinds of key,
\* and a hash of them where the last pair of a name is kept.
Naming(pairs, kinds, name) ==
  {i \in DOMAIN pairs : pairs[i].key.kind \in kinds /\ pairs[i].key.name = name}
Names(pairs, kinds) == {pairs[i].key.name : i \in {j \in DOMAIN pairs : pairs[j].key.kind \in kinds}}
LastOf(S) == CHOOSE i \in S : \A j \in S : j <= i
Collected(pairs, kinds) ==
  [n \in Names(pairs, kinds) |-> pairs[LastOf(Naming(pairs, kinds, n))].value]

\* Mutant: a key that is there is not assigned again.
SymbolizeKeysOnce(pairs) ==
  [n \in Names(pairs, {"symbol", "string"}) |->
     pairs[CHOOSE i \in Naming(pairs, {"symbol", "string"}, n) :
             \A j \in Naming(pairs, {"symbol", "string"}, n) : i <= j].value]

\* symbolize_keys: both kinds of key have a to_sym.  A hash_lookup of the native
\* code finds Symbols only.
SymbolizeKeys(pairs) == Collected(pairs, {"symbol", "string"})
LookedUp(pairs) == Collected(pairs, {"symbol"})

PairsOf(opts) == IF opts.kind = "hash" THEN opts.pairs ELSE <<>>
Merged(opts) ==
  LET h == SymbolizeKeys(PairsOf(opts)) IN
  [n \in DOMAIN DEFAULT_OPTIONS \cup DOMAIN h |-> IF n \in DOMAIN h THEN h[n] ELSE DEFAULT_OPTIONS[n]]

-----------------------------------------------------------------------------
(* The calls.                                                              *)

Silent == [kind |-> "none"]
Raised(class) == [kind |-> "raised", class |-> class]
RefusedOption(name, opts) == [kind |-> "refused", option |-> name, opts |-> opts]
Made(id) == [kind |-> "schema", id |-> id]
\* A payload was judged by options, under a schema compiled with "given".
Judged(entry, opts, given, options) ==
  [kind |-> "judged", entry |-> entry, opts |-> opts, given |-> given, options |-> options]

Init ==
  /\ schemas = <<>>
  /\ nextId = 1
  /\ task = [t \in Threads |-> None]
  /\ answer = Silent

Idle(t) == task[t] = None
Answer(a) == answer' = a
Live == {id \in DOMAIN schemas : schemas[id].live}
\* MaxId bounds the schemas made, and no compile is tried when they all are.
MayCompile(t) == Idle(t) /\ nextId <= MaxId

\* CompiledSchema::new: the id is taken by a fetch_add.
NewSchema(given, document, options) ==
  /\ nextId <= MaxId
  /\ schemas' = Append(schemas, [given |-> given, document |-> document, options |-> options, live |-> TRUE])
  /\ nextId' = nextId + 1

\* compile of core.rb: the argument has no each_with_object.
RejectArgument(t) ==
  /\ MayCompile(t)
  /\ \E opts \in CompileOpts : opts.kind = "other"
  /\ Answer(Raised("NoMethodError"))
  /\ UNCHANGED <<schemas, nextId, task>>

\* compile of lib.rs, up to the conversion of the schema to JSON.
RejectOption(t) ==
  /\ MayCompile(t)
  /\ \E opts \in CompileOpts :
       /\ opts.kind # "other"
       /\ WrongIn(Merged(opts)) # {}
       /\ Answer(RefusedOption(FirstWrong(Merged(opts)), opts))
  /\ UNCHANGED <<schemas, nextId, task>>

StartCompile(t) ==
  /\ MayCompile(t)
  /\ \E opts \in CompileOpts :
       /\ opts.kind # "other"
       /\ WrongIn(Merged(opts)) = {}
       /\ task' = [task EXCEPT ![t] = Some([given |-> opts, options |-> ParsedOptions(Merged(opts))])]
  /\ Answer(Silent)
  /\ UNCHANGED <<schemas, nextId>>

\* Mutant: the schema is wrapped with the options of the last compile that ended.
FinishCompileShared(t) ==
  /\ \E job \in task[t], d \in Documents \ Refused :
       NewSchema(job.given, d, IF schemas = <<>> THEN job.options ELSE schemas[Len(schemas)].options)
  /\ task' = [task EXCEPT ![t] = None]
  /\ Answer(Made(nextId))

\* Mutant: the id of a schema that was freed is given again.
FinishCompileReusing(t) ==
  /\ \E job \in task[t], d \in Documents \ Refused :
       /\ Live # DOMAIN schemas
       /\ LET id == CHOOSE i \in DOMAIN schemas \ Live : TRUE IN
          /\ schemas' = [schemas EXCEPT ![id] = [given |-> job.given, document |-> d,
                                                options |-> job.options, live |-> TRUE]]
          /\ Answer(Made(id))
  /\ task' = [task EXCEPT ![t] = None]
  /\ UNCHANGED nextId

\* The schema is converted as it is by now, and compiled.
FinishCompile(t) ==
  /\ \E job \in task[t], d \in Documents \ Refused : NewSchema(job.given, d, job.options)
  /\ task' = [task EXCEPT ![t] = None]
  /\ Answer(Made(nextId))

RejectSchema(t) ==
  /\ task[t] # None /\ Refused # {}
  /\ task' = [task EXCEPT ![t] = None]
  /\ Answer(Raised("ArgumentError"))
  /\ UNCHANGED <<schemas, nextId>>

\* JSON.generate, or the Ruby code it calls, may raise anything.
AbandonCompile(t) ==
  /\ task[t] # None
  /\ task' = [task EXCEPT ![t] = None]
  /\ Answer(Raised("StandardError"))
  /\ UNCHANGED <<schemas, nextId>>

\* compiled_schema_alloc: CompiledSchema.new and the dup of a compiled schema
\* both make the schema that takes anything.
Allocate(t) ==
  /\ Idle(t)
  /\ NewSchema(Nil, "any", Defaults)
  /\ Answer(Made(nextId))
  /\ UNCHANGED task

\* build and build_synced: the options are those of the schema.
Build(t) ==
  /\ Idle(t)
  /\ \E id \in Live : Answer(Judged("build", Nil, schemas[id].given, schemas[id].options))
  /\ UNCHANGED <<schemas, nextId, task>>

\* validate without options...
ValidateAsCompiled(t) ==
  /\ Idle(t)
  /\ Nil \in ValidateOpts
  /\ \E id \in Live : Answer(Judged("validate", Nil, schemas[id].given, schemas[id].options))
  /\ UNCHANGED <<schemas, nextId, task>>

\* Mutant: what a hash leaves out is taken from the schema.
ValidateWithMerging(t) ==
  /\ Idle(t)
  /\ \E id \in Live, opts \in ValidateOpts :
       /\ opts.kind = "hash" /\ WrongIn(LookedUp(opts.pairs)) = {}
       /\ LET h == LookedUp(opts.pairs) IN
          Answer(Judged("validate", opts, schemas[id].given,
                           [n \in OptionNames |-> IF GivenIn(h, n) THEN ParsedOptions(h)[n]
                                                  ELSE schemas[id].options[n]]))
  /\ UNCHANGED <<schemas, nextId, task>>

\* ...and with options, which are parsed as they are and replace all others.
ValidateWith(t) ==
  /\ Idle(t)
  /\ \E id \in Live, opts \in ValidateOpts :
       /\ opts.kind = "hash" /\ WrongIn(LookedUp(opts.pairs)) = {}
       /\ Answer(Judged("validate", opts, schemas[id].given, ParsedOptions(LookedUp(opts.pairs))))
  /\ UNCHANGED <<schemas, nextId, task>>

RejectValidation(t) ==
  /\ Idle(t)
  /\ \E id \in Live, opts \in ValidateOpts :
       \/ opts.kind = "other" /\ Answer(Raised("ArgumentError"))
       \/ /\ opts.kind = "hash" /\ WrongIn(LookedUp(opts.pairs)) # {}
          /\ Answer(Raised("ArgumentError"))
  /\ UNCHANGED <<schemas, nextId, task>>

\* compiled_schema_free, called by the GC.
Free(id) ==
  /\ id \in Live
  /\ schemas' = [schemas EXCEPT ![id].live = FALSE]
  /\ UNCHANGED <<nextId, task, answer>>

Next ==
  \/ \E t \in Threads :
       \/ RejectArgument(t) \/ RejectOption(t) \/ StartCompile(t)
       \/ FinishCompile(t) \/ RejectSchema(t) \/ AbandonCompile(t)
       \/ Allocate(t) \/ Build(t)
       \/ ValidateAsCompiled(t) \/ ValidateWith(t) \/ RejectValidation(t)
  \/ \E id \in DOMAIN schemas : Free(id)

Spec == Init /\ [][Next]_vars

-----------------------------------------------------------------------------
Options ==
  [strict : BOOLEAN, input_mode : Symbols["input_mode"], extra : Symbols["extra"],
   freeze : Symbols["freeze"], store_attributes : BOOLEAN]

Schema == [given : CompileOpts \cup {Nil}, document : Documents \cup {"any"}, options : Options,
           live : BOOLEAN]
Job == [given : CompileOpts, options : Options]

\* Ids count the schemas made, and every schema has options of the right kind.
TypeOK ==
  /\ schemas \in Seq(Schema)
  /\ nextId = Len(schemas) + 1
  /\ DOMAIN task = Threads
  /\ \A t \in Threads : task[t] \subseteq Job

\* What options mean, said of a hash as a whole: the last pair that names an
\* option decides, unless it is nil; then, or without one, the default does.
Decisive(pairs, kinds, name) ==
  {v \in {pairs[i].value : i \in Naming(pairs, kinds, name)} :
     /\ v.kind # "nil"
     /\ \E i \in Naming(pairs, kinds, name) :
          pairs[i].value = v /\ \A j \in Naming(pairs, kinds, name) : j <= i}
Means(options, pairs, kinds) ==
  \A n \in OptionNames :
    IF Decisive(pairs, kinds, n) = {} THEN Some(options[n]) = Setting(n, DEFAULT_OPTIONS[n])
    ELSE \A v \in Decisive(pairs, kinds, n) : Some(options[n]) = Setting(n, v)
MeansToCompile(options, opts) == Means(options, PairsOf(opts), {"symbol", "string"})

\* The two sets of defaults, the merge in Ruby and the parser in Rust agree:
\* a schema has the options its user asked for, by Symbol or by String, and the
\* documented default for those that are left out or nil.
OptionsAreGiven ==
  \A id \in DOMAIN schemas : MeansToCompile(schemas[id].options, schemas[id].given)

\* A hash is refused for an option it sets to what the option cannot be, also
\* when it sets it more than once, and never for a pair that is overridden, is
\* nil, or names no option; the first such option, in the order they are read,
\* is named.
RefusalNamesOption ==
  answer.kind = "refused" =>
    LET wrong(n) == \E v \in Decisive(PairsOf(answer.opts), {"symbol", "string"}, n) : Setting(n, v) = None
    IN  \E i \in 1..5 : /\ answer.option = Order[i] /\ wrong(Order[i])
                        /\ \A j \in 1..(i - 1) : ~wrong(Order[j])

\* CHANGELOG.md: validation options are captured during compile.  Whatever
\* other threads compile or validate in between, a build, and a validate that
\* is given no options, go by what the schema was compiled with.
JudgedAsCompiled ==
  answer.kind = "judged" /\ answer.opts = Nil =>
    MeansToCompile(answer.options, answer.given)

\* The options given to validate stand alone: what they leave out has its
\* default, not what the schema was compiled with, and a String gives nothing.
GivenOptionsReplaceAll ==
  answer.kind = "judged" /\ answer.opts # Nil =>
    Means(answer.options, answer.opts.pairs, {"symbol"})

\* An id stands for one schema for ever, and the schema for one document and
\* one set of options: no call changes them, and no id is given twice, also
\* not after its schema was freed.
SchemasNeverChange ==
  [][\A id \in DOMAIN schemas :
       /\ id \in DOMAIN schemas'
       /\ schemas'[id] \in {schemas[id], [schemas[id] EXCEPT !.live = FALSE]}]_vars
=============================================================================
