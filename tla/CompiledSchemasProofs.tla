------------------------ MODULE CompiledSchemasProofs ------------------------
(***************************************************************************)
(* Proofs about CompiledSchemas, for any threads, schemas and hashes of    *)
(* options: a schema has the options its user asked for, a build goes by   *)
(* them, and nothing changes a schema once it is made.                     *)
(***************************************************************************)
EXTENDS CompiledSchemas, TLAPS, WellFoundedInduction

\* A set of indexes has a last one: it is well founded to count them backwards.
LEMMA HasLast ==
  ASSUME NEW n \in Nat, NEW S, S \subseteq 1..n, S # {}
  PROVE  \E i \in S : \A j \in S : j <= i
<1> DEFINE T == {n - i : i \in S}
           R == {ss \in Nat \X Nat : ss[1] < ss[2]}
<1>1. IsWellFoundedOn(R, Nat)
  BY NatLessThanWellFounded DEF OpToRel
<1>2. \A i \in S : i \in 1..n /\ n - i \in Nat /\ n - i \in T
  OBVIOUS
<1>3. T \subseteq Nat /\ T # {}
  BY <1>2
<1>4. PICK x \in T : \A y \in T : ~(<<y, x>> \in R)
  <2> HIDE DEF T, R
  <2> QED  BY <1>1, <1>3, WFMin
<1>5. PICK i \in S : x = n - i
  BY <1>4
<1>6. ASSUME NEW j \in S PROVE j <= i
  <2>1. n - j \in T /\ x \in Nat /\ n - j \in Nat /\ j \in 1..n /\ i \in 1..n
    BY <1>2, <1>3
  <2>2. ~(n - j < x)
    <3> HIDE DEF T
    <3> QED  BY <1>4, <2>1
  <2> QED  BY <1>5, <2>1, <2>2
<1> QED  BY <1>6

\* The last of the pairs that name an option.
LEMMA LastNaming ==
  ASSUME NEW pairs, Len(pairs) \in Nat, DOMAIN pairs = 1..Len(pairs),
         NEW kinds, NEW name, NEW S, S = Naming(pairs, kinds, name), S # {}
  PROVE  LastOf(S) \in S /\ \A j \in S : j <= LastOf(S)
<1>1. S \subseteq 1..Len(pairs)
  BY DEF Naming
<1>2. \E i \in S : \A j \in S : j <= i
  BY <1>1, HasLast
<1> QED  BY <1>2 DEF LastOf

\* What a hash collected from pairs has for a name is what decides.
LEMMA CollectedDecides ==
  ASSUME NEW pairs, Len(pairs) \in Nat, DOMAIN pairs = 1..Len(pairs),
         \A i \in DOMAIN pairs : IsValue(pairs[i].value),
         NEW kinds, NEW name, NEW h, h = Collected(pairs, kinds)
  PROVE  /\ name \in DOMAIN h => IsValue(h[name])
         /\ GivenIn(h, name) => Decisive(pairs, kinds, name) = {h[name]}
         /\ ~GivenIn(h, name) => Decisive(pairs, kinds, name) = {}
<1> DEFINE S == Naming(pairs, kinds, name)
<1>1. S \subseteq 1..Len(pairs)
  BY DEF Naming
<1>2. name \in DOMAIN h <=> S # {}
  BY DEF Collected, Names, Naming
<1>3. CASE S = {}
  BY <1>2, <1>3 DEF GivenIn, Decisive
<1>4. CASE S # {}
  <2>1. LastOf(S) \in S /\ \A j \in S : j <= LastOf(S)
    BY <1>4, LastNaming
  <2>2. h[name] = pairs[LastOf(S)].value
    BY <1>2, <1>4 DEF Collected
  <2> DEFINE v == pairs[LastOf(S)].value
  <2>3. \A i \in S : (\A j \in S : j <= i) => i = LastOf(S)
    BY <1>1, <2>1
  <2> HIDE DEF S
  <2>4. CASE v.kind = "nil"
    BY <1>1, <1>2, <1>4, <2>1, <2>2, <2>3, <2>4 DEF GivenIn, Decisive, S
  <2>5. CASE v.kind # "nil"
    BY <1>1, <1>2, <1>4, <2>1, <2>2, <2>3, <2>5 DEF GivenIn, Decisive, S
  <2> QED  BY <2>4, <2>5
<1> QED  BY <1>3, <1>4

\* A setting is of the kind its option takes.
Range(name) == IF name \in Flags THEN BOOLEAN ELSE Symbols[name]
LEMMA SettingInRange ==
  ASSUME NEW name \in OptionNames, NEW v, IsValue(v)
  PROVE  Setting(name, v) \subseteq Range(name)
BY DEF Setting, Range, IsValue, Some, None, Symbols, Flags, OptionNames

LEMMA DefaultsAgree ==
  ASSUME NEW name \in OptionNames
  PROVE  /\ Defaults[name] \in Range(name)
         /\ Setting(name, DEFAULT_OPTIONS[name]) = Some(Defaults[name])
         /\ name \in DOMAIN DEFAULT_OPTIONS
         /\ IsValue(DEFAULT_OPTIONS[name]) /\ DEFAULT_OPTIONS[name].kind # "nil"
<1>1. CASE name \in Flags
  <2>1. Defaults[name] = FALSE /\ DEFAULT_OPTIONS[name] = Flag(FALSE)
    <3>1. CASE name = "strict"
      BY <3>1 DEF Defaults, DEFAULT_OPTIONS
    <3>2. CASE name = "store_attributes"
      BY <3>2 DEF Defaults, DEFAULT_OPTIONS
    <3> QED  BY <1>1, <3>1, <3>2 DEF Flags
  <2>2. Flag(FALSE).kind = "flag" /\ Flag(FALSE).flag = FALSE
    BY DEF Flag
  <2> QED  BY <1>1, <2>1, <2>2 DEF Flags, Setting, Range, IsValue, Some, DEFAULT_OPTIONS
<1>2. CASE name \in {"input_mode", "extra", "freeze"}
  <2>1. /\ DEFAULT_OPTIONS[name] = Symbol(Defaults[name])
        /\ Defaults[name] \in Symbols[name]
    <3>1. CASE name = "input_mode"
      <4>1. Defaults["input_mode"] = "auto"
        BY DEF Defaults
      <4>2. DEFAULT_OPTIONS["input_mode"] = Symbol("auto")
        BY DEF DEFAULT_OPTIONS
      <4> QED  BY <3>1, <4>1, <4>2 DEF Symbols
    <3>2. CASE name = "extra"
      <4>1. Defaults["extra"] = "forbid"
        BY DEF Defaults
      <4>2. DEFAULT_OPTIONS["extra"] = Symbol("forbid")
        BY DEF DEFAULT_OPTIONS
      <4> QED  BY <3>2, <4>1, <4>2 DEF Symbols
    <3>3. CASE name = "freeze"
      <4>1. Defaults["freeze"] = "none"
        BY DEF Defaults
      <4>2. DEFAULT_OPTIONS["freeze"] = Symbol("none")
        BY DEF DEFAULT_OPTIONS
      <4> QED  BY <3>3, <4>1, <4>2 DEF Symbols
    <3> QED  BY <1>2, <3>1, <3>2, <3>3
  <2>2. /\ Symbol(Defaults[name]).kind = "symbol" /\ Symbol(Defaults[name]).name = Defaults[name]
    BY DEF Symbol
  <2> QED  BY <1>2, <2>1, <2>2 DEF Flags, Setting, Range, IsValue, Some, DEFAULT_OPTIONS
<1> QED  BY <1>1, <1>2 DEF OptionNames, Flags

\* A record of options, by its fields.
LEMMA OptionsByName ==
  ASSUME NEW options, options = [n \in OptionNames |-> options[n]],
         \A n \in OptionNames : options[n] \in Range(n)
  PROVE  options \in Options
BY DEF Options, OptionNames, Range, Flags, Symbols

\* Options that the parser accepts mean what the hash says; a hash from Ruby
\* has the defaults of Ruby in it, one from elsewhere has not.
LEMMA ParsedMeans ==
  ASSUME NEW pairs, Len(pairs) \in Nat, DOMAIN pairs = 1..Len(pairs),
         \A i \in DOMAIN pairs : IsValue(pairs[i].value),
         NEW kinds, NEW g, g = Collected(pairs, kinds), NEW h,
         \A n \in DOMAIN h : IsValue(h[n]),
         \A n \in OptionNames :
           \/ n \in DOMAIN h /\ n \in DOMAIN g /\ h[n] = g[n]
           \/ n \notin DOMAIN g /\ (n \in DOMAIN h => h[n] = DEFAULT_OPTIONS[n]),
         WrongIn(h) = {}
  PROVE  ParsedOptions(h) \in Options /\ Means(ParsedOptions(h), pairs, kinds)
<1> DEFINE o == ParsedOptions(h)
<1>1. o = [n \in OptionNames |-> o[n]]
  BY DEF ParsedOptions
<1>2. ASSUME NEW n \in OptionNames, GivenIn(h, n)
      PROVE  Some(o[n]) = Setting(n, h[n]) /\ o[n] \in Range(n)
  <2>1. Setting(n, h[n]) # None /\ IsValue(h[n])
    BY <1>2 DEF WrongIn, GivenIn
  <2>2. \E x : Setting(n, h[n]) = Some(x)
    <3>1. CASE n \in Flags
      BY <2>1, <3>1 DEF Setting
    <3>2. CASE n \notin Flags
      <4>1. {h[n].name} \cap Symbols[n] # {} => {h[n].name} \cap Symbols[n] = Some(h[n].name)
        BY DEF Some
      <4> QED  BY <2>1, <3>2, <4>1 DEF Setting, None
    <3> QED  BY <3>1, <3>2
  <2>3. o[n] = The(Setting(n, h[n]))
    BY <1>2 DEF ParsedOptions
  <2>4. Some(o[n]) = Setting(n, h[n])
    BY <2>2, <2>3 DEF The, Some
  <2> QED  BY <2>1, <2>4, SettingInRange DEF Some
<1>3. ASSUME NEW n \in OptionNames, ~GivenIn(h, n)
      PROVE  o[n] = Defaults[n]
  BY <1>3 DEF ParsedOptions
<1>4. ASSUME NEW n \in OptionNames
      PROVE  IF Decisive(pairs, kinds, n) = {} THEN Some(o[n]) = Setting(n, DEFAULT_OPTIONS[n])
             ELSE \A v \in Decisive(pairs, kinds, n) : Some(o[n]) = Setting(n, v)
  <2> HIDE DEF o
  <2>1. CASE GivenIn(g, n)
    <3>1. Decisive(pairs, kinds, n) = {g[n]}
      BY <2>1, CollectedDecides
    <3>2. GivenIn(h, n) /\ h[n] = g[n]
      BY <2>1 DEF GivenIn
    <3> QED  BY <1>2, <3>1, <3>2
  <2>2. CASE ~GivenIn(g, n)
    <3>1. Decisive(pairs, kinds, n) = {}
      BY <2>2, CollectedDecides
    <3>2. CASE GivenIn(h, n)
      <4>1. h[n] = DEFAULT_OPTIONS[n]
        BY <2>2, <3>2 DEF GivenIn
      <4> QED  BY <1>2, <3>1, <3>2, <4>1
    <3>3. CASE ~GivenIn(h, n)
      BY <1>3, <3>1, <3>3, DefaultsAgree
    <3> QED  BY <3>2, <3>3
  <2> QED  BY <2>1, <2>2
<1>5. \A n \in OptionNames : o[n] \in Range(n)
  BY <1>2, <1>3, DefaultsAgree
<1> HIDE DEF o
<1>6. o \in Options
  BY <1>1, <1>5, OptionsByName
<1>7. Means(o, pairs, kinds)
  BY <1>4 DEF Means
<1> QED  BY <1>6, <1>7 DEF o

\* The two readings of an argument: by compile, with the defaults of Ruby merged
\* in, and by validate, as it is.
LEMMA MergedMeans ==
  ASSUME NEW opts \in CompileOpts, opts.kind # "other", WrongIn(Merged(opts)) = {}
  PROVE  /\ ParsedOptions(Merged(opts)) \in Options
         /\ MeansToCompile(ParsedOptions(Merged(opts)), opts)
<1> DEFINE pairs == PairsOf(opts)
           kinds == {"symbol", "string"}
           g == Collected(pairs, kinds)
           h == Merged(opts)
<1>1. /\ Len(pairs) \in Nat /\ DOMAIN pairs = 1..Len(pairs)
      /\ \A i \in DOMAIN pairs : IsValue(pairs[i].value)
  <2>1. CASE opts.kind = "hash"
    BY <2>1, ArgumentsAssumption DEF PairsOf, IsArgument
  <2>2. CASE opts.kind # "hash"
    BY <2>2 DEF PairsOf
  <2> QED  BY <2>1, <2>2
<1>2. /\ DOMAIN h = DOMAIN DEFAULT_OPTIONS \cup DOMAIN g
      /\ \A n \in DOMAIN h : h[n] = IF n \in DOMAIN g THEN g[n] ELSE DEFAULT_OPTIONS[n]
  BY DEF Merged, SymbolizeKeys
<1>3. DOMAIN DEFAULT_OPTIONS = OptionNames
  BY DEF DEFAULT_OPTIONS, OptionNames
<1> HIDE DEF pairs, kinds, g, h
<1>4. \A n \in DOMAIN g : IsValue(g[n])
  <2> TAKE n \in DOMAIN g
  <2> QED  BY <1>1, CollectedDecides DEF g
<1>5. \A n \in DOMAIN h : IsValue(h[n])
  BY <1>2, <1>3, <1>4, DefaultsAgree
<1>6. WrongIn(h) = {}
  BY DEF h
<1>7. ParsedOptions(h) \in Options /\ Means(ParsedOptions(h), pairs, kinds)
  BY <1>1, <1>2, <1>3, <1>5, <1>6, ParsedMeans DEF g
<1> QED  BY <1>7 DEF MeansToCompile, pairs, kinds, h

LEMMA LookedUpMeans ==
  ASSUME NEW opts \in ValidateOpts, opts.kind = "hash", WrongIn(LookedUp(opts.pairs)) = {}
  PROVE  /\ ParsedOptions(LookedUp(opts.pairs)) \in Options
         /\ Means(ParsedOptions(LookedUp(opts.pairs)), opts.pairs, {"symbol"})
<1> DEFINE pairs == opts.pairs
           kinds == {"symbol"}
           h == Collected(pairs, kinds)
<1>1. /\ Len(pairs) \in Nat /\ DOMAIN pairs = 1..Len(pairs)
      /\ \A i \in DOMAIN pairs : IsValue(pairs[i].value)
  BY ArgumentsAssumption DEF IsArgument
<1>2. WrongIn(h) = {}
  BY DEF LookedUp
<1> HIDE DEF pairs, kinds, h
<1>3. \A n \in DOMAIN h : IsValue(h[n])
  <2> TAKE n \in DOMAIN h
  <2> QED  BY <1>1, CollectedDecides DEF h
<1>4. ParsedOptions(h) \in Options /\ Means(ParsedOptions(h), pairs, kinds)
  BY <1>1, <1>2, <1>3, ParsedMeans DEF h
<1> QED  BY <1>4 DEF LookedUp, pairs, kinds, h

\* What nobody gives has the defaults.
LEMMA DefaultsMean == Defaults \in Options /\ MeansToCompile(Defaults, Nil)
<1>1. Defaults = [n \in OptionNames |-> Defaults[n]]
  BY DEF Defaults, OptionNames
<1>2. PairsOf(Nil) = <<>>
  BY DEF PairsOf, Nil
<1>3. \A n \in OptionNames : Decisive(<<>>, {"symbol", "string"}, n) = {}
  BY DEF Decisive, Naming
<1>4. Defaults \in Options
  BY <1>1, DefaultsAgree, OptionsByName
<1> QED  BY <1>2, <1>3, <1>4, DefaultsAgree DEF MeansToCompile, Means

-----------------------------------------------------------------------------
(* The invariant: what is true of the schemas holds of the compiles that   *)
(* are under way, and an answer was true when it was given.                *)

TasksAreGiven == \A t \in Threads : \A job \in task[t] : MeansToCompile(job.options, job.given)
IInv ==
  TypeOK /\ OptionsAreGiven /\ TasksAreGiven /\ JudgedAsCompiled /\ GivenOptionsReplaceAll

LEMMA Initially == Init => IInv
BY DEF Init, IInv, TypeOK, OptionsAreGiven, TasksAreGiven, JudgedAsCompiled,
       GivenOptionsReplaceAll, Silent, None

\* A new schema leaves the others as they are.
LEMMA NewSchemaKeeps ==
  ASSUME TypeOK, OptionsAreGiven,
         NEW given \in CompileOpts \cup {Nil}, NEW document \in Documents \cup {"any"},
         NEW options \in Options, MeansToCompile(options, given),
         NewSchema(given, document, options)
  PROVE  /\ schemas' \in Seq(Schema)
         /\ nextId' = Len(schemas') + 1
         /\ OptionsAreGiven'
         /\ \A id \in DOMAIN schemas : id \in DOMAIN schemas' /\ schemas'[id] = schemas[id]
<1> DEFINE new == [given |-> given, document |-> document, options |-> options, live |-> TRUE]
<1>1. schemas' = Append(schemas, new) /\ nextId' = nextId + 1
  BY DEF NewSchema
<1>2. new \in Schema /\ new.options = options /\ new.given = given
  BY DEF Schema
<1> HIDE DEF new
<1>3. schemas \in Seq(Schema) /\ nextId = Len(schemas) + 1
  BY DEF TypeOK
<1>4. /\ schemas' \in Seq(Schema) /\ Len(schemas') = Len(schemas) + 1
      /\ DOMAIN schemas' = 1..(Len(schemas) + 1)
      /\ schemas'[Len(schemas) + 1] = new
      /\ \A id \in DOMAIN schemas : id \in DOMAIN schemas' /\ schemas'[id] = schemas[id]
  BY <1>1, <1>2, <1>3
<1>5. \A id \in DOMAIN schemas' : id \in DOMAIN schemas \/ id = Len(schemas) + 1
  BY <1>3, <1>4
<1>6. ASSUME NEW id \in DOMAIN schemas'
      PROVE  MeansToCompile(schemas'[id].options, schemas'[id].given)
  BY <1>2, <1>4, <1>5 DEF OptionsAreGiven
<1> QED  BY <1>1, <1>3, <1>4, <1>6 DEF OptionsAreGiven

\* An answer is right if it is right when it is given.
Right(a) ==
  a.kind = "judged" =>
    IF a.opts = Nil THEN MeansToCompile(a.options, a.given)
    ELSE Means(a.options, a.opts.pairs, {"symbol"})
LEMMA AnswerKeeps ==
  ASSUME NEW a, Right(a), Answer(a)
  PROVE  JudgedAsCompiled' /\ GivenOptionsReplaceAll'
BY DEF Answer, JudgedAsCompiled, GivenOptionsReplaceAll, Right

LEMMA NothingJudged ==
  /\ Right(Silent)
  /\ \A class : Right(Raised(class))
  /\ \A name, opts : Right(RefusedOption(name, opts))
  /\ \A id : Right(Made(id))
BY DEF Right, Silent, Raised, RefusedOption, Made

LEMMA ExactlyJudged ==
  ASSUME NEW entry, NEW opts, NEW given, NEW options,
         IF opts = Nil THEN MeansToCompile(options, given)
         ELSE Means(options, opts.pairs, {"symbol"})
  PROVE  Right(Judged(entry, opts, given, options))
BY DEF Right, Judged

\* A compile that ends, however it ends, leaves the other compiles as they are.
LEMMA TaskEnds ==
  ASSUME IInv, NEW t \in Threads, task' = [task EXCEPT ![t] = None]
  PROVE  /\ DOMAIN task' = Threads /\ TasksAreGiven'
         /\ \A u \in Threads : task'[u] \subseteq Job
BY DEF IInv, TypeOK, TasksAreGiven, None

\* The steps that make no schema and begin no compile.
LEMMA QuietStep ==
  ASSUME IInv, NEW a, Right(a), Answer(a), UNCHANGED <<schemas, nextId, task>>
  PROVE  IInv'
<1>1. JudgedAsCompiled' /\ GivenOptionsReplaceAll'
  BY AnswerKeeps
<1> QED  BY <1>1 DEF IInv, TypeOK, OptionsAreGiven, TasksAreGiven

LEMMA StartCompileKeeps ==
  ASSUME IInv, NEW t \in Threads, StartCompile(t)
  PROVE  IInv'
<1>1. PICK opts \in CompileOpts :
        /\ opts.kind # "other" /\ WrongIn(Merged(opts)) = {}
        /\ task' = [task EXCEPT ![t] = Some([given |-> opts, options |-> ParsedOptions(Merged(opts))])]
  BY DEF StartCompile
<1> DEFINE job == [given |-> opts, options |-> ParsedOptions(Merged(opts))]
<1>2. ParsedOptions(Merged(opts)) \in Options /\ MeansToCompile(ParsedOptions(Merged(opts)), opts)
  BY <1>1, MergedMeans
<1>3. job \in Job /\ MeansToCompile(job.options, job.given)
  BY <1>2 DEF Job
<1>4. task' = [task EXCEPT ![t] = {job}]
  BY <1>1 DEF Some
<1> HIDE DEF job
<1>5. /\ DOMAIN task' = Threads
      /\ \A u \in Threads : task'[u] = {job} \/ task'[u] = task[u]
  BY <1>4 DEF IInv, TypeOK
<1>6. JudgedAsCompiled' /\ GivenOptionsReplaceAll'
  BY AnswerKeeps, NothingJudged DEF StartCompile
<1>7. schemas' = schemas /\ nextId' = nextId
  BY DEF StartCompile
<1> QED  BY <1>3, <1>5, <1>6, <1>7 DEF IInv, TypeOK, OptionsAreGiven, TasksAreGiven

LEMMA FinishCompileKeeps ==
  ASSUME IInv, NEW t \in Threads, FinishCompile(t)
  PROVE  IInv'
<1>1. PICK job \in task[t], d \in Documents \ Refused : NewSchema(job.given, d, job.options)
  BY DEF FinishCompile
<1>2. job.given \in CompileOpts /\ job.options \in Options /\ MeansToCompile(job.options, job.given)
  BY DEF IInv, TypeOK, Job, TasksAreGiven
<1>3. schemas' \in Seq(Schema) /\ nextId' = Len(schemas') + 1 /\ OptionsAreGiven'
  BY <1>1, <1>2, NewSchemaKeeps DEF IInv
<1>4. JudgedAsCompiled' /\ GivenOptionsReplaceAll'
  BY AnswerKeeps, NothingJudged DEF FinishCompile
<1>5. DOMAIN task' = Threads /\ TasksAreGiven' /\ \A u \in Threads : task'[u] \subseteq Job
  BY TaskEnds DEF FinishCompile
<1> QED  BY <1>3, <1>4, <1>5 DEF IInv, TypeOK

LEMMA AllocateKeeps ==
  ASSUME IInv, NEW t \in Threads, Allocate(t)
  PROVE  IInv'
<1>1. NewSchema(Nil, "any", Defaults)
  BY DEF Allocate
<1>2. schemas' \in Seq(Schema) /\ nextId' = Len(schemas') + 1 /\ OptionsAreGiven'
  BY <1>1, NewSchemaKeeps, DefaultsMean DEF IInv
<1>3. JudgedAsCompiled' /\ GivenOptionsReplaceAll'
  BY AnswerKeeps, NothingJudged DEF Allocate
<1> QED  BY <1>2, <1>3 DEF IInv, TypeOK, TasksAreGiven, Allocate

\* A compile that fails after it began.
LEMMA CompileFails ==
  ASSUME IInv, NEW t \in Threads, NEW class, task' = [task EXCEPT ![t] = None],
         Answer(Raised(class)), UNCHANGED <<schemas, nextId>>
  PROVE  IInv'
<1>1. JudgedAsCompiled' /\ GivenOptionsReplaceAll'
  BY AnswerKeeps, NothingJudged
<1>2. DOMAIN task' = Threads /\ TasksAreGiven' /\ \A u \in Threads : task'[u] \subseteq Job
  BY TaskEnds
<1> QED  BY <1>1, <1>2 DEF IInv, TypeOK, OptionsAreGiven

LEMMA ValidateWithKeeps ==
  ASSUME IInv, NEW t \in Threads, ValidateWith(t)
  PROVE  IInv'
<1>1. PICK id \in Live, opts \in ValidateOpts :
        /\ opts.kind = "hash" /\ WrongIn(LookedUp(opts.pairs)) = {}
        /\ Answer(Judged("validate", opts, schemas[id].given, ParsedOptions(LookedUp(opts.pairs))))
  BY DEF ValidateWith
<1>2. opts # Nil
  BY <1>1 DEF Nil
<1>3. Means(ParsedOptions(LookedUp(opts.pairs)), opts.pairs, {"symbol"})
  BY <1>1, LookedUpMeans
<1>4. Right(Judged("validate", opts, schemas[id].given, ParsedOptions(LookedUp(opts.pairs))))
  BY <1>2, <1>3, ExactlyJudged
<1> QED  BY <1>1, <1>4, QuietStep DEF ValidateWith

\* Freeing a schema changes nothing but that it is live.
LEMMA FreeKeeps ==
  ASSUME IInv, NEW id \in DOMAIN schemas, Free(id)
  PROVE  /\ IInv'
         /\ DOMAIN schemas' = DOMAIN schemas
         /\ schemas'[id] = [schemas[id] EXCEPT !.live = FALSE]
         /\ \A i \in DOMAIN schemas \ {id} : schemas'[i] = schemas[i]
<1> DEFINE freed == [schemas[id] EXCEPT !.live = FALSE]
<1>1. schemas' = [schemas EXCEPT ![id] = freed]
  BY DEF Free
<1>2. schemas \in Seq(Schema) /\ schemas[id] \in Schema
  BY DEF IInv, TypeOK
<1>3. /\ freed \in Schema
      /\ freed.options = schemas[id].options /\ freed.given = schemas[id].given
  BY <1>2 DEF Schema
<1>4. freed = [schemas[id] EXCEPT !.live = FALSE]
  OBVIOUS
<1> HIDE DEF freed
<1>5. /\ schemas' \in Seq(Schema) /\ Len(schemas') = Len(schemas)
      /\ DOMAIN schemas' = DOMAIN schemas /\ schemas'[id] = freed
      /\ \A i \in DOMAIN schemas \ {id} : schemas'[i] = schemas[i]
  BY <1>1, <1>2, <1>3
<1>6. OptionsAreGiven'
  <2>1. \A i \in DOMAIN schemas' : i \in DOMAIN schemas /\ (i = id \/ i \in DOMAIN schemas \ {id})
    BY <1>5
  <2>2. ASSUME NEW i \in DOMAIN schemas'
        PROVE  MeansToCompile(schemas'[i].options, schemas'[i].given)
    BY <1>3, <1>5, <2>1 DEF IInv, OptionsAreGiven
  <2> QED  BY <2>2 DEF OptionsAreGiven
<1>7. nextId' = nextId /\ task' = task /\ answer' = answer
  BY DEF Free
<1>8. IInv'
  BY <1>5, <1>6, <1>7 DEF IInv, TypeOK, TasksAreGiven, JudgedAsCompiled, GivenOptionsReplaceAll
<1> QED  BY <1>4, <1>5, <1>8

LEMMA Step == IInv /\ [Next]_vars => IInv'
<1> SUFFICES ASSUME IInv, [Next]_vars PROVE IInv'
  OBVIOUS
<1>1. ASSUME NEW t \in Threads, RejectArgument(t) PROVE IInv'
  BY <1>1, QuietStep, NothingJudged DEF RejectArgument
<1>2. ASSUME NEW t \in Threads, RejectOption(t) PROVE IInv'
  BY <1>2, QuietStep, NothingJudged DEF RejectOption
<1>3. ASSUME NEW t \in Threads, StartCompile(t) PROVE IInv'
  BY <1>3, StartCompileKeeps
<1>4. ASSUME NEW t \in Threads, FinishCompile(t) PROVE IInv'
  BY <1>4, FinishCompileKeeps
<1>5. ASSUME NEW t \in Threads, RejectSchema(t) PROVE IInv'
  BY <1>5, CompileFails DEF RejectSchema
<1>6. ASSUME NEW t \in Threads, AbandonCompile(t) PROVE IInv'
  BY <1>6, CompileFails DEF AbandonCompile
<1>7. ASSUME NEW t \in Threads, Allocate(t) PROVE IInv'
  BY <1>7, AllocateKeeps
<1>8. ASSUME NEW entry, NEW id \in Live,
             Answer(Judged(entry, Nil, schemas[id].given, schemas[id].options)),
             UNCHANGED <<schemas, nextId, task>>
      PROVE  IInv'
  <2>1. MeansToCompile(schemas[id].options, schemas[id].given)
    BY DEF Live, IInv, OptionsAreGiven
  <2>2. Right(Judged(entry, Nil, schemas[id].given, schemas[id].options))
    BY <2>1, ExactlyJudged
  <2> QED  BY <1>8, <2>2, QuietStep
<1>9. ASSUME NEW t \in Threads, Build(t) PROVE IInv'
  BY <1>8, <1>9 DEF Build
<1>10. ASSUME NEW t \in Threads, ValidateAsCompiled(t) PROVE IInv'
  BY <1>8, <1>10 DEF ValidateAsCompiled
<1>11. ASSUME NEW t \in Threads, ValidateWith(t) PROVE IInv'
  BY <1>11, ValidateWithKeeps
<1>12. ASSUME NEW t \in Threads, RejectValidation(t) PROVE IInv'
  BY <1>12, QuietStep, NothingJudged DEF RejectValidation
<1>13. ASSUME NEW id \in DOMAIN schemas, Free(id) PROVE IInv'
  BY <1>13, FreeKeeps
<1>14. CASE UNCHANGED vars
  BY <1>14 DEF vars, IInv, TypeOK, OptionsAreGiven, TasksAreGiven, JudgedAsCompiled,
     GivenOptionsReplaceAll
<1> QED
  BY <1>1, <1>2, <1>3, <1>4, <1>5, <1>6, <1>7, <1>9, <1>10, <1>11, <1>12, <1>13, <1>14 DEF Next

LEMMA Inductive == Spec => []IInv
<1>1. Init => IInv
  BY Initially
<1>2. IInv /\ [Next]_vars => IInv'
  BY Step
<1> QED  BY <1>1, <1>2, PTL DEF Spec

-----------------------------------------------------------------------------
(* The theorems.                                                           *)

\* Ids are handed out in order (schema/compiled.rs), a schema has options of
\* the right kind (options.rs), and so has a compile that is under way.
THEOREM TypeCorrect == Spec => []TypeOK
<1>1. IInv => TypeOK
  BY DEF IInv
<1> QED  BY <1>1, Inductive, PTL

\* Whatever hash compile is given (core.rb, parse_options of lib.rs), a schema
\* has the options it asks for and the defaults for the others.
THEOREM SchemasHaveGivenOptions == Spec => []OptionsAreGiven
<1>1. IInv => OptionsAreGiven
  BY DEF IInv
<1> QED  BY <1>1, Inductive, PTL

\* However many threads compile and validate at once, build and a validate
\* without options (build_internal and validate of lib.rs) go by the options
\* the schema was compiled with.
THEOREM BuildsGoAsCompiled == Spec => []JudgedAsCompiled
<1>1. IInv => JudgedAsCompiled
  BY DEF IInv
<1> QED  BY <1>1, Inductive, PTL

\* The options given to validate (lib.rs) stand alone, whatever they are.
THEOREM GivenOptionsStandAlone == Spec => []GivenOptionsReplaceAll
<1>1. IInv => GivenOptionsReplaceAll
  BY DEF IInv
<1> QED  BY <1>1, Inductive, PTL

\* A step makes a schema, frees one, or leaves all as they are.
Unchanging ==
  \A id \in DOMAIN schemas :
    /\ id \in DOMAIN schemas'
    /\ schemas'[id] \in {schemas[id], [schemas[id] EXCEPT !.live = FALSE]}
LEMMA StepChangesNone == IInv /\ [Next]_vars => Unchanging
<1> SUFFICES ASSUME IInv, [Next]_vars PROVE Unchanging
  OBVIOUS
<1>1. ASSUME NEW t \in Threads, FinishCompile(t) PROVE Unchanging
  <2>1. PICK job \in task[t], d \in Documents \ Refused : NewSchema(job.given, d, job.options)
    BY <1>1 DEF FinishCompile
  <2>2. job.given \in CompileOpts /\ job.options \in Options /\ MeansToCompile(job.options, job.given)
    BY DEF IInv, TypeOK, Job, TasksAreGiven
  <2>3. \A id \in DOMAIN schemas : id \in DOMAIN schemas' /\ schemas'[id] = schemas[id]
    BY <2>1, <2>2, NewSchemaKeeps DEF IInv
  <2> QED  BY <2>3 DEF Unchanging
<1>2. ASSUME NEW t \in Threads, Allocate(t) PROVE Unchanging
  <2>1. \A id \in DOMAIN schemas : id \in DOMAIN schemas' /\ schemas'[id] = schemas[id]
    BY <1>2, NewSchemaKeeps, DefaultsMean DEF IInv, Allocate
  <2> QED  BY <2>1 DEF Unchanging
<1>3. ASSUME NEW id \in DOMAIN schemas, Free(id) PROVE Unchanging
  BY <1>3, FreeKeeps DEF Unchanging
<1>4. CASE UNCHANGED schemas
  BY <1>4 DEF Unchanging
<1> QED
  BY <1>1, <1>2, <1>3, <1>4
  DEF Next, vars, RejectArgument, RejectOption, StartCompile, RejectSchema, AbandonCompile, Build,
      ValidateAsCompiled, ValidateWith, RejectValidation

\* An id means one schema for ever (NEXT_SCHEMA_ID of schema/compiled.rs), and
\* no compile, build, validate or free changes what it is (lib.rs).
THEOREM SchemasAreImmutable == Spec => SchemasNeverChange
<1>1. IInv /\ [Next]_vars => [Unchanging]_vars
  BY StepChangesNone
<1>2. Spec => [][Unchanging]_vars
  BY <1>1, Inductive, PTL DEF Spec
<1> QED  BY <1>2 DEF SchemasNeverChange, Unchanging

-----------------------------------------------------------------------------
(* A refusal names the first option that is set to what it cannot be.      *)

\* What a hash sets an option to, as a whole, is not a value it can have.
WrongAsGiven(opts, n) ==
  \E v \in Decisive(PairsOf(opts), {"symbol", "string"}, n) : Setting(n, v) = None

LEMMA WrongMeans ==
  ASSUME NEW opts \in CompileOpts, opts.kind # "other", NEW n \in OptionNames
  PROVE  n \in WrongIn(Merged(opts)) <=> WrongAsGiven(opts, n)
<1> DEFINE pairs == PairsOf(opts)
           kinds == {"symbol", "string"}
           g == Collected(pairs, kinds)
           h == Merged(opts)
<1>1. /\ Len(pairs) \in Nat /\ DOMAIN pairs = 1..Len(pairs)
      /\ \A i \in DOMAIN pairs : IsValue(pairs[i].value)
  <2>1. CASE opts.kind = "hash"
    BY <2>1, ArgumentsAssumption DEF PairsOf, IsArgument
  <2>2. CASE opts.kind # "hash"
    BY <2>2 DEF PairsOf
  <2> QED  BY <2>1, <2>2
<1>2. /\ n \in DOMAIN h
      /\ h[n] = IF n \in DOMAIN g THEN g[n] ELSE DEFAULT_OPTIONS[n]
  BY DefaultsAgree DEF Merged, SymbolizeKeys
<1>3. /\ GivenIn(g, n) => Decisive(pairs, kinds, n) = {g[n]}
      /\ ~GivenIn(g, n) => Decisive(pairs, kinds, n) = {}
  <2> HIDE DEF pairs, kinds
  <2> QED  BY <1>1, CollectedDecides
<1>4. n \in WrongIn(h) <=> GivenIn(h, n) /\ Setting(n, h[n]) = None
  BY DEF WrongIn
<1>5. WrongAsGiven(opts, n) <=> \E v \in Decisive(pairs, kinds, n) : Setting(n, v) = None
  BY DEF WrongAsGiven
<1> SUFFICES n \in WrongIn(h) <=> WrongAsGiven(opts, n)
  OBVIOUS
<1> HIDE DEF pairs, kinds, g, h
<1>6. CASE GivenIn(g, n)
  <2>1. n \in DOMAIN g /\ g[n].kind # "nil"
    BY <1>6 DEF GivenIn
  <2>2. h[n] = g[n]
    BY <1>2, <2>1
  <2>3. GivenIn(h, n)
    BY <1>2, <2>1, <2>2 DEF GivenIn
  <2>4. n \in WrongIn(h) <=> Setting(n, g[n]) = None
    BY <1>4, <2>2, <2>3
  <2>5. WrongAsGiven(opts, n) <=> Setting(n, g[n]) = None
    BY <1>3, <1>5, <1>6
  <2> QED  BY <2>4, <2>5
<1>7. CASE ~GivenIn(g, n)
  <2>1. ~WrongAsGiven(opts, n)
    BY <1>3, <1>5, <1>7
  <2>2. CASE n \in DOMAIN g
    <3>1. h[n] = g[n]
      BY <1>2, <2>2
    <3>2. ~GivenIn(h, n)
      BY <1>7, <2>2, <3>1 DEF GivenIn
    <3> QED  BY <1>4, <2>1, <3>2
  <2>3. CASE n \notin DOMAIN g
    <3>1. h[n] = DEFAULT_OPTIONS[n]
      BY <1>2, <2>3
    <3>2. Setting(n, h[n]) # None
      BY <3>1, DefaultsAgree DEF Some, None
    <3>3. n \notin WrongIn(h)
      BY <1>4, <3>2
    <3> QED  BY <2>1, <3>3
  <2> QED  BY <2>2, <2>3
<1> QED  BY <1>6, <1>7

\* Of the five options, the first in a set that is not empty.
LEMMA FirstOfOrder ==
  ASSUME NEW S, S \subseteq OptionNames, S # {}
  PROVE  \E i \in 1..5 : Order[i] \in S /\ \A j \in 1..(i - 1) : Order[j] \notin S
<1>1. \E i \in 1..5 : Order[i] \in S
  <2>1. /\ Order[1] = "strict" /\ Order[2] = "input_mode" /\ Order[3] = "extra"
        /\ Order[4] = "freeze" /\ Order[5] = "store_attributes"
    BY DEF Order
  <2>2. PICK n \in S : n \in OptionNames
    OBVIOUS
  <2>3. n \in {Order[1], Order[2], Order[3], Order[4], Order[5]}
    BY <2>1, <2>2 DEF OptionNames
  <2> QED  BY <2>2, <2>3
<1>2. \A i \in 1..5 : i \in {1, 2, 3, 4, 5}
  OBVIOUS
<1>3. CASE Order[1] \in S
  BY <1>3
<1>4. CASE Order[1] \notin S /\ Order[2] \in S
  BY <1>4
<1>5. CASE Order[1] \notin S /\ Order[2] \notin S /\ Order[3] \in S
  BY <1>5
<1>6. CASE Order[1] \notin S /\ Order[2] \notin S /\ Order[3] \notin S /\ Order[4] \in S
  BY <1>6
<1>7. CASE /\ Order[1] \notin S /\ Order[2] \notin S /\ Order[3] \notin S /\ Order[4] \notin S
           /\ Order[5] \in S
  BY <1>7
<1> QED  BY <1>1, <1>2, <1>3, <1>4, <1>5, <1>6, <1>7

LEMMA RefusalStep == RefusalNamesOption /\ [Next]_vars => RefusalNamesOption'
<1> SUFFICES ASSUME RefusalNamesOption, [Next]_vars PROVE RefusalNamesOption'
  OBVIOUS
<1>1. ASSUME NEW a, a.kind # "refused", Answer(a) PROVE RefusalNamesOption'
  BY <1>1 DEF Answer, RefusalNamesOption
<1>2. /\ Silent.kind # "refused" /\ \A class : Raised(class).kind # "refused"
      /\ \A id : Made(id).kind # "refused"
      /\ \A entry, opts, given, options : Judged(entry, opts, given, options).kind # "refused"
  BY DEF Silent, Raised, Made, Judged
<1>3. ASSUME NEW t \in Threads, RejectOption(t) PROVE RefusalNamesOption'
  <2>1. PICK opts \in CompileOpts :
          /\ opts.kind # "other" /\ WrongIn(Merged(opts)) # {}
          /\ Answer(RefusedOption(FirstWrong(Merged(opts)), opts))
    BY <1>3 DEF RejectOption
  <2> DEFINE S == WrongIn(Merged(opts))
             first == CHOOSE i \in 1..5 : Order[i] \in S /\ \A j \in 1..(i - 1) : Order[j] \notin S
  <2>2. S \subseteq OptionNames /\ S # {}
    BY <2>1 DEF WrongIn
  <2>3. FirstWrong(Merged(opts)) = Order[first]
    BY DEF FirstWrong
  <2>4. \A n \in OptionNames : n \in S <=> WrongAsGiven(opts, n)
    BY <2>1, WrongMeans
  <2> HIDE DEF S
  <2>5. /\ first \in 1..5 /\ Order[first] \in S
        /\ \A j \in 1..(first - 1) : Order[j] \notin S
    BY <2>2, FirstOfOrder
  <2> HIDE DEF first
  <2>6. \A i \in 1..5 : Order[i] \in OptionNames
    BY DEF Order, OptionNames
  <2>7. \A j \in 1..(first - 1) : j \in 1..5
    BY <2>5
  <2>8. WrongAsGiven(opts, Order[first]) /\ \A j \in 1..(first - 1) : ~WrongAsGiven(opts, Order[j])
    BY <2>4, <2>5, <2>6, <2>7
  <2>9. answer'.opts = opts /\ answer'.option = Order[first]
    BY <2>1, <2>3 DEF Answer, RefusedOption
  <2> QED  BY <2>5, <2>8, <2>9 DEF RefusalNamesOption, WrongAsGiven
<1>4. CASE \E t \in Threads :
             \/ RejectArgument(t) \/ StartCompile(t) \/ FinishCompile(t) \/ RejectSchema(t)
             \/ AbandonCompile(t) \/ Allocate(t) \/ Build(t) \/ ValidateAsCompiled(t)
             \/ ValidateWith(t) \/ RejectValidation(t)
  <2>1. \E a : a.kind # "refused" /\ Answer(a)
    BY <1>2, <1>4 DEF RejectArgument, StartCompile, FinishCompile, RejectSchema, AbandonCompile,
       Allocate, Build, ValidateAsCompiled, ValidateWith, RejectValidation
  <2> QED  BY <1>1, <2>1
<1>5. CASE UNCHANGED answer
  BY <1>5 DEF RefusalNamesOption
<1> QED  BY <1>3, <1>4, <1>5 DEF Next, vars, Free

\* A refusal of compile (parse_options of lib.rs) names the first option that
\* the hash as a whole sets to what it cannot be, whatever core.rb merged into
\* it, and there is such an option.
THEOREM RefusalsNameOption == Spec => []RefusalNamesOption
<1>1. Init => RefusalNamesOption
  BY DEF Init, RefusalNamesOption, Silent
<1> QED  BY <1>1, RefusalStep, PTL DEF Spec
=============================================================================
