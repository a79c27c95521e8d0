# Rustly::Core in TLA+

A verification project for rustly-core, a Ruby extension in Rust that compiles
a schema, validates a payload against it outside the GVL, and materialises a
Ruby object from the result. Paths below are relative to the repository; Rust
files without a directory are under `ext/rustly_core/src/`.

Part 1 is the inventory of the system, part 2 the modules and how they
correspond to the code, part 3 the runs, part 4 the proofs, part 5 what the
code does that its documentation denies, part 6 what is not modelled and why.

## 1. The system

| Part | State | Operations | Hard because |
|---|---|---|---|
| Schema parser (`schema/compiler.rs`, `parse_*`) | the recursion, its path | `parse_type_expr` and its family | three notations for every type; precedence of inline over field options, options that some forms drop |
| Compiler (`SchemaCompiler::compile`) | none once done | `coerce`, parse, summary, `build_ir`, plan | runs Ruby code first; four ways to end, one of them an abort |
| IR builder (`build_ir`, `InternTable`) | the arena, the table, the recursion | `build_type_expr`, `intern`, `alloc` | two structures kept equal by one function; the validator trusts the result to be acyclic |
| Compiled schema (`schema/compiled.rs`) | id, IR in an `Arc`, plan, options | `new`, `options_mut`, `build_materialize_plan` | ids of all threads from one counter; shared by threads; the plan knows only a struct at the root |
| Options (`lib.rs`, `lib/rustly/core.rb`) | none | `parse_options`, `symbolize_keys`, merge with `DEFAULT_OPTIONS` | two sets of defaults; those of `validate` replace the compiled ones as a whole |
| Input conversion (`validation/input.rs`) | arena, path, the error kept aside by a hash | `prepare_input`, `convert_*` | reads Ruby objects, under the GVL only; graphs with cycles; exceptions by longjmp; path pushed and popped by hand |
| Validator (`validation/engine.rs`) | path, issues, partial outputs on the native stack | `validate_*`, `coerce_*`, `apply_*`, `finish` | goes on after offences; path pushed and popped by hand; the root known by an empty path |
| Arena and values (`validation/arena.rs`, `value.rs`) | a bump arena behind an `Arc` | allocation, lifetime casts | values are cast to `'static`: only drop order keeps their memory alive |
| GVL (`ruby_helpers.rs`) | `SKIP_GVL`, a thread-local flag | `call_without_gvl`, `execute_with_gvl` | other threads run meanwhile; interrupts before and after |
| Entry points (`lib.rs`) | what one call owns | `compile`, `build`, `build_synced`, `validate` | Ruby exceptions leave Rust frames without destructors |
| Materialisation (`materialize.rs`) | GC registrations, the instance | `materialize_instance` | the order of writes to instance variables; freezing; failing halfway |
| Error sets (`errors.rs`, `format_path`) | none once built | conversion to Ruby | paths become texts that escape nothing |

How they interact: `compile` runs parser, builder and plan under the GVL and
wraps the result. `build`, `build_synced` and `validate` take the compiled
schema, copy the payload into an arena (`prepare_input`), run the validator on
the copy, outside the GVL but for `build_synced`, and report issues, raise
them, or materialise the output. The schema is shared and never written after
`compile`; the payload is shared with all of Ruby and only read while the GVL
is held; everything else belongs to one call.

What makes each part correct:

- **Validator.** A payload is accepted exactly when it conforms; an accepted
  payload has an output, that output needs no further coercion; an issue points
  into the payload; none is reported twice; the recursion is bounded by the
  schema.
- **Compilation.** What is compiled is what the document means, whatever
  notation it is written in; what means nothing is refused, at its first fault.
- **Options.** A schema has the options it was given, for ever, and every
  payload is judged by those of its own schema.
- **Input conversion.** The copy is the payload; the first fault is reported, at
  its path; JSON and Ruby objects are read alike; it ends, also on a cycle.
- **IR builder.** The arena unfolds to the expression that was compiled, holds
  no node twice, and refers only backward.
- **Native call.** Every call is atomic for the other threads, only
  `build_synced` validates under the GVL, every call ends, no thread starves.
- **Ownership.** Memory outlives the values in it; a call that returns gives
  everything back.

## 2. The modules

| Module | Models | Extends |
|---|---|---|
| `OwnedValue` | `validation/value.rs`: values, options, texts | |
| `SchemaIr` | `schema/ir.rs`: nodes, `IsSchema` | `OwnedValue` |
| `Validator` | `validation/engine.rs` | `SchemaIr` |
| `Conformance` | what conforms to a schema and what a path leads to, without the validator's loops | `Validator` |
| `IssueReports` | issues by the text of their paths; `format_path` | `Conformance` |
| `ValidationContract` | outputs, taken for payloads again | `IssueReports` |
| `MCValidator` | schemas and payloads for TLC | `ValidationContract` |
| `BuildIr` | `build_ir` of `schema/compiler.rs`, `InternTable` | `SchemaIr` |
| `MCBuildIr` | expressions for TLC | `BuildIr` |
| `SchemaParse` | `from_value` and the `parse_*` functions of `schema/compiler.rs` | `SchemaIr` |
| `SchemaGrammar` | what a document means, by recursion on it | `SchemaParse` |
| `SchemaDocuments` | documents for TLC | `SchemaGrammar` |
| `Compile` | `compile` of `schema/compiler.rs`, from object to plan | `SchemaParse`, instance of `BuildIr` |
| `MCCompile` | objects and more documents for TLC, `Unfold` | `Compile`, `SchemaDocuments` |
| `CompiledSchemas` | `compile`, `build`, `validate` of `lib.rs` and `core.rb`: options, ids, lifetimes | |
| `MCCompiledSchemas` | hashes of options for TLC | `CompiledSchemas` |
| `InputConversion` | `validation/input.rs` | `OwnedValue` |
| `ConversionMeaning` | what a conversion yields, without its loops | `InputConversion` |
| `ConversionContract` | the JSON of a payload, `from_json` | `ConversionMeaning` |
| `MCInputConversion` | a heap of objects for TLC | `ConversionContract` |
| `AtomicCall` | what a call promises to the other threads | |
| `NativeCall` | the three entry points, the GVL, `SKIP_GVL`, interrupts | instance of `AtomicCall` |
| `MCNativeCall` | threads and payloads for TLC | `NativeCall` |
| `CallOwnership` | what one call owns and in which order it is dropped | |
| `Materialize` | `materialize.rs` and the plan of `schema/compiled.rs`, after a validation | `Validator` |
| `MCMaterialize` | schemas, payloads and options for TLC | `Materialize` |
| `SequenceLemmas` | facts on sequences the proofs share | |
| `ValidatorProofs` | the proofs for the validator, its contract and the instance | `ValidationContract`, `Materialize` |
| `SchemaParseProofs` | the proofs for the parser, the grammar and the compiler | `SchemaGrammar`, `Compile` |
| `BuildIrProofs`, `InputConversionProofs`, `NativeCallProofs`, `CompiledSchemasProofs`, `CallOwnershipProofs` | the proofs | their module |

The modules meet in what one assumes and another shows. `BuildIr` assumes that
it is given type expressions, and `SchemaParse` is proved to build nothing
else; `Validator` assumes `SchemaIr!IsSchema` of every schema, and `BuildIr` is
proved to build nothing else; `Compile` runs the two together. `Validator`
assumes that its inputs are values, which is what `InputConversion` yields.
`NativeCall` takes a conversion and a validation for one step each, the second
judging the copy: that they end, and with a result, is what `InputConversion`
and `Validator` show. `CallOwnership` follows the memory of the same call, and
`CompiledSchemas` which schema and options it goes by.

### Data

A value is a record whose field `kind` is its Rust variant. An `Option` is a
set of at most one element. A text is a member of the constant `Text`, and what
the code reads out of it (`parse::<bool/i64/f64>`, length in chars, formats) is
the table `Reads`. An `f64` is an option of tenths: the empty one is NaN, so a
comparison with it is false, as in Rust. Infinities and the rounding of an
`i64` to an `f64` are left out. The `meta` of an issue is left out; its path is
kept as a sequence of segments; `format_path` of `IssueReports` renders it
where a property asks what its reader sees, with the characters of each key
(`Spelling`) and of each index (`Numeral`).

### Validator

The code is a family of recursive methods. The model makes the native stack
explicit:

| Variable | In the code |
|---|---|
| `call` | the arguments: schema, prepared input, options |
| `pc`, `focus`, `ret` | the method called next and its arguments, or the value it returned |
| `stack` | one frame per open `validate_list`, `validate_dict`, `validate_struct`: its loop and position |
| `partial` | the `output`, `field_values` and `extras_temp` of those frames |
| `path`, `issues` | the fields of `Validator` |
| `output` | `ValidationResult.output` |

| Actions | In the code |
|---|---|
| `RejectMalformedJson`, `ValidateRoot` | `validate_json`, `validate_root` |
| `ValidatePrimitive`, `ValidateEnum`, `ValidateOptional` | the methods of those names, with the `coerce_*` and `apply_*` methods as operators |
| `RejectShape` | the early returns of list, dict and struct |
| `EnterCollection`, `VisitMember`, `TakeMember`, `LeaveCollection` | the loops of `validate_list` and `validate_dict`: the members that validated are counted, not those that were sent |
| `EnterStruct`, `VisitField`, `MissField`, `TakeField` | the loop over the declared fields |
| `ScanExtras`, `ScanKey`, `LeaveStruct` | the loop over the keys of the payload |
| `Finish` | `finish` |

A push and its pop around a missing field or an extra key happen with no call
between them and are one action; around a validation they are two, as in the
code.

### BuildIr

`stack` holds the calls of `build_type_expr` in progress, each with the indexes
it has so far. `BuildComponent` is the recursive call, `InternKnown` and
`InternNew` the two ways `InternTable::intern` returns; `Deliver` hands the
index to the caller, or to `build_ir`. Indexes count from one. `Unfolding` is
the way back: the expression each node of an arena stands for.

### SchemaParse

The recursion is explicit, as in `Validator`. `focus` is the call of
`parse_type_expr` that comes next: a JSON value, the options of the field
around it, and its path. `frames` holds a frame for each `parse_*` function in
progress: the type it has recognised, its options, and how far its loop is.

| Actions | In the code |
|---|---|
| `RefuseType` | `parse_type_expr`, `parse_named_type`, `parse_array_type` know no such type |
| `ParsePrimitive`, `RefusePrimitive` | the types without parts, and a bound that cannot be read |
| `ParsePart` | the recursive call of list, dict and optional |
| `EnterLoop`, `TakeVariant`, `RefuseVariant`, `TakeField`, `RefuseField` | the loops of `parse_enum_type` and `parse_fields_array` |
| `FinishType`, `RefuseWhole` | the end of a function: its constraints, its emptiness |

`HeadOf` is the dispatch on the notation, and `Merge` the precedence of
options. An array keeps its options only under the tags `list`, `dict` and
`struct` in lower case, and hands those of the field on to its part only under
`optional`: the grammar of `SchemaGrammar` says the same of the document as a
whole, and the run of `Compile` compares the two. `built` is a history of what
the functions have returned.

### Compile

`stage` is where `compile` is: `coerce`, `parse` (the steps of `SchemaParse`),
`build` (those of `BuildIr`, on the expression that was parsed), or one of four
ends. A source says what Ruby makes of the object: a text, one with a NUL,
something else, or an exception. Of the summary, only how many bytes its
characters take is kept, since `truncate` panics between them; of the names at
the root, whether they have a NUL or are not ASCII, which `CString::new` and
`rb_intern2` do not take. A panic cannot leave an `extern "C"` function: it
aborts the process.

### CompiledSchemas

`schemas` is a history of all schemas made, by their ids; `task` holds the
options of a compile that has called `JSON.generate`, where Ruby code runs and
other threads are let in: `StartCompile` reads the options, `FinishCompile`
takes the id, sets them and wraps the schema. `RejectArgument`, `RejectOption`,
`RejectSchema` and `AbandonCompile` are the ways it fails; `Allocate` is
`CompiledSchema.allocate` (or a `dup`), an empty schema of the type any that
takes an id too; `Build`, `ValidateAsCompiled`, `ValidateWith` and
`RejectValidation` judge a payload; `answer` is how the latest call ended;
`Free` is the GC. Options are parsed in
full: a hash is a sequence of pairs with Symbol, String or other keys, merged
and read as `core.rb` and `parse_options` do. `symbolize_keys` asks no more of
the argument of `compile` than `each_with_object`: `false` counts as `nil` there
and any collection of pairs as a hash, and what remains ends in `RejectArgument`.

### InputConversion

Ruby's objects are a heap: a name stands for an object, and collections hold
names, so that objects may be shared and contain themselves. `focus` is the
object `convert_ruby_value` is called on, `frames` the calls of `convert_array`
and `convert_hash` in progress, `path` is pushed and popped as in the code,
`error` is the `InputError` on its way up. A hash stops its iteration at an
error and pops its segment (`Unwind`), an array returns at once and leaves its
index on the path. Integers beyond `I64` and texts with a NUL make Ruby raise;
`OverflowStack` is the end of the native stack, at `NativeDepth` collections.

### NativeCall

A step of a thread is what it does between two points where another thread may
run. `ruby -> called -> prepared -> native -> back -> judged -> ruby` is the
course of a call (`pc`): `Prepare` copies the payload, `ReleaseGvl` and
`ValidateOutside` and `Resume` are `call_without_gvl`; `KeepGvl` and
`ValidateInside` are the same with the flag set by `execute_with_gvl`;
`Deliver` reports, raises or materialises. The payload is one state out of
those that conform, those that do not, and those the converter refuses. The GVL
(`Acquire`, `Yield`), the mutation of the payload and `Thread#raise` belong to
Ruby and are modelled from what the code relies on: interrupts are checked on
both sides of `rb_thread_call_without_gvl`, and in Ruby code called for the
instance or the exception. The unblock function is empty, so nothing stops a
validation in progress. `AtomicCall` is the same seen from outside: invoke,
judge the payload as it is now, answer.

### CallOwnership

The call is followed from the conversion of the payload, which may be refused
or raise half-way, to its return. `owns` is what the call holds: handles of
arenas, values with vectors in them, the schema's `Arc`, the JSON source, the
issues. A scope that ends puts what it drops, in Rust's order, into `todo`, and
`Drop` takes it out one by one: variables in reverse order of declaration,
parameters after them, fields in order of declaration. An exception, `raised`,
drops nothing.

### Materialize

The module composes the two: `Validate` is a step of `Validator`, and when it
ends with an output `stage` goes through `materialize_instance`: `Allocate`,
`MaterializeField` for each entry of the plan, `MaterializeExtra` for each
extra, `Finalize`; or `RejectRoot` when the output is no struct, and `failed`
when a text with a NUL byte would have to become a symbol or a key. The objects
are trees that say whether they are frozen; `ToRuby` and `DeepFreeze` are
`owned_value_to_ruby` and `deep_freeze_value`. Both recurse on what a value or
an object holds: `Recursively` lists what is held level by level, down to
`Depth`, where nothing holds anything, and makes the results from there up.
The instance is its instance variables, which is all that `rb_ivar_set` writes:
in one of a `Struct.new(:email)`, as in the README's example, `@email` is set
and the Struct's own member stays nil, so that `instance.email` is nil. (The
specs read variables, and of members only `nickname`, nil in the payload as
well.) Members of a Struct are not modelled.
`guards` are the addresses registered with the GC, which a return drops and
`RubyRaises` does not. Ruby's functions may raise wherever one is called:
without an allocator, without memory, or because Ruby refuses a symbol.

## 3. The runs

Only `NativeCall` checks deadlock: elsewhere a call that is over has nothing
more to do, and in `CompiledSchemas` the bounds end the run.

| Run | Shows | Bounds |
|---|---|---|
| `Validator` | the properties below, on 138 426 states | every kind of node alone, in an optional, a list, a dict, a struct, and structs in structs, lists and dicts; payloads of at most four levels, most of three, with at most three members a level; a text for each way of being read, and keys that are joins of others |
| `BuildIr` | 8 024 states | expressions of at most four levels with repeated and with similar components |
| `Compile` | 25 114 states, from 2 230 objects | documents in every notation of every type, nested three levels deep; options at the name, in the array and around the field; each fault alone and with another; structs of two fields over shared parts in different notations; names with a NUL or not ASCII at the root and below it; summaries around a limit of 3 bytes |
| `InputConversion` | 13 186 states | Ruby payloads of at most four levels with one or two members, a kind of every scalar, faulty members before and after others, two that contain themselves; every input mode; an `i64` of two bits, a stack of three collections |
| `CompiledSchemas` | 297 371 states | two threads, three schemas; options by Symbol, String or another object, alone, twice and as nil, right, wrong, and several wrong at once |
| `NativeCall` | 65 190 states, with liveness | two threads, one payload of each judgement |
| `Materialize` | 1 314 948 states | structs at the root, nested, in lists, under an optional; payloads of at most three keys and four levels; every freeze mode, with and without `@attributes` |
| `CallOwnership` | 440 states: all calls there are | none but that one call is followed |
| `CallOwnershipJson`, `MaterializeOptional`, `MaterializeGuards`, `CompileSummary` | the disagreements of part 5 | as above |

Why the bounds are enough. Two members a level put something before and
something after every member; three levels put a struct below the root inside
something else, which is where `effective_extra` may go wrong; the duplicate
key, the duplicate field, the unknown key and the missing key are among the
payloads. Two threads are enough for everything one thread can do to another:
the state of a call is private, but for the payload and the GVL. The proofs
hold for every number. An `i64` of two bits and a limit of three bytes have the
values on both sides of their boundaries, which is all the code asks of them.
`MaxId` ends a run after three schemas: one for each thread and one that was
made before. Whatever happens to two compiles is that of any two. The keys
"a", "b", "ab" and "a.b" have all the ways in which two paths can be joined
into one text.

Properties of `Validator`:

- `ExpectNeverPanics`: no issue means an output, so the `expect` of
  `build_internal` holds.
- `PathMirrorsStack`: the path is that of the open frames.
- `RecursionIsBounded`: down the arena at every level.
- `AcceptsExactlyConforming`: accepted if and only if the payload conforms, by
  the definition of `Conformance`, a recursive function of the node, where
  members are what the caller sent. It holds although sizes are taken after
  members are left out, because whoever leaves one out has reported it.
- `AcceptedOutputIsStrict`: the output, read back as a payload, conforms under
  `strict`. It is stated for schemas whose field names are distinct, and of
  payloads that may repeat a key.
- `IssuesAddressPayload`: the path of an issue leads to something in the
  payload, or, for a missing field, to a dict without that key.
- `NoIssueTwice`: where the names of a struct's fields are distinct, no two
  issues have the same code and the same path, nor the same code and paths with
  the same text, at any time; but for issues below a key that the payload itself
  repeats (`RepeatsKey`). For the texts, keys that are empty or have a dot or a
  bracket are left out: `format_path` escapes nothing, so the issues of
  `{"a.b": 1}` and of `{"a": {"b": 1}}` cannot be told apart by their path.
- `Termination`.

Properties of `Compile`, and of the `SchemaParse` in it:

- `CompiledMeansDocument`: the arena, unfolded from its root, is the meaning
  `SchemaGrammar` gives the document, and the plan names the fields at its root;
  an ArgumentError is raised for what has no meaning, and for nothing else.
- `FailureIsFirstFault`: the path of an error is that of the fault the grammar
  comes to first.
- `BuiltIsClosed`: every expression returned is made of expressions returned
  before it, which is what `BuildIr` assumes.
- `EndHasReason`: an abort or another exception has one of the known causes;
  names below the root are none.
- `CompileEnds`.

Properties of `CompiledSchemas`: `RefusalNamesOption` (a hash is refused exactly
for an option that is wrong in the end, the first in the order of
`parse_options`), `GivenOptionsReplaceAll` (the options of `validate` stand
alone), `JudgedAsCompiled` (no thread's options reach another's schema) and
`SchemasNeverChange`. That Ruby's defaults, the merge and the parser agree on
what a user asked for, `OptionsAreGiven`, is proved.

Properties of `InputConversion`: `OutcomeIsMeaning` (a conversion that succeeds
yields the payload itself; one that fails has the outcome of the first fault in
the order of the traversal, with its path), `JsonAgreesWithRuby` (the JSON of a
payload, read by `from_json`, is the same value, but for symbols and the order
of keys), `PathMirrorsStack` and `Termination`, also on a cycle.
`JsonAgreesWithRuby` keeps the last of two pairs with one key, as JSON does; the
validator takes the first of them when it is given the Ruby hash, so
`{a: 1, "a" => 2}` may be judged differently by the two routes.

Properties of the others: `TableMirrorsArena`, `CompiledIsSchema` and
`UnfoldsWithoutRepetition` (the arena unfolds to the document, no two nodes to
the same part of it, and each but the root is needed by a later one) for
`BuildIr`; `GvlDuringValidation`, `AtomicSpec`, `CallsEnd`, `EveryThreadRuns`
for `NativeCall`; `OnlyRejectedJsonOutlivesArena`, `ReturnReleasesAll`,
`RaiseKeepsOnlyOutcome` (once a payload is judged, an exception leaks the
result or the issues and nothing of what they were made from) and
`OnlyInterruptsKeepSchema` (no exception leaks an `Arc` of the schema but an
interrupt before the validation) for `CallOwnership`; `FieldsReachInstance` (the
instance has a variable for exactly the fields the payload holds),
`AttributesHoldPayload` and `DeepFreezeIsDeep` for `Materialize`.

Fairness. A validation, a compilation and a conversion are single function
calls: weak fairness of `Next` says that the processor goes on. For
`NativeCall`:

- strong fairness of `Acquire(t)`: the GVL has a queue of waiters and serves
  each in turn;
- strong fairness of `Yield(t)`: the timer of Ruby ends the slice of a thread
  that others wait for, at the next place it checks for interrupts;
- strong fairness of `Native(t)`: a thread in native code does not lose the GVL
  at every such place before it has taken one step.

Nothing is assumed of Ruby code: it may never call, never rescue, and never
stop mutating. `CallsEnd` fails if a validation could start again, and
`EveryThreadRuns` if one that holds the GVL could.

Each property of a passing run is paired with a mutant of the code, next to the
definition it replaces (`IndexSegmentBelow`, `OwnExtra`, ...): a plausible bug
under which that run finds the property violated.

## 4. The proofs

Proved with TLAPS for all values of the constants, under the assumptions
`TextAssumption`, `ValuesAssumption`, `CallsAssumption` (inputs are values,
schemas satisfy `IsSchema`), `ExprsAssumption`, `FreeAssumption`,
`JsonAssumption` (documents are JSON), `OptionMapsAssumption` (`OptionMaps` has
the options that may reach a part of one), `NestingAssumption` (no document
nests deeper than `Nesting`), `SourcesAssumption` (what Ruby makes of an
object), `MeaningsAssumption` of `Compile` (what a document means is an
expression the builder is given), `HeapAssumption` (a heap of objects whose
members are in it), `ArgumentsAssumption` (options are nil, a hash or another
object), `FormsAssumption`, `OptionsAssumption` (the freeze mode is one of
three), `DepthAssumption` (no value nests deeper than `Depth`: it is a finite
tree), `SpellingAssumption` (a text is its characters, so two texts differ in
them) and `NumeralAssumption` (the numerals of indexes differ and have no
bracket). Rust's types and the ways values are made give all of these; the
bounds on nesting are any number at all, and finite trees have one:

- `ValidatorProofs`: `TypeOK`, `PathMirrorsStack`, `RecursionIsBounded`,
  `ExpectNeverPanics`, `AcceptsExactlyConforming`, `IssuesAddressPayload`,
  `NoIssueTwice`, `AcceptedOutputIsStrict`. The first inductive invariant is
  `TypeInv`: the call is one of those asked for, `TypeOK`, and `StackOK`, which
  says that each open frame is at a position of its loop that exists, that its
  node and value have the shape the loop needs, that `partial` has an element
  for each frame, and that the frame above it, or the focus, is one of its
  components. None of this is in the properties, and without it a step could
  not be typed: `TakeMember` reads the key of a member, `VisitField` a field of
  the node. On top of it the path (with `Spine`), the descent of the nodes, and
  the issue before every `None` are inductive one by one, an action at a time.

  `AcceptsExactlyConforming` needs `JudgeInv`, which relates the loops to the
  recursive definition. `Linked`: the node and value of a frame conform exactly
  when the member does that the frame below it waits for, so that a verdict on
  the innermost is one on what all wait for. `Judged`: there is no issue exactly
  while all that was passed in every frame conforms, and, on a return, what was
  waited for. `Counted`: as long as there is no issue, a list has as many
  elements in `partial` as it has passed. The last is what makes the size that
  `validate_list` takes at its end, of the elements that validated, the size of
  the list wherever it matters. The options of the root reach an inner struct
  through optionals only (`ImposedAt`), which is the proof's account of the
  root being known by an empty path.

  `IssuesAddressPayload` needs `AddressInv`: every frame's value is held, one
  segment of the path further, by that of the frame below. A dict with a key
  twice is why a path leads to a set of values.

  `NoIssueTwice` needs `OrderInv`: the traversal never comes back. A path is
  `Past` when it follows the frames up to a member that is done with, and then
  parts from them; what is past stays past (`PastStep`), every issue is past,
  and a new one is recorded where nothing is past, or below a key that the
  payload repeats. `Scanning` says that only the innermost frame scans for
  extras. That the texts of two paths differ when the paths do is
  `TextTellsPath`: each round of `format_path` can be undone (`JoinTells`), as
  the last dot or bracket of a text is that of its last segment.

  `AcceptedOutputIsStrict` needs `StrictInv`. `Standing`: what conforms strictly
  to the node of a frame conforms to the node the frame below it asks for, which
  holds because only optional nodes lie between the two. `AllBuiltStrictly`: as
  long as there is no issue, what a frame has built so far is made of parts that
  conform strictly, has every required field it has passed, and has no extra
  where they are forbidden. Each way a node returns is then a lemma about what
  it returns (`StrictLeaf`, `StrictOptional`, `StrictCollection`,
  `StrictStruct`). An output is judged part by part, down to as many steps as
  there are nodes, and `StrictAgrees` says that a part conforms as well on its
  own. The hypothesis that no struct names a field twice is needed: of two
  fields of one name the later takes the entry, which the first may refuse.
- of `Materialize`, in the same module: `FieldsReachInstance`,
  `AttributesHoldPayload` and `DeepFreezeIsDeep`. `RootInv`, on the validator,
  says what the frame at the root has built, and the output of it, reflects of
  the payload; `InstanceInv` says what the loops of `materialize_instance` have
  stored of that output, and what is frozen. `DeepFreezeFreezes` is about the
  levels of an object: what comes back is frozen, on every one of them.
- `NativeCallProofs`: `TypeOK`, `GvlDuringValidation`, and that `NativeCall`
  implements `AtomicCall`. The inductive invariant adds `SkipIsScoped` (the
  flag is set exactly while a `build_synced` validates, by the thread that
  holds the GVL) and `VerdictOfCopy` (a verdict is the judgement of the copy).
  The refinement maps `phase` and `judged` from `pc` and `seen`: the copy is
  the instant of judgement, every later step stutters but the one that answers.
- `BuildIrProofs`: `TypeOK`, `TableMirrorsArena`, `CompiledIsSchema`,
  `UnfoldsWithoutRepetition`. The
  first inductive invariant is `TypeOK`, `RefersBackward`, `TableMirrorsArena`;
  a new node refers backward because the indexes a frame holds are in the arena.
  The second, `UnfoldInv`, says that every node was made by `NodeOf` of the
  expression it stands for (`AllMade`), that no two stand for one
  (`AllDistinct`), that each call in progress builds the next component of the
  one before it, with indexes that stand for the components it has
  (`CallsNest`), and that every node is needed by a later node, by such a call,
  or is the root. Its core is `MadeOnce`: if the expression of a call had a node
  already, the two would be made of the same indexes, hence be equal, and
  `intern` would have found it. The table compares nodes, the theorem
  expressions.
- `SchemaParseProofs`: `TypeOK` and `BuiltIsClosed`. The inductive invariant
  adds `FramesProgress`: the frames below the innermost await exactly what it
  returns. What each way through `HeadOf` yields is a lemma of its own.

  `FailureIsFirstFault` needs that the two readings of a document agree, the
  parser's dispatch with its precedence of options and the grammar's long form:
  that is a lemma for each kind of type. On them `MeaningInv` says that each
  call in progress decides the document: it means something, and if that is a
  fault, it is the fault of the whole; and that what a frame has built so far is
  what its parts mean. An error is then the document's first fault, as every
  part before it meant something.
- of `Compile`, in the same module: `CompiledMeansDocument` and `EndHasReason`.
  `CInv` says of each stage which of the three invariants holds of it:
  `MeaningInv` from the parse on, and from the build on that of `BuildIrProofs`,
  whose theorems are used through the instance `Builder`, with the expression
  that was parsed as the only one. So the unfolding of the arena, which is the
  expression `build_ir` was given, is the meaning of the document.
- `InputConversionProofs`: `TypeOK`, `PathMirrorsStack`, `PartsAreMembers`,
  inductive together with `OneOf` (at most one of focus, error and outcome) and
  that frames and path are finite sequences; on top of it `OutcomeIsMeaning`.
  `MeaningInv` says that the parts of an open collection are the meanings of the
  members it has passed, that each collection is the member the one before it is
  at, and that each, and the object in hand, either means a value or decides
  what the payload means (`Decides`): where everything before was a value, the
  fault in hand is the first of the whole. That is why an error, once raised, is
  the outcome.
- `CompiledSchemasProofs`: `TypeOK`, `OptionsAreGiven`, `JudgedAsCompiled`,
  `GivenOptionsReplaceAll`, `SchemasNeverChange`, `RefusalNamesOption`. The
  first lemmas say what `symbolize_keys`, `merge` and `parse_options` make of
  any sequence of pairs; the inductive invariant adds `TasksAreGiven`, that the
  options a compile holds while Ruby code runs are those it was given.
- `CallOwnershipProofs`: `OnlyRejectedJsonOutlivesArena`, `ReturnReleasesAll`,
  `RaiseKeepsOnlyOutcome`, `OnlyInterruptsKeepSchema`. The inductive invariant
  holds them, gives each variable its type (`TypeOK`), and says
  where a call of each form and verdict can be (`Located`), that all it owns is
  listed to be dropped or known to stay (`Accounted`), that the arena handle of
  each value is owned and listed after it (`Relied`), and what an answer still
  owns (`Answered`); `OutcomeRemains` concludes that the outcome is all there is
  when nothing is left to drop.

Recursion in the proofs. The prover cannot use a theorem of induction, which
takes an operator as its parameter, and knows a recursive function only as a
CHOOSE. `SetInduction` of `SequenceLemmas` says that a set with 0 and with the
successor of each of its numbers contains all numbers: a fact about a set, so
it can be cited, and it is proved from the cardinality of finite sets. With it
`ConformanceExists`, `ReachedUnfolds`, `TextUnfolds`, `LevelsUnfold`,
`MeaningsExist` (of a payload), `MeaningsUnfold` (of a document),
`HeldUnfolds`, `PartsUnfold`, `StrictExists` (of an output) and
`UnfoldingExists` show that functions with the equations of their definitions
exist, hence that the definitions satisfy them. For this the references are
recursive functions, of the number of a node, of a length, of a level, or of
the room left, and not recursive operators; where the code recurses on a tree,
as `deep_freeze_value` does, the tree is taken level by level, and a bound on
its levels is a constant. Two assumptions carry weight: `IsReading`, that a
text reads as at most one number, as `parse` has one result; and `IsExprOver`,
that an expression has the fields of its variant and no other, as a Rust enum
has.

Model-checked only:

- liveness (`Termination`, `CallsEnd`, `EveryThreadRuns`, `CompileEnds`):
  fairness is out of the prover's reach;
- `JsonAgreesWithRuby`: it is stated with recursive operators on a tree that is
  no part of a constant, the JSON of a payload.

Proved only: `PartsAreMembers` of `InputConversion`, and `TypeOK` and
`OptionsAreGiven` of `CompiledSchemas`.

## 5. Where the code and its documentation disagree

Four runs expect a violation, and each is a finding:

- **Rejected JSON drops its arena first** (`CallOwnershipJson`,
  `validation/engine.rs:128`). `finish` binds the arena to a local variable,
  dropped before the parameter `output`; with JSON input nobody else holds the
  arena. For a Ruby payload `PreparedOwned` holds a second handle, which is why
  `OnlyRejectedJsonOutlivesArena` holds.
- **Success without an instance** (`MaterializeOptional`, `materialize.rs:56`,
  `schema/compiled.rs:117`). With an optional at the root, `nil` is accepted
  and `build` raises; a hash is accepted and the instance has no field. A list
  or a dict at the root always raises.
- **A guard can outlive its frame** (`MaterializeGuards`, `materialize.rs:68`).
- **Some schemas abort the process** (`CompileSummary`). One that is not ASCII
  does when byte 200 of its JSON is inside a character
  (`schema/compiler.rs:132`), and one with a NUL in the name of a field at the
  root, which JSON can spell, when `expect` panics inside an `extern "C"`
  function (`schema/compiled.rs:119`).

The others are each stated by a definition and have a configuration of their
own, with which TLC shows the behaviour:

- **A long list of bad elements is not too long** (`OverlongListIsReported`,
  `ValidatorLongList.cfg`; `validation/engine.rs:255`). The size of a list is
  that of the elements that validated. With `max_size` 1, `[1, "x"]` of integers
  is reported at `[1]` only. It is rejected all the same.
- **NaN is in every range** (`AcceptedFloatIsInRange`, `ValidatorNaN.cfg`;
  `validation/engine.rs:521`).
- **A build that cannot be materialised leaks its arena** (`ArenaIsTransient`,
  `CallOwnershipRaise.cfg`; `lib.rs:358`). The exception is raised while
  `prepared` is in scope. An interrupt around the validation does the same, and
  before it leaks the prepared payload and an `Arc` of the schema as well, which
  then lives for ever. By `RaiseKeepsOnlyOutcome` a call that has judged its
  payload leaks nothing but the outcome, and by `OnlyInterruptsKeepSchema` no
  exception but that interrupt leaks the `Arc`.
- **`@attributes` is not raw** (`AttributesAreRaw`, `MaterializeRaw.cfg`;
  `materialize.rs:93`). It holds the coerced values; the README says raw
  payload.
- **An integer too wide raises RangeError** (`BadInputIsRefused`,
  `InputRaises.cfg`; `validation/input.rs:113`), and a NUL in a JSON text
  ArgumentError: `build` raises what is no ValidationError, `validate` does not
  return, and the arena of what was converted so far is leaked.
- **Any String is taken for UTF-8** (`TextsAreUtf8`, `InputEncoding.cfg`;
  `validation/input.rs:198`). The bytes of a String in another encoding, or of
  a broken one, become a `str` unchecked.

## 6. What is not modelled, and why

- The `meta` of an issue, and the Ruby hashes that `messages` makes of error
  sets: conversions on which nothing decides. `ValidationError` turns them into
  a text with `JSON.generate`.
- `Init_rustly_core`, the typed data descriptors and the free function of error
  sets: registration with Ruby, run once, and callbacks of its GC.
- The benchmark methods and scripts: they call the conversion and the validator
  without delivering a result.
- Limits no payload or schema of a real size comes to: the width of `NodeId`.
- The depth of 128 at which `serde_json` refuses a text, of a schema or of a
  payload; the rounding of floats; which texts are URLs or UUIDs: libraries,
  seen as tables.
- Native stack overflow outside the input conversion: the parser and the
  validator go no deeper than a document, which `serde_json` bounds, or a
  schema (`RecursionIsBounded`).

What could still be done: a proof of `JsonAgreesWithRuby`, with the two readings
of a payload level by level; an abstract "judge once" that `Validator`
implements; meta and its cast of sizes to `i64`.
