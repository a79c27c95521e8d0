---------------------------- MODULE CallOwnership ----------------------------
(***************************************************************************)
(* What one call of Rustly::Core owns in Rust memory, from prepare_input   *)
(* to its return or its exception (engine.rs, input.rs, lib.rs).  Values   *)
(* hold vectors allocated in an arena, their lifetime is cast to 'static,  *)
(* and only the order in which Rust drops things keeps the arena alive for *)
(* them.  A Ruby exception is a longjmp: it runs no destructor of the      *)
(* frames it leaves.                                                       *)
(***************************************************************************)
EXTENDS Sequences

CONSTANTS
  Entries,    \* the entry points called: "build", "build_synced", "validate"
  Forms       \* the inputs: "owned", "json", "malformed" (JSON), and objects that
              \* prepare_input refuses ("refused") or that make Ruby raise ("raising")

ASSUME FormsAssumption == Forms \subseteq {"owned", "json", "malformed", "refused", "raising"}

\* The places that hold an Arc of the arena, and those that hold a value whose
\* vectors are allocated in it.
ArenaHandles == {"prepared arena", "local arena", "validator arena", "result arena"}
Values == {"partial value", "prepared value", "parsed value", "validated value", "result value"}
Resources == ArenaHandles \cup Values \cup {"schema", "source", "issues"}

Labels ==
  {"called", "converting", "refused", "prepared", "validating", "validated", "answering",
   "returning", "returned", "raised"}

VARIABLES
  call,       \* entry point, form of the input, whether it holds collections
  pc,
  owns,       \* what the call owns
  todo,       \* what the scope that is being left has yet to drop, in order
  verdict     \* "none", "accepted" or "rejected"

vars == <<call, pc, owns, todo, verdict>>

Calls == [entry : Entries, form : Forms, nested : BOOLEAN]

Init ==
  /\ call \in Calls
  /\ pc = "called"
  /\ owns = {}
  /\ todo = <<>>
  /\ verdict = "none"

\* A value without collections holds no vector: there is nothing to drop.
Held(value) == IF call.nested THEN {value} ELSE {}

At(label) == pc = label /\ todo = <<>>

Goto(label) == pc' = label /\ UNCHANGED call

\* The end of a scope: the next of its variables is dropped.
Drop ==
  /\ todo # <<>>
  /\ owns' = owns \ {Head(todo)}
  /\ todo' = Tail(todo)
  /\ UNCHANGED <<call, pc, verdict>>

\* prepare_input: a String is copied...
PrepareJson ==
  /\ At("called") /\ call.form \in {"json", "malformed"}
  /\ Goto("prepared")
  /\ owns' = {"schema", "source"}
  /\ UNCHANGED <<todo, verdict>>

\* Mutant: the Arc of the schema is cloned before the payload is prepared.
ConvertHoldingSchema ==
  /\ At("called") /\ call.form \in {"owned", "refused", "raising"}
  /\ Goto("converting")
  /\ owns' = {"schema", "prepared arena"} \cup Held("partial value")
  /\ UNCHANGED <<todo, verdict>>

\* ...anything else is converted, in an arena of its own: convert_owned...
Convert ==
  /\ At("called") /\ call.form \in {"owned", "refused", "raising"}
  /\ Goto("converting")
  /\ owns' = {"prepared arena"} \cup Held("partial value")
  /\ UNCHANGED <<todo, verdict>>

\* ...to the end, and the Arc of the schema that the validation will hold...
Prepare ==
  /\ At("converting") /\ call.form = "owned"
  /\ Goto("prepared")
  /\ owns' = {"schema", "prepared arena"} \cup Held("prepared value")
  /\ UNCHANGED <<todo, verdict>>

\* ...up to an object that has no conversion, where ? leaves every frame...
RefuseInput ==
  /\ At("converting") /\ call.form = "refused"
  /\ Goto("refused")
  /\ todo' = <<"partial value", "prepared arena">>
  /\ verdict' = "rejected"
  /\ UNCHANGED owns

\* ...or up to one for which Ruby raises, where the longjmp does: rb_num2ll of
\* an integer beyond 64 bits.
RaiseInConversion ==
  /\ At("converting") /\ call.form = "raising"
  /\ Goto("raised")
  /\ UNCHANGED <<owns, todo, verdict>>

\* An exception that is pending when rb_thread_call_without_gvl checks for
\* interrupts, before the validation or after it.
Interrupted ==
  /\ At("prepared") \/ At("answering")
  /\ call.entry # "build_synced"
  /\ Goto("raised")
  /\ UNCHANGED <<owns, todo, verdict>>

ValidateOwned ==
  /\ At("prepared") /\ call.form = "owned"
  /\ Goto("validating")
  /\ owns' = owns \cup {"local arena", "validator arena"}
  /\ UNCHANGED <<todo, verdict>>

ValidateJson ==
  /\ At("prepared") /\ call.form = "json"
  /\ Goto("validating")
  /\ owns' = owns \cup {"validator arena"} \cup Held("parsed value")
  /\ UNCHANGED <<todo, verdict>>

RejectMalformedJson ==
  /\ At("prepared") /\ call.form = "malformed"
  /\ Goto("answering")
  /\ owns' = owns \cup {"issues"}
  /\ todo' = <<"source", "schema">>
  /\ verdict' = "rejected"

\* validate_root: a rejected value has an output or not.
ValidateRoot ==
  /\ At("validating")
  /\ Goto("validated")
  /\ \/ /\ verdict' = "accepted"
        /\ owns' = owns \cup Held("validated value")
     \/ /\ verdict' = "rejected"
        /\ \E output \in {{}, Held("validated value")} : owns' = owns \cup output \cup {"issues"}
  /\ UNCHANGED todo

\* Mutant: PreparedOwned declares its arena before its value.
ExitArenaFirst ==
  IF call.form = "owned"
  THEN <<"local arena", "prepared arena", "prepared value">>
  ELSE <<"parsed value", "source">>

\* What validate_owned and validate_json drop after Validator::finish.
Exit ==
  IF call.form = "owned"
  THEN <<"local arena", "prepared value", "prepared arena">>
  ELSE <<"parsed value", "source">>

\* Validator::finish moves the arena and the value into the result...
FinishAccepted ==
  /\ At("validated") /\ verdict = "accepted"
  /\ Goto("answering")
  /\ owns' = (owns \ {"validator arena", "validated value"})
               \cup {"result arena"} \cup Held("result value")
  /\ todo' = <<"schema">> \o Exit
  /\ UNCHANGED verdict

\* Mutant: the validator is taken apart without dropping its arena.
FinishRejectedForgetful ==
  /\ At("validated") /\ verdict = "rejected"
  /\ Goto("answering")
  /\ todo' = <<"validated value", "schema">> \o Exit
  /\ UNCHANGED <<owns, verdict>>

\* ...or drops both, the arena, a local variable, before its parameters.
FinishRejected ==
  /\ At("validated") /\ verdict = "rejected"
  /\ Goto("answering")
  /\ todo' = <<"validator arena", "validated value", "schema">> \o Exit
  /\ UNCHANGED <<owns, verdict>>

\* Mutant: only the value of the result is dropped.
ResultValueOnly == <<"result value", "issues">>

\* The result, or the parts build_internal takes it into, in drop order.
Result == <<"result value", "result arena", "issues">>

\* validate returns its pair; build returns the instance.
Answering == At("answering") \/ At("refused")
Return ==
  /\ Answering
  /\ call.entry = "validate" \/ verdict = "accepted"
  /\ Goto("returning")
  /\ todo' = Result
  /\ UNCHANGED <<owns, verdict>>

\* build raises ValidationError with the issues...
RaiseIssues ==
  /\ Answering /\ call.entry # "validate" /\ verdict = "rejected"
  /\ Goto("raised")
  /\ UNCHANGED <<owns, todo, verdict>>

\* ...or with the error of materialize_instance.
RaiseUnmaterialized ==
  /\ At("answering") /\ call.entry # "validate" /\ verdict = "accepted"
  /\ Goto("raised")
  /\ UNCHANGED <<owns, todo, verdict>>

Leave ==
  /\ At("returning")
  /\ Goto("returned")
  /\ UNCHANGED <<owns, todo, verdict>>

Next ==
  \/ Drop \/ PrepareJson \/ Convert \/ Prepare \/ RefuseInput \/ RaiseInConversion \/ Interrupted
  \/ ValidateOwned \/ ValidateJson \/ RejectMalformedJson
  \/ ValidateRoot \/ FinishAccepted \/ FinishRejected
  \/ Return \/ RaiseIssues \/ RaiseUnmaterialized \/ Leave

Spec == Init /\ [][Next]_vars

-----------------------------------------------------------------------------
TypeOK ==
  /\ call \in Calls
  /\ pc \in Labels
  /\ owns \subseteq Resources
  /\ todo \in Seq(Resources)
  /\ verdict \in {"none", "accepted", "rejected"}

\* Memory safety of the 'static casts in value.rs: as long as a value has
\* vectors to drop, something keeps their arena alive.
ArenaOutlivesValues == owns \cap Values # {} => owns \cap ArenaHandles # {}

\* The same, but for one path: the rejection of JSON, whose only handle is
\* the validator's.
OnlyRejectedJsonOutlivesArena ==
  ArenaOutlivesValues \/ (call.form = "json" /\ verdict = "rejected")

\* A call that returns has given everything back: no value, no handle, no
\* Arc of the schema stays behind, whatever path it took.
ReturnReleasesAll == pc = "returned" => owns = {}

\* Once the payload is judged, an exception leaves the outcome behind and
\* nothing else: whatever the entry point, and whether the exception comes from
\* raise_validation_error, from the interrupts checked after the validation or
\* from materialize_instance, the payload, its arena, the validator's parts and
\* the Arc of the schema are gone before the longjmp, also when the conversion
\* refused the payload half-way.
RaiseKeepsOnlyOutcome ==
  pc = "raised" /\ verdict # "none" =>
    owns = IF verdict = "accepted" THEN {"result arena"} \cup Held("result value")
           ELSE IF call.form = "refused" THEN {} ELSE {"issues"}

\* An Arc that leaks keeps the compiled schema for ever, after its Ruby object is
\* gone.  Ruby can raise while the payload is converted, for every entry point,
\* and the call holds no Arc then (ir_arc comes after prepare_input in lib.rs):
\* only an interrupt that is pending when the GVL is to be released leaks one,
\* and build_synced, which releases no GVL, never does.
OnlyInterruptsKeepSchema ==
  pc = "raised" /\ "schema" \in owns =>
    /\ call.entry # "build_synced"
    /\ call.form \in {"owned", "json", "malformed"}
    /\ verdict = "none"

\* arena.rs: an arena holds transient validation data.  It does not survive
\* the call that made it.
ArenaIsTransient == pc \in {"returned", "raised"} => owns \cap ArenaHandles = {}
=============================================================================
