----------------------------- MODULE Materialize -----------------------------
(***************************************************************************)
(* From an accepted payload to the Ruby instance build returns:            *)
(* materialize_instance of materialize.rs, run after the validation of     *)
(* Validator with the plan build_materialize_plan made of the schema.      *)
(*                                                                         *)
(* A call also has the options "freeze" and "store" (store_attributes).    *)
(* A Ruby object is a record with its class; strings, arrays and hashes    *)
(* say whether they are frozen.  Aliasing is kept by writing an object     *)
(* only after all that is done to it.                                      *)
(***************************************************************************)
EXTENDS Validator

CONSTANTS
  Nul,        \* the texts that hold a NUL byte: they name no symbol
  Depth       \* more lists and dicts than any value has inside each other

ASSUME OptionsAssumption ==
  \A c \in Calls : c.freeze \in {"none", "shallow", "deep"} /\ c.store \in BOOLEAN

VARIABLES
  stage,        \* "validating", "fields", "extras", "storing", or how it ended
  position,     \* of the loop over the plan, or over the extras
  instance,     \* the instance: its variables, and whether it is frozen
  attributes,   \* the Option of the hash for @attributes: from keys to objects
  guards        \* the places registered with the GC that are still registered

mvars == <<stage, position, instance, attributes, guards>>
Ends == {"returned", "failed", "raised"}

(***************************************************************************)
(* Ruby objects.                                                           *)
(***************************************************************************)
Immediate(v) == [class |-> "Immediate", value |-> v]
RString(t) == [class |-> "String", text |-> t, frozen |-> FALSE]
RArray(items) == [class |-> "Array", items |-> items, frozen |-> FALSE]
RHash(pairs) == [class |-> "Hash", pairs |-> pairs, frozen |-> FALSE]
SymbolKey(t) == [symbol |-> t]
StringKey(t) == [string |-> t]

The(option) == CHOOSE x \in option : TRUE

\* Under one key, what is put later wins.
Put(h, key, r) == [k \in DOMAIN h \cup {key} |-> IF k = key THEN r ELSE h[k]]
Filled(entries) == FoldLeft(LAMBDA h, e : Put(h, e.key, e.value), <<>>, entries)

\* The fields of a struct that have a value, in order, as entries.
Held(s) ==
  LET is == SelectSeq([i \in DOMAIN s.names |-> i], LAMBDA i : s.fields[i] # None)
  IN [j \in DOMAIN is |-> Entry(s.names[is[j]], The(s.fields[is[j]]))]
ExtrasOf(s) == IF s.extras = None THEN <<>> ELSE The(s.extras)

\* What a value holds.
PartsOf(v) ==
  CASE v.kind = "list" -> ToSet(v.items)
    [] v.kind = "dict" -> {e.value : e \in ToSet(v.entries)}
    [] v.kind = "struct" -> (UNION ToSet(v.fields)) \cup {e.value : e \in ToSet(ExtrasOf(v))}
    [] OTHER -> {}

\* A function that calls itself on what a thing holds: what is held level by
\* level, and what the function returns of a thing, given what it returns of
\* the things in it.
Levels(x, Within(_)) ==
  LET level[k \in 0..Depth] ==
        IF k = 0 THEN {x} ELSE UNION {Within(y) : y \in level[k - 1]}
  IN  level
Recursively(x, Within(_), Returns(_, _)) ==
  LET made[k \in 0..Depth] ==
        [y \in Levels(x, Within)[Depth - k] |-> Returns(y, IF k = 0 THEN <<>> ELSE made[k - 1])]
  IN  made[Depth][x]

ASSUME DepthAssumption ==
  /\ Depth \in Nat
  /\ \A v \in Values : \A x \in Levels(v, PartsOf)[Depth] : PartsOf(x) = {}

\* owned_value_to_ruby: None when a symbol or a key cannot be made.
Converted(v, inner) ==
  LET pairs(entries, key(_)) ==
        [i \in DOMAIN entries |-> Entry(key(entries[i].key), inner[entries[i].value])]
      hash(es) ==
        IF \E i \in DOMAIN es : es[i].value = None THEN None
        ELSE Some(RHash(Filled([i \in DOMAIN es |-> Entry(es[i].key, The(es[i].value))])))
  IN
  CASE v.kind = "str" -> Some(RString(v.text))
    [] v.kind = "sym" -> IF v.text \in Nul THEN None ELSE Some(Immediate(v))
    [] v.kind = "list" ->
         IF \E x \in ToSet(v.items) : inner[x] = None THEN None
         ELSE Some(RArray([i \in DOMAIN v.items |-> The(inner[v.items[i]])]))
    [] v.kind = "dict" ->
         IF Keys(v.entries) \cap Nul # {} THEN None ELSE hash(pairs(v.entries, SymbolKey))
    [] v.kind = "struct" ->
         IF Keys(Held(v) \o ExtrasOf(v)) \cap Nul # {} THEN None
         ELSE hash(pairs(Held(v), SymbolKey) \o pairs(ExtrasOf(v), StringKey))
    [] OTHER -> Some(Immediate(v))
ToRuby(v) == Recursively(v, PartsOf, Converted)

\* What an object holds, and the object with f of each.
Inside(r) ==
  CASE r.class = "Array" -> ToSet(r.items)
    [] r.class = "Hash" -> {r.pairs[k] : k \in DOMAIN r.pairs}
    [] OTHER -> {}

Freeze(r) ==
  CASE r.class = "String" -> [RString(r.text) EXCEPT !.frozen = TRUE]
    [] r.class = "Array" -> [RArray(r.items) EXCEPT !.frozen = TRUE]
    [] r.class = "Hash" -> [RHash(r.pairs) EXCEPT !.frozen = TRUE]
    [] OTHER -> r

\* Mutant: what an array or a hash holds is left as it is.
FreezeTop(r) == Freeze(r)

\* deep_freeze_value.
FrozenWith(r, inner) ==
  CASE r.class = "Array" -> Freeze(RArray([i \in DOMAIN r.items |-> inner[r.items[i]]]))
    [] r.class = "Hash" -> Freeze(RHash([k \in DOMAIN r.pairs |-> inner[r.pairs[k]]]))
    [] OTHER -> Freeze(r)
DeepFreeze(r) == Recursively(r, Inside, FrozenWith)

Finished(r) == IF call.freeze = "deep" THEN DeepFreeze(r) ELSE r

(***************************************************************************)
(* materialize_instance.                                                   *)
(***************************************************************************)
\* Mutant: the plan starts at the second field.
PlanBehind == LET n == Node(call.schema.root) IN
  IF n.kind = "struct" THEN [i \in 1..(Len(n.fields) - 1) |-> n.fields[i + 1].name] ELSE <<>>

\* build_materialize_plan: the names of the fields of a struct at the root.
Plan == LET n == Node(call.schema.root) IN
  IF n.kind = "struct" THEN [i \in DOMAIN n.fields |-> n.fields[i].name] ELSE <<>>

Root == The(output)

\* field_lookup: of two fields with one name the later.
ValueOf(name) ==
  UNION {Root.fields[i] : i \in {j \in DOMAIN Root.names :
      /\ Root.names[j] = name
      /\ \A h \in (j + 1)..Len(Root.names) : Root.names[h] # name}}

MInit ==
  /\ Init
  /\ stage = "validating"
  /\ position = 1
  /\ instance = [ivars |-> <<>>, frozen |-> FALSE]
  /\ attributes = None
  /\ guards = {}

Validate == stage = "validating" /\ Next /\ UNCHANGED mvars

\* A return of materialize_instance drops its guards.
End(how) == stage' = how /\ guards' = {}

\* The output of an accepted payload may be no struct.
RejectRoot ==
  /\ stage = "validating"
  /\ \E o \in output : o.kind # "struct"
  /\ End("failed")
  /\ UNCHANGED <<vars, position, instance, attributes>>

Allocate ==
  /\ stage = "validating"
  /\ \E o \in output : o.kind = "struct"
  /\ stage' = "fields"
  /\ attributes' = IF call.store THEN Some(<<>>) ELSE None
  /\ guards' = {"instance"} \cup (IF call.store THEN {"attributes"} ELSE {})
  /\ UNCHANGED <<vars, position, instance>>

Stored(key, r) == attributes' = {Put(h, key, r) : h \in attributes}

MaterializeField ==
  LET name == Plan[position]  value == ValueOf(name) IN
  /\ stage = "fields" /\ position <= Len(Plan)
  /\ position' = position + 1
  /\ \/ value = None /\ UNCHANGED <<stage, instance, attributes, guards>>
     \/ \E v \in value : \E r \in ToRuby(v) :
          /\ instance' = [instance EXCEPT !.ivars = Put(@, name, Finished(r))]
          /\ Stored(SymbolKey(name), Finished(r))
          /\ UNCHANGED <<stage, guards>>
     \/ /\ \E v \in value : ToRuby(v) = None
        /\ End("failed")
        /\ UNCHANGED <<instance, attributes>>
  /\ UNCHANGED vars

StartExtras ==
  /\ stage = "fields" /\ position > Len(Plan)
  /\ stage' = "extras"
  /\ position' = 1
  /\ UNCHANGED <<vars, instance, attributes, guards>>

\* An extra is converted also when it is not stored.
MaterializeExtra ==
  LET e == ExtrasOf(Root)[position] IN
  /\ stage = "extras" /\ position <= Len(ExtrasOf(Root))
  /\ position' = position + 1
  /\ \/ /\ ToRuby(e.value) # None
        /\ call.store => e.key \notin Nul
        /\ \E r \in ToRuby(e.value) : Stored(StringKey(e.key), Finished(r))
        /\ UNCHANGED <<stage, guards>>
     \/ /\ ToRuby(e.value) = None \/ (call.store /\ e.key \in Nul)
        /\ End("failed")
        /\ UNCHANGED attributes
  /\ UNCHANGED <<vars, instance>>

\* @attributes is written last, over a field of that name; then the freezing,
\* which the object sees also through its variable.
Finalize ==
  LET hash(h) == CASE call.freeze = "none" -> RHash(h)
                   [] call.freeze = "shallow" -> Freeze(RHash(h))
                   [] call.freeze = "deep" -> DeepFreeze(RHash(h))
  IN
  /\ stage = "extras" /\ position > Len(ExtrasOf(Root))
  /\ instance' =
       [ivars |-> IF call.store
                  THEN Put(instance.ivars, "attributes", hash(The(attributes)))
                  ELSE instance.ivars,
        frozen |-> call.freeze # "none"]
  /\ End("returned")
  /\ UNCHANGED <<vars, position, attributes>>

\* The value that is being converted.
InProgress ==
  IF stage = "fields"
  THEN IF position <= Len(Plan) THEN ValueOf(Plan[position]) ELSE {}
  ELSE IF position <= Len(ExtrasOf(Root)) THEN {ExtrasOf(Root)[position].value} ELSE {}

\* A Ruby function that raises (no allocator, no memory, a symbol Ruby
\* refuses) leaves by longjmp, past the guards of the instance, of @attributes
\* and of the arrays and hashes the value in progress is made of.
RubyRaises ==
  /\ stage' = "raised"
  /\ \/ /\ stage = "validating"
        /\ \E o \in output : o.kind = "struct"
        /\ guards' = guards \/ (call.store /\ guards' = {"instance"})
     \/ /\ stage \in {"fields", "extras"}
        /\ \/ guards' = guards
           \/ /\ \E v \in InProgress : v.kind \in Collections \cup {"struct"}
              /\ guards' = guards \cup {"value"}
  /\ UNCHANGED <<vars, position, instance, attributes>>

MNext ==
  \/ Validate \/ RejectRoot \/ Allocate \/ MaterializeField \/ StartExtras
  \/ MaterializeExtra \/ Finalize \/ RubyRaises

MSpec == MInit /\ [][MNext]_<<vars, mvars>> /\ WF_<<vars, mvars>>(MNext)

-----------------------------------------------------------------------------
Payload == call.input.value

\* From the payload through the validator, the plan and the instance nothing
\* is lost and nothing made up: where the root of the schema is a struct, the
\* instance has a variable for exactly those fields the payload holds.  The
\* members of a Struct are no instance variables: rb_ivar_set leaves them nil.
FieldsReachInstance ==
  LET n == Node(call.schema.root) IN
  stage = "returned" /\ n.kind = "struct" =>
    DOMAIN instance.ivars =
      (FieldNames(n) \cap Keys(Payload.entries))
        \cup (IF call.store THEN {"attributes"} ELSE {})

\* Where extra keys are allowed, @attributes has an entry for each key of the
\* payload, whatever their order and number and however the key was given.
AttributesHoldPayload ==
  LET n == Node(call.schema.root) IN
  stage = "returned" /\ n.kind = "struct" /\ call.extra = "allow" =>
    \A h \in attributes :
      DOMAIN h = {IF k \in FieldNames(n) THEN SymbolKey(k) ELSE StringKey(k) :
                    k \in Keys(Payload.entries)}

IsFrozen(r) ==
  \A k \in 0..Depth : \A x \in Levels(r, Inside)[k] :
    x.class \in {"String", "Array", "Hash"} => x.frozen

\* freeze: :deep leaves nothing that can be reached from the instance unfrozen.
DeepFreezeIsDeep ==
  stage = "returned" /\ call.freeze = "deep" =>
    instance.frozen /\ \A x \in DOMAIN instance.ivars : IsFrozen(instance.ivars[x])

(***************************************************************************)
(* Claims of the repository that the code does not keep.                   *)
(***************************************************************************)
\* README, of store_attributes: it captures the raw payload in @attributes.
AttributesAreRaw ==
  stage = "returned" /\ call.freeze = "none" =>
    \A h \in attributes : \A k \in DOMAIN h : "symbol" \in DOMAIN k =>
      \E v \in Found(Payload.entries, k.symbol) : Some(h[k]) = ToRuby(v)

\* README, of build: it returns the materialized instance on success.
AcceptedIsMaterialized ==
  /\ stage = "failed" => output = None
  /\ stage = "returned" =>
       \A i \in DOMAIN Root.names :
         Root.fields[i] # None => Root.names[i] \in DOMAIN instance.ivars

\* The comment of ValueGuard: registered with the GC while it is in scope.
GuardsEndWithCall == stage \in Ends => guards = {}
=============================================================================
