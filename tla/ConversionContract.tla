-------------------------- MODULE ConversionContract --------------------------
(***************************************************************************)
(* The other way a payload becomes a value: JSON text, parsed by           *)
(* serde_json and converted by OwnedValue::from_json (validation/value.rs).*)
(* The definitions are recursive operators: this module is for TLC.        *)
(***************************************************************************)
EXTENDS ConversionMeaning

CONSTANT Rank   \* the order of the texts, as serde_json sorts keys

-----------------------------------------------------------------------------
(* JSON.  An object is a function from its keys; a number is an integer,   *)
(* or a float in tenths.                                                   *)

SortedKeys(members) ==
  SetToSortSeq(DOMAIN members, LAMBDA k, l : Rank[k] < Rank[l])

\* Mutant: as_f64 is asked first.
RECURSIVE FromJsonAsFloat(_)
FromJsonAsFloat(v) ==
  CASE v.kind = "null" -> Null
    [] v.kind = "bool" -> BoolValue(v.flag)
    [] v.kind = "string" -> StringValue(v.text)
    [] v.kind = "integer" -> FloatValue(AsFloat(v.num))
    [] v.kind = "float" -> FloatValue(Some(v.tenths))
    [] v.kind = "array" -> ListValue([i \in DOMAIN v.items |-> FromJsonAsFloat(v.items[i])])
    [] v.kind = "object" ->
         LET keys == SortedKeys(v.members) IN
         DictValue([i \in DOMAIN keys |-> Entry(keys[i], FromJsonAsFloat(v.members[keys[i]]))])

\* OwnedValue::from_json: an integer an i64 cannot hold becomes a float.
RECURSIVE FromJson(_)
FromJson(v) ==
  CASE v.kind = "null" -> Null
    [] v.kind = "bool" -> BoolValue(v.flag)
    [] v.kind = "string" -> StringValue(v.text)
    [] v.kind = "integer" -> IF v.num \in I64 THEN IntValue(v.num) ELSE FloatValue(AsFloat(v.num))
    [] v.kind = "float" -> FloatValue(Some(v.tenths))
    [] v.kind = "array" -> ListValue([i \in DOMAIN v.items |-> FromJson(v.items[i])])
    [] v.kind = "object" ->
         LET keys == SortedKeys(v.members) IN
         DictValue([i \in DOMAIN keys |-> Entry(keys[i], FromJson(v.members[keys[i]]))])

\* JSON.generate of a payload, read back: symbols are strings, and the last of
\* two pairs with one key is kept.
RECURSIVE AsJson(_)
AsJson(x) ==
  LET o == Heap[x]
      KeyAt(i) == CHOOSE k \in KeyText(o.members[i].key) : TRUE
      LastAt(k) == CHOOSE i \in DOMAIN o.members :
                     KeyAt(i) = k /\ \A j \in (i + 1)..Len(o.members) : KeyAt(j) # k
  IN
  CASE o.kind = "nil" -> [kind |-> "null"]
    [] o.kind = "bool" -> [kind |-> "bool", flag |-> o.flag]
    [] o.kind \in {"string", "symbol"} -> [kind |-> "string", text |-> o.text]
    [] o.kind = "integer" -> [kind |-> "integer", num |-> o.num]
    [] o.kind = "float" -> [kind |-> "float", tenths |-> CHOOSE r \in o.real : TRUE]
    [] o.kind = "array" -> [kind |-> "array", items |-> [i \in DOMAIN o.members |-> AsJson(o.members[i])]]
    [] o.kind = "hash" ->
         [kind |-> "object",
          members |-> [k \in {KeyAt(i) : i \in DOMAIN o.members} |->
                         AsJson(o.members[LastAt(k)].value)]]

\* A value as JSON can say it, and whether JSON can say it at all: it has no NaN,
\* and its texts are UTF-8.
RECURSIVE Plain(_)
Plain(v) ==
  CASE v.kind = "sym" -> StringValue(v.text)
    [] v.kind = "list" -> ListValue([i \in DOMAIN v.items |-> Plain(v.items[i])])
    [] v.kind = "dict" ->
         LET LastValue(k) == v.entries[CHOOSE i \in DOMAIN v.entries :
                               /\ v.entries[i].key = k
                               /\ \A j \in (i + 1)..Len(v.entries) : v.entries[j].key # k].value
             keys == SortedKeys([k \in Keys(v.entries) |-> TRUE])
         IN  DictValue([i \in DOMAIN keys |-> Entry(keys[i], Plain(LastValue(keys[i])))])
    [] OTHER -> v

RECURSIVE Leaves(_)
Leaves(v) ==
  CASE v.kind = "list" -> UNION {Leaves(v.items[i]) : i \in DOMAIN v.items}
    [] v.kind = "dict" ->
         UNION {Leaves(v.entries[i].value) \cup {StringValue(v.entries[i].key)} : i \in DOMAIN v.entries}
    [] OTHER -> {v}
Encoded(v) == v.kind \in {"str", "sym"} => Lossy[v.text] = v.text
InJson(v) == \A l \in Leaves(v) : Encoded(l) /\ (l.kind = "float" => l.real # None)

\* The two routes agree: a payload that can be copied is the same value when it
\* is sent as JSON, but for symbols, the order of keys and repeated ones.
JsonAgreesWithRuby ==
  \A o \in outcome :
    o.kind = "owned" /\ InJson(o.value) => FromJson(AsJson(payload)) = Plain(o.value)

-----------------------------------------------------------------------------
\* README.md: what cannot be validated raises ValidationError.  No exception
\* of another class leaves the conversion, the native stack apart.
BadInputIsRefused ==
  \A o \in outcome : o.kind = "raised" => o.class = "SystemStackError"

\* arena.rs: what is allocated as a str is valid UTF-8.
TextsAreUtf8 == \A o \in outcome : o.kind = "owned" => \A l \in Leaves(o.value) : Encoded(l)
=============================================================================
