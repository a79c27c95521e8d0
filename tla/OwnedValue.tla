----------------------------- MODULE OwnedValue -----------------------------
(***************************************************************************)
(* The values the validator reads and produces (validation/value.rs), and  *)
(* the Option type the Rust code wraps them in.                            *)
(*                                                                         *)
(* An Option is a set of at most one element.  A value is a record whose   *)
(* field "kind" is its Rust variant.  An f64 is a number of tenths inside  *)
(* an Option, None standing for NaN, so that every comparison with a NaN   *)
(* is false, as in Rust.  A text is a member of the constant Text; what    *)
(* the code reads out of a text (parses, length, formats) is a table.      *)
(***************************************************************************)
EXTENDS Integers, Sequences

CONSTANTS
  Text,       \* the strings that occur as payload strings and as keys
  Reads       \* Reads[t]: what the code reads out of the text t

None == {}
Some(x) == {x}
IsOption(o, S) == o \subseteq S /\ \A x, y \in o : x = y

Formats == {"email", "uuid", "url"}

\* A text as the validator sees it: str::parse::<bool / i64 / f64>, the number
\* of its chars, and the formats it satisfies.
IsReading(r) ==
  /\ IsOption(r.bool, BOOLEAN)
  /\ IsOption(r.int, Int)
  /\ IsOption(r.float, SUBSET Int) /\ \A f \in r.float : IsOption(f, Int)
  /\ r.len \in Nat
  /\ r.formats \subseteq Formats

ASSUME TextAssumption == \A t \in Text : IsReading(Reads[t])

Null == [kind |-> "null"]
BoolValue(b) == [kind |-> "bool", flag |-> b]
IntValue(i) == [kind |-> "int", num |-> i]
FloatValue(f) == [kind |-> "float", real |-> f]
StringValue(t) == [kind |-> "str", text |-> t]
SymbolValue(t) == [kind |-> "sym", text |-> t]
ListValue(items) == [kind |-> "list", items |-> items]
DictValue(entries) == [kind |-> "dict", entries |-> entries]
StructValue(names, fields, extras) ==
  [kind |-> "struct", names |-> names, fields |-> fields, extras |-> extras]

Entry(k, v) == [key |-> k, value |-> v]

\* 10 tenths to the unit: Int(i) as f64.
AsFloat(i) == Some(10 * i)

\* The keys of a dict, in order, and dict_find: the first entry with a key.
Keys(entries) == {entries[i].key : i \in DOMAIN entries}
Found(entries, k) ==
  {entries[i].value : i \in {j \in DOMAIN entries :
      /\ entries[j].key = k
      /\ \A h \in 1..(j - 1) : entries[h].key # k}}

\* The input of a validation holds no Struct: only the validator builds those.
InputKinds == {"null", "bool", "int", "float", "str", "sym", "list", "dict"}
Kinds == InputKinds \cup {"struct"}
=============================================================================
