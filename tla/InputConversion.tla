--------------------------- MODULE InputConversion ---------------------------
(***************************************************************************)
(* prepare_input of validation/input.rs: what a Ruby payload becomes       *)
(* before the GVL is released.  A String is kept as a JSON source; a Ruby  *)
(* object is copied into the values of validation/value.rs by              *)
(* convert_ruby_value, convert_array and hash_foreach_convert, which call  *)
(* each other over a graph that may share objects or contain itself.       *)
(*                                                                         *)
(* "focus" is the object convert_ruby_value is called on, "frames" holds   *)
(* one frame for each collection in progress.  "path" is pushed and popped *)
(* by hand, and not popped by an array whose element fails.                *)
(***************************************************************************)
EXTENDS OwnedValue, SequencesExt

CONSTANTS
  Heap,       \* the Ruby objects that occur, by name
  Payloads,   \* the names of those that are passed to build or validate
  Modes,      \* the input modes of the options
  Lossy,      \* to_string_lossy, on Text: what is not UTF-8 is replaced
  I64,        \* the integers rb_num2ll can return
  NativeDepth \* the collections the native stack has room for

Scalars == {"nil", "bool", "integer", "float", "string", "symbol"}
Collections == {"array", "hash"}

\* Any object that is none of these is of kind "object".
IsObject(o) ==
  \/ o.kind \in {"nil", "object"}
  \/ o.kind = "bool" /\ o.flag \in BOOLEAN
  \/ o.kind = "integer" /\ o.num \in Int
  \/ o.kind = "float"
  \/ o.kind = "string" /\ o.text \in Text /\ o.nul \in BOOLEAN
  \/ o.kind = "symbol" /\ o.text \in Text
  \/ o.kind = "array" /\ o.members \in Seq(DOMAIN Heap)
  \/ o.kind = "hash" /\ o.members \in Seq([key : DOMAIN Heap, value : DOMAIN Heap])

ASSUME HeapAssumption ==
  /\ \A x \in DOMAIN Heap : IsObject(Heap[x])
  /\ Payloads \subseteq DOMAIN Heap
  /\ Modes \subseteq {"auto", "json", "ruby"}
  /\ NativeDepth \in Nat

VARIABLES
  payload,
  mode,
  focus,      \* an Option: the object to convert
  frames,     \* the collections in progress, the innermost last
  path,       \* the keys and the indexes (from one) that lead to the focus
  error,      \* an Option: the InputError on its way up
  outcome     \* an Option: what prepare_input ends with

vars == <<payload, mode, focus, frames, path, error, outcome>>

KeySegment(key) == [key |-> Some(key), index |-> 0]
IndexSegment(i) == [key |-> None, index |-> i]

\* How prepare_input ends: two forms of PreparedInput, an InputError with its
\* path, or an exception raised by Ruby on the way.
Owned(value) == [kind |-> "owned", value |-> value]
Source(text) == [kind |-> "json", text |-> text]
Refused(fault) == [kind |-> "refused", fault |-> fault]
Raised(class) == [kind |-> "raised", class |-> class]

ExpectedString == [variant |-> "ExpectedString", path |-> <<>>]
UnsupportedType(at) == [variant |-> "UnsupportedType", path |-> at]
InvalidHashKey(at) == [variant |-> "InvalidHashKey", path |-> at]

\* Mutant: a collection is entered behind its first member.
FrameBehind(x) == [object |-> x, taken |-> 1, parts |-> <<>>]

Frame(x) == [object |-> x, taken |-> 0, parts |-> <<>>]
Top == Last(frames)
Object == Heap[Top.object]
Member == Object.members[Top.taken + 1]

Init ==
  /\ payload \in Payloads
  /\ mode \in Modes
  /\ focus = None
  /\ frames = <<>>
  /\ path = <<>>
  /\ error = None
  /\ outcome = None

End(o) == outcome' = Some(o) /\ UNCHANGED <<payload, mode, focus, frames, path, error>>

-----------------------------------------------------------------------------
(* prepare_input.                                                          *)

Unstarted == outcome = None /\ error = None /\ focus = None /\ frames = <<>>
ReadsString ==
  mode = "json" \/ (mode = "auto" /\ Heap[payload].kind = "string")

\* string_to_owned: rb_string_value_cstr raises when the String holds a NUL, and
\* the source is made valid UTF-8.
TakeSource ==
  /\ Unstarted /\ ReadsString
  /\ Heap[payload].kind = "string" /\ ~Heap[payload].nul
  /\ End(Source(Lossy[Heap[payload].text]))

RaiseNul ==
  /\ Unstarted /\ ReadsString
  /\ Heap[payload].kind = "string" /\ Heap[payload].nul
  /\ End(Raised("ArgumentError"))

RefuseSource ==
  /\ Unstarted /\ ReadsString
  /\ Heap[payload].kind # "string"
  /\ End(Refused(ExpectedString))

\* convert_owned.
ConvertOwned ==
  /\ Unstarted /\ ~ReadsString
  /\ focus' = Some(payload)
  /\ UNCHANGED <<payload, mode, frames, path, error, outcome>>

-----------------------------------------------------------------------------
(* convert_ruby_value.                                                     *)

ScalarOf(o) ==
  CASE o.kind = "nil" -> Null
    [] o.kind = "bool" -> BoolValue(o.flag)
    [] o.kind = "integer" -> IntValue(o.num)
    [] o.kind = "float" -> FloatValue(o.real)
    [] o.kind = "string" -> StringValue(o.text)
    [] o.kind = "symbol" -> SymbolValue(o.text)

\* Mutant: an array does not pop the index of its element.
ReturnUnpopped(value, below) ==
  /\ focus' = None
  /\ frames' = IF below = <<>> THEN <<>>
               ELSE [below EXCEPT ![Len(below)].parts = Append(@, value)]
  /\ path' = IF below = <<>> \/ Heap[Last(below).object].kind = "array" THEN path ELSE Front(path)
  /\ outcome' = IF below = <<>> THEN Some(Owned(value)) ELSE None
  /\ UNCHANGED <<payload, mode, error>>

\* A value is ready: it joins those of the collection below, which pops the
\* segment it had pushed, or it is the result.
Return(value, below) ==
  /\ focus' = None
  /\ frames' = IF below = <<>> THEN <<>>
               ELSE [below EXCEPT ![Len(below)].parts = Append(@, value)]
  /\ path' = IF below = <<>> THEN path ELSE Front(path)
  /\ outcome' = IF below = <<>> THEN Some(Owned(value)) ELSE None
  /\ UNCHANGED <<payload, mode, error>>

ConvertScalar ==
  \E x \in focus :
    /\ outcome = None
    /\ Heap[x].kind \in Scalars
    /\ Heap[x].kind = "integer" => Heap[x].num \in I64
    /\ Return(ScalarOf(Heap[x]), frames)

\* rb_num2ll raises on a Bignum it cannot return.
RaiseWide ==
  \E x \in focus :
    /\ outcome = None
    /\ Heap[x].kind = "integer" /\ Heap[x].num \notin I64
    /\ End(Raised("RangeError"))

\* unsupported: the path is rendered where the object is met.
RefuseObject ==
  \E x \in focus :
    /\ outcome = None
    /\ Heap[x].kind = "object"
    /\ error' = Some(UnsupportedType(path))
    /\ focus' = None
    /\ UNCHANGED <<payload, mode, frames, path, outcome>>

OpenCollection ==
  \E x \in focus :
    /\ outcome = None
    /\ Heap[x].kind \in Collections /\ Len(frames) < NativeDepth
    /\ frames' = Append(frames, Frame(x))
    /\ focus' = None
    /\ UNCHANGED <<payload, mode, path, error, outcome>>

\* Nothing bounds the recursion but the native stack.
OverflowStack ==
  \E x \in focus :
    /\ outcome = None
    /\ Heap[x].kind \in Collections /\ Len(frames) = NativeDepth
    /\ End(Raised("SystemStackError"))

-----------------------------------------------------------------------------
(* convert_array, and hash_foreach_convert for each pair of a hash.        *)

InCollection(kind) ==
  /\ outcome = None /\ focus = None /\ error = None
  /\ frames # <<>> /\ Object.kind = kind
Pending == Top.taken < Len(Object.members)

Descend(segment, x) ==
  /\ frames' = [frames EXCEPT ![Len(frames)].taken = @ + 1]
  /\ path' = Append(path, segment)
  /\ focus' = Some(x)
  /\ UNCHANGED <<payload, mode, error, outcome>>

ConvertElement ==
  /\ InCollection("array") /\ Pending
  /\ Descend(IndexSegment(Top.taken + 1), Member)

\* extract_hash_key takes Strings and Symbols.
KeyText(x) == IF Heap[x].kind \in {"string", "symbol"} THEN Some(Heap[x].text) ELSE None

ConvertPair ==
  /\ InCollection("hash") /\ Pending
  /\ \E key \in KeyText(Member.key) : Descend(KeySegment(key), Member.value)

\* Mutant: the error of a key is reported at the hash around.
RefuseKeyOutside ==
  /\ InCollection("hash") /\ Pending
  /\ KeyText(Member.key) = None
  /\ error' = Some(InvalidHashKey(IF path = <<>> THEN path ELSE Front(path)))
  /\ frames' = Front(frames)
  /\ UNCHANGED <<payload, mode, focus, path, outcome>>

\* Any other key ends the iteration: the error has the path of the hash.
RefuseKey ==
  /\ InCollection("hash") /\ Pending
  /\ KeyText(Member.key) = None
  /\ error' = Some(InvalidHashKey(path))
  /\ frames' = Front(frames)
  /\ UNCHANGED <<payload, mode, focus, path, outcome>>

\* The entries of a hash, in its order: a String and a Symbol with one text
\* give two entries of one key.
EntriesOf(f) ==
  [i \in 1..Len(f.parts) |->
     Entry(CHOOSE t \in KeyText(Heap[f.object].members[i].key) : TRUE, f.parts[i])]

CloseCollection ==
  /\ \E kind \in Collections : InCollection(kind)
  /\ ~Pending
  /\ Return(IF Object.kind = "array" THEN ListValue(Top.parts) ELSE DictValue(EntriesOf(Top)),
            Front(frames))

-----------------------------------------------------------------------------
(* An error on its way up: a hash pops its key, an array returns at once.  *)

Unwind ==
  /\ outcome = None /\ error # None /\ frames # <<>>
  /\ frames' = Front(frames)
  /\ path' = IF Object.kind = "hash" THEN Front(path) ELSE path
  /\ UNCHANGED <<payload, mode, focus, error, outcome>>

\* Mutant: an error without a path is taken for none.
RefuseBelowRoot ==
  /\ outcome = None /\ frames = <<>>
  /\ \E e \in error : e.path # <<>> /\ End(Refused(e))

Refuse ==
  /\ outcome = None /\ frames = <<>>
  /\ \E e \in error : End(Refused(e))

Next ==
  \/ TakeSource \/ RaiseNul \/ RefuseSource \/ ConvertOwned
  \/ ConvertScalar \/ RaiseWide \/ RefuseObject \/ OpenCollection \/ OverflowStack
  \/ ConvertElement \/ ConvertPair \/ RefuseKey \/ CloseCollection
  \/ Unwind \/ Refuse

\* One function call: nothing keeps it from its next step.
Spec == Init /\ [][Next]_vars /\ WF_vars(Next)

-----------------------------------------------------------------------------
IsFrame(f) ==
  /\ DOMAIN f = {"object", "taken", "parts"}
  /\ f.object \in DOMAIN Heap /\ Heap[f.object].kind \in Collections
  /\ f.taken \in 0..Len(Heap[f.object].members)
  /\ Len(f.parts) \in 0..f.taken

\* The frames are collections of the heap, no deeper than the stack.
TypeOK ==
  /\ payload \in Payloads /\ mode \in Modes
  /\ focus \subseteq DOMAIN Heap
  /\ \A i \in 1..Len(frames) : IsFrame(frames[i])
  /\ Len(frames) <= NativeDepth

\* The segment of the member a collection is at.
SegmentOf(f) ==
  IF Heap[f.object].kind = "array" THEN IndexSegment(f.taken)
  ELSE KeySegment(CHOOSE t \in KeyText(Heap[f.object].members[f.taken].key) : TRUE)

\* The path is that of the member in hand: one segment for each collection that
\* waits for one.  An error may leave the indexes of arrays behind, and never
\* takes a segment that a hash below has still to pop.
Waiting == IF focus = None /\ error = None /\ frames # <<>> THEN Len(frames) - 1 ELSE Len(frames)
PathMirrorsStack ==
  outcome = None =>
    /\ Waiting <= Len(path)
    /\ error = None => Len(path) = Waiting
    /\ \A i \in 1..Waiting : path[i] = SegmentOf(frames[i])

\* A conversion in progress holds exactly the values of the members it has
\* passed, so no member is lost, doubled or taken from another collection.
PartsAreMembers ==
  error = None /\ outcome = None =>
    \A i \in 1..Len(frames) :
      Len(frames[i].parts) = frames[i].taken - (IF i <= Waiting THEN 1 ELSE 0)

\* Whatever the graph, prepare_input ends.
Termination == <>(outcome # None)
=============================================================================
