--------------------------- MODULE ConversionMeaning ---------------------------
(***************************************************************************)
(* What prepare_input promises of a payload, defined on the payload as a   *)
(* tree that is as deep as the native stack has room for.                  *)
(***************************************************************************)
EXTENDS InputConversion

Segments == [key : SUBSET Text, index : Nat]

\* The first outcome that is no value is that of the whole.
FirstFault(outcomes) == {outcomes[i] : i \in {j \in DOMAIN outcomes :
  outcomes[j].kind # "owned" /\ \A h \in 1..(j - 1) : outcomes[h].kind = "owned"}}

\* The outcome of a member of a collection that is met at a path, given
\* below[x][at] for an object in its place.
MeaningOfMember(o, i, at, below) ==
  IF o.kind = "array" THEN below[o.members[i]][Append(at, IndexSegment(i))]
  ELSE LET keys == KeyText(o.members[i].key) IN
       IF keys = None THEN Refused(InvalidHashKey(at))
       ELSE below[o.members[i].value][Append(at, KeySegment(CHOOSE k \in keys : TRUE))]

MeaningOfCollection(o, at, below) ==
  LET outcomes == [i \in DOMAIN o.members |-> MeaningOfMember(o, i, at, below)]
      values == [i \in DOMAIN o.members |-> outcomes[i].value]
  IN  IF FirstFault(outcomes) # {} THEN CHOOSE f \in FirstFault(outcomes) : TRUE
      ELSE IF o.kind = "array" THEN Owned(ListValue(values))
      ELSE Owned(DictValue([i \in DOMAIN o.members |->
             Entry(CHOOSE k \in KeyText(o.members[i].key) : TRUE, values[i])]))

MeaningOf(o, at, room, meanings) ==
  IF o.kind = "object" THEN Refused(UnsupportedType(at))
  ELSE IF o.kind = "integer" /\ o.num \notin I64 THEN Raised("RangeError")
  ELSE IF o.kind \in Scalars THEN Owned(ScalarOf(o))
  ELSE IF room = 0 THEN Raised("SystemStackError")
  ELSE MeaningOfCollection(o, at, meanings[room - 1])

\* Meanings[room][x][at]: the outcome of an object that is met at a path, with
\* room for so many nested collections.
Meanings[room \in 0..NativeDepth] ==
  [x \in DOMAIN Heap |-> [at \in Seq(Segments) |-> MeaningOf(Heap[x], at, room, Meanings)]]

\* What is copied is the payload, every element and pair at its place, keys as
\* their texts, shared objects copied where they occur.  A payload that cannot be
\* copied ends in the fault that is met first, at the path where it is met;
\* whatever stands behind it is not looked at.
OutcomeIsMeaning ==
  \A o \in outcome : ~ReadsString \/ o.kind = "owned" => o = Meanings[NativeDepth][payload][<<>>]
=============================================================================
