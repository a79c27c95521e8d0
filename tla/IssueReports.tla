---------------------------- MODULE IssueReports ----------------------------
(***************************************************************************)
(* Issues as their reader gets them: a code and the text of a path.        *)
(***************************************************************************)
EXTENDS Conformance

CONSTANTS
  Characters,
  Spelling,   \* the characters of each text
  Numeral     \* the characters of each index that a list has

ASSUME SpellingAssumption ==
  /\ {".", "[", "]"} \subseteq Characters
  /\ Spelling \in [Text -> Seq(Characters)]
  /\ \A k, l \in Text : Spelling[k] = Spelling[l] => k = l

ASSUME NumeralAssumption ==
  /\ \A i \in DOMAIN Numeral : Numeral[i] \in Seq(Characters \ {"[", "]"})
  /\ \A i, j \in DOMAIN Numeral : Numeral[i] = Numeral[j] => i = j
  /\ \A v \in Values : v.kind = "list" =>
       \A i \in 1..Len(v.items) : i - 1 \in DOMAIN Numeral

\* Mutant: a key is not set off from what is before it.
JoinTight(out, segment) ==
  IF "key" \in DOMAIN segment THEN out \o Spelling[segment.key]
  ELSE out \o <<"[">> \o Numeral[segment.index] \o <<"]">>

\* One round of the loop of format_path, of the validator and, word for word, of
\* the conversion of inputs.  It escapes nothing.
Join(out, segment) ==
  IF "key" \in DOMAIN segment
  THEN (IF out = <<>> THEN out ELSE Append(out, ".")) \o Spelling[segment.key]
  ELSE out \o <<"[">> \o Numeral[segment.index] \o <<"]">>

\* format_path: the text of the first i segments, one segment at a time.
Longer(p, i, text) == IF i = 0 THEN <<>> ELSE Join(text[i - 1], p[i])
format_path(p) ==
  LET text[i \in 0..Len(p)] == Longer(p, i, text) IN text[Len(p)]

\* Keys that cannot be taken for punctuation: those of {"a.b": 1} and of
\* {"a": {"b": 1}} give one text.
Plain(key) == Spelling[key] # <<>> /\ ToSet(Spelling[key]) \cap {".", "[", "]"} = {}
PlainPath(p) == \A i \in 1..Len(p) : "key" \in DOMAIN p[i] => Plain(p[i].key)

\* What a reader cannot tell apart.
Alike(p, q) == p = q \/ (PlainPath(p) /\ PlainPath(q) /\ format_path(p) = format_path(q))

\* A dict that the path goes through has the key it goes by more than once.
RepeatsKey(v, p) ==
  \E k \in 1..Len(p) : \E w \in Reached(v, SubSeq(p, 1, k - 1)) :
    /\ w.kind = "dict"
    /\ \E i, j \in DOMAIN w.entries :
         i # j /\ KeySegment(w.entries[i].key) = p[k] /\ KeySegment(w.entries[j].key) = p[k]

DistinctFields(s) ==
  \A n \in ToSet(s.nodes) : n.kind = "struct" =>
    \A i, j \in DOMAIN n.fields : n.fields[i].name = n.fields[j].name => i = j

\* No offence is reported twice, but below a key that the payload repeats; and
\* the reader of two issues of one code, who gets the texts of their paths, can
\* tell which is which, unless a key is empty or holds a dot or a bracket.
NoIssueTwice ==
  DistinctFields(call.schema) =>
    \A i, j \in DOMAIN issues :
      i # j /\ issues[i].code = issues[j].code /\ Alike(issues[i].path, issues[j].path)
        => RepeatsKey(call.input.value, issues[i].path)
=============================================================================
