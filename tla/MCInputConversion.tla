--------------------------- MODULE MCInputConversion ---------------------------
(***************************************************************************)
(* Payloads of at most three levels, with shared objects and some that     *)
(* contain themselves.  A collection has one or two members out of every   *)
(* kind of scalar, of an object that cannot be converted, and of smaller   *)
(* collections.                                                            *)
(***************************************************************************)
EXTENDS ConversionContract

\* "e" stands for a text in Latin-1, "u" for what to_string_lossy makes of it.
a == "a"  b == "b"  e == "e"  u == "u"
MCText == {a, b, e, u}
MCLossy == [t \in MCText |-> IF t = e THEN u ELSE t]
MCReads ==
  [t \in MCText |-> [bool |-> None, int |-> None, float |-> None, len |-> 1, formats |-> {}]]
MCRank == [a |-> 1, b |-> 2, e |-> 3, u |-> 4]
\* An i64 of two bits.
MCI64 == -2..1

\* Objects are named by what they are: <<kind, members>>, where a scalar has no
\* members and a hash has pairs of names.
S(x) == <<x, <<>>>>
Array(xs) == <<"array", xs>>
Hash(pairs) == <<"hash", pairs>>

Basics ==
  [nil |-> [kind |-> "nil"], true |-> [kind |-> "bool", flag |-> TRUE],
   one |-> [kind |-> "integer", num |-> 1], low |-> [kind |-> "integer", num |-> -2],
   wide |-> [kind |-> "integer", num |-> 2],
   half |-> [kind |-> "float", real |-> Some(5)], nan |-> [kind |-> "float", real |-> None],
   text |-> [kind |-> "string", text |-> a, nul |-> FALSE],
   other |-> [kind |-> "string", text |-> b, nul |-> FALSE],
   zero |-> [kind |-> "string", text |-> b, nul |-> TRUE],
   latin |-> [kind |-> "string", text |-> e, nul |-> FALSE],
   sym |-> [kind |-> "symbol", text |-> a],
   object |-> [kind |-> "object"]]
ScalarNames == {S(x) : x \in DOMAIN Basics}

\* Collections of scalars, pairs of them, and what holds those.
Few == {S("nil"), S("one"), S("wide"), S("sym"), S("object")}
Keyed == {S("text"), S("other"), S("latin"), S("sym"), S("one")}
Level1 ==
  {Array(<<>>), Hash(<<>>)} \cup {Array(<<x>>) : x \in ScalarNames}
    \cup {Hash(<<<<k, x>>>>) : k \in Keyed, x \in Few}
Inner ==
  {Array(<<>>), Array(<<S("one")>>), Array(<<S("object")>>), Array(<<S("wide")>>),
   Hash(<<<<S("sym"), S("nil")>>>>), Hash(<<<<S("sym"), S("object")>>>>),
   Hash(<<<<S("one"), S("one")>>>>)}
Level2 ==
  {Array(<<x, y>>) : x, y \in Inner \cup {S("nil"), S("wide"), S("half")}}
    \cup {Hash(<<<<k, x>>, <<l, y>>>>) :
            k \in {S("text"), S("other")}, l \in {S("sym"), S("other"), S("one")},
            x, y \in Inner \cup {S("one")}}
Middle ==
  {Array(<<x, S("nil")>>) : x \in Inner}
    \cup {Hash(<<<<S("text"), x>>, <<S("other"), S("one")>>>>) : x \in Inner}
Level3 ==
  {Array(<<x>>) : x \in Middle}
    \cup {Hash(<<<<S("other"), x>>, <<S("text"), y>>>>) :
            x \in Middle, y \in {Array(<<S("object")>>), S("one")}}
Deep == {Array(<<x>>) : x \in Level3}
Trees == Level1 \cup Level2 \cup Middle \cup Level3 \cup Deep \cup Inner

\* An array in itself, and a hash that holds it.
Loop == S("loop")
Ring == S("ring")
Cycles ==
  [loop |-> [kind |-> "array", members |-> <<S("one"), Loop>>],
   ring |-> [kind |-> "hash", members |-> <<[key |-> S("text"), value |-> Loop]>>]]

Members(x) ==
  IF x[1] = "array" THEN x[2] ELSE [i \in DOMAIN x[2] |-> [key |-> x[2][i][1], value |-> x[2][i][2]]]
AllObjects ==
  [x \in Trees \cup ScalarNames \cup {Loop, Ring} |->
     IF x \in Trees THEN [kind |-> x[1], members |-> Members(x)]
     ELSE IF x \in ScalarNames THEN Basics[x[1]]
     ELSE Cycles[x[1]]]
MCHeap == AllObjects
MCPayloads == DOMAIN AllObjects
=============================================================================
