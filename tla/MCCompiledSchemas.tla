-------------------------- MODULE MCCompiledSchemas --------------------------
(***************************************************************************)
(* Two threads that compile, build, validate and let go of schemas, with   *)
(* hashes that give options in every way: by Symbol and String, once and   *)
(* twice, as nil, right and wrong.                                         *)
(***************************************************************************)
EXTENDS CompiledSchemas

Other == [kind |-> "other"]
Hash(pairs) == [kind |-> "hash", pairs |-> pairs]
Pair(kind, name, value) == [key |-> [kind |-> kind, name |-> name], value |-> value]

\* Right and wrong options, by Symbol and by String, one given twice, several
\* wrong at once.
Strict == Hash(<<Pair("symbol", "strict", Flag(TRUE))>>)
StrictByName == Hash(<<Pair("string", "strict", Flag(TRUE)), Pair("other", "freeze", Other)>>)
Frozen == Hash(<<Pair("symbol", "freeze", Flag(TRUE)), Pair("symbol", "extra", Symbol("allow"))>>)
TwiceRight ==
  Hash(<<Pair("symbol", "input_mode", Other), Pair("string", "input_mode", Symbol("json"))>>)
TwiceWrong == Hash(<<Pair("string", "freeze", Symbol("deep")), Pair("symbol", "freeze", Symbol("auto"))>>)
SeveralWrong ==
  Hash(<<Pair("string", "extra", Flag(TRUE)), Pair("symbol", "store_attributes", Other),
         Pair("symbol", "strict", Nil), Pair("symbol", "constraints", Other)>>)

MCCompileOpts == {Nil, Other, Strict, StrictByName, Frozen, TwiceRight, TwiceWrong, SeveralWrong}
MCValidateOpts == {Nil, Other, Hash(<<>>), Strict, StrictByName, TwiceRight, TwiceWrong}
=============================================================================
